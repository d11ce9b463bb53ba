--------------------------- MODULE Hy2DialProofs ---------------------------
(***************************************************************************)
(* Proofs about module Hy2Dial, for any number of concurrent dials and any *)
(* thresholds: the relay preference is justified, no dial leaks a socket   *)
(* or shakes hands on a closed one, no punch that worked is wasted, and no *)
(* dial returns to a stage it has left.                                    *)
(***************************************************************************)
EXTENDS Hy2Dial, TLAPS

(* What relayFallbackState looks like between two calls: a back-off stands *)
(* only from the threshold on, and the preference never outlasts it.       *)
PreferenceInv ==
    /\ failures \in Nat
    /\ backoff \in 0..MaxBackoff
    /\ left \in 0..MaxBackoff
    /\ left <= backoff
    /\ backoff > 0 => failures >= Threshold

(* Which sockets a dial holds at each stage. *)
Holds(r) ==
    /\ r.stage \notin {"handshake", "verify", "relayHandshake", "done"} => r.used = "none"
    /\ r.stage \in {"idle", "reconnect"} => r.open = {}
    /\ r.stage \in {"resolve", "discover", "connect", "race"} => r.open \subseteq Families
    /\ r.stage \in {"handshake", "verify"} => r.open = {r.used} /\ r.used \in Families
    /\ r.stage = "listen" => r.open \subseteq Families /\ (r.why # "prefer" => r.open = {})
    /\ r.stage \in {"listen", "join"} => r.why # "none"
    /\ r.stage = "join" => "relay" \in r.open /\ r.open \subseteq Families \cup {"relay"}
                           /\ (r.why # "prefer" => r.open \subseteq {"relay"})
    /\ r.stage = "relayHandshake" => r.used = "relay" /\ "relay" \in r.open
    /\ r.stage = "done" => r.open = {r.used} \ {"none"}

SocketsInv ==
    /\ dial \in [Dials -> Records]
    /\ \A d \in Dials : Holds(dial[d])

(* Every step leaves the preference alone or is one of the calls of        *)
(* relayFallbackState, or lets time pass.                                  *)
LEMMA PreferenceSteps ==
    ASSUME [Next]_vars
    PROVE  \/ UNCHANGED preference
           \/ HandshakeFailed
           \/ HandshakeSucceeded
           \/ left > 0 /\ left' = left - 1 /\ UNCHANGED <<failures, backoff>>
  <1>1. CASE Next
    <2>1. CASE Tick
      BY <2>1, Zenon DEF Tick
    <2>2. ASSUME NEW d \in Dials, Proceed(d) PROVE UNCHANGED preference \/ HandshakeFailed
      BY <2>2, Zenon DEF Proceed, OpenFamilies, Resolve, Discovered, DiscoverGrace, Connect, Punched,
                  PunchGrace, HandshakeOK, HandshakeError, Reconnect, RelayListen, JoinTimeout,
                  Watch, Joined, JoinFails, RelayHandshakeOK, RelayHandshakeError
    <2>3. ASSUME NEW d \in Dials, Verify(d) \/ Again(d)
          PROVE  UNCHANGED preference \/ HandshakeFailed \/ HandshakeSucceeded
      BY <2>3, Zenon DEF Verify, VerifyPasses, VerifyFails, VerifyEnds, Again
    <2>4. QED
      BY <1>1, <2>1, <2>2, <2>3, Zenon DEF Next
  <1>2. CASE UNCHANGED vars
    BY <1>2, Zenon DEF vars
  <1>3. QED
    BY <1>1, <1>2, Zenon

LEMMA PreferenceInductive ==
    ASSUME PreferenceInv, [Next]_vars
    PROVE  PreferenceInv'
  <1> USE ConstantsAssumption
  <1>1. CASE UNCHANGED preference
    BY <1>1, Zenon DEF preference, PreferenceInv
  <1>2. CASE HandshakeFailed
    BY <1>2 DEF HandshakeFailed, Enough, Doubled, PreferenceInv
  <1>3. CASE HandshakeSucceeded
    BY <1>3 DEF HandshakeSucceeded, PreferenceInv
  <1>4. CASE left > 0 /\ left' = left - 1 /\ UNCHANGED <<failures, backoff>>
    BY <1>4 DEF PreferenceInv
  <1>5. QED
    BY <1>1, <1>2, <1>3, <1>4, PreferenceSteps, Zenon

(* The dials prefer the relay only while enough failures stand behind it   *)
(* and within the back-off: relayFallbackState, for every threshold and    *)
(* maximum, and any number of dials that fail and verify concurrently.     *)
THEOREM Preference == Spec => []PreferenceJustified
  <1>1. Init => PreferenceInv
    BY ConstantsAssumption DEF Init, PreferenceInv
  <1>2. PreferenceInv /\ [Next]_vars => PreferenceInv'
    BY PreferenceInductive, Zenon
  <1>3. PreferenceInv => PreferenceJustified
    BY ConstantsAssumption DEF PreferenceInv, PreferenceJustified
  <1>4. QED
    BY <1>1, <1>2, <1>3, PTL DEF Spec
-----------------------------------------------------------------------------
(* It is enough that the record of the dial that moves stays good. *)
LEMMA OneDialMoves ==
    ASSUME SocketsInv, NEW d \in Dials, NEW r \in Records, Holds(r), Becomes(d, r)
    PROVE  SocketsInv'
  BY DEF SocketsInv, Becomes, Holds

(* A result that is received changes neither the stage nor the sockets.    *)
LEMMA ReceiveKeeps ==
    ASSUME NEW r \in Records, Holds(r), NEW f \in r.waiting, NEW ok \in BOOLEAN
    PROVE  LET s == Receive(r, f, ok)
           IN  s \in Records /\ Holds(s) /\ s.stage = r.stage /\ s.used = r.used
  <1> DEFINE s == Receive(r, f, ok)
  <1>1. f \in Families
    BY Zenon DEF Records
  <1>2. s \in Records
    BY <1>1, Zenon DEF Receive, Records
  <1>3. s.stage = r.stage /\ s.used = r.used /\ s.open = r.open /\ s.why = r.why
    BY Zenon DEF Receive, Records
  <1>4. Holds(s)
    BY <1>3, Zenon DEF Holds
  <1>5. QED
    BY <1>2, <1>3, <1>4, Zenon

LEMMA OpeningSteps ==
    ASSUME SocketsInv, NEW d \in Dials,
           OpenFamilies(d) \/ Resolve(d) \/ Discovered(d) \/ DiscoverGrace(d) \/ Connect(d)
    PROVE  SocketsInv'
  <1> DEFINE r == dial[d]
  <1>0. r \in Records /\ Holds(r)
    BY Zenon DEF SocketsInv
  <1>1. CASE OpenFamilies(d)
    <2>1. PICK F \in SUBSET Families :
            Becomes(d, IF F = {} THEN Fails(Idle, "listen")
                                 ELSE [Idle EXCEPT !.stage = "resolve", !.open = F])
      BY <1>1, Zenon DEF OpenFamilies
    <2>2. F \in SUBSET Sockets
      BY ConstantsAssumption, Zenon DEF Sockets
    <2>3. Fails(Idle, "listen") \in Records /\ Holds(Fails(Idle, "listen"))
      BY Zenon DEF Fails, Idle, Records, Holds, Stages, Sockets
    <2>4. /\ [Idle EXCEPT !.stage = "resolve", !.open = F] \in Records
          /\ Holds([Idle EXCEPT !.stage = "resolve", !.open = F])
      BY <2>2, Zenon DEF Idle, Records, Holds, Stages, Sockets
    <2>5. QED
      BY <2>1, <2>3, <2>4, OneDialMoves, Zenon
  <1>2. CASE Resolve(d)
    <2>1. r.stage = "resolve"
      BY <1>2, Zenon DEF Resolve
    <2>2. FailsClosed(r, "stun") \in Records /\ Holds(FailsClosed(r, "stun"))
      BY <1>0, <2>1, ZenonT(60) DEF FailsClosed, Fails, Records, Holds, Stages, Sockets
    <2>3. /\ [r EXCEPT !.stage = "discover", !.waiting = r.open] \in Records
          /\ Holds([r EXCEPT !.stage = "discover", !.waiting = r.open])
      BY <1>0, <2>1, ZenonT(60) DEF Records, Holds, Stages, Sockets
    <2>4. QED
      BY <1>2, <2>2, <2>3, OneDialMoves, Zenon DEF Resolve
  <1>3. CASE Discovered(d)
    <2>1. PICK f \in r.waiting, ok \in BOOLEAN : Becomes(d, Survive(Receive(r, f, ok)))
      BY <1>3, Zenon DEF Discovered
    <2> DEFINE s == Receive(r, f, ok)
    <2>2. r.stage = "discover"
      BY <1>3, Zenon DEF Discovered
    <2>3. s \in Records /\ Holds(s) /\ s.stage = "discover" /\ s.used = "none"
      BY <1>0, <2>2, ReceiveKeeps DEF Holds
    <2> HIDE DEF s
    <2>4. Survive(s) \in Records /\ Holds(Survive(s))
      <3>1. CASE s.waiting # {}
        BY <2>3, <3>1, Zenon DEF Survive
      <3>2. CASE s.waiting = {} /\ s.good = {}
        <4>1. FailsClosed(s, "stun") \in Records /\ Holds(FailsClosed(s, "stun"))
          BY <2>3, ZenonT(60) DEF FailsClosed, Fails, Records, Holds, Stages, Sockets
        <4>2. QED
          BY <3>2, <4>1, Zenon DEF Survive
      <3>3. CASE s.waiting = {} /\ s.good # {}
        <4> DEFINE t == [s EXCEPT !.stage = "connect", !.open = s.good]
        <4>1. s.good \subseteq Families /\ s.good \subseteq Sockets
          BY <2>3, ConstantsAssumption, Zenon DEF Records, Sockets
        <4>2. t \in Records /\ Holds(t)
          BY <2>3, <4>1, Zenon DEF Records, Holds, Stages
        <4>3. QED
          BY <3>3, <4>2, Zenon DEF Survive
      <3>4. QED
        BY <3>1, <3>2, <3>3, Zenon
    <2>5. QED
      BY <2>1, <2>4, OneDialMoves, Zenon DEF s
  <1>4. CASE DiscoverGrace(d)
    <2>1. PICK returned \in SUBSET r.waiting : Becomes(d, [r EXCEPT !.expired = @ \cup returned])
      BY <1>4, Zenon DEF DiscoverGrace
    <2>2. returned \subseteq Sockets
      BY <1>0, ConstantsAssumption, Zenon DEF Records, Sockets
    <2>3. /\ [r EXCEPT !.expired = @ \cup returned] \in Records
          /\ Holds([r EXCEPT !.expired = @ \cup returned])
      BY <1>0, <2>2 DEF Records, Holds
    <2>4. QED
      BY <2>1, <2>3, OneDialMoves, Zenon
  <1>5. CASE Connect(d)
    <2>1. r.stage = "connect"
      BY <1>5, Zenon DEF Connect
    <2>2. FailsClosed(r, "rendezvous") \in Records /\ Holds(FailsClosed(r, "rendezvous"))
      BY <1>0, <2>1, ZenonT(60) DEF FailsClosed, Fails, Records, Holds, Stages, Sockets
    <2>3. ASSUME NEW relay \in BOOLEAN
          PROVE  LET s == [r EXCEPT !.relay = relay]
                 IN  /\ StartRelay(s, "prefer") \in Records /\ Holds(StartRelay(s, "prefer"))
                     /\ StartRace(s) \in Records /\ Holds(StartRace(s))
      BY <1>0, <2>1, ZenonT(60) DEF StartRelay, StartRace, Records, Holds, Stages, Sockets
    <2>4. QED
      BY <1>5, <2>2, <2>3, OneDialMoves, Zenon DEF Connect
  <1>6. QED
    BY <1>1, <1>2, <1>3, <1>4, <1>5, Zenon

LEMMA PunchSteps ==
    ASSUME SocketsInv, NEW d \in Dials,
           Punched(d) \/ PunchGrace(d) \/ HandshakeOK(d) \/ HandshakeError(d) \/ Reconnect(d)
    PROVE  SocketsInv'
  <1> DEFINE r == dial[d]
  <1>0. r \in Records /\ Holds(r)
    BY Zenon DEF SocketsInv
  <1>1. ASSUME NEW s \in Records, NEW f \in Families
        PROVE  Won(s, f) \in Records /\ Holds(Won(s, f))
    <2>1. f \in Sockets
      BY ConstantsAssumption, Zenon DEF Sockets
    <2>2. QED
      BY <2>1, ZenonT(60) DEF Won, ClearsDeadline, Records, Holds, Stages
  <1>2. CASE Punched(d)
    <2>1. PICK f \in r.waiting, ok \in BOOLEAN : Becomes(d, Settle(d, Receive(r, f, ok), f))
      BY <1>2, Zenon DEF Punched
    <2> DEFINE s == Receive(r, f, ok)
    <2>2. r.stage = "race"
      BY <1>2, Zenon DEF Punched
    <2>3. s \in Records /\ Holds(s) /\ s.stage = "race" /\ s.used = "none"
      BY <1>0, <2>2, ReceiveKeeps DEF Holds
    <2> HIDE DEF s
    <2>4. s.good \subseteq Families
      BY <2>3, Zenon DEF Records
    <2>5. Lost(d, s) \in Records /\ Holds(Lost(d, s))
      <3>1. FailsClosed(s, "punch") \in Records /\ Holds(FailsClosed(s, "punch"))
        BY <2>3, ZenonT(60) DEF FailsClosed, Fails, Records, Holds, Stages, Sockets
      <3>2. /\ StartRelay([s EXCEPT !.open = {}], "punch") \in Records
            /\ Holds(StartRelay([s EXCEPT !.open = {}], "punch"))
        BY <2>3, ZenonT(60) DEF StartRelay, Records, Holds, Stages, Sockets
      <3>3. QED
        BY <3>1, <3>2, Zenon DEF Lost
    <2>6. Settle(d, s, f) \in Records /\ Holds(Settle(d, s, f))
      BY <1>1, <2>3, <2>4, <2>5, Zenon DEF Settle
    <2>7. QED
      BY <2>1, <2>6, OneDialMoves, Zenon DEF s
  <1>3. CASE PunchGrace(d)
    <2>1. "v4" \in Families
      BY <1>0, <1>3, Zenon DEF PunchGrace, Records
    <2>2. QED
      BY <1>0, <1>1, <1>3, <2>1, OneDialMoves, Zenon DEF PunchGrace
  <1>4. CASE HandshakeOK(d)
    <2>1. /\ [r EXCEPT !.stage = "verify"] \in Records
          /\ Holds([r EXCEPT !.stage = "verify"])
      BY <1>0, <1>4, ZenonT(60) DEF HandshakeOK, Records, Holds, Stages
    <2>2. QED
      BY <1>4, <2>1, OneDialMoves, Zenon DEF HandshakeOK
  <1>5. CASE HandshakeError(d)
    <2> DEFINE s == [r EXCEPT !.open = {}, !.used = "none", !.shook = TRUE]
    <2>1. s \in Records /\ s.open = {} /\ s.used = "none"
      BY <1>0, Zenon DEF Records
    <2> HIDE DEF s
    <2>2. Fails(s, "handshake") \in Records /\ Holds(Fails(s, "handshake"))
      BY <2>1, ZenonT(60) DEF Fails, Records, Holds, Stages
    <2>3. FreshNonce(s) \in Records /\ Holds(FreshNonce(s))
      BY <2>1, ZenonT(60) DEF FreshNonce, Records, Holds, Stages
    <2>4. QED
      BY <1>5, <2>2, <2>3, OneDialMoves, Zenon DEF HandshakeError, s
  <1>6. CASE Reconnect(d)
    <2>1. r.stage = "reconnect"
      BY <1>6, Zenon DEF Reconnect
    <2>2. Fails(r, "handshake") \in Records /\ Holds(Fails(r, "handshake"))
      BY <1>0, <2>1, ZenonT(60) DEF Fails, Records, Holds, Stages, Sockets
    <2>3. /\ StartRelay([r EXCEPT !.shook = FALSE], "handshake") \in Records
          /\ Holds(StartRelay([r EXCEPT !.shook = FALSE], "handshake"))
      BY <1>0, <2>1, ZenonT(60) DEF StartRelay, Records, Holds, Stages, Sockets
    <2>4. QED
      BY <1>6, <2>2, <2>3, OneDialMoves, Zenon DEF Reconnect
  <1>7. QED
    BY <1>2, <1>3, <1>4, <1>5, <1>6, Zenon

LEMMA RelaySteps ==
    ASSUME SocketsInv, NEW d \in Dials,
           \/ RelayListen(d) \/ JoinTimeout(d) \/ Watch(d) \/ Joined(d) \/ JoinFails(d)
           \/ RelayHandshakeOK(d) \/ RelayHandshakeError(d)
    PROVE  SocketsInv'
  <1> DEFINE r == dial[d]
  <1>0. r \in Records /\ Holds(r)
    BY Zenon DEF SocketsInv
  <1>1. ASSUME NEW s \in Records, s.used = "none", s.open \subseteq Families,
               s.why # "prefer" => s.open = {}, s.why # "none"
        PROVE  NotJoined(s) \in Records /\ Holds(NotJoined(s))
    <2>1. CASE s.why = "prefer"
      <3>1. StartRace(s) \in Records /\ Holds(StartRace(s))
        BY <1>1, ZenonT(60) DEF StartRace, Records, Holds, Stages
      <3>2. QED
        BY <2>1, <3>1, Zenon DEF NotJoined
    <2>2. CASE s.why # "prefer"
      <3>1. s.why \in {"punch", "handshake"}
        BY <1>1, <2>2, Zenon DEF Records
      <3>2. Fails(s, s.why) \in Records /\ Holds(Fails(s, s.why))
        BY <1>1, <2>2, <3>1, ZenonT(60) DEF Fails, Records, Holds, Stages
      <3>3. QED
        BY <2>2, <3>2, Zenon DEF NotJoined
    <2>3. QED
      BY <2>1, <2>2, Zenon
  <1>2. CASE RelayListen(d)
    <2>1. r.stage = "listen"
      BY <1>2, Zenon DEF RelayListen
    <2>2. NotJoined(r) \in Records /\ Holds(NotJoined(r))
      BY <1>0, <1>1, <2>1, Zenon DEF Holds
    <2> DEFINE s == [r EXCEPT !.stage = "join", !.open = @ \cup {"relay"}, !.watcher = "armed"]
    <2>3. s \in Records /\ Holds(s)
      BY <1>0, <2>1, ZenonT(60) DEF Records, Holds, Stages, Sockets
    <2>4. QED
      BY <1>2, <2>2, <2>3, OneDialMoves, Zenon DEF RelayListen
  <1>3. CASE JoinTimeout(d)
    <2> DEFINE s == [r EXCEPT !.watcher = "fired"]
    <2>1. s \in Records /\ Holds(s)
      BY <1>0 DEF Records, Holds
    <2>2. QED
      BY <1>3, <2>1, OneDialMoves, Zenon DEF JoinTimeout
  <1>4. CASE Watch(d)
    <2> DEFINE s == [r EXCEPT !.watcher = "off", !.expired = @ \cup {"relay"}]
    <2>1. s \in Records
      BY <1>0, Zenon DEF Records, Sockets
    <2>2. s.stage = r.stage /\ s.used = r.used /\ s.open = r.open /\ s.why = r.why
      BY <1>0, Zenon DEF Records
    <2>3. Holds(s)
      BY <1>0, <2>2, Zenon DEF Holds
    <2>4. QED
      BY <1>4, <2>1, <2>3, OneDialMoves, Zenon DEF Watch
  <1>5. CASE Joined(d)
    <2>1. PICK w \in {"off", "armed", "fired"} :
            Becomes(d, [r EXCEPT !.stage = "relayHandshake", !.used = "relay", !.watcher = w])
      BY <1>0, <1>5, Zenon DEF Joined, Records
    <2> DEFINE s == [r EXCEPT !.stage = "relayHandshake", !.used = "relay", !.watcher = w]
    <2>2. r.stage = "join"
      BY <1>5, Zenon DEF Joined
    <2>3. s \in Records /\ Holds(s)
      BY <1>0, <2>2, ZenonT(60) DEF Records, Holds, Stages, Sockets
    <2>4. QED
      BY <2>1, <2>3, OneDialMoves, Zenon
  <1>6. CASE JoinFails(d)
    <2> DEFINE s == [r EXCEPT !.open = @ \ {"relay"}, !.expired = @ \ {"relay"}, !.watcher = "off"]
    <2>1. r.stage = "join"
      BY <1>6, Zenon DEF JoinFails
    <2>2. s \in Records /\ s.used = r.used /\ s.open = r.open \ {"relay"} /\ s.why = r.why
      BY <1>0, Zenon DEF Records, Sockets
    <2> HIDE DEF s
    <2>3. NotJoined(s) \in Records /\ Holds(NotJoined(s))
      BY <1>0, <1>1, <2>1, <2>2 DEF Holds
    <2>4. QED
      BY <1>6, <2>3, OneDialMoves, Zenon DEF JoinFails, s
  <1>7. CASE RelayHandshakeOK(d)
    <2> DEFINE s == [r EXCEPT !.stage = "done", !.open = ClosesPunchSockets(r)]
    <2>1. s \in Records /\ Holds(s)
      BY <1>0, <1>7, ZenonT(60) DEF RelayHandshakeOK, ClosesPunchSockets, Records, Holds, Stages, Sockets
    <2>2. QED
      BY <1>7, <2>1, OneDialMoves, Zenon DEF RelayHandshakeOK
  <1>8. CASE RelayHandshakeError(d)
    <2> DEFINE s == [r EXCEPT !.used = "none", !.watcher = "off", !.expired = {}]
               e == IF s.why = "handshake" THEN "handshake" ELSE "relay"
    <2>1. s \in Records /\ s.used = "none"
      BY <1>0, Zenon DEF Records
    <2>2. e \in {"handshake", "relay"}
      BY Zenon
    <2> HIDE DEF s, e
    <2>3. FailsClosed(s, e) \in Records /\ Holds(FailsClosed(s, e))
      BY <2>1, <2>2, ZenonT(60) DEF FailsClosed, Fails, Records, Holds, Stages
    <2>4. QED
      BY <1>8, <2>3, OneDialMoves, Zenon DEF RelayHandshakeError, s, e
  <1>9. QED
    BY <1>2, <1>3, <1>4, <1>5, <1>6, <1>7, <1>8, Zenon

LEMMA EndingSteps ==
    ASSUME SocketsInv, NEW d \in Dials, Verify(d) \/ Again(d)
    PROVE  SocketsInv'
  <1> DEFINE r == dial[d]
             s == [r EXCEPT !.stage = "done"]
  <1>1. Idle \in Records /\ Holds(Idle)
    BY Zenon DEF Idle, Records, Holds, Stages, Sockets
  <1>2. CASE VerifyPasses(d)
    <2>1. r \in Records /\ Holds(r) /\ r.stage = "verify"
      BY <1>2, Zenon DEF SocketsInv, VerifyPasses
    <2>2. s \in Records /\ s.open = {r.used} /\ s.used = r.used /\ s.stage = "done" /\ r.used \in Families
      BY <2>1, Zenon DEF Records, Stages, Holds
    <2>3. Holds(s)
      BY <2>2, ConstantsAssumption, Zenon DEF Holds
    <2>4. QED
      BY <1>2, <2>2, <2>3, OneDialMoves, Zenon DEF VerifyPasses
  <1>3. CASE VerifyFails(d) \/ VerifyEnds(d) \/ Again(d)
    BY <1>1, <1>3, OneDialMoves, Zenon DEF VerifyFails, VerifyEnds, Again
  <1>4. QED
    BY <1>2, <1>3, Zenon DEF Verify

(* Every step keeps the sockets of every dial in order. *)
LEMMA SocketsInductive ==
    ASSUME SocketsInv, [Next]_vars
    PROVE  SocketsInv'
  <1>1. CASE Tick
    BY <1>1, Zenon DEF Tick, SocketsInv, Holds
  <1>2. CASE UNCHANGED vars
    BY <1>2, ZenonT(60) DEF vars, SocketsInv, Holds
  <1>3. ASSUME NEW d \in Dials, Proceed(d) PROVE SocketsInv'
    BY <1>3, OpeningSteps, PunchSteps, RelaySteps, Zenon DEF Proceed
  <1>4. ASSUME NEW d \in Dials, Verify(d) \/ Again(d) PROVE SocketsInv'
    BY <1>4, EndingSteps, Zenon
  <1>5. QED
    BY <1>1, <1>2, <1>3, <1>4, Zenon DEF Next

LEMMA SocketsInit == Init => SocketsInv
  <1>1. Idle \in Records /\ Holds(Idle)
    BY Zenon DEF Idle, Records, Holds, Stages, Sockets
  <1>2. QED
    BY <1>1, Zenon DEF Init, SocketsInv

(* A dial that has returned holds no socket but that of the connection it  *)
(* returned, and handshakes run on open sockets: offerNewRealm and what it *)
(* calls, for any number of concurrent dials.                              *)
THEOREM NoSocketLeak == Spec => []SocketsAccounted
  <1>1. SocketsInv => SocketsAccounted
    <2> SUFFICES ASSUME SocketsInv, NEW d \in Dials
                 PROVE  /\ dial[d].stage \in {"idle", "verify", "done"}
                              => dial[d].open = {dial[d].used} \ {"none"}
                        /\ dial[d].used # "none" => dial[d].used \in dial[d].open
      BY Zenon DEF SocketsAccounted
    <2>1. dial[d] \in Records /\ Holds(dial[d])
      BY Zenon DEF SocketsInv
    <2>2. QED
      BY <2>1, ConstantsAssumption, Zenon DEF Holds
  <1>2. QED
    BY <1>1, SocketsInit, SocketsInductive, PTL DEF Spec
-----------------------------------------------------------------------------
(* What a dial remembers of its punches and handshakes at each stage: only *)
(* a dial that is over has an error; a failed punch leads to the relay or  *)
(* to the end, and no family had answered it; a nonce on which a handshake *)
(* was tried is used no more; and the winner's read deadline was cleared.  *)
Untainted(r) ==
    /\ r.err # "none" => r.stage = "done"
    /\ r.why = "punch" => r.stage \in {"listen", "join", "relayHandshake", "done"}
    /\ r.why = "punch" \/ r.err = "punch" => r.good = {}
    /\ r.shook => r.stage \in {"reconnect", "done"}
    /\ r.stage = "handshake" => r.used \notin r.expired

PunchInv == SocketsInv /\ \A d \in Dials : Untainted(dial[d])

LEMMA OneDialUntainted ==
    ASSUME PunchInv, NEW d \in Dials, NEW r, Untainted(r), Becomes(d, r)
    PROVE  (\A e \in Dials : Untainted(dial[e]))'
  <1>1. ASSUME NEW e \in Dials PROVE Untainted(dial'[e])
    BY <1>1, Zenon DEF PunchInv, SocketsInv, Becomes
  <1>2. QED
    BY <1>1, Zenon DEF Untainted

(* The steps until a family has won or all have lost. *)
LEMMA PunchUntainted ==
    ASSUME PunchInv, NEW d \in Dials,
           \/ OpenFamilies(d) \/ Resolve(d) \/ Discovered(d) \/ DiscoverGrace(d) \/ Connect(d)
           \/ Punched(d) \/ PunchGrace(d)
    PROVE  (\A e \in Dials : Untainted(dial[e]))'
  <1> DEFINE r == dial[d]
  <1>0. r \in Records /\ Holds(r) /\ Untainted(r)
    BY Zenon DEF PunchInv, SocketsInv
  <1>1. CASE OpenFamilies(d)
    <2>1. PICK F \in SUBSET Families :
            Becomes(d, IF F = {} THEN Fails(Idle, "listen")
                                 ELSE [Idle EXCEPT !.stage = "resolve", !.open = F])
      BY <1>1, Zenon DEF OpenFamilies
    <2>2. /\ Untainted(Fails(Idle, "listen"))
          /\ Untainted([Idle EXCEPT !.stage = "resolve", !.open = F])
      BY Zenon DEF Fails, Idle, Untainted
    <2>3. QED
      BY <2>1, <2>2, OneDialUntainted, Zenon
  <1>2. CASE Resolve(d)
    <2>1. r.stage = "resolve"
      BY <1>2, Zenon DEF Resolve
    <2>2. /\ Untainted(FailsClosed(r, "stun"))
          /\ Untainted([r EXCEPT !.stage = "discover", !.waiting = r.open])
      BY <1>0, <2>1, Zenon DEF FailsClosed, Fails, Records, Untainted
    <2>3. QED
      BY <1>2, <2>2, OneDialUntainted, Zenon DEF Resolve
  <1>3. ASSUME NEW f \in r.waiting, NEW ok \in BOOLEAN, r.stage \in {"discover", "race"}
        PROVE  LET s == Receive(r, f, ok)
               IN  /\ s \in Records /\ s.stage = r.stage /\ s.err = "none"
                   /\ s.why # "punch" /\ ~s.shook
    <2> DEFINE s == Receive(r, f, ok)
    <2>1. r.err = "none" /\ r.why # "punch" /\ ~r.shook
      BY <1>0, <1>3, Zenon DEF Untainted
    <2>2. s.err = r.err /\ s.why = r.why /\ s.shook = r.shook
      BY <1>0, Zenon DEF Receive, Records
    <2>3. s \in Records /\ s.stage = r.stage
      BY <1>0, ReceiveKeeps, Zenon
    <2>4. QED
      BY <2>1, <2>2, <2>3, Zenon
  <1>4. CASE Discovered(d)
    <2>1. r.stage = "discover"
      BY <1>4, Zenon DEF Discovered
    <2>2. PICK f \in r.waiting, ok \in BOOLEAN : Becomes(d, Survive(Receive(r, f, ok)))
      BY <1>4, Zenon DEF Discovered
    <2> DEFINE s == Receive(r, f, ok)
    <2>3. s \in Records /\ s.stage = "discover" /\ s.err = "none" /\ s.why # "punch" /\ ~s.shook
      BY <1>3, <2>1, Zenon
    <2> HIDE DEF s
    <2>4. /\ Untainted(s) /\ Untainted(FailsClosed(s, "stun"))
          /\ Untainted([s EXCEPT !.stage = "connect", !.open = s.good])
      BY <2>3, Zenon DEF FailsClosed, Fails, Records, Untainted
    <2>5. Untainted(Survive(s))
      BY <2>4, Zenon DEF Survive
    <2>6. QED
      BY <2>2, <2>5, OneDialUntainted, Zenon DEF s
  <1>5. CASE DiscoverGrace(d)
    <2>1. PICK returned \in SUBSET r.waiting : Becomes(d, [r EXCEPT !.expired = @ \cup returned])
      BY <1>5, Zenon DEF DiscoverGrace
    <2>2. Untainted([r EXCEPT !.expired = @ \cup returned])
      BY <1>0, <1>5, Zenon DEF DiscoverGrace, Records, Untainted
    <2>3. QED
      BY <2>1, <2>2, OneDialUntainted, Zenon
  <1>6. CASE Connect(d)
    <2>1. r.stage = "connect"
      BY <1>6, Zenon DEF Connect
    <2>2. Untainted(FailsClosed(r, "rendezvous"))
      BY <1>0, <2>1, Zenon DEF FailsClosed, Fails, Records, Untainted
    <2>3. ASSUME NEW relay \in BOOLEAN
          PROVE  LET s == [r EXCEPT !.relay = relay]
                 IN  Untainted(StartRelay(s, "prefer")) /\ Untainted(StartRace(s))
      BY <1>0, <2>1, Zenon DEF StartRelay, StartRace, Records, Untainted
    <2>4. QED
      BY <1>6, <2>2, <2>3, OneDialUntainted, Zenon DEF Connect
  <1>7. ASSUME NEW s \in Records, NEW f, s.err = "none", s.why # "punch", ~s.shook
        PROVE  Untainted(Won(s, f))
    BY <1>7, Zenon DEF Won, ClearsDeadline, Records, Untainted
  <1>8. CASE Punched(d)
    <2>1. r.stage = "race"
      BY <1>8, Zenon DEF Punched
    <2>2. PICK f \in r.waiting, ok \in BOOLEAN : Becomes(d, Settle(d, Receive(r, f, ok), f))
      BY <1>8, Zenon DEF Punched
    <2> DEFINE s == Receive(r, f, ok)
    <2>3. s \in Records /\ s.stage = "race" /\ s.err = "none" /\ s.why # "punch" /\ ~s.shook
      BY <1>3, <2>1, Zenon
    <2> HIDE DEF s
    <2>4. Untainted(s)
      BY <2>3, Zenon DEF Untainted
    <2>5. ASSUME s.good = {} PROVE Untainted(Lost(d, s))
      <3>1. /\ Untainted(FailsClosed(s, "punch"))
            /\ Untainted(StartRelay([s EXCEPT !.open = {}], "punch"))
        BY <2>3, <2>5, Zenon DEF FailsClosed, Fails, StartRelay, Records, Untainted
      <3>2. QED
        BY <3>1, Zenon DEF Lost
    <2>6. "v4" \notin s.good /\ "v6" \notin s.good => s.good = {}
      <3>1. s.good \subseteq {"v4", "v6"}
        BY <2>3, ConstantsAssumption, Zenon DEF Records
      <3>2. QED
        BY <3>1, Zenon
    <2>7. Untainted(Settle(d, s, f))
      BY <1>7, <2>3, <2>4, <2>5, <2>6, Zenon DEF Settle
    <2>8. QED
      BY <2>2, <2>7, OneDialUntainted, Zenon DEF s
  <1>9. CASE PunchGrace(d)
    BY <1>0, <1>7, <1>9, OneDialUntainted, Zenon DEF PunchGrace, Untainted
  <1>10. QED
    BY <1>1, <1>2, <1>4, <1>5, <1>6, <1>8, <1>9, Zenon

(* The handshakes and the relay. *)
LEMMA RelayUntainted ==
    ASSUME PunchInv, NEW d \in Dials,
           \/ HandshakeOK(d) \/ HandshakeError(d) \/ Reconnect(d)
           \/ RelayListen(d) \/ JoinTimeout(d) \/ Watch(d) \/ Joined(d) \/ JoinFails(d)
           \/ RelayHandshakeOK(d) \/ RelayHandshakeError(d)
    PROVE  (\A e \in Dials : Untainted(dial[e]))'
  <1> DEFINE r == dial[d]
  <1>0. r \in Records /\ Holds(r) /\ Untainted(r)
    BY Zenon DEF PunchInv, SocketsInv
  <1>1. CASE HandshakeOK(d)
    <2>1. Untainted([r EXCEPT !.stage = "verify"])
      BY <1>0, <1>1, Zenon DEF HandshakeOK, Records, Untainted
    <2>2. QED
      BY <1>1, <2>1, OneDialUntainted, Zenon DEF HandshakeOK
  <1>2. CASE HandshakeError(d)
    <2> DEFINE s == [r EXCEPT !.open = {}, !.used = "none", !.shook = TRUE]
    <2>1. s \in Records /\ s.err = "none" /\ s.why # "punch"
      BY <1>0, <1>2, Zenon DEF HandshakeError, Records, Untainted
    <2> HIDE DEF s
    <2>2. Untainted(Fails(s, "handshake")) /\ Untainted(FreshNonce(s))
      BY <2>1, Zenon DEF Fails, FreshNonce, Records, Untainted
    <2>3. QED
      BY <1>2, <2>2, OneDialUntainted, Zenon DEF HandshakeError, s
  <1>3. CASE Reconnect(d)
    <2>1. /\ Untainted(Fails(r, "handshake"))
          /\ Untainted(StartRelay([r EXCEPT !.shook = FALSE], "handshake"))
      BY <1>0, <1>3, Zenon DEF Reconnect, Fails, StartRelay, Records, Untainted
    <2>2. QED
      BY <1>3, <2>1, OneDialUntainted, Zenon DEF Reconnect
  <1>4. ASSUME NEW s \in Records, s.err = "none", ~s.shook, s.why = "punch" => s.good = {}
        PROVE  Untainted(NotJoined(s))
    <2>1. Untainted(StartRace(s))
      BY <1>4, Zenon DEF StartRace, Records, Untainted
    <2>2. Untainted(Fails(s, s.why))
      BY <1>4, Zenon DEF Fails, Records, Untainted
    <2>3. QED
      BY <2>1, <2>2, Zenon DEF NotJoined
  <1>5. CASE RelayListen(d)
    <2> DEFINE s == [r EXCEPT !.stage = "join", !.open = @ \cup {"relay"}, !.watcher = "armed"]
    <2>1. r.stage = "listen"
      BY <1>5, Zenon DEF RelayListen
    <2>2. Untainted(NotJoined(r))
      BY <1>0, <1>4, <2>1, Zenon DEF Untainted
    <2>3. Untainted(s)
      BY <1>0, <2>1, Zenon DEF Records, Untainted
    <2>4. QED
      BY <1>5, <2>2, <2>3, OneDialUntainted, Zenon DEF RelayListen
  <1>6. CASE JoinTimeout(d)
    <2>1. Untainted([r EXCEPT !.watcher = "fired"])
      BY <1>0, Zenon DEF Records, Untainted
    <2>2. QED
      BY <1>6, <2>1, OneDialUntainted, Zenon DEF JoinTimeout
  <1>7. CASE Watch(d)
    <2> DEFINE s == [r EXCEPT !.watcher = "off", !.expired = @ \cup {"relay"}]
    <2>1. /\ s.stage = r.stage /\ s.err = r.err /\ s.why = r.why /\ s.good = r.good
          /\ s.shook = r.shook /\ s.used = r.used /\ s.expired = r.expired \cup {"relay"}
      BY <1>0, Zenon DEF Records
    <2>2. r.stage = "handshake" => r.used # "relay"
      BY <1>0, ConstantsAssumption, Zenon DEF Holds
    <2>3. Untainted(s)
      BY <1>0, <2>1, <2>2, Zenon DEF Untainted
    <2>4. QED
      BY <1>7, <2>3, OneDialUntainted, Zenon DEF Watch
  <1>8. CASE Joined(d)
    <2>1. PICK w \in {"off", "armed", "fired"} :
            Becomes(d, [r EXCEPT !.stage = "relayHandshake", !.used = "relay", !.watcher = w])
      BY <1>0, <1>8, Zenon DEF Joined, Records
    <2>2. Untainted([r EXCEPT !.stage = "relayHandshake", !.used = "relay", !.watcher = w])
      BY <1>0, <1>8, Zenon DEF Joined, Records, Untainted
    <2>3. QED
      BY <2>1, <2>2, OneDialUntainted, Zenon
  <1>9. CASE JoinFails(d)
    <2> DEFINE s == [r EXCEPT !.open = @ \ {"relay"}, !.expired = @ \ {"relay"}, !.watcher = "off"]
    <2>1. s \in Records /\ s.err = "none" /\ ~s.shook /\ (s.why = "punch" => s.good = {})
      BY <1>0, <1>9, Zenon DEF JoinFails, Records, Untainted
    <2> HIDE DEF s
    <2>2. Untainted(NotJoined(s))
      BY <1>4, <2>1, Zenon
    <2>3. QED
      BY <1>9, <2>2, OneDialUntainted, Zenon DEF JoinFails, s
  <1>10. CASE RelayHandshakeOK(d)
    <2>1. Untainted([r EXCEPT !.stage = "done", !.open = ClosesPunchSockets(r)])
      BY <1>0, <1>10, Zenon DEF RelayHandshakeOK, Records, Untainted
    <2>2. QED
      BY <1>10, <2>1, OneDialUntainted, Zenon DEF RelayHandshakeOK
  <1>11. CASE RelayHandshakeError(d)
    <2> DEFINE s == [r EXCEPT !.used = "none", !.watcher = "off", !.expired = {}]
               e == IF s.why = "handshake" THEN "handshake" ELSE "relay"
    <2>1. s \in Records /\ ~s.shook /\ (s.why = "punch" => s.good = {}) /\ e # "punch"
      BY <1>0, <1>11, Zenon DEF RelayHandshakeError, Records, Untainted
    <2> HIDE DEF s, e
    <2>2. Untainted(FailsClosed(s, e))
      BY <2>1, Zenon DEF FailsClosed, Fails, Records, Untainted
    <2>3. QED
      BY <1>11, <2>2, OneDialUntainted, Zenon DEF RelayHandshakeError, s, e
  <1>12. QED
    BY <1>1, <1>2, <1>3, <1>5, <1>6, <1>7, <1>8, <1>9, <1>10, <1>11, Zenon

LEMMA PunchInductive ==
    ASSUME PunchInv, [Next]_vars
    PROVE  PunchInv'
  <1>1. SocketsInv'
    BY SocketsInductive, Zenon DEF PunchInv
  <1>2. (\A e \in Dials : Untainted(dial[e]))'
    <2>1. CASE Tick \/ UNCHANGED vars
      BY <2>1, Zenon DEF Tick, vars, PunchInv, Untainted
    <2>2. ASSUME NEW d \in Dials, Proceed(d) PROVE (\A e \in Dials : Untainted(dial[e]))'
      BY <2>2, PunchUntainted, RelayUntainted, Zenon DEF Proceed
    <2>3. ASSUME NEW d \in Dials, Verify(d) \/ Again(d)
          PROVE  (\A e \in Dials : Untainted(dial[e]))'
      <3>1. Untainted(Idle)
        BY Zenon DEF Idle, Untainted
      <3>2. CASE VerifyPasses(d)
        <4>1. Untainted([dial[d] EXCEPT !.stage = "done"])
          BY <3>2 DEF VerifyPasses, PunchInv, SocketsInv, Records, Untainted
        <4>2. QED
          BY <3>2, <4>1, OneDialUntainted, Zenon DEF VerifyPasses
      <3>3. CASE VerifyFails(d) \/ VerifyEnds(d) \/ Again(d)
        BY <3>1, <3>3, OneDialUntainted, Zenon DEF VerifyFails, VerifyEnds, Again
      <3>4. QED
        BY <2>3, <3>2, <3>3, Zenon DEF Verify
    <2>4. QED
      BY <2>1, <2>2, <2>3, Zenon DEF Next
  <1>3. QED
    BY <1>1, <1>2, Zenon DEF PunchInv

(* A path that works is used: offerNewRealm reports a failed punch, or     *)
(* falls back to the relay because of one, only when no family punched     *)
(* through; it never shakes hands on a socket whose read deadline has      *)
(* passed, and joins a relay only with a nonce no handshake was tried on.  *)
THEOREM PunchUsed == Spec => []NoPunchWasted
  <1>1. Init => PunchInv /\ PreferenceInv
    <2>1. Untainted(Idle)
      BY Zenon DEF Idle, Untainted
    <2>2. Init => PunchInv
      BY <2>1, SocketsInit, Zenon DEF Init, PunchInv
    <2>3. Init => PreferenceInv
      BY ConstantsAssumption DEF Init, PreferenceInv
    <2>4. QED
      BY <2>2, <2>3, Zenon
  <1>2. PunchInv /\ PreferenceInv /\ [Next]_vars => PunchInv' /\ PreferenceInv'
    BY PunchInductive, PreferenceInductive, Zenon
  <1>3. PunchInv /\ PreferenceInv => NoPunchWasted
    BY Zenon DEF PunchInv, SocketsInv, PreferenceInv, Untainted, NoPunchWasted, TypeOK
  <1>4. QED
    BY <1>1, <1>2, <1>3, PTL DEF Spec
-----------------------------------------------------------------------------
(* The stages that a dial has before it at most: a dial that preferred the *)
(* relay may still have to punch, one that fell back to it has not.        *)
StagesLeft(r) ==
    CASE r.stage = "idle" -> 12
      [] r.stage = "resolve" -> 11
      [] r.stage = "discover" -> 10
      [] r.stage = "connect" -> 9
      [] r.stage = "listen" -> IF r.why = "prefer" THEN 8 ELSE 3
      [] r.stage = "join" -> IF r.why = "prefer" THEN 7 ELSE 2
      [] r.stage = "race" -> 6
      [] r.stage = "handshake" -> 5
      [] r.stage = "reconnect" -> 4
      [] r.stage \in {"relayHandshake", "verify"} -> 1
      [] OTHER -> 0

(* Within its stage a dial hears of a family it waits for, or else the     *)
(* watcher of its join moves on, or else a read deadline is set.           *)
Onward(r, s) ==
    \/ StagesLeft(s) < StagesLeft(r)
    \/ /\ s.stage = r.stage /\ s.why = r.why
       /\ \/ s.waiting \subseteq r.waiting /\ s.waiting # r.waiting
          \/ /\ s.waiting = r.waiting
             /\ <<r.watcher, s.watcher>> \in {<<"armed", "fired">>, <<"fired", "off">>}
          \/ /\ s.waiting = r.waiting /\ s.watcher = r.watcher
             /\ r.expired \subseteq s.expired /\ s.expired # r.expired

(* A dial that moves goes onward, or it is over and the next one starts.   *)
MovesOn(d) ==
    \/ dial'[d] = dial[d]
    \/ Onward(dial[d], dial'[d])
    \/ dial[d].stage \in {"verify", "done"} /\ dial'[d] = Idle

NoneGoesBack == \A d \in Dials : MovesOn(d)

LEMMA OneDialOnward ==
    ASSUME SocketsInv, NEW d \in Dials, NEW r, Onward(dial[d], r), Becomes(d, r)
    PROVE  NoneGoesBack
  BY Zenon DEF SocketsInv, Becomes, MovesOn, NoneGoesBack

(* A dial that ends has no stage before it. *)
LEMMA FailsOnward ==
    ASSUME NEW r \in Records, NEW s \in Records, s.stage = r.stage, s.why = r.why,
           r.stage \notin {"done", "idle"}, NEW e
    PROVE  Onward(r, Fails(s, e)) /\ Onward(r, FailsClosed(s, e))
  <1>1. r.stage \in Stages
    BY Zenon DEF Records
  <1>2. Fails(s, e).stage = "done" /\ FailsClosed(s, e).stage = "done"
    BY Zenon DEF Fails, FailsClosed, Records
  <1>3. StagesLeft(Fails(s, e)) = 0 /\ StagesLeft(FailsClosed(s, e)) = 0
    BY <1>2 DEF StagesLeft
  <1>4. StagesLeft(r) > 0
    BY <1>1 DEF StagesLeft, Stages
  <1>5. QED
    BY <1>3, <1>4 DEF Onward

(* A family that has reported is waited for no more. *)
LEMMA ReceiveOnward ==
    ASSUME NEW r \in Records, NEW f \in r.waiting, NEW ok \in BOOLEAN
    PROVE  LET s == Receive(r, f, ok)
           IN  /\ s \in Records /\ s.stage = r.stage /\ s.why = r.why
               /\ s.waiting \subseteq r.waiting /\ s.waiting # r.waiting
  <1>1. f \in Families
    BY Zenon DEF Records
  <1>2. Receive(r, f, ok) \in Records
    BY <1>1, Zenon DEF Receive, Records
  <1>3. /\ Receive(r, f, ok).stage = r.stage /\ Receive(r, f, ok).why = r.why
        /\ Receive(r, f, ok).waiting = r.waiting \ {f}
    BY Zenon DEF Receive, Records
  <1>4. QED
    BY <1>2, <1>3, Zenon

LEMMA PunchOnward ==
    ASSUME SocketsInv, NEW d \in Dials,
           \/ OpenFamilies(d) \/ Resolve(d) \/ Discovered(d) \/ DiscoverGrace(d)
           \/ Connect(d) \/ Punched(d) \/ PunchGrace(d) \/ HandshakeOK(d) \/ HandshakeError(d)
    PROVE  NoneGoesBack
  <1> DEFINE r == dial[d]
  <1>0. r \in Records
    BY Zenon DEF SocketsInv
  <1>1. CASE OpenFamilies(d)
    <2>1. PICK s : Becomes(d, s) /\ s.stage \in {"done", "resolve"}
      <3>1. PICK F \in SUBSET Families :
              Becomes(d, IF F = {} THEN Fails(Idle, "listen")
                                   ELSE [Idle EXCEPT !.stage = "resolve", !.open = F])
        BY <1>1, Zenon DEF OpenFamilies
      <3>2. /\ Fails(Idle, "listen").stage = "done"
            /\ [Idle EXCEPT !.stage = "resolve", !.open = F].stage = "resolve"
        BY Zenon DEF Fails, Idle
      <3>3. QED
        BY <3>1, <3>2, Zenon
    <2>2. r.stage = "idle"
      BY <1>1, Zenon DEF OpenFamilies
    <2>3. Onward(r, s)
      BY <2>1, <2>2 DEF Onward, StagesLeft
    <2>4. QED
      BY <2>1, <2>3, OneDialOnward, Zenon
  <1>2. CASE Resolve(d)
    <2> DEFINE s == [r EXCEPT !.stage = "discover", !.waiting = r.open]
    <2>1. r.stage = "resolve"
      BY <1>2, Zenon DEF Resolve
    <2>2. s.stage = "discover"
      BY <1>0, Zenon DEF Records
    <2>3. Becomes(d, FailsClosed(r, "stun")) \/ Becomes(d, s)
      BY <1>2, Zenon DEF Resolve
    <2> HIDE DEF s
    <2>4. Onward(r, s)
      BY <2>1, <2>2 DEF Onward, StagesLeft
    <2>5. Onward(r, FailsClosed(r, "stun"))
      BY <1>0, <2>1, FailsOnward, Zenon
    <2>6. QED
      BY <2>3, <2>4, <2>5, OneDialOnward, Zenon
  <1>3. CASE Discovered(d)
    <2>1. PICK f \in r.waiting, ok \in BOOLEAN : Becomes(d, Survive(Receive(r, f, ok)))
      BY <1>3, Zenon DEF Discovered
    <2> DEFINE s == Receive(r, f, ok)
    <2>2. r.stage = "discover"
      BY <1>3, Zenon DEF Discovered
    <2>3. /\ s \in Records /\ s.stage = r.stage /\ s.why = r.why
          /\ s.waiting \subseteq r.waiting /\ s.waiting # r.waiting
      BY <1>0, ReceiveOnward
    <2> HIDE DEF s
    <2>4. Onward(r, s)
      BY <2>3, Zenon DEF Onward
    <2>5. Onward(r, FailsClosed(s, "stun"))
      BY <1>0, <2>2, <2>3, FailsOnward, Zenon
    <2>6. [s EXCEPT !.stage = "connect", !.open = s.good].stage = "connect"
      BY <2>3, Zenon DEF Records
    <2>7. Onward(r, [s EXCEPT !.stage = "connect", !.open = s.good])
      BY <2>2, <2>6 DEF Onward, StagesLeft
    <2>8. Onward(r, Survive(s))
      BY <2>4, <2>5, <2>7, Zenon DEF Survive
    <2>9. QED
      BY <2>1, <2>8, OneDialOnward, Zenon DEF s
  <1>4. CASE DiscoverGrace(d)
    <2>1. PICK returned \in SUBSET r.waiting : Becomes(d, [r EXCEPT !.expired = @ \cup returned])
      BY <1>4, Zenon DEF DiscoverGrace
    <2> DEFINE s == [r EXCEPT !.expired = @ \cup returned]
    <2>2. /\ s.stage = r.stage /\ s.why = r.why /\ s.waiting = r.waiting /\ s.watcher = r.watcher
          /\ s.expired = r.expired \cup returned
      BY <1>0, Zenon DEF Records
    <2>3. CASE s.expired = r.expired
      <3>1. s = r
        BY <1>0, <2>2, <2>3, Zenon DEF Records
      <3>2. QED
        BY <2>1, <3>1, Zenon DEF SocketsInv, Becomes, MovesOn, NoneGoesBack
    <2>4. CASE s.expired # r.expired
      <3>1. Onward(r, s)
        BY <2>2, <2>4, Zenon DEF Onward
      <3>2. QED
        BY <2>1, <3>1, OneDialOnward, Zenon
    <2>5. QED
      BY <2>3, <2>4, Zenon
  <1>5. CASE Connect(d)
    <2>1. r.stage = "connect"
      BY <1>5, Zenon DEF Connect
    <2>2. CASE Becomes(d, FailsClosed(r, "rendezvous"))
      BY <1>0, <2>1, <2>2, FailsOnward, OneDialOnward, Zenon
    <2>3. ASSUME NEW relay \in BOOLEAN,
                 \/ Becomes(d, StartRelay([r EXCEPT !.relay = relay], "prefer"))
                 \/ Becomes(d, StartRace([r EXCEPT !.relay = relay]))
          PROVE  NoneGoesBack
      <3>1. /\ StartRelay([r EXCEPT !.relay = relay], "prefer").stage = "listen"
            /\ StartRace([r EXCEPT !.relay = relay]).stage = "race"
        BY <1>0, Zenon DEF StartRelay, StartRace, Records
      <3>2. ASSUME NEW s, s.stage \in {"listen", "race"} PROVE Onward(r, s)
        BY <2>1, <3>2 DEF Onward, StagesLeft
      <3>3. /\ Onward(r, StartRelay([r EXCEPT !.relay = relay], "prefer"))
            /\ Onward(r, StartRace([r EXCEPT !.relay = relay]))
        BY <3>1, <3>2
      <3>4. QED
        BY <2>3, <3>3, OneDialOnward, Zenon
    <2>4. QED
      BY <1>5, <2>2, <2>3, Zenon DEF Connect
  <1>6. ASSUME NEW s \in Records, NEW f, r.stage = "race" PROVE Onward(r, Won(s, f))
    <2>1. Won(s, f).stage = "handshake"
      BY Zenon DEF Won, Records
    <2>2. QED
      BY <1>6, <2>1 DEF Onward, StagesLeft
  <1>7. CASE Punched(d)
    <2>1. PICK f \in r.waiting, ok \in BOOLEAN : Becomes(d, Settle(d, Receive(r, f, ok), f))
      BY <1>7, Zenon DEF Punched
    <2> DEFINE s == Receive(r, f, ok)
    <2>2. r.stage = "race"
      BY <1>7, Zenon DEF Punched
    <2>3. /\ s \in Records /\ s.stage = r.stage /\ s.why = r.why
          /\ s.waiting \subseteq r.waiting /\ s.waiting # r.waiting
      BY <1>0, ReceiveOnward
    <2> HIDE DEF s
    <2>4. Onward(r, s)
      BY <2>3, Zenon DEF Onward
    <2>5. Onward(r, FailsClosed(s, "punch"))
      BY <1>0, <2>2, <2>3, FailsOnward, Zenon
    <2>6. /\ StartRelay([s EXCEPT !.open = {}], "punch").stage = "listen"
          /\ StartRelay([s EXCEPT !.open = {}], "punch").why = "punch"
      BY <2>3, Zenon DEF StartRelay, Records
    <2>7. Onward(r, StartRelay([s EXCEPT !.open = {}], "punch"))
      BY <2>2, <2>6 DEF Onward, StagesLeft
    <2>8. Onward(r, Settle(d, s, f))
      BY <1>6, <2>2, <2>3, <2>4, <2>5, <2>7, Zenon DEF Settle, Lost
    <2>9. QED
      BY <2>1, <2>8, OneDialOnward, Zenon DEF s
  <1>8. CASE PunchGrace(d)
    BY <1>0, <1>6, <1>8, OneDialOnward, Zenon DEF PunchGrace
  <1>9. CASE HandshakeOK(d)
    <2>1. [r EXCEPT !.stage = "verify"].stage = "verify"
      BY <1>0, Zenon DEF Records
    <2>2. r.stage = "handshake"
      BY <1>9, Zenon DEF HandshakeOK
    <2>3. Onward(r, [r EXCEPT !.stage = "verify"])
      BY <2>1, <2>2 DEF Onward, StagesLeft
    <2>4. QED
      BY <1>9, <2>3, OneDialOnward, Zenon DEF HandshakeOK
  <1>10. CASE HandshakeError(d)
    <2> DEFINE s == [r EXCEPT !.open = {}, !.used = "none", !.shook = TRUE]
    <2>1. s \in Records /\ s.stage = r.stage /\ s.why = r.why
      BY <1>0, Zenon DEF Records, Sockets
    <2>2. r.stage = "handshake"
      BY <1>10, Zenon DEF HandshakeError
    <2>3. Becomes(d, Fails(s, "handshake")) \/ Becomes(d, FreshNonce(s))
      BY <1>10, Zenon DEF HandshakeError
    <2> HIDE DEF s
    <2>4. FreshNonce(s).stage = "reconnect"
      BY <2>1, Zenon DEF FreshNonce, Records
    <2>5. Onward(r, FreshNonce(s))
      BY <2>2, <2>4 DEF Onward, StagesLeft
    <2>6. Onward(r, Fails(s, "handshake"))
      BY <1>0, <2>1, <2>2, FailsOnward, Zenon
    <2>7. QED
      BY <2>3, <2>5, <2>6, OneDialOnward, Zenon
  <1>11. QED
    BY <1>1, <1>2, <1>3, <1>4, <1>5, <1>7, <1>8, <1>9, <1>10, Zenon

LEMMA RelayOnward ==
    ASSUME SocketsInv, NEW d \in Dials,
           \/ Reconnect(d) \/ RelayListen(d) \/ JoinTimeout(d) \/ Watch(d) \/ Joined(d)
           \/ JoinFails(d) \/ RelayHandshakeOK(d) \/ RelayHandshakeError(d)
    PROVE  NoneGoesBack
  <1> DEFINE r == dial[d]
  <1>0. r \in Records
    BY Zenon DEF SocketsInv
  <1>1. CASE Reconnect(d)
    <2> DEFINE s == StartRelay([r EXCEPT !.shook = FALSE], "handshake")
    <2>1. r.stage = "reconnect"
      BY <1>1, Zenon DEF Reconnect
    <2>2. s.stage = "listen" /\ s.why = "handshake"
      BY <1>0, Zenon DEF StartRelay, Records
    <2>3. Becomes(d, Fails(r, "handshake")) \/ Becomes(d, s)
      BY <1>1, Zenon DEF Reconnect
    <2> HIDE DEF s
    <2>4. Onward(r, s)
      BY <2>1, <2>2 DEF Onward, StagesLeft
    <2>5. Onward(r, Fails(r, "handshake"))
      BY <1>0, <2>1, FailsOnward, Zenon
    <2>6. QED
      BY <2>3, <2>4, <2>5, OneDialOnward, Zenon
  <1>2. ASSUME NEW s \in Records, r.stage \in {"listen", "join"}, s.stage = r.stage, s.why = r.why
        PROVE  Onward(r, NotJoined(s))
    <2>1. Onward(r, Fails(s, s.why))
      BY <1>0, <1>2, FailsOnward, Zenon
    <2>2. ASSUME s.why = "prefer" PROVE Onward(r, StartRace(s))
      <3>1. StartRace(s).stage = "race"
        BY Zenon DEF StartRace, Records
      <3>2. QED
        BY <1>2, <2>2, <3>1 DEF Onward, StagesLeft
    <2>3. QED
      BY <2>1, <2>2, Zenon DEF NotJoined
  <1>3. CASE RelayListen(d)
    <2> DEFINE s == [r EXCEPT !.stage = "join", !.open = @ \cup {"relay"}, !.watcher = "armed"]
    <2>1. r.stage = "listen"
      BY <1>3, Zenon DEF RelayListen
    <2>2. s.stage = "join" /\ s.why = r.why
      BY <1>0, Zenon DEF Records
    <2>3. Becomes(d, NotJoined(r)) \/ Becomes(d, s)
      BY <1>3, Zenon DEF RelayListen
    <2> HIDE DEF s
    <2>4. Onward(r, s)
      BY <2>1, <2>2 DEF Onward, StagesLeft
    <2>5. Onward(r, NotJoined(r))
      BY <1>0, <1>2, <2>1, Zenon
    <2>6. QED
      BY <2>3, <2>4, <2>5, OneDialOnward, Zenon
  <1>4. CASE JoinTimeout(d)
    <2>1. r.watcher = "armed" /\ Becomes(d, [r EXCEPT !.watcher = "fired"])
      BY <1>4, Zenon DEF JoinTimeout
    <2>2. Onward(r, [r EXCEPT !.watcher = "fired"])
      BY <1>0, <2>1, Zenon DEF Onward, Records
    <2>3. QED
      BY <2>1, <2>2, OneDialOnward, Zenon
  <1>5. CASE Watch(d)
    <2> DEFINE s == [r EXCEPT !.watcher = "off", !.expired = @ \cup {"relay"}]
    <2>1. r.watcher = "fired" /\ Becomes(d, s)
      BY <1>5, Zenon DEF Watch
    <2>2. Onward(r, s)
      BY <1>0, <2>1, Zenon DEF Onward, Records
    <2>3. QED
      BY <2>1, <2>2, OneDialOnward, Zenon
  <1>6. CASE Joined(d)
    <2>1. PICK w \in {"off", "armed", "fired"} :
            Becomes(d, [r EXCEPT !.stage = "relayHandshake", !.used = "relay", !.watcher = w])
      BY <1>0, <1>6, Zenon DEF Joined, Records
    <2> DEFINE s == [r EXCEPT !.stage = "relayHandshake", !.used = "relay", !.watcher = w]
    <2>2. r.stage = "join"
      BY <1>6, Zenon DEF Joined
    <2>3. s.stage = "relayHandshake"
      BY <1>0, Zenon DEF Records
    <2> HIDE DEF s
    <2>4. Onward(r, s)
      BY <2>2, <2>3 DEF Onward, StagesLeft
    <2>5. QED
      BY <2>1, <2>4, OneDialOnward, Zenon DEF s
  <1>7. CASE JoinFails(d)
    <2> DEFINE s == [r EXCEPT !.open = @ \ {"relay"}, !.expired = @ \ {"relay"}, !.watcher = "off"]
    <2>1. s \in Records /\ s.stage = r.stage /\ s.why = r.why
      BY <1>0, Zenon DEF Records
    <2>2. r.stage = "join" /\ Becomes(d, NotJoined(s))
      BY <1>7, Zenon DEF JoinFails
    <2> HIDE DEF s
    <2>3. QED
      BY <1>2, <2>1, <2>2, OneDialOnward, Zenon
  <1>8. CASE RelayHandshakeOK(d)
    <2> DEFINE s == [r EXCEPT !.stage = "done", !.open = ClosesPunchSockets(r)]
    <2>1. r.stage = "relayHandshake" /\ Becomes(d, s)
      BY <1>8, Zenon DEF RelayHandshakeOK
    <2>2. s.stage = "done"
      BY <1>0, Zenon DEF Records
    <2> HIDE DEF s
    <2>3. Onward(r, s)
      BY <2>1, <2>2 DEF Onward, StagesLeft
    <2>4. QED
      BY <2>1, <2>3, OneDialOnward, Zenon
  <1>9. CASE RelayHandshakeError(d)
    <2> DEFINE s == [r EXCEPT !.used = "none", !.watcher = "off", !.expired = {}]
               e == IF s.why = "handshake" THEN "handshake" ELSE "relay"
    <2>1. s \in Records /\ s.stage = r.stage /\ s.why = r.why
      BY <1>0, Zenon DEF Records, Sockets
    <2>2. r.stage = "relayHandshake" /\ Becomes(d, FailsClosed(s, e))
      BY <1>9, Zenon DEF RelayHandshakeError
    <2> HIDE DEF s, e
    <2>3. Onward(r, FailsClosed(s, e))
      BY <1>0, <2>1, <2>2, FailsOnward, Zenon
    <2>4. QED
      BY <2>2, <2>3, OneDialOnward, Zenon
  <1>10. QED
    BY <1>1, <1>3, <1>4, <1>5, <1>6, <1>7, <1>8, <1>9, Zenon

(* No dial goes back: whatever the families, the rendezvous server and the *)
(* relay do, every step of offerNewRealm leaves it fewer stages, or makes  *)
(* progress within its stage that cannot be undone, until it has returned. *)
(* In particular a dial that preferred the relay punches at most once, and *)
(* one that fell back to the relay never punches again.  With the fairness *)
(* of FairSpec this is why dials end.                                      *)
THEOREM NoDialGoesBack == Spec => [][NoneGoesBack]_vars
  <1>1. Init => SocketsInv
    BY SocketsInit, Zenon
  <1>2. SocketsInv /\ [Next]_vars => SocketsInv'
    BY SocketsInductive, Zenon
  <1>3. ASSUME SocketsInv, Next PROVE NoneGoesBack
    <2>1. CASE Tick
      BY <2>1, Zenon DEF Tick, MovesOn, NoneGoesBack
    <2>2. ASSUME NEW d \in Dials, Proceed(d) PROVE NoneGoesBack
      BY <1>3, <2>2, PunchOnward, RelayOnward, Zenon DEF Proceed
    <2>3. ASSUME NEW d \in Dials, VerifyPasses(d) PROVE NoneGoesBack
      <3> DEFINE s == [dial[d] EXCEPT !.stage = "done"]
      <3>1. dial[d].stage = "verify" /\ Becomes(d, s)
        BY <2>3, Zenon DEF VerifyPasses
      <3>2. s.stage = "done"
        BY <1>3, Zenon DEF SocketsInv, Records
      <3> HIDE DEF s
      <3>3. Onward(dial[d], s)
        BY <3>1, <3>2 DEF Onward, StagesLeft
      <3>4. QED
        BY <1>3, <3>1, <3>3, OneDialOnward, Zenon
    <2>4. ASSUME NEW d \in Dials, VerifyFails(d) \/ VerifyEnds(d) \/ Again(d)
          PROVE  NoneGoesBack
      <3>1. dial[d].stage \in {"verify", "done"} /\ Becomes(d, Idle)
        BY <2>4, Zenon DEF VerifyFails, VerifyEnds, Again
      <3>2. QED
        BY <1>3, <3>1, Zenon DEF SocketsInv, Becomes, MovesOn, NoneGoesBack
    <2>5. QED
      BY <1>3, <2>1, <2>2, <2>3, <2>4, Zenon DEF Next, Verify
  <1>4. SocketsInv /\ [Next]_vars => [NoneGoesBack]_vars
    BY <1>3, Zenon
  <1>5. QED
    BY <1>1, <1>2, <1>4, PTL DEF Spec
=============================================================================
