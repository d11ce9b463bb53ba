-------------------------- MODULE RealmDialProofs --------------------------
(***************************************************************************)
(* Proofs about one dial of the kernel's realm client (module RealmDial),  *)
(* for any set of relays and any number of STUN servers and attempts.      *)
(***************************************************************************)
EXTENDS RealmDial, TLAPS

StunRecords ==
    [at       : {"off", "check", "set", "read", "ok", "err", "good", "bad"},
     attempts : 0..STUNAttempts,
     pending  : 0..STUNServers,
     mapped   : Seq(Families \X (1..STUNServers)),
     cut      : BOOLEAN]
PunchRecords ==
    [at : Phases, winner : Families \cup {"none"}, v4 : BOOLEAN, of : [Families -> Phases]]
RelayRecords ==
    [at : Phases, winner : Relays \cup {"none"}, of : [Relays -> Phases],
     watcher : [Relays -> {"off", "waits", "fires"}]]
Traces == [fail : FailStages \cup {"none"}, relayUsed : BOOLEAN, tunnel : BOOLEAN, sent : Nat]

Flags == grace \in BOOLEAN /\ ended \in BOOLEAN

Types ==
    /\ mode \in Modes /\ stage \in Stages
    /\ open \subseteq Sockets /\ expired \subseteq open
    /\ stun \in [Families -> StunRecords]
    /\ answer \in [peers : SUBSET Families, relays : SUBSET Relays]
    /\ punch \in PunchRecords
    /\ relay \in RelayRecords
    /\ conn \in Sockets \cup {"none"}
    /\ err \in FailStages \cup {"none", "relay"}
    /\ trace \in Traces

(* What a goroutine of discoverFamilies knows: a server is asked as long   *)
(* as it has not answered, every answer adds at most one address, and only *)
(* a family without an address fails.  Past the discovery none is running. *)
StunInv ==
    \A f \in Families :
        /\ stun[f].mapped \in Seq({f} \X (1..STUNServers))
        /\ stun[f].at \in {"check", "set", "read"} => Len(stun[f].mapped) + stun[f].pending <= STUNServers
        /\ stun[f].at \in {"set", "read"} => stun[f].pending > 0
        /\ stun[f].at \in {"off", "err", "bad"} => stun[f].mapped = <<>>
        /\ stage # "discover" => stun[f].at \in {"off", "good", "bad"}

Over == {"wrap", "handshake", "up", "failed"}

(* Which sockets of the families are open, and that those that have        *)
(* punched through have no read deadline in the past.                      *)
FamilyInv ==
    /\ stage = "start" => open = {} /\ \A f \in Families : stun[f].at = "off"
    /\ stage = "discover" => \A f \in Families : f \in open <=> stun[f].at # "off"
    /\ stage = "connect" \/ punch.at = "run" => \A f \in Families : f \in open <=> stun[f].at = "good"
    /\ stage \in {"start", "discover", "connect"} => punch.at = "off"
    /\ punch.at = "off" => punch.winner = "none" /\ ~punch.v4 /\ \A f \in Families : punch.of[f] = "off"
    /\ punch.at = "run" => /\ stage \in {"punch", "race", "drainPunch"} /\ punch.winner = "none"
                           /\ \A f \in Families : stun[f].at # "good" => punch.of[f] = "off"
    /\ punch.at = "err" => punch.winner = "none"
    /\ punch.at = "ok" => punch.winner # "none"
    /\ stage = "punch" => punch.at \in {"run", "ok", "err"}
    /\ stage = "race" => punch.at # "off" /\ (punch.at = "taken" => punch.winner = "none")
    /\ stage = "drainPunch" => punch.at # "off" /\ (punch.at = "taken" => punch.winner = "none")
    /\ stage = "drainRelay" => punch.at = "taken" /\ punch.winner # "none"
    /\ stage = "relay" => punch.at \in {"off", "err"}
    /\ stage \in {"punch", "race", "drainPunch", "drainRelay", "relay"} /\ punch.at # "run" =>
         \A f \in Families : f \in open <=> f = punch.winner
    /\ punch.v4 => stun["v4"].at = "good"

DeadlineInv ==
    /\ \A f \in Families : punch.of[f] = "ok" \/ punch.winner = f \/ conn = f => f \notin expired
    /\ punch.v4 => "v4" \notin expired

(* Which sockets of the relays are open. *)
RelayInv ==
    /\ stage \in {"start", "discover", "connect", "punch"} => relay.at = "off"
    /\ stage = "race" => relay.at # "off" /\ (relay.at = "taken" => relay.winner = "none")
    /\ stage = "drainRelay" => relay.at # "off" /\ (relay.at = "taken" => relay.winner = "none")
    /\ stage = "drainPunch" => relay.at = "taken" /\ relay.winner # "none"
    /\ stage = "relay" => relay.at \in {"run", "ok", "err"}
    /\ stage \in Over => relay.at # "run"
    /\ relay.at = "off" => relay.winner = "none"
    /\ relay.at = "err" => relay.winner = "none"
    /\ relay.at = "ok" => relay.winner # "none"
    /\ relay.at # "run" => \A r \in Relays : relay.of[r] \in {"off", "taken"}
    /\ stage \notin Over =>
         \A r \in Relays : /\ relay.of[r] = "ok" => r \in open
                           /\ r \in open => relay.of[r] \in {"run", "ok"} \/ r = relay.winner
                           /\ r = relay.winner => r \in open /\ relay.of[r] = "taken"

(* What the caller has got and what the trace says. *)
OutcomeInv ==
    /\ conn # "none" <=> stage \in {"wrap", "handshake", "up"}
    /\ stage \in Over => open = {conn} \ {"none"}
    /\ stage \notin {"start", "relay"} \cup Over => mode # "relayOnly"
    /\ trace.sent = IF stage \in {"up", "failed"} THEN 1 ELSE 0
    /\ stage \notin {"relay"} \cup Over => trace.fail = "none"
    /\ stage = "relay" => IF mode = "relayOnly" THEN trace.fail = "none"
                                                ELSE trace.fail \in {"punch", "candidate"}
    /\ stage \in {"wrap", "handshake", "up"} =>
         /\ trace.relayUsed <=> conn \in Relays
         /\ trace.fail # "none" => trace.relayUsed /\ trace.fail \in {"punch", "candidate"}
    /\ stage \notin Over => ~trace.relayUsed
    /\ trace.tunnel => stage = "up"
    /\ stage = "failed" =>
         \/ err = trace.fail
         \/ err = "handshake" /\ trace.relayUsed /\ trace.fail \in {"punch", "candidate"}

Inv == Types /\ Flags /\ StunInv /\ FamilyInv /\ DeadlineInv /\ RelayInv /\ OutcomeInv
-----------------------------------------------------------------------------
LEMMA Names == Relays \cap Families = {} /\ "none" \notin Relays /\ "none" \notin Families
  BY ConstantsAssumption, Zenon DEF Families

LEMMA IdleType == Idle \in StunRecords
  <1>1. <<>> \in Seq(Families \X (1..STUNServers))
    OBVIOUS
  <1>2. QED
    BY <1>1, ConstantsAssumption DEF Idle, StunRecords

LEMMA InvInit == Init => Inv
  <1> SUFFICES ASSUME Init PROVE Inv
    BY Zenon
  <1> USE DEF Init
  <1>1. Idle \in StunRecords
    BY IdleType, Zenon
  <1>2. Types
    <2>1. punch \in PunchRecords
      BY Zenon DEF PunchRecords, Phases
    <2>2. relay \in RelayRecords
      BY Zenon DEF RelayRecords, Phases
    <2>3. trace \in Traces
      BY Zenon DEF Traces
    <2>4. QED
      BY <1>1, <2>1, <2>2, <2>3, Zenon DEF Types, Stages
  <1>3. Flags
    BY Zenon DEF Flags
  <1>4. StunInv
    <2>1. \A f \in Families : <<>> \in Seq({f} \X (1..STUNServers))
      OBVIOUS
    <2>2. \A f \in Families : stun[f].at = "off" /\ stun[f].mapped = <<>>
      BY Zenon DEF Idle
    <2>3. QED
      BY <2>1, <2>2, Zenon DEF StunInv
  <1>5. FamilyInv
    BY Zenon DEF FamilyInv, Idle
  <1>6. DeadlineInv
    BY Zenon DEF DeadlineInv
  <1>7. RelayInv
    BY Names, Zenon DEF RelayInv, Over
  <1>8. OutcomeInv
    BY Zenon DEF OutcomeInv, Over
  <1>9. QED
    BY <1>2, <1>3, <1>4, <1>5, <1>6, <1>7, <1>8, Zenon DEF Inv

(* What a step that does not touch it leaves of every part. *)
LEMMA StunFrame ==
    ASSUME StunInv, UNCHANGED <<stage, stun>>
    PROVE  StunInv'
  BY Zenon DEF StunInv

LEMMA FamilyFrame ==
    ASSUME FamilyInv, UNCHANGED <<stage, stun, punch>>,
           open' \cap Families = open \cap Families, stage = "start" => open' = open
    PROVE  FamilyInv'
  BY ZenonT(60) DEF FamilyInv

LEMMA DeadlineFrame ==
    ASSUME DeadlineInv, UNCHANGED <<punch, conn>>, expired' \subseteq expired \cup Relays
    PROVE  DeadlineInv'
  BY Names, Zenon DEF DeadlineInv, Families

LEMMA RelayFrame ==
    ASSUME RelayInv, UNCHANGED <<stage, relay>>, open' \cap Relays = open \cap Relays
    PROVE  RelayInv'
  BY Zenon DEF RelayInv

LEMMA OutcomeFrame ==
    ASSUME OutcomeInv, UNCHANGED <<mode, stage, conn, err, trace>>, stage \in Over => open' = open
    PROVE  OutcomeInv'
  BY Zenon DEF OutcomeInv
-----------------------------------------------------------------------------
(* A goroutine of discoverFamilies: its own steps change its own record    *)
(* and deadline only.                                                      *)
LEMMA DiscoverOwn ==
    ASSUME Inv, NEW f \in Families,
           \/ DiscoverCheck(f) \/ DiscoverSet(f) \/ DiscoverAnswer(f) \/ DiscoverTimeout(f)
           \/ DiscoverReadError(f)
    PROVE  /\ stun[f].at \in {"check", "set", "read"}
           /\ stun' = [stun EXCEPT ![f] = stun'[f]]
           /\ stun'[f] \in StunRecords
           /\ stun'[f].mapped \in Seq({f} \X (1..STUNServers))
           /\ stun'[f].at \in {"check", "set", "read"} =>
                Len(stun'[f].mapped) + stun'[f].pending <= STUNServers
           /\ stun'[f].at \in {"set", "read"} => stun'[f].pending > 0
           /\ stun'[f].at = "err" => stun'[f].mapped = <<>>
           /\ stun'[f].at \in {"check", "set", "read", "ok", "err"}
           /\ expired' \subseteq expired
           /\ UNCHANGED <<mode, stage, open, grace, answer, punch, relay, ended, conn, err, trace>>
  <1> USE DEF KeepsOutcome
  <1> DEFINE r == stun[f]
  <1>0. /\ stun \in [Families -> StunRecords] /\ r \in StunRecords
        /\ r.mapped \in Seq({f} \X (1..STUNServers))
        /\ r.at \in {"check", "set", "read"} => Len(r.mapped) + r.pending <= STUNServers
        /\ r.at \in {"set", "read"} => r.pending > 0
    BY Zenon DEF Inv, Types, StunInv
  <1>1. CASE DiscoverCheck(f)
    <2>1. CASE r.cut \/ ended \/ r.pending = 0 \/ AttemptsOver(f)
      <3>1. /\ stun' = [stun EXCEPT ![f] = [r EXCEPT !.at = IF r.mapped # <<>> THEN "ok" ELSE "err"]]
            /\ expired' = expired \ {f}
        BY <1>1, <2>1, Zenon DEF DiscoverCheck, Discovered
      <3>2. QED
        BY <1>0, <1>1, <3>1, Zenon DEF DiscoverCheck, StunRecords
    <2>2. CASE ~(r.cut \/ ended \/ r.pending = 0 \/ AttemptsOver(f))
      <3>1. stun' = [stun EXCEPT ![f] = [r EXCEPT !.at = "set", !.attempts = @ + 1]]
        BY <1>1, <2>2, Zenon DEF DiscoverCheck
      <3>2. expired' = expired
        BY <1>1, <2>2, Zenon DEF DiscoverCheck
      <3>3. r.attempts + 1 \in 0..STUNAttempts
        BY <1>0, <2>2, ConstantsAssumption DEF AttemptsOver, StunRecords
      <3>4. r.pending > 0
        BY <1>0, <2>2, ConstantsAssumption DEF StunRecords
      <3>5. QED
        BY <1>0, <1>1, <3>1, <3>2, <3>3, <3>4, Zenon DEF DiscoverCheck, StunRecords
    <2>3. QED
      BY <2>1, <2>2, Zenon
  <1>2. CASE DiscoverSet(f)
    <2>1. stun' = [stun EXCEPT ![f] = [r EXCEPT !.at = "read"]]
      BY <1>2, Zenon DEF DiscoverSet
    <2>2. QED
      BY <1>0, <1>2, <2>1, ZenonT(60) DEF DiscoverSet, StunRecords
  <1>3. CASE DiscoverAnswer(f)
    <2>1. PICK k \in 1..Len(r.mapped) + 1 :
            stun' = [stun EXCEPT ![f].pending = @ - 1,
                                 ![f].at = IF r.pending = 1 THEN "check" ELSE "read",
                                 ![f].mapped = IF <<f, k>> \in Range(@) THEN @ ELSE Append(@, <<f, k>>)]
      BY <1>3, Zenon DEF DiscoverAnswer
    <2> DEFINE m == IF <<f, k>> \in Range(r.mapped) THEN r.mapped ELSE Append(r.mapped, <<f, k>>)
    <2>2. stun' = [stun EXCEPT ![f] = [r EXCEPT !.pending = @ - 1,
                                                !.at = IF r.pending = 1 THEN "check" ELSE "read",
                                                !.mapped = m]]
      BY <1>0, <2>1, Zenon DEF StunRecords
    <2>3. r.at = "read" /\ Len(r.mapped) + r.pending <= STUNServers /\ r.pending > 0
      BY <1>0, <1>3, Zenon DEF DiscoverAnswer
    <2>4. <<f, k>> \in {f} \X (1..STUNServers)
      BY <1>0, <2>3, ConstantsAssumption DEF StunRecords
    <2>5. m \in Seq({f} \X (1..STUNServers)) /\ Len(m) <= Len(r.mapped) + 1
      BY <1>0, <2>4
    <2>6. m \in Seq(Families \X (1..STUNServers))
      BY <2>5
    <2> HIDE DEF m
    <2>7. r.pending - 1 \in 0..STUNServers /\ (r.pending # 1 => r.pending - 1 > 0)
          /\ Len(m) + (r.pending - 1) <= STUNServers
      BY <1>0, <2>3, <2>5, ConstantsAssumption, SMTT(30) DEF StunRecords
    <2>8. QED
      BY <1>0, <1>3, <2>2, <2>3, <2>5, <2>6, <2>7, Zenon DEF DiscoverAnswer, StunRecords
  <1>4. CASE DiscoverTimeout(f)
    <2>1. stun' = [stun EXCEPT ![f] = [r EXCEPT !.at = "check"]]
      BY <1>4, Zenon DEF DiscoverTimeout
    <2>2. QED
      BY <1>0, <1>4, <2>1, ZenonT(60) DEF DiscoverTimeout, StunRecords
  <1>5. CASE DiscoverReadError(f)
    <2>1. stun' = [stun EXCEPT ![f] = [r EXCEPT !.at = "err", !.mapped = <<>>]]
      BY <1>0, <1>5, Zenon DEF DiscoverReadError, StunRecords
    <2>2. <<>> \in Seq({f} \X (1..STUNServers)) /\ <<>> \in Seq(Families \X (1..STUNServers))
      OBVIOUS
    <2>3. stun'[f] \in StunRecords /\ stun'[f].at = "err" /\ stun'[f].mapped = <<>>
      BY <1>0, <2>1, <2>2, Zenon DEF StunRecords
    <2>4. QED
      BY <1>0, <1>5, <2>1, <2>2, <2>3, Zenon DEF DiscoverReadError
  <1>6. QED
    BY <1>1, <1>2, <1>3, <1>4, <1>5, Zenon

LEMMA DiscoverSteps ==
    ASSUME Inv, NEW f \in Families,
           \/ DiscoverCheck(f) \/ DiscoverSet(f) \/ DiscoverAnswer(f) \/ DiscoverTimeout(f)
           \/ DiscoverReadError(f)
    PROVE  Inv'
  <1> USE DiscoverOwn
  <1>0. stage = "discover"
    BY Zenon DEF Inv, StunInv
  <1>1. Types'
    BY Zenon DEF Inv, Types
  <1>2. Flags'
    BY Zenon DEF Inv, Flags
  <1>3. StunInv'
    BY <1>0, ZenonT(60) DEF Inv, Types, StunInv
  <1>4. FamilyInv'
    <2>1. \A g \in Families : stun'[g].at # "off" <=> stun[g].at # "off"
      BY Zenon DEF Inv, Types
    <2>2. punch.at = "off" /\ ~punch.v4
      BY <1>0, Zenon DEF Inv, FamilyInv
    <2>3. QED
      BY <1>0, <2>1, <2>2, ZenonT(60) DEF Inv, FamilyInv
  <1>5. DeadlineInv'
    BY DeadlineFrame, Zenon DEF Inv
  <1>6. RelayInv'
    BY RelayFrame, Zenon DEF Inv
  <1>7. OutcomeInv'
    BY OutcomeFrame, Zenon DEF Inv
  <1>8. QED
    BY <1>1, <1>2, <1>3, <1>4, <1>5, <1>6, <1>7, Zenon DEF Inv

(* A dial that fails before anything was recorded reports the stage of the *)
(* error it returns, once, and has closed every socket.                    *)
LEMMA FailedOutcome ==
    ASSUME Inv, stage \notin Over, trace.fail = "none", NEW e \in FailStages,
           Failed(Fail(trace, e), e), open' = {}
    PROVE  /\ OutcomeInv' /\ stage' = "failed" /\ conn' = "none"
           /\ trace' \in Traces /\ err' \in FailStages
  <1>1. trace \in Traces /\ trace.sent = 0 /\ ~trace.tunnel
    BY Zenon DEF Inv, Types, OutcomeInv, Over
  <1> DEFINE t == [trace EXCEPT !.fail = e]
  <1>2. trace' = [t EXCEPT !.sent = t.sent + 1]
    BY Zenon DEF Failed, Fail, Emit
  <1>3. trace' \in Traces /\ trace'.fail = e /\ trace'.sent = 1 /\ ~trace'.tunnel
    <2>1. t \in Traces /\ t.fail = e /\ t.sent = 0 /\ ~t.tunnel
      BY <1>1, Zenon DEF Traces
    <2> HIDE DEF t
    <2>2. QED
      BY <1>2, <2>1 DEF Traces
  <1>4. QED
    BY <1>3, Zenon DEF Failed, OutcomeInv, Over

(* No relay is dialled before the rendezvous server has named one. *)
LEMMA NoRelayYet ==
    ASSUME Inv, stage \notin Over, relay.at = "off"
    PROVE  open \cap Relays = {}
  BY Names, Zenon DEF Inv, RelayInv

LEMMA ReceiveStep ==
    ASSUME Inv, NEW f \in Families, DiscoverReceive(f)
    PROVE  Inv'
  <1> USE DEF KeepsOutcome
  <1>0. /\ stage = "discover" /\ stun[f].at \in {"ok", "err"}
        /\ UNCHANGED <<mode, answer, punch, relay, ended>>
    BY Zenon DEF DiscoverReceive
  <1>1. /\ punch.at = "off" /\ ~punch.v4 /\ relay.at = "off" /\ trace.fail = "none" /\ conn = "none"
        /\ open \cap Relays = {}
    BY <1>0, NoRelayYet, Zenon DEF Inv, FamilyInv, RelayInv, OutcomeInv, Over
  <1> DEFINE a == IF Survives(f) THEN "good" ELSE "bad"
             r == [Idle EXCEPT !.at = a, !.mapped = stun[f].mapped]
  <1>2. stun' = [stun EXCEPT ![f] = r] /\ stun \in [Families -> StunRecords]
    BY Zenon DEF DiscoverReceive, Inv, Types
  <1>3. /\ r \in StunRecords /\ r.at \in {"good", "bad"} /\ r.mapped = stun[f].mapped
        /\ r.at = "bad" <=> stun[f].at = "err"
    <2>1. stun[f].mapped \in Seq(Families \X (1..STUNServers))
      BY <1>2, Zenon DEF StunRecords
    <2>2. a \in {"good", "bad"} /\ (a = "bad" <=> stun[f].at = "err")
      BY <1>0, Zenon DEF Survives
    <2> HIDE DEF a
    <2>3. r \in StunRecords /\ r.at = a /\ r.mapped = stun[f].mapped
      BY <2>1, <2>2, IdleType, Zenon DEF StunRecords
    <2>4. QED
      BY <2>2, <2>3, Zenon
  <1> HIDE DEF r
  <1>4. /\ stun' \in [Families -> StunRecords]
        /\ stun'[f].at \in {"good", "bad"} /\ stun'[f].mapped = stun[f].mapped
        /\ stun'[f].at = "bad" <=> stun[f].at = "err"
        /\ \A g \in Families \ {f} : stun'[g] = stun[g]
    BY <1>2, <1>3, Zenon
  <1>5. Flags'
    <2>1. ArmsGrace(f) \in BOOLEAN
      BY Zenon DEF ArmsGrace
    <2>2. grace' = (grace \/ ArmsGrace(f)) /\ ended' = ended
      BY Zenon DEF DiscoverReceive
    <2>3. QED
      BY <2>1, <2>2, Zenon DEF Inv, Flags
  <1>6. CASE Waiting # {f}
    <2>1. UNCHANGED <<stage, open, expired, conn, err, trace>>
      BY <1>6, Zenon DEF DiscoverReceive
    <2>2. Types'
      BY <1>0, <1>4, <2>1, Zenon DEF Inv, Types
    <2>3. StunInv'
      BY <1>0, <1>4, <2>1, Zenon DEF Inv, StunInv
    <2>4. FamilyInv'
      <3>1. \A g \in Families : stun'[g].at # "off" <=> stun[g].at # "off"
        BY <1>0, <1>4, Zenon
      <3>2. QED
        BY <1>0, <1>1, <2>1, <3>1, Zenon DEF Inv, FamilyInv
    <2>5. DeadlineInv' /\ RelayInv' /\ OutcomeInv'
      BY <1>0, <2>1, DeadlineFrame, RelayFrame, OutcomeFrame, Zenon DEF Inv
    <2>6. QED
      BY <1>5, <2>2, <2>3, <2>4, <2>5, Zenon DEF Inv
  <1>7. CASE Waiting = {f}
    <2> DEFINE bad == {g \in Families : stun'[g].at # "good"}
    <2>1. \A g \in Families : stun'[g].at \in {"off", "good", "bad"}
      BY <1>2, <1>4, <1>7, Zenon DEF Waiting, StunRecords
    <2>2. /\ open' = open \ bad /\ expired' = expired \ bad
          /\ IF bad = Families THEN Failed(Fail(trace, "stun"), "stun")
                              ELSE stage' = "connect" /\ UNCHANGED <<conn, err, trace>>
      BY <1>7, Zenon DEF DiscoverReceive, Close
    <2>3. \A g \in Families : g \in open' <=> stun'[g].at = "good"
      <3>1. \A g \in Families : g \in open <=> stun[g].at # "off"
        BY <1>0, Zenon DEF Inv, FamilyInv
      <3>2. QED
        BY <1>0, <1>4, <2>2, <3>1, Zenon
    <2>4. open' \subseteq open /\ expired' \subseteq open' /\ expired' \subseteq expired
      BY <2>2, Zenon DEF Inv, Types
    <2>5. ASSUME stage' # "discover" PROVE StunInv'
      BY <1>0, <1>4, <2>1, <2>5, Zenon DEF Inv, StunInv
    <2>6. CASE bad # Families
      <3>1. stage' = "connect" /\ UNCHANGED <<conn, err, trace>>
        BY <2>2, <2>6, Zenon
      <3>2. Types'
        BY <1>0, <1>4, <2>4, <3>1, Zenon DEF Inv, Types, Stages
      <3>3. FamilyInv'
        BY <1>0, <1>1, <2>3, <3>1, Zenon DEF Inv, FamilyInv
      <3>4. DeadlineInv'
        BY <1>0, <2>4, <3>1, DeadlineFrame, Zenon DEF Inv
      <3>5. RelayInv'
        BY <1>0, <1>1, <2>4, <3>1, Zenon DEF Inv, RelayInv, Over
      <3>6. OutcomeInv'
        BY <1>0, <3>1, Zenon DEF Inv, OutcomeInv, Over
      <3>7. QED
        BY <1>5, <2>5, <3>1, <3>2, <3>3, <3>4, <3>5, <3>6, Zenon DEF Inv
    <2>7. CASE bad = Families
      <3>1. open' = {}
        BY <1>1, <2>2, <2>7, Zenon DEF Inv, Types, Sockets
      <3>2. /\ OutcomeInv' /\ stage' = "failed" /\ conn' = "none"
            /\ trace' \in Traces /\ err' \in FailStages
        BY <1>0, <1>1, <2>2, <2>7, <3>1, FailedOutcome, Zenon DEF Over, FailStages
      <3>3. Types'
        BY <1>0, <1>4, <2>4, <3>2, Zenon DEF Inv, Types, Stages
      <3>4. FamilyInv'
        BY <1>0, <1>1, <3>2, Zenon DEF Inv, FamilyInv
      <3>5. DeadlineInv'
        BY <1>0, <1>1, <2>4, <3>2, DeadlineFrame, Zenon DEF Inv
      <3>6. RelayInv'
        BY <1>0, <1>1, <3>2, Zenon DEF Inv, RelayInv, Over
      <3>7. QED
        BY <1>5, <2>5, <3>2, <3>3, <3>4, <3>5, <3>6, Zenon DEF Inv
    <2>8. QED
      BY <2>6, <2>7, Zenon
  <1>8. QED
    BY <1>6, <1>7, Zenon

LEMMA GraceSteps ==
    ASSUME Inv, DiscoverGrace \/ Cancel
    PROVE  Inv'
  <1> USE DEF KeepsOutcome
  <1>0. /\ stage = "discover" /\ punch.at = "off"
        /\ UNCHANGED <<mode, stage, open, answer, punch, relay, conn, err, trace>>
    BY Zenon DEF DiscoverGrace, Cancel, Inv, FamilyInv
  <1>1. Flags'
    BY Zenon DEF DiscoverGrace, Cancel, Inv, Flags
  <1>2. RelayInv' /\ OutcomeInv'
    BY <1>0, RelayFrame, OutcomeFrame, Zenon DEF Inv
  <1>3. CASE DiscoverGrace
    <2>1. stun \in [Families -> StunRecords]
      BY Zenon DEF Inv, Types
    <2>2. \A f \in Families : [stun[f] EXCEPT !.cut = TRUE] \in StunRecords
      BY <2>1, Zenon DEF StunRecords
    <2>3. /\ stun' \in [Families -> StunRecords]
          /\ \A f \in Families : stun'[f].at = stun[f].at /\ stun'[f].mapped = stun[f].mapped
                                 /\ stun'[f].pending = stun[f].pending
      BY <1>3, <2>1, <2>2, Zenon DEF DiscoverGrace, StunRecords
    <2>4. expired' = expired \cup Waiting /\ Waiting \subseteq open
      BY <1>0, <1>3, Zenon DEF DiscoverGrace, Waiting, Inv, FamilyInv
    <2>5. Types'
      BY <1>0, <2>3, <2>4, Zenon DEF Inv, Types
    <2>6. StunInv'
      BY <1>0, <2>3, Zenon DEF Inv, StunInv
    <2>7. FamilyInv'
      BY <1>0, <2>3, Zenon DEF Inv, FamilyInv
    <2>8. DeadlineInv'
      <3>1. conn = "none" /\ punch.winner = "none" /\ ~punch.v4 /\ \A f \in Families : punch.of[f] = "off"
        BY <1>0, Zenon DEF Inv, OutcomeInv, FamilyInv
      <3>2. QED
        BY <1>0, <3>1, Names, Zenon DEF DeadlineInv
    <2>9. QED
      BY <1>1, <1>2, <2>5, <2>6, <2>7, <2>8, Zenon DEF Inv
  <1>4. CASE Cancel
    <2>1. UNCHANGED <<expired, stun>>
      BY <1>4, Zenon DEF Cancel
    <2>2. Types'
      BY <1>0, <2>1, Zenon DEF Inv, Types
    <2>3. StunInv' /\ FamilyInv' /\ DeadlineInv'
      BY <1>0, <2>1, StunFrame, FamilyFrame, DeadlineFrame, Zenon DEF Inv
    <2>4. QED
      BY <1>1, <1>2, <2>2, <2>3, Zenon DEF Inv
  <1>5. QED
    BY <1>3, <1>4, Zenon
-----------------------------------------------------------------------------
(* The error paths of the caller: no goroutine of the punch or the relays  *)
(* is running any more and nothing is left open.                           *)
LEMMA FailsInv ==
    ASSUME Inv, stage \notin Over \cup {"discover"}, punch.at # "run", relay.at # "run",
           trace.fail = "none", NEW e \in FailStages, Failed(Fail(trace, e), e),
           open' = {}, expired' = {}, UNCHANGED <<mode, stun, grace, answer, ended>>,
           punch' = punch \/ punch' = [punch EXCEPT !.at = "taken"],
           relay' = relay \/ relay' = [relay EXCEPT !.at = "taken"]
    PROVE  Inv'
  <1>1. /\ OutcomeInv' /\ stage' = "failed" /\ conn' = "none"
        /\ trace' \in Traces /\ err' \in FailStages
    BY FailedOutcome, Zenon
  <1>2. punch \in PunchRecords /\ relay \in RelayRecords
    BY Zenon DEF Inv, Types
  <1>3. /\ punch' \in PunchRecords /\ punch'.at \in {punch.at, "taken"}
        /\ punch'.winner = punch.winner /\ punch'.v4 = punch.v4 /\ punch'.of = punch.of
    BY <1>2, Zenon DEF PunchRecords, Phases
  <1>4. /\ relay' \in RelayRecords /\ relay'.at \in {relay.at, "taken"}
        /\ relay'.winner = relay.winner /\ relay'.of = relay.of
    BY <1>2, Zenon DEF RelayRecords, Phases
  <1>5. Types'
    BY <1>1, <1>3, <1>4, Zenon DEF Inv, Types, Stages
  <1>6. Flags'
    BY Zenon DEF Inv, Flags
  <1>7. StunInv'
    BY <1>1, Zenon DEF Inv, StunInv
  <1>8. FamilyInv'
    BY <1>1, <1>3 DEF Inv, FamilyInv
  <1>9. DeadlineInv'
    BY Zenon DEF DeadlineInv
  <1>10. RelayInv'
    BY <1>1, <1>4, Zenon DEF Inv, RelayInv, Over
  <1>11. QED
    BY <1>1, <1>5, <1>6, <1>7, <1>8, <1>9, <1>10, Zenon DEF Inv

LEMMA OpenStep ==
    ASSUME Inv, OpenFamilies
    PROVE  Inv'
  <1> USE DEF KeepsOutcome
  <1>0. /\ stage = "start" /\ open = {} /\ expired = {} /\ punch.at = "off" /\ relay.at = "off"
        /\ trace.fail = "none" /\ conn = "none" /\ mode # "relayOnly"
        /\ UNCHANGED <<mode, expired, grace, answer, punch, relay, ended>>
    BY ZenonT(60) DEF OpenFamilies, Inv, Types, FamilyInv, RelayInv, OutcomeInv, Over
  <1>1. CASE Failed(Fail(trace, "stun"), "stun") /\ UNCHANGED <<open, stun>>
    BY <1>0, <1>1, FailsInv, Zenon DEF Over, FailStages
  <1>2. ASSUME NEW F \in SUBSET Families, open' = F,
               stun' = [f \in Families |-> IF f \in F THEN [Idle EXCEPT !.at = "check"] ELSE Idle],
               stage' = "discover", UNCHANGED <<conn, err, trace>>
        PROVE  Inv'
    <2>1. /\ [Idle EXCEPT !.at = "check"] \in StunRecords
          /\ Idle \in StunRecords
      BY IdleType, Zenon DEF StunRecords
    <2>2. /\ stun' \in [Families -> StunRecords]
          /\ \A f \in Families : /\ stun'[f].at = IF f \in F THEN "check" ELSE "off"
                                 /\ stun'[f].mapped = <<>> /\ stun'[f].pending = STUNServers
      BY <1>2, <2>1, Zenon DEF Idle
    <2>3. Types'
      BY <1>0, <1>2, <2>2, Zenon DEF Inv, Types, Stages, Sockets
    <2>4. Flags'
      BY <1>0, Zenon DEF Inv, Flags
    <2>5. StunInv'
      <3>1. \A f \in Families : <<>> \in Seq({f} \X (1..STUNServers))
        OBVIOUS
      <3>2. Len(<<>>) + STUNServers <= STUNServers /\ STUNServers > 0
        BY ConstantsAssumption
      <3>3. stage' = "discover"
        BY <1>2, Zenon
      <3>4. QED
        BY <2>2, <3>1, <3>2, <3>3, Zenon DEF StunInv
    <2>6. FamilyInv'
      BY <1>0, <1>2, <2>2 DEF Inv, FamilyInv
    <2>7. DeadlineInv'
      BY <1>0, <1>2, DeadlineFrame, Zenon DEF Inv
    <2>8. RelayInv'
      BY <1>0, <1>2, Names, Zenon DEF Inv, RelayInv, Over
    <2>9. OutcomeInv'
      BY <1>0, <1>2, Zenon DEF Inv, OutcomeInv, Over
    <2>10. QED
      BY <2>3, <2>4, <2>5, <2>6, <2>7, <2>8, <2>9, Zenon DEF Inv
  <1>3. QED
    BY <1>1, <1>2, Zenon DEF OpenFamilies

(* DialRelay starts with nothing joined. *)
LEMMA StartRelayType ==
    ASSUME Inv, relay.at = "off", NEW R \in SUBSET Relays
    PROVE  LET r == StartRelay(R)
           IN  /\ r \in RelayRecords /\ r.at = "run" /\ r.winner = "none"
               /\ \A q \in Relays : r.of[q] \in {"run", "off"}
  BY Zenon DEF Inv, Types, RelayInv, StartRelay, RelayRecords, Phases

LEMMA ConnectStep ==
    ASSUME Inv, Connect
    PROVE  Inv'
  <1> USE DEF KeepsOutcome
  <1>0. /\ stage = "connect" /\ punch.at = "off" /\ relay.at = "off"
        /\ trace.fail = "none" /\ conn = "none" /\ mode # "relayOnly" /\ open \cap Relays = {}
        /\ UNCHANGED <<mode, grace, ended>>
    BY NoRelayYet, Zenon DEF Connect, Inv, FamilyInv, RelayInv, OutcomeInv, Over
  <1>1. CASE /\ Failed(Fail(trace, "rendezvous"), "rendezvous") /\ Close(Families)
             /\ UNCHANGED <<stun, answer, punch, relay>>
    <2>1. open' = {} /\ expired' = {}
      BY <1>0, <1>1, Zenon DEF Close, Inv, Types, Sockets
    <2>2. QED
      BY <1>0, <1>1, <2>1, FailsInv, Zenon DEF Over, FailStages
  <1>2. ASSUME NEW P \in SUBSET Families, NEW R \in SUBSET Relays,
               answer' = [peers |-> P, relays |-> R], punch' = StartPunch,
               stun' = [f \in Families |-> [stun[f] EXCEPT !.mapped = <<>>]],
               \/ stage' = "race" /\ relay' = StartRelay(R)
               \/ stage' = "punch" /\ UNCHANGED relay,
               UNCHANGED <<open, expired, conn, err, trace>>
        PROVE  Inv'
    <2>1. /\ stun' \in [Families -> StunRecords]
          /\ \A f \in Families : stun'[f].at = stun[f].at /\ stun'[f].mapped = <<>>
      <3>1. stun \in [Families -> StunRecords] /\ <<>> \in Seq(Families \X (1..STUNServers))
        BY DEF Inv, Types
      <3>2. QED
        BY <1>2, <3>1, ZenonT(60) DEF StunRecords
    <2>2. /\ punch' \in PunchRecords /\ punch'.at = "run" /\ punch'.winner = "none" /\ ~punch'.v4
          /\ \A f \in Families : punch'.of[f] = IF stun[f].at = "good" THEN "run" ELSE "off"
      BY <1>0, <1>2, Zenon DEF Inv, Types, FamilyInv, StartPunch, Surviving, PunchRecords, Phases
    <2>3. relay' \in RelayRecords
      BY <1>0, <1>2, StartRelayType, Zenon DEF Inv, Types
    <2>4. Types'
      BY <1>0, <1>2, <2>1, <2>2, <2>3, Zenon DEF Inv, Types, Stages
    <2>5. Flags'
      BY <1>0, Zenon DEF Inv, Flags
    <2>6. StunInv'
      <3>1. \A f \in Families : <<>> \in Seq({f} \X (1..STUNServers))
        OBVIOUS
      <3>2. QED
        BY <1>0, <1>2, <2>1, <3>1, Zenon DEF Inv, StunInv
    <2>7. FamilyInv'
      BY <1>0, <1>2, <2>1, <2>2 DEF Inv, FamilyInv
    <2>8. DeadlineInv'
      BY <1>0, <1>2, <2>2, Names, Zenon DEF DeadlineInv
    <2>9. RelayInv'
      <3>1. CASE stage' = "race" /\ relay' = StartRelay(R)
        BY <1>0, <1>2, <3>1, StartRelayType, Names, Zenon DEF RelayInv, Over
      <3>2. CASE stage' = "punch" /\ UNCHANGED relay
        BY <1>0, <1>2, <3>2, Names, Zenon DEF Inv, RelayInv, Over
      <3>3. QED
        BY <1>2, <3>1, <3>2, Zenon
    <2>10. OutcomeInv'
      BY <1>0, <1>2, Zenon DEF Inv, OutcomeInv, Over
    <2>11. QED
      BY <2>4, <2>5, <2>6, <2>7, <2>8, <2>9, <2>10, Zenon DEF Inv
  <1>3. QED
    BY <1>1, <1>2, Zenon DEF Connect

LEMMA RelayOnlyStep ==
    ASSUME Inv, ConnectRelayOnly
    PROVE  Inv'
  <1> USE DEF KeepsOutcome
  <1>0. /\ stage = "start" /\ open = {} /\ expired = {} /\ punch.at = "off" /\ relay.at = "off"
        /\ trace.fail = "none" /\ conn = "none" /\ mode = "relayOnly" /\ punch.winner = "none"
        /\ UNCHANGED <<mode, open, expired, stun, grace, punch, ended>>
    BY ZenonT(60) DEF ConnectRelayOnly, Inv, Types, FamilyInv, RelayInv, OutcomeInv, Over
  <1>1. ASSUME NEW e \in {"stun", "rendezvous", "candidate"}, Failed(Fail(trace, e), e),
               UNCHANGED <<answer, relay>>
        PROVE  Inv'
    BY <1>0, <1>1, FailsInv, Zenon DEF Over, FailStages
  <1>2. ASSUME NEW P \in SUBSET Families, NEW R \in SUBSET Relays,
               answer' = [peers |-> P, relays |-> R], relay' = StartRelay(R),
               stage' = "relay", UNCHANGED <<conn, err, trace>>
        PROVE  Inv'
    <2>1. Types'
      BY <1>0, <1>2, StartRelayType, Zenon DEF Inv, Types, Stages
    <2>2. Flags'
      BY <1>0, Zenon DEF Inv, Flags
    <2>3. StunInv'
      BY <1>0, <1>2, Zenon DEF Inv, StunInv
    <2>4. FamilyInv'
      BY <1>0, <1>2, Names, Zenon DEF Inv, FamilyInv
    <2>5. DeadlineInv'
      BY <1>0, <1>2, DeadlineFrame, Zenon DEF Inv
    <2>6. RelayInv'
      BY <1>0, <1>2, StartRelayType, Names, Zenon DEF RelayInv, Over
    <2>7. OutcomeInv'
      BY <1>0, <1>2, Zenon DEF Inv, OutcomeInv, Over
    <2>8. QED
      BY <2>1, <2>2, <2>3, <2>4, <2>5, <2>6, <2>7, Zenon DEF Inv
  <1>3. QED
    BY <1>1, <1>2, Zenon DEF ConnectRelayOnly
-----------------------------------------------------------------------------
(* squic.Punch on one family. *)
LEMMA PunchOneSteps ==
    ASSUME Inv, NEW f \in Families, PunchOK(f) \/ PunchError(f)
    PROVE  Inv'
  <1> USE DEF KeepsOutcome
  <1>0. /\ punch.of[f] = "run" /\ expired' \subseteq expired
        /\ UNCHANGED <<mode, stage, open, stun, grace, answer, relay, ended, conn, err, trace>>
    BY Zenon DEF PunchOK, PunchError, ClearsDeadline
  <1>1. PICK a \in {"ok", "err"} : /\ punch' = [punch EXCEPT !.of[f] = a]
                                   /\ a = "ok" => f \notin expired'
    BY Zenon DEF PunchOK, PunchError, ClearsDeadline
  <1>2. punch \in PunchRecords
    BY Zenon DEF Inv, Types
  <1>3. /\ punch' \in PunchRecords /\ punch'.at = punch.at /\ punch'.winner = punch.winner
        /\ punch'.v4 = punch.v4
        /\ \A g \in Families : punch'.of[g] = IF g = f THEN a ELSE punch.of[g]
    <2> DEFINE o == [punch.of EXCEPT ![f] = a]
    <2>1. /\ o \in [Families -> Phases]
          /\ \A g \in Families : o[g] = IF g = f THEN a ELSE punch.of[g]
      BY <1>2, Zenon DEF PunchRecords, Phases
    <2>2. punch' = [punch EXCEPT !.of = o]
      BY <1>1, Zenon
    <2> HIDE DEF o
    <2>3. QED
      BY <1>2, <2>1, <2>2, Zenon DEF PunchRecords
  <1>5. Types'
    BY <1>0, <1>3, Zenon DEF Inv, Types
  <1>6. Flags'
    BY <1>0, Zenon DEF Inv, Flags
  <1>7. StunInv' /\ RelayInv' /\ OutcomeInv'
    BY <1>0, StunFrame, RelayFrame, OutcomeFrame, Zenon DEF Inv
  <1>8. FamilyInv'
    BY <1>0, <1>3 DEF Inv, FamilyInv
  <1>9. DeadlineInv'
    <2>1. a = "ok" => f \notin expired'
      BY <1>1, Zenon
    <2>2. QED
      BY <1>0, <1>3, <2>1, Zenon DEF Inv, DeadlineInv
  <1>10. QED
    BY <1>5, <1>6, <1>7, <1>8, <1>9, Zenon DEF Inv

(* racePunch hands over a family that has punched through, and closes the  *)
(* others; or a result is put aside; or all families have failed.          *)
LEMMA PunchWonInv ==
    ASSUME Inv, NEW f \in Families, punch.at = "run", stun[f].at = "good", f \notin expired,
           PunchWon(f), UNCHANGED <<mode, stage, stun, grace, answer, relay, ended, conn, err, trace>>
    PROVE  Inv'
  <1>1. punch \in PunchRecords
    BY Zenon DEF Inv, Types
  <1>2. /\ punch' \in PunchRecords /\ punch'.at = "ok" /\ punch'.winner = f /\ punch'.v4 = punch.v4
        /\ \A g \in Families : punch'.of[g] = IF g = f THEN "taken" ELSE punch.of[g]
    BY <1>1, Zenon DEF PunchWon, PunchRecords, Phases
  <1>3. /\ stage \in {"punch", "race", "drainPunch"}
        /\ \A g \in Families : g \in open <=> stun[g].at = "good"
    BY Zenon DEF Inv, FamilyInv
  <1>4. /\ open' = open \ (Surviving \ {f}) /\ expired' = expired \ (Surviving \ {f})
        /\ Surviving \subseteq Families
    BY Zenon DEF PunchWon, Close, Surviving
  <1>5. \A g \in Families : g \in open' <=> g = f
    BY <1>3, <1>4, Zenon DEF Surviving
  <1>6. Types'
    BY <1>2, <1>4, Zenon DEF Inv, Types
  <1>7. Flags'
    BY Zenon DEF Inv, Flags
  <1>8. StunInv'
    BY StunFrame, Zenon DEF Inv
  <1>9. RelayInv'
    BY <1>4, Names, RelayFrame, Zenon DEF Inv
  <1>10. OutcomeInv'
    BY <1>3, OutcomeFrame, Zenon DEF Inv, Over
  <1>11. FamilyInv'
    BY <1>2, <1>3, <1>5, Names, Zenon DEF Inv, FamilyInv
  <1>12. DeadlineInv'
    BY <1>2, <1>4, Zenon DEF Inv, DeadlineInv
  <1>13. QED
    BY <1>6, <1>7, <1>8, <1>9, <1>10, <1>11, <1>12, Zenon DEF Inv

LEMMA PunchTakeStep ==
    ASSUME Inv, NEW f \in Families, PunchTake(f)
    PROVE  Inv'
  <1> USE DEF KeepsOutcome
  <1> DEFINE rest == \E g \in Families \ {f} : punch.of[g] \in {"run", "ok", "err"}
             took == [punch EXCEPT !.of[f] = "taken"]
  <1>0. /\ punch.at = "run" /\ punch.of[f] \in {"ok", "err"} /\ punch \in PunchRecords
        /\ UNCHANGED <<mode, stage, stun, grace, answer, relay, ended, conn, err, trace>>
    BY Zenon DEF PunchTake, Inv, Types
  <1>1. /\ stun[f].at = "good" /\ punch.winner = "none" /\ stage \in {"punch", "race", "drainPunch"}
        /\ \A g \in Families : g \in open <=> stun[g].at = "good"
    BY <1>0, Zenon DEF Inv, FamilyInv
  <1>2. punch.of[f] = "ok" => f \notin expired
    BY Zenon DEF Inv, DeadlineInv
  <1>3. punch.v4 => stun["v4"].at = "good" /\ "v4" \notin expired
    BY Zenon DEF Inv, FamilyInv, DeadlineInv
  <1>4. CASE PunchWon(f) /\ punch.of[f] = "ok"
    BY <1>0, <1>1, <1>2, <1>4, PunchWonInv, Zenon
  <1>5. CASE PunchWon("v4") /\ punch.v4
    BY <1>0, <1>3, <1>5, PunchWonInv, Zenon DEF Families
  <1>6. /\ took \in PunchRecords /\ took.at = "run" /\ took.winner = "none" /\ took.v4 = punch.v4
        /\ \A g \in Families : took.of[g] = IF g = f THEN "taken" ELSE punch.of[g]
    BY <1>0, <1>1, Zenon DEF PunchRecords, Phases
  <1> HIDE DEF took
  <1>7. ASSUME UNCHANGED <<open, expired>>,
               punch' = took \/ (punch.of[f] = "ok" /\ f = "v4" /\ punch' = [took EXCEPT !.v4 = TRUE])
        PROVE  Inv'
    <2>1. /\ punch' \in PunchRecords /\ punch'.at = "run" /\ punch'.winner = "none"
          /\ punch'.of = took.of
          /\ punch'.v4 => punch.v4 \/ (punch.of[f] = "ok" /\ f = "v4")
      BY <1>6, <1>7, Zenon DEF PunchRecords
    <2>2. Types'
      BY <1>0, <1>7, <2>1, Zenon DEF Inv, Types
    <2>3. Flags'
      BY <1>0, Zenon DEF Inv, Flags
    <2>4. StunInv' /\ RelayInv' /\ OutcomeInv'
      BY <1>0, <1>7, StunFrame, RelayFrame, OutcomeFrame, Zenon DEF Inv
    <2>5. FamilyInv'
      BY <1>0, <1>1, <1>3, <1>6, <1>7, <2>1 DEF Inv, FamilyInv
    <2>6. DeadlineInv'
      BY <1>0, <1>2, <1>3, <1>6, <1>7, <2>1, Names DEF Inv, DeadlineInv
    <2>7. QED
      BY <2>2, <2>3, <2>4, <2>5, <2>6, Zenon DEF Inv
  <1>8. CASE punch' = [took EXCEPT !.at = "err"] /\ Close(Surviving)
    <2>1. /\ punch' \in PunchRecords /\ punch'.at = "err" /\ punch'.winner = "none"
          /\ punch'.of = took.of /\ punch'.v4 = punch.v4
      BY <1>6, <1>8, Zenon DEF PunchRecords, Phases
    <2>2. open' = open \ Surviving /\ expired' = expired \ Surviving /\ Surviving \subseteq Families
      BY <1>8, Zenon DEF Close, Surviving
    <2>3. \A g \in Families : g \notin open'
      BY <1>1, <2>2, Zenon DEF Surviving
    <2>4. Types'
      BY <1>0, <2>1, <2>2, Zenon DEF Inv, Types
    <2>5. Flags'
      BY <1>0, Zenon DEF Inv, Flags
    <2>6. StunInv'
      BY <1>0, StunFrame, Zenon DEF Inv
    <2>7. RelayInv'
      BY <1>0, <2>2, Names, RelayFrame, Zenon DEF Inv
    <2>8. OutcomeInv'
      BY <1>0, <1>1, OutcomeFrame, Zenon DEF Inv, Over
    <2>9. FamilyInv'
      BY <1>0, <1>1, <1>6, <2>1, <2>3, Names DEF Inv, FamilyInv
    <2>10. DeadlineInv'
      BY <1>0, <1>6, <2>1, <2>2, Names, Zenon DEF Inv, DeadlineInv
    <2>11. QED
      BY <2>4, <2>5, <2>6, <2>7, <2>8, <2>9, <2>10, Zenon DEF Inv
  <1>9. QED
    <2>1. \/ PunchWon(f) /\ punch.of[f] = "ok"
          \/ /\ punch.of[f] = "ok" /\ f = "v4"
             /\ punch' = [took EXCEPT !.v4 = TRUE] /\ UNCHANGED <<open, expired>>
          \/ PunchWon("v4") /\ punch.v4
          \/ punch' = took /\ UNCHANGED <<open, expired>>
          \/ punch' = [took EXCEPT !.at = "err"] /\ Close(Surviving)
      BY Zenon DEF PunchTake, took
    <2>2. QED
      BY <2>1, <1>4, <1>5, <1>7, <1>8, Zenon

LEMMA PunchGraceStep ==
    ASSUME Inv, PunchGrace
    PROVE  Inv'
  <1> USE DEF KeepsOutcome
  <1>1. stun["v4"].at = "good" /\ "v4" \notin expired
    BY Zenon DEF PunchGrace, Inv, FamilyInv, DeadlineInv
  <1>2. QED
    BY <1>1, PunchWonInv, Zenon DEF PunchGrace, Families
-----------------------------------------------------------------------------
(* The goroutines that watch a join set deadlines on relay sockets only.   *)
LEMMA WatchSteps ==
    ASSUME Inv, NEW r \in Relays, Watch(r)
    PROVE  Inv'
  <1> USE DEF KeepsOutcome
  <1>0. /\ UNCHANGED <<mode, stage, open, stun, grace, answer, punch, ended, conn, err, trace>>
        /\ expired' \subseteq expired \cup ({r} \cap open)
    BY Zenon DEF Watch, WatcherWakes, WatcherExits, WatcherFires
  <1>1. PICK w \in {"off", "fires"} : relay' = [relay EXCEPT !.watcher[r] = w]
    BY Zenon DEF Watch, WatcherWakes, WatcherExits, WatcherFires
  <1>2. /\ relay' \in RelayRecords /\ relay'.at = relay.at /\ relay'.winner = relay.winner
        /\ relay'.of = relay.of
    BY <1>1, Zenon DEF Inv, Types, RelayRecords
  <1>3. Types'
    BY <1>0, <1>2, Zenon DEF Inv, Types
  <1>4. Flags'
    BY <1>0, Zenon DEF Inv, Flags
  <1>5. StunInv' /\ FamilyInv' /\ OutcomeInv'
    BY <1>0, StunFrame, FamilyFrame, OutcomeFrame, Zenon DEF Inv
  <1>6. DeadlineInv'
    <2>1. expired' \subseteq expired \cup Relays
      BY <1>0, Zenon
    <2>2. QED
      BY <1>0, <2>1, DeadlineFrame, Zenon DEF Inv
  <1>7. RelayInv'
    BY <1>0, <1>2, Zenon DEF Inv, RelayInv
  <1>8. QED
    BY <1>3, <1>4, <1>5, <1>6, <1>7, Zenon DEF Inv

(* dialRelayOne has its socket open from the listen to its error, and      *)
(* leaves it open when it has joined.                                      *)
LEMMA JoinSteps ==
    ASSUME Inv, NEW r \in Relays, RelayListen(r) \/ RelayJoined(r) \/ RelayError(r)
    PROVE  Inv'
  <1> USE DEF KeepsOutcome
  <1>0. /\ relay.of[r] = "run"
        /\ UNCHANGED <<mode, stage, stun, grace, answer, punch, ended, conn, err, trace>>
    BY Zenon DEF RelayListen, RelayJoined, RelayError
  <1>1. relay \in RelayRecords /\ relay.at = "run" /\ stage \notin Over
    BY <1>0, Zenon DEF Inv, Types, RelayInv
  <1>2. ASSUME NEW a \in Phases, NEW w, relay' = [relay EXCEPT !.of[r] = a, !.watcher = w],
               w \in [Relays -> {"off", "waits", "fires"}],
               open' \ {r} = open \ {r}, open' \subseteq Sockets, expired' \subseteq expired,
               expired' \subseteq open',
               a = "run" \/ (a = "ok" /\ r \in open') \/ (a = "err" /\ r \notin open')
        PROVE  Inv'
    <2> DEFINE o == [relay.of EXCEPT ![r] = a]
    <2>1. /\ o \in [Relays -> Phases]
          /\ \A q \in Relays : o[q] = IF q = r THEN a ELSE relay.of[q]
      BY <1>1, <1>2, Zenon DEF RelayRecords
    <2>2. relay' = [relay EXCEPT !.of = o, !.watcher = w]
      BY <1>2, Zenon
    <2> HIDE DEF o
    <2>3. relay' \in RelayRecords /\ relay'.at = "run" /\ relay'.winner = relay.winner /\ relay'.of = o
      BY <1>1, <1>2, <2>1, <2>2, Zenon DEF RelayRecords
    <2>4. Types'
      BY <1>0, <1>2, <2>3, Zenon DEF Inv, Types
    <2>5. Flags'
      BY <1>0, Zenon DEF Inv, Flags
    <2>6. StunInv' /\ DeadlineInv' /\ OutcomeInv'
      BY <1>0, <1>1, <1>2, StunFrame, DeadlineFrame, OutcomeFrame, Zenon DEF Inv
    <2>7. FamilyInv'
      <3>1. open' \cap Families = open \cap Families
        BY <1>2, Names, Zenon
      <3>2. stage # "start"
        BY <1>1, Zenon DEF Inv, RelayInv
      <3>3. QED
        BY <1>0, <3>1, <3>2, FamilyFrame, Zenon DEF Inv
    <2>8. RelayInv'
      <3>1. r # relay.winner
        BY <1>0, <1>1, Zenon DEF Inv, RelayInv
      <3>2. \A q \in Relays \ {r} : q \in open' <=> q \in open
        BY <1>2, Zenon
      <3>3. a = "run" \/ (a = "ok" /\ r \in open') \/ (a = "err" /\ r \notin open')
        BY <1>2, Zenon
      <3>4. QED
        BY <1>0, <1>1, <2>1, <2>3, <3>1, <3>2, <3>3, Zenon DEF Inv, RelayInv
    <2>9. QED
      BY <2>4, <2>5, <2>6, <2>7, <2>8, Zenon DEF Inv
  <1>3. CASE RelayListen(r)
    <2>1. expired' = expired /\ expired \subseteq open /\ open \cup {r} \subseteq Sockets
      BY <1>3, Zenon DEF RelayListen, Inv, Types, Sockets
    <2>2. CASE relay' = [relay EXCEPT !.watcher[r] = "waits"] /\ open' = open \cup {r}
      <3> DEFINE w == [relay.watcher EXCEPT ![r] = "waits"]
      <3>1. w \in [Relays -> {"off", "waits", "fires"}]
        BY <1>1, Zenon DEF RelayRecords
      <3>2. relay' = [relay EXCEPT !.of[r] = "run", !.watcher = w]
        BY <1>0, <1>1, <2>2, Zenon DEF RelayRecords
      <3> HIDE DEF w
      <3>3. /\ open' \ {r} = open \ {r} /\ open' \subseteq Sockets /\ expired' \subseteq expired
            /\ expired' \subseteq open' /\ "run" \in Phases
        BY <2>1, <2>2, Zenon DEF Phases
      <3>4. QED
        BY <1>2, <3>1, <3>2, <3>3, Zenon
    <2>3. CASE relay' = [relay EXCEPT !.of[r] = "err"] /\ UNCHANGED open
      <3>1. relay' = [relay EXCEPT !.of[r] = "err", !.watcher = relay.watcher]
        BY <1>1, <2>3, Zenon DEF RelayRecords
      <3>2. relay.watcher \in [Relays -> {"off", "waits", "fires"}] /\ r \notin open
        BY <1>1, <1>3, Zenon DEF RelayRecords, RelayListen
      <3>3. QED
        BY <1>2, <2>1, <2>3, <3>1, <3>2, Zenon DEF Phases
    <2>4. QED
      BY <1>3, <2>2, <2>3, Zenon DEF RelayListen
  <1>4. CASE RelayJoined(r) \/ RelayError(r)
    <2>1. PICK a \in {"ok", "err"} : relay' = [relay EXCEPT !.of[r] = a, !.watcher = relay.watcher]
                                    /\ (a = "ok" => r \in open') /\ (a = "err" => r \notin open')
      <3>1. CASE RelayJoined(r)
        BY <1>1, <3>1, Zenon DEF RelayJoined, RelayRecords
      <3>2. CASE RelayError(r)
        BY <1>1, <3>2, Zenon DEF RelayError, Close, RelayRecords
      <3>3. QED
        BY <1>4, <3>1, <3>2, Zenon
    <2>2. /\ open' \ {r} = open \ {r} /\ open' \subseteq Sockets /\ expired' \subseteq expired
          /\ expired' \subseteq open'
      BY <1>4, Zenon DEF RelayJoined, RelayError, Close, Inv, Types
    <2>3. relay.watcher \in [Relays -> {"off", "waits", "fires"}]
      BY <1>1, Zenon DEF RelayRecords
    <2>4. a \in Phases
      BY Zenon DEF Phases
    <2>5. a = "run" \/ (a = "ok" /\ r \in open') \/ (a = "err" /\ r \notin open')
      BY <2>1, Zenon
    <2>6. relay' = [relay EXCEPT !.of[r] = a, !.watcher = relay.watcher]
      BY <2>1, Zenon
    <2>7. QED
      BY <1>2, <2>2, <2>3, <2>4, <2>5, <2>6, Zenon
  <1>5. QED
    BY <1>3, <1>4, Zenon

(* DialRelay keeps the first socket that has joined and closes the others. *)
LEMMA RelayTakeStep ==
    ASSUME Inv, NEW r \in Relays, RelayTake(r)
    PROVE  Inv'
  <1> USE DEF KeepsOutcome
  <1> DEFINE won == IF relay.of[r] = "ok" /\ relay.winner = "none" THEN r ELSE relay.winner
             last == \A q \in Relays \ {r} : relay.of[q] \in {"off", "taken"}
             at == IF ~last THEN "run" ELSE IF won = "none" THEN "err" ELSE "ok"
             o == [relay.of EXCEPT ![r] = "taken"]
  <1>0. /\ relay.at = "run" /\ relay.of[r] \in {"ok", "err"} /\ ClosesSecond(r)
        /\ relay' = [relay EXCEPT !.of = o, !.winner = won, !.at = at]
        /\ UNCHANGED <<mode, stage, stun, grace, answer, punch, ended, conn, err, trace>>
    BY Zenon DEF RelayTake
  <1>1. relay \in RelayRecords /\ stage \notin Over
    BY <1>0, Zenon DEF Inv, Types, RelayInv
  <1>2. /\ o \in [Relays -> Phases]
        /\ \A q \in Relays : o[q] = IF q = r THEN "taken" ELSE relay.of[q]
    BY <1>1, Zenon DEF RelayRecords, Phases
  <1>3. won \in Relays \cup {"none"} /\ at \in {"run", "err", "ok"}
    BY <1>1, Zenon DEF RelayRecords
  <1>4. /\ at = "err" => won = "none"
        /\ at = "ok" => won # "none"
        /\ at # "run" => last
    BY Zenon
  <1>5. \/ relay.of[r] = "ok" /\ relay.winner = "none" /\ won = r
        \/ (relay.of[r] = "err" \/ relay.winner # "none") /\ won = relay.winner
    BY <1>0, Zenon
  <1> HIDE DEF won, at, o
  <1>6. relay' \in RelayRecords /\ relay'.at = at /\ relay'.winner = won /\ relay'.of = o
    BY <1>0, <1>1, <1>2, <1>3, Zenon DEF RelayRecords, Phases
  <1>7. /\ open' \subseteq open /\ expired' \subseteq expired /\ expired' \subseteq open'
        /\ open' \ {r} = open \ {r}
        /\ r \in open' <=> r \in open /\ ~(relay.of[r] = "ok" /\ relay.winner # "none")
    BY <1>0, Zenon DEF ClosesSecond, Close, Inv, Types
  <1>8. Types'
    BY <1>0, <1>6, <1>7, Zenon DEF Inv, Types
  <1>9. Flags'
    BY <1>0, Zenon DEF Inv, Flags
  <1>10. StunInv' /\ DeadlineInv' /\ OutcomeInv'
    BY <1>0, <1>1, <1>7, StunFrame, DeadlineFrame, OutcomeFrame, Zenon DEF Inv
  <1>11. FamilyInv'
    <2>1. open' \cap Families = open \cap Families
      BY <1>7, Names, Zenon
    <2>2. stage # "start"
      BY <1>0, Zenon DEF Inv, RelayInv
    <2>3. QED
      BY <1>0, <2>1, <2>2, FamilyFrame, Zenon DEF Inv
  <1>12. RelayInv'
    <2>1. stage \in {"race", "drainRelay", "relay"}
      BY <1>0, <1>1, Zenon DEF Inv, Types, RelayInv, Stages, Over
    <2>2. \A q \in Relays : /\ relay.of[q] = "ok" => q \in open
                            /\ q \in open => relay.of[q] \in {"run", "ok"} \/ q = relay.winner
                            /\ q = relay.winner => q \in open /\ relay.of[q] = "taken"
      BY <1>1, Zenon DEF Inv, RelayInv
    <2>3. \A q \in Relays : /\ o[q] = "ok" => q \in open'
                            /\ q \in open' => o[q] \in {"run", "ok"} \/ q = won
                            /\ q = won => q \in open' /\ o[q] = "taken"
      BY <1>0, <1>2, <1>5, <1>7, <2>2, Names, ZenonT(60)
    <2>4. at # "run" => \A q \in Relays : o[q] \in {"off", "taken"}
      BY <1>2, <1>4, Zenon
    <2>5. QED
      BY <1>0, <1>1, <1>3, <1>4, <1>6, <2>1, <2>3, <2>4, Zenon DEF RelayInv, Over
  <1>13. QED
    BY <1>8, <1>9, <1>10, <1>11, <1>12, Zenon DEF Inv
-----------------------------------------------------------------------------
(* The caller has a socket: every other one is closed, and the race and    *)
(* DialRelay are over.                                                     *)
LEMMA ReturnsInv ==
    ASSUME Inv, stage \in {"punch", "drainPunch", "drainRelay", "relay"},
           NEW s \in Sockets, NEW t \in Traces, Returns(t, s),
           open' = {s}, expired' \subseteq expired, expired' \subseteq open', s \in Families => s \notin expired,
           punch.at # "run", relay.at # "run",
           t.sent = 0, ~t.tunnel, t.relayUsed <=> s \in Relays, t.fail = trace.fail,
           stage = "relay" => s \in Relays,
           UNCHANGED <<mode, stun, grace, answer, ended>>,
           punch' = punch \/ punch' = [punch EXCEPT !.at = "taken"],
           relay' = relay \/ relay' = [relay EXCEPT !.at = "taken"]
    PROVE  Inv'
  <1>1. stage' = "wrap" /\ conn' = s /\ err' = "none" /\ trace' = t
    BY Zenon DEF Returns
  <1>2. punch \in PunchRecords /\ relay \in RelayRecords
    BY Zenon DEF Inv, Types
  <1>3. /\ punch' \in PunchRecords /\ punch'.at \in {punch.at, "taken"}
        /\ punch'.winner = punch.winner /\ punch'.v4 = punch.v4 /\ punch'.of = punch.of
    BY <1>2 DEF PunchRecords, Phases
  <1>4. /\ relay' \in RelayRecords /\ relay'.at \in {relay.at, "taken"}
        /\ relay'.winner = relay.winner /\ relay'.of = relay.of
    BY <1>2, ZenonT(60) DEF RelayRecords, Phases
  <1>5. Types'
    BY <1>1, <1>3, <1>4, Zenon DEF Inv, Types, Stages
  <1>6. Flags'
    BY Zenon DEF Inv, Flags
  <1>7. StunInv'
    BY <1>1, Zenon DEF Inv, StunInv
  <1>8. FamilyInv'
    BY <1>1, <1>3 DEF Inv, FamilyInv
  <1>9. DeadlineInv'
    BY <1>1, <1>3, Zenon DEF Inv, DeadlineInv
  <1>10. RelayInv'
    BY <1>1, <1>4, Zenon DEF Inv, RelayInv, Over
  <1>11. OutcomeInv'
    <2>1. s # "none"
      BY Names, Zenon DEF Sockets
    <2>2. trace.fail # "none" => stage = "relay" /\ trace.fail \in {"punch", "candidate"}
      BY Zenon DEF Inv, OutcomeInv, Over
    <2>3. QED
      BY <1>1, <2>1, <2>2, Zenon DEF OutcomeInv, Over
  <1>12. QED
    BY <1>5, <1>6, <1>7, <1>8, <1>9, <1>10, <1>11, Zenon DEF Inv

(* What is open once both sides are settled: the winners of the two. *)
LEMMA SettledOpen ==
    ASSUME Inv, stage \in {"punch", "race", "drainPunch", "drainRelay", "relay"}, punch.at # "run",
           relay.at # "run"
    PROVE  open = ({punch.winner} \cup {relay.winner}) \ {"none"}
  <1>1. \A f \in Families : f \in open <=> f = punch.winner
    BY Zenon DEF Inv, FamilyInv
  <1>2. \A r \in Relays : r \in open <=> r = relay.winner
    BY Zenon DEF Inv, RelayInv, Over
  <1>3. punch.winner \in Families \cup {"none"} /\ relay.winner \in Relays \cup {"none"}
    BY Zenon DEF Inv, Types, PunchRecords, RelayRecords
  <1>4. open \subseteq Families \cup Relays
    BY Zenon DEF Inv, Types, Sockets
  <1>5. QED
    BY <1>1, <1>2, <1>3, <1>4, Names, Zenon

(* A dial that goes on with the same trace, or records the relay. *)
LEMMA TraceKept ==
    ASSUME Inv, stage \notin Over
    PROVE  /\ trace \in Traces /\ trace.sent = 0 /\ ~trace.tunnel /\ ~trace.relayUsed
           /\ LET t == RelayEstablished(trace)
              IN  t \in Traces /\ t.sent = 0 /\ ~t.tunnel /\ t.relayUsed /\ t.fail = trace.fail
  <1>1. trace \in Traces /\ trace.sent = 0 /\ ~trace.tunnel /\ ~trace.relayUsed
    BY Zenon DEF Inv, Types, OutcomeInv, Over
  <1>2. QED
    BY <1>1, Zenon DEF RelayEstablished, Traces

LEMMA DrainSteps ==
    ASSUME Inv, DrainRelay \/ DrainPunch
    PROVE  Inv'
  <1>1. CASE DrainRelay
    <2>1. /\ stage = "drainRelay" /\ relay.at \in {"ok", "err", "taken"}
          /\ relay' = [relay EXCEPT !.at = "taken"]
          /\ Close(IF relay.at = "ok" THEN {relay.winner} ELSE {})
          /\ Returns(trace, punch.winner)
          /\ UNCHANGED <<mode, stun, grace, answer, punch, ended>>
      BY <1>1, Zenon DEF DrainRelay, RelaySettled
    <2>2. /\ punch.at = "taken" /\ punch.winner \in Families /\ punch.winner \notin expired
          /\ relay.at = "ok" \/ relay.winner = "none"
          /\ relay.winner \in Relays \cup {"none"}
      BY <2>1, Zenon DEF Inv, Types, FamilyInv, DeadlineInv, RelayInv, PunchRecords, RelayRecords
    <2>3. open = ({punch.winner} \cup {relay.winner}) \ {"none"}
      BY <2>1, <2>2, SettledOpen, Zenon
    <2>4. open' = {punch.winner} /\ expired' \subseteq expired /\ expired' \subseteq open'
      BY <2>1, <2>2, <2>3, Names, Zenon DEF Close, Inv, Types
    <2>5. punch.winner \in Sockets /\ punch.winner \notin Relays
      BY <2>2, Names, Zenon DEF Sockets
    <2>6. QED
      BY <2>1, <2>2, <2>4, <2>5, TraceKept, ReturnsInv, Zenon DEF Over
  <1>2. CASE DrainPunch
    <2>1. /\ stage = "drainPunch" /\ punch.at \in {"ok", "err", "taken"}
          /\ punch' = [punch EXCEPT !.at = "taken"]
          /\ Close(PunchedAnyway)
          /\ Returns(RelayEstablished(trace), relay.winner)
          /\ UNCHANGED <<mode, stun, grace, answer, relay, ended>>
      BY <1>2, Zenon DEF DrainPunch
    <2>2. /\ relay.at = "taken" /\ relay.winner \in Relays
          /\ punch.winner \in Families \cup {"none"}
      BY <2>1, Zenon DEF Inv, Types, RelayInv, PunchRecords, RelayRecords
    <2>3. open = ({punch.winner} \cup {relay.winner}) \ {"none"}
      BY <2>1, <2>2, SettledOpen, Zenon
    <2>4. open' = {relay.winner} /\ expired' \subseteq expired /\ expired' \subseteq open'
      BY <2>1, <2>2, <2>3, Names, Zenon DEF Close, PunchedAnyway, Inv, Types
    <2>5. relay.winner \in Sockets /\ relay.winner \notin Families
      BY <2>2, Names, Zenon DEF Sockets
    <2>6. QED
      BY <2>1, <2>2, <2>4, <2>5, TraceKept, ReturnsInv, Zenon DEF Over
  <1>3. QED
    BY <1>1, <1>2, Zenon

LEMMA ReturnSteps ==
    ASSUME Inv, PunchReturns \/ RelayReturns
    PROVE  Inv'
  <1>1. CASE PunchReturns
    <2>1. /\ stage = "punch" /\ punch.at = "ok" /\ Returns(trace, punch.winner)
          /\ UNCHANGED <<mode, open, expired, stun, grace, answer, punch, relay, ended>>
      BY <1>1, Zenon DEF PunchReturns
    <2>2. /\ punch.winner \in Families /\ punch.winner \notin expired
          /\ relay.at = "off" /\ relay.winner = "none"
      BY <2>1, Zenon DEF Inv, Types, FamilyInv, DeadlineInv, RelayInv, PunchRecords
    <2>3. open = {punch.winner} /\ expired \subseteq open
      BY <2>1, <2>2, SettledOpen, Names, Zenon DEF Inv, Types
    <2>4. punch.winner \in Sockets /\ punch.winner \notin Relays
      BY <2>2, Names, Zenon DEF Sockets
    <2>5. QED
      BY <2>1, <2>2, <2>3, <2>4, TraceKept, ReturnsInv, Zenon DEF Over
  <1>2. CASE RelayReturns
    <2>1. /\ stage = "relay" /\ relay.at = "ok" /\ Returns(RelayEstablished(trace), relay.winner)
          /\ UNCHANGED <<mode, open, expired, stun, grace, answer, punch, relay, ended>>
      BY <1>2, Zenon DEF RelayReturns
    <2>2. /\ punch.at # "run" /\ punch.winner = "none" /\ relay.winner \in Relays
      BY <2>1, Zenon DEF Inv, Types, FamilyInv, RelayInv, RelayRecords
    <2>3. open = {relay.winner} /\ expired \subseteq open
      BY <2>1, <2>2, SettledOpen, Names, Zenon DEF Inv, Types
    <2>4. relay.winner \in Sockets /\ relay.winner \notin Families
      BY <2>2, Names, Zenon DEF Sockets
    <2>5. QED
      BY <2>1, <2>2, <2>3, <2>4, TraceKept, ReturnsInv, Zenon DEF Over
  <1>3. QED
    BY <1>1, <1>2, Zenon

(* racePunchAndRelay takes the result of one side. *)
LEMMA RaceSteps ==
    ASSUME Inv, RacePunch \/ RaceRelay
    PROVE  Inv'
  <1> USE DEF KeepsOutcome
  <1>0. /\ stage = "race" /\ trace.fail = "none" /\ conn = "none" /\ mode # "relayOnly"
        /\ UNCHANGED <<mode, open, expired, stun, grace, answer, ended>>
    BY Zenon DEF RacePunch, RaceRelay, Inv, OutcomeInv, Over
  <1>1. punch \in PunchRecords /\ relay \in RelayRecords
    BY Zenon DEF Inv, Types
  <1>2. ASSUME punch.at # "run", relay.at # "run", punch.winner = "none", relay.winner = "none"
        PROVE  open = {} /\ expired = {}
    BY <1>0, <1>2, SettledOpen, Zenon DEF Inv, Types
  <1>3. CASE RacePunch
    <2>1. /\ punch.at \in {"ok", "err"} /\ punch' = [punch EXCEPT !.at = "taken"] /\ relay' = relay
          /\ \/ punch.at = "ok" /\ stage' = "drainRelay" /\ UNCHANGED <<conn, err, trace>>
             \/ punch.at = "err" /\ relay.at = "taken" /\ Failed(Fail(trace, "punch"), "punch")
             \/ punch.at = "err" /\ stage' = "race" /\ UNCHANGED <<conn, err, trace>>
      BY <1>0, <1>3, Zenon DEF RacePunch
    <2>2. /\ punch' \in PunchRecords /\ punch'.at = "taken" /\ punch'.winner = punch.winner
          /\ punch'.v4 = punch.v4 /\ punch'.of = punch.of
      BY <1>1, <2>1, Zenon DEF PunchRecords, Phases
    <2>3. CASE punch.at = "err" /\ relay.at = "taken" /\ Failed(Fail(trace, "punch"), "punch")
      <3>1. punch.winner = "none" /\ relay.winner = "none"
        BY <1>0, <2>3, Zenon DEF Inv, FamilyInv, RelayInv
      <3>2. QED
        BY <1>0, <1>2, <2>1, <2>3, <3>1, FailsInv, Zenon DEF Over, FailStages
    <2>4. ASSUME \/ punch.at = "ok" /\ stage' = "drainRelay"
                 \/ punch.at = "err" /\ stage' = "race",
                 UNCHANGED <<conn, err, trace>>
          PROVE  Inv'
      <3>1. Types'
        BY <1>0, <2>1, <2>2, <2>4, Zenon DEF Inv, Types, Stages
      <3>2. Flags'
        BY <1>0, Zenon DEF Inv, Flags
      <3>3. StunInv'
        BY <1>0, <2>4, Zenon DEF Inv, StunInv
      <3>4. FamilyInv'
        BY <1>0, <2>1, <2>2, <2>4 DEF Inv, FamilyInv
      <3>5. DeadlineInv'
        BY <1>0, <2>2, <2>4, Zenon DEF Inv, DeadlineInv
      <3>6. RelayInv'
        BY <1>0, <2>1, <2>4, Zenon DEF Inv, RelayInv, Over
      <3>7. OutcomeInv'
        BY <1>0, <2>4, Zenon DEF Inv, OutcomeInv, Over
      <3>8. QED
        BY <3>1, <3>2, <3>3, <3>4, <3>5, <3>6, <3>7, Zenon DEF Inv
    <2>5. QED
      BY <2>1, <2>3, <2>4, Zenon
  <1>4. CASE RaceRelay
    <2>1. /\ relay.at \in {"ok", "err"} /\ relay' = [relay EXCEPT !.at = "taken"] /\ punch' = punch
          /\ \/ relay.at = "ok" /\ stage' = "drainPunch" /\ UNCHANGED <<conn, err, trace>>
             \/ relay.at = "err" /\ punch.at = "taken" /\ Failed(Fail(trace, "punch"), "punch")
             \/ relay.at = "err" /\ stage' = "race" /\ UNCHANGED <<conn, err, trace>>
      BY <1>0, <1>4, Zenon DEF RaceRelay
    <2>2. /\ relay' \in RelayRecords /\ relay'.at = "taken" /\ relay'.winner = relay.winner
          /\ relay'.of = relay.of
      BY <1>1, <2>1, Zenon DEF RelayRecords, Phases
    <2>3. CASE relay.at = "err" /\ punch.at = "taken" /\ Failed(Fail(trace, "punch"), "punch")
      <3>1. punch.winner = "none" /\ relay.winner = "none"
        BY <1>0, <2>3, Zenon DEF Inv, FamilyInv, RelayInv
      <3>2. QED
        BY <1>0, <1>2, <2>1, <2>3, <3>1, FailsInv, Zenon DEF Over, FailStages
    <2>4. ASSUME \/ relay.at = "ok" /\ stage' = "drainPunch"
                 \/ relay.at = "err" /\ stage' = "race",
                 UNCHANGED <<conn, err, trace>>
          PROVE  Inv'
      <3>1. Types'
        BY <1>0, <2>1, <2>2, <2>4, Zenon DEF Inv, Types, Stages
      <3>2. Flags'
        BY <1>0, Zenon DEF Inv, Flags
      <3>3. StunInv'
        BY <1>0, <2>4, Zenon DEF Inv, StunInv
      <3>4. FamilyInv'
        BY <1>0, <2>1, <2>4, Zenon DEF Inv, FamilyInv
      <3>5. DeadlineInv'
        BY <1>0, <2>1, <2>4, DeadlineFrame, Zenon DEF Inv
      <3>6. RelayInv'
        BY <1>0, <2>1, <2>2, <2>4, Zenon DEF Inv, RelayInv, Over
      <3>7. OutcomeInv'
        BY <1>0, <2>4, Zenon DEF Inv, OutcomeInv, Over
      <3>8. QED
        BY <3>1, <3>2, <3>3, <3>4, <3>5, <3>6, <3>7, Zenon DEF Inv
    <2>5. QED
      BY <2>1, <2>3, <2>4, Zenon
  <1>5. QED
    BY <1>3, <1>4, Zenon

(* The path without the race. *)
LEMMA PunchFailsStep ==
    ASSUME Inv, PunchFails
    PROVE  Inv'
  <1> DEFINE e == IF answer.peers = {} THEN "candidate" ELSE "punch"
             t == Fail(trace, e)
  <1>0. /\ stage = "punch" /\ punch.at = "err" /\ relay.at = "off" /\ trace.fail = "none"
        /\ conn = "none" /\ mode # "relayOnly" /\ punch.winner = "none" /\ relay.winner = "none"
        /\ UNCHANGED <<mode, open, expired, stun, grace, answer, punch, ended>>
    BY Zenon DEF PunchFails, Inv, FamilyInv, RelayInv, OutcomeInv, Over
  <1>1. open = {} /\ expired = {}
    BY <1>0, SettledOpen, Zenon DEF Inv, Types
  <1>2. e \in {"candidate", "punch"} /\ trace \in Traces
    BY Zenon DEF Inv, Types
  <1>3. \/ Failed(t, t.fail) /\ UNCHANGED relay
        \/ /\ relay' = StartRelay(answer.relays)
           /\ stage' = "relay" /\ trace' = t /\ UNCHANGED <<conn, err>>
    BY Zenon DEF PunchFails
  <1> HIDE DEF e
  <1>4. /\ t \in Traces /\ t.fail = e /\ t.sent = trace.sent /\ t.tunnel = trace.tunnel
        /\ t.relayUsed = trace.relayUsed
    BY <1>0, <1>2, Zenon DEF Fail, Traces, FailStages
  <1>5. CASE Failed(t, t.fail) /\ UNCHANGED relay
    <2>1. Failed(Fail(trace, e), e) /\ e \in FailStages
      BY <1>2, <1>4, <1>5, Zenon DEF FailStages
    <2>2. QED
      BY <1>0, <1>1, <1>5, <2>1, FailsInv, Zenon DEF Over
  <1> HIDE DEF t
  <1>6. CASE /\ relay' = StartRelay(answer.relays)
             /\ stage' = "relay" /\ trace' = t /\ UNCHANGED <<conn, err>>
    <2>1. answer.relays \in SUBSET Relays
      BY Zenon DEF Inv, Types
    <2>2. /\ relay' \in RelayRecords /\ relay'.at = "run" /\ relay'.winner = "none"
          /\ \A q \in Relays : relay'.of[q] \in {"run", "off"}
      BY <1>0, <1>6, <2>1, StartRelayType, Zenon
    <2>3. Types'
      BY <1>0, <1>4, <1>6, <2>2, Zenon DEF Inv, Types, Stages
    <2>4. Flags'
      BY <1>0, Zenon DEF Inv, Flags
    <2>5. StunInv'
      BY <1>0, <1>6, Zenon DEF Inv, StunInv
    <2>6. FamilyInv'
      BY <1>0, <1>1, <1>6, Names, Zenon DEF Inv, FamilyInv
    <2>7. DeadlineInv'
      BY <1>0, <1>6, DeadlineFrame, Zenon DEF Inv
    <2>8. RelayInv'
      BY <1>0, <1>1, <1>6, <2>2, Names, Zenon DEF RelayInv, Over
    <2>9. OutcomeInv'
      BY <1>0, <1>2, <1>4, <1>6, Zenon DEF Inv, OutcomeInv, Over
    <2>10. QED
      BY <2>3, <2>4, <2>5, <2>6, <2>7, <2>8, <2>9, Zenon DEF Inv
  <1>7. QED
    BY <1>3, <1>5, <1>6, Zenon

(* Emit on a failure: the trace has been sent once, with the first stage   *)
(* recorded.                                                               *)
LEMMA EmittedFailure ==
    ASSUME NEW t \in Traces, NEW e \in FailStages, t.sent = 0, ~t.tunnel
    PROVE  LET u == Emit(Fail(t, e))
           IN  /\ u \in Traces /\ u.sent = 1 /\ ~u.tunnel /\ u.relayUsed = t.relayUsed
               /\ u.fail = IF t.fail = "none" THEN e ELSE t.fail
  <1> DEFINE f == Fail(t, e)
  <1>1. /\ f \in Traces /\ f.sent = 0 /\ ~f.tunnel /\ f.relayUsed = t.relayUsed
        /\ f.fail = IF t.fail = "none" THEN e ELSE t.fail
    BY Zenon DEF Fail, Traces
  <1> HIDE DEF f
  <1>2. /\ Emit(f) \in Traces /\ Emit(f).sent = 1 /\ ~Emit(f).tunnel
        /\ Emit(f).relayUsed = f.relayUsed /\ Emit(f).fail = f.fail
    BY <1>1 DEF Emit, Traces
  <1>3. QED
    BY <1>1, <1>2, Zenon DEF f

(* After the relay has failed, or the protocol on the socket it was given. *)
LEMMA LateFailures ==
    ASSUME Inv, RelayFails \/ ProtocolError
    PROVE  Inv'
  <1>0. /\ UNCHANGED <<mode, stun, grace, answer, punch, relay, ended>>
        /\ stage' = "failed" /\ conn' = "none" /\ trace \in Traces
    BY Zenon DEF RelayFails, ProtocolError, Failed, Inv, Types
  <1>1. /\ punch.at # "run" /\ relay.at # "run" /\ stage \in {"relay", "wrap", "handshake"}
        /\ trace.sent = 0 /\ ~trace.tunnel
    BY Zenon DEF RelayFails, ProtocolError, Inv, FamilyInv, RelayInv, OutcomeInv, Over
  <1>2. open' = {} /\ expired' = {}
    <2>1. CASE RelayFails
      <3>1. punch.winner = "none" /\ relay.winner = "none" /\ UNCHANGED <<open, expired>>
        BY <2>1, Zenon DEF RelayFails, Inv, FamilyInv, RelayInv
      <3>2. QED
        BY <1>1, <2>1, <3>1, SettledOpen, Zenon DEF RelayFails, Inv, Types
    <2>2. CASE ProtocolError
      BY <2>2, Zenon DEF ProtocolError, ClosesHole, Close, Inv, Types, OutcomeInv, Over
    <2>3. QED
      BY <2>1, <2>2, Zenon
  <1>3. OutcomeInv' /\ trace' \in Traces /\ err' \in FailStages
    <2>1. CASE RelayFails
      <3>1. trace' = Emit(Fail(trace, "punch")) /\ err' = FailureReturned /\ stage = "relay"
        BY <2>1, Zenon DEF RelayFails, Failed
      <3>2. err' \in FailStages /\ err' = IF trace.fail = "none" THEN "punch" ELSE trace.fail
        BY <3>1, Zenon DEF FailureReturned, FailStages, Inv, OutcomeInv
      <3>3. QED
        BY <1>0, <1>1, <1>2, <3>1, <3>2, EmittedFailure DEF OutcomeInv, Over, FailStages
    <2>2. CASE ProtocolError
      <3>1. trace' = Emit(Fail(trace, "handshake")) /\ err' = "handshake" /\ stage \in {"wrap", "handshake"}
        BY <2>2, Zenon DEF ProtocolError, Failed
      <3>2. trace.fail # "none" => trace.relayUsed /\ trace.fail \in {"punch", "candidate"}
        BY <3>1, Zenon DEF Inv, OutcomeInv
      <3>3. QED
        BY <1>0, <1>1, <1>2, <3>1, <3>2, EmittedFailure, Zenon DEF OutcomeInv, Over, FailStages
    <2>3. QED
      BY <2>1, <2>2, Zenon
  <1>4. Types'
    BY <1>0, <1>2, <1>3, Zenon DEF Inv, Types, Stages
  <1>5. Flags'
    BY <1>0, Zenon DEF Inv, Flags
  <1>6. StunInv'
    BY <1>0, <1>1, Zenon DEF Inv, StunInv
  <1>7. FamilyInv'
    BY <1>0, <1>1, Zenon DEF Inv, FamilyInv
  <1>8. DeadlineInv'
    BY <1>2, Zenon DEF DeadlineInv
  <1>9. RelayInv'
    BY <1>0, <1>1, Zenon DEF Inv, RelayInv, Over
  <1>10. QED
    BY <1>3, <1>4, <1>5, <1>6, <1>7, <1>8, <1>9, Zenon DEF Inv

LEMMA ProtocolSteps ==
    ASSUME Inv, WrapOK \/ HandshakeOK
    PROVE  Inv'
  <1>0. /\ stage \in {"wrap", "handshake"} /\ stage' \in {"handshake", "up"}
        /\ trace' = IF stage' = "up" THEN Emit(HandshakeDone(trace)) ELSE trace
        /\ UNCHANGED <<mode, open, expired, stun, grace, answer, punch, relay, ended, conn, err>>
    BY Zenon DEF WrapOK, HandshakeOK
  <1>1. /\ punch.at # "run" /\ relay.at # "run" /\ trace.sent = 0 /\ trace \in Traces
        /\ conn # "none" /\ ~trace.tunnel
    BY <1>0, Zenon DEF Inv, Types, FamilyInv, RelayInv, OutcomeInv, Over
  <1>2. /\ trace' \in Traces /\ trace'.sent = IF stage' = "up" THEN 1 ELSE 0
        /\ trace'.relayUsed = trace.relayUsed /\ trace'.fail = trace.fail
        /\ trace'.tunnel => stage' = "up"
    <2>1. CASE stage' = "up"
      <3> DEFINE t == HandshakeDone(trace)
      <3>1. t \in Traces /\ t.sent = 0 /\ t.relayUsed = trace.relayUsed /\ t.fail = trace.fail
        BY <1>1, Zenon DEF HandshakeDone, Traces
      <3> HIDE DEF t
      <3>2. trace' = Emit(t)
        BY <1>0, <2>1, Zenon DEF t
      <3>3. QED
        BY <2>1, <3>1, <3>2 DEF Emit, Traces
    <2>2. CASE stage' # "up"
      BY <1>0, <1>1, <2>2, Zenon
    <2>3. QED
      BY <2>1, <2>2, Zenon
  <1>3. Types'
    BY <1>0, <1>2, Zenon DEF Inv, Types, Stages
  <1>4. Flags'
    BY <1>0, Zenon DEF Inv, Flags
  <1>5. StunInv'
    BY <1>0, Zenon DEF Inv, StunInv
  <1>6. FamilyInv'
    BY <1>0, <1>1, Zenon DEF Inv, FamilyInv
  <1>7. DeadlineInv'
    BY <1>0, DeadlineFrame, Zenon DEF Inv
  <1>8. RelayInv'
    BY <1>0, <1>1, Zenon DEF Inv, RelayInv, Over
  <1>9. OutcomeInv'
    BY <1>0, <1>1, <1>2, Zenon DEF Inv, OutcomeInv, Over
  <1>10. QED
    BY <1>3, <1>4, <1>5, <1>6, <1>7, <1>8, <1>9, Zenon DEF Inv
-----------------------------------------------------------------------------
LEMMA InvNext == Inv /\ [Next]_vars => Inv'
  <1> SUFFICES ASSUME Inv, [Next]_vars PROVE Inv'
    BY Zenon
  <1>1. CASE Main
    BY <1>1, OpenStep, ConnectStep, RelayOnlyStep, RaceSteps, DrainSteps, ReturnSteps,
       PunchFailsStep, LateFailures, ProtocolSteps, Zenon DEF Main
  <1>2. CASE Timers \/ Cancel
    BY <1>2, GraceSteps, PunchGraceStep, Zenon DEF Timers
  <1>3. ASSUME NEW f \in Families, Discover(f) \/ PunchFamily(f) PROVE Inv'
    BY <1>3, DiscoverSteps, ReceiveStep, PunchOneSteps, PunchTakeStep, Zenon DEF Discover, PunchFamily
  <1>4. ASSUME NEW r \in Relays, Join(r) \/ Watch(r) PROVE Inv'
    BY <1>4, JoinSteps, RelayTakeStep, WatchSteps, Zenon DEF Join
  <1>5. CASE UNCHANGED vars
    <2> USE <1>5 DEF vars
    <2>1. Types'
      BY Zenon DEF Inv, Types
    <2>2. Flags'
      BY Zenon DEF Inv, Flags
    <2>3. StunInv' /\ FamilyInv' /\ DeadlineInv' /\ RelayInv' /\ OutcomeInv'
      BY StunFrame, FamilyFrame, DeadlineFrame, RelayFrame, OutcomeFrame, Zenon DEF Inv
    <2>4. QED
      BY <2>1, <2>2, <2>3, Zenon DEF Inv
  <1>6. QED
    BY <1>1, <1>2, <1>3, <1>4, <1>5, Zenon DEF Next

LEMMA Invariant == Spec => []Inv
  BY InvInit, InvNext, PTL DEF Spec

LEMMA RangeOfSeq ==
    ASSUME NEW S, NEW q \in Seq(S)
    PROVE  Range(q) \subseteq S
  <1>1. \A i \in DOMAIN q : q[i] \in S
    OBVIOUS
  <1>2. QED
    BY <1>1, Zenon DEF Range

LEMMA InvType == Inv => TypeOK
  <1> SUFFICES ASSUME Inv PROVE TypeOK
    BY Zenon
  <1>1. ASSUME NEW f \in Families
        PROVE  /\ stun[f].at \in {"off", "check", "set", "read", "ok", "err", "good", "bad"}
               /\ stun[f].attempts \in 0..STUNAttempts
               /\ stun[f].pending \in 0..STUNServers
               /\ stun[f].cut \in BOOLEAN
    BY <1>1, Zenon DEF Inv, Types, StunRecords
  <1>2. ASSUME NEW f \in Families PROVE Range(stun[f].mapped) \subseteq {f} \X (1..STUNServers)
    BY <1>2, RangeOfSeq, Zenon DEF Inv, StunInv
  <1>3. /\ punch.at \in Phases /\ punch.winner \in Families \cup {"none"} /\ punch.v4 \in BOOLEAN
        /\ punch.of \in [Families -> Phases]
    BY Zenon DEF Inv, Types, PunchRecords
  <1>4. /\ relay.at \in Phases /\ relay.winner \in Relays \cup {"none"}
        /\ relay.of \in [Relays -> Phases] /\ relay.watcher \in [Relays -> {"off", "waits", "fires"}]
    BY Zenon DEF Inv, Types, RelayRecords
  <1>5. grace \in BOOLEAN /\ ended \in BOOLEAN
    BY Zenon DEF Inv, Flags
  <1>6. QED
    BY <1>1, <1>2, <1>3, <1>4, <1>5, Zenon DEF Inv, Types, TypeOK, Traces

(* When PunchTracedWithMode has returned, the only socket of the dial that *)
(* is open is the one it has handed over: whichever of the families and    *)
(* the relays have succeeded, in which order, and however many relays the  *)
(* rendezvous server has named.                                            *)
THEOREM SocketsCorrect == Spec => []SocketsAccounted
  <1>1. Inv => SocketsAccounted
    BY InvType, Zenon DEF Inv, OutcomeInv, Over, SocketsAccounted
  <1>2. QED
    BY <1>1, Invariant, PTL

(* A family that has answered is not dropped by the grace of               *)
(* discoverFamilies, and the socket of a family that is handed over has no *)
(* read deadline in the past.                                              *)
THEOREM AnsweredCorrect == Spec => []AnsweredFamilyKept
  <1>1. Inv => AnsweredFamilyKept
    BY Zenon DEF Inv, StunInv, DeadlineInv, AnsweredFamilyKept, Surviving
  <1>2. QED
    BY <1>1, Invariant, PTL

(* The trace of a dial is sent exactly once and names the stage of the     *)
(* error that the caller gets, and the kind of the socket that is used.    *)
THEOREM TraceCorrect == Spec => []TraceTrue
  <1>1. Inv => TraceTrue
    BY Names, Zenon DEF Inv, OutcomeInv, Over, TraceTrue
  <1>2. QED
    BY <1>1, Invariant, PTL
=============================================================================
