------------------------------ MODULE Hy2Dial ------------------------------
(***************************************************************************)
(* One dial of the Hysteria2 realm client                                  *)
(* (third_party/sing-quic/hysteria2/client.go: offerNewRealm and what it   *)
(* calls; realm/punch_select.go; realm/relay.go) and the state that dials  *)
(* share to prefer the relay after failures (realm_relay_fallback.go).     *)
(*                                                                         *)
(* A dial opens a socket per address family, discovers its addresses,      *)
(* connects at the rendezvous server, races the punches of the families    *)
(* and shakes hands; or it joins a relay on a socket of its own, instead   *)
(* of the punch, after it, or after the handshake.  The sockets are named  *)
(* by family; a dial has at most one of each.  Module Hy2Client models     *)
(* what happens to the connection that a dial returns.                     *)
(***************************************************************************)
EXTENDS Naturals

CONSTANTS
    Dials,       \* concurrent dials of one client
    Probes,      \* the dials that try the direct path only (allowRelay = false)
    Families,    \* address families in use, a subset of {"v4", "v6"}
    Threshold,   \* relayPreferThreshold
    MaxBackoff,  \* relayPreferMaxBackoff in units of relayPreferBackoff
    MaxFailures  \* bound on consecutive failures

ASSUME ConstantsAssumption ==
    /\ Probes \subseteq Dials
    /\ Families \subseteq {"v4", "v6"} /\ Families # {}
    /\ Threshold \in Nat \ {0}
    /\ MaxBackoff \in Nat \ {0}
    /\ MaxFailures \in Nat

VARIABLES
    dial,      \* the state of every dial
    failures,  \* relayFallbackState.failures
    backoff,   \* relayFallbackState.backoff
    left       \* time from now until relayFallbackState.until

preference == <<failures, backoff, left>>
vars == <<dial, preference>>

Sockets == {"v4", "v6", "relay"}

Stages == {"idle", "resolve", "discover", "connect", "race", "handshake",
           "reconnect", "listen", "join", "relayHandshake", "verify", "done"}

Records ==
    [stage    : Stages,
     open     : SUBSET Sockets,   \* sockets that are open
     expired  : SUBSET Sockets,   \* sockets left with a read deadline in the past
     waiting  : SUBSET Families,  \* families whose result has not been received
     good     : SUBSET Families,  \* families whose result was a success
     relay    : BOOLEAN,          \* the rendezvous answer names relays
     shook    : BOOLEAN,          \* history: a handshake was tried on this nonce
     why      : {"none", "prefer", "punch", "handshake"},  \* why a relay is dialled
     watcher  : {"off", "armed", "fired"},  \* the goroutine that ends the join
     used     : Sockets \cup {"none"},      \* socket of the QUIC connection
     err      : {"none", "listen", "stun", "rendezvous", "punch", "handshake", "relay"}]

Idle == [stage |-> "idle", open |-> {}, expired |-> {}, waiting |-> {}, good |-> {},
         relay |-> FALSE, shook |-> FALSE, why |-> "none", watcher |-> "off",
         used |-> "none", err |-> "none"]

TypeOK ==
    /\ dial \in [Dials -> Records]
    /\ failures \in Nat
    /\ backoff \in 0..MaxBackoff
    /\ left \in 0..MaxBackoff

Init ==
    /\ dial = [d \in Dials |-> Idle]
    /\ failures = 0 /\ backoff = 0 /\ left = 0

Becomes(d, r) == dial' = [dial EXCEPT ![d] = r]
-----------------------------------------------------------------------------
(* relayFallbackState *)
Doubled == IF 2 * backoff > MaxBackoff THEN MaxBackoff ELSE 2 * backoff

Enough(n) == n >= Threshold

HandshakeFailed ==
    /\ failures < MaxFailures
    /\ failures' = failures + 1
    /\ IF Enough(failures + 1)
         THEN /\ backoff' = IF backoff = 0 THEN 1 ELSE Doubled
              /\ left' = backoff'
         ELSE UNCHANGED <<backoff, left>>

KeepsUntil == failures' = 0 /\ backoff' = 0 /\ UNCHANGED left
HandshakeSucceeded == failures' = 0 /\ backoff' = 0 /\ left' = 0

PreferRelay == left > 0

Tick ==
    /\ left > 0
    /\ left' = left - 1
    /\ UNCHANGED <<dial, failures, backoff>>
-----------------------------------------------------------------------------
(* Where a dial goes next, as functions of its record. *)
Fails(r, e) == [r EXCEPT !.stage = "done", !.err = e]
FailsClosed(r, e) == [Fails(r, e) EXCEPT !.open = {}]

StartRace(r) == [r EXCEPT !.stage = "race", !.waiting = r.open, !.good = {}, !.why = "none"]

StartRelay(r, why) == [r EXCEPT !.stage = "listen", !.why = why]

(* realmDialRelay without a join: a dial that preferred the relay punches, *)
(* the others return the error that brought them here.                     *)
TriesAgain(r) == IF r.why = "prefer" THEN StartRelay(r, "prefer") ELSE Fails(r, r.why)
NotJoined(r) == IF r.why = "prefer" THEN StartRace(r) ELSE Fails(r, r.why)
-----------------------------------------------------------------------------
(* realmOpenFamilies *)
OpenFamilies(d) ==
    /\ dial[d].stage = "idle"
    /\ \E F \in SUBSET Families :
         Becomes(d, IF F = {} THEN Fails(Idle, "listen")
                              ELSE [Idle EXCEPT !.stage = "resolve", !.open = F])
    /\ UNCHANGED preference

(* realmDiscoverFamilies: resolve the STUN servers, then collect a result  *)
(* per family.                                                             *)
Resolve(d) ==
    /\ dial[d].stage = "resolve"
    /\ \/ Becomes(d, FailsClosed(dial[d], "stun"))
       \/ Becomes(d, [dial[d] EXCEPT !.stage = "discover", !.waiting = dial[d].open])
    /\ UNCHANGED preference

Receive(r, f, ok) ==
    [r EXCEPT !.waiting = @ \ {f}, !.good = IF ok THEN @ \cup {f} ELSE @]

Survive(r) ==
    IF r.waiting # {} THEN r
    ELSE IF r.good = {} THEN FailsClosed(r, "stun")
    ELSE [r EXCEPT !.stage = "connect", !.open = r.good]

Discovered(d) ==
    /\ dial[d].stage = "discover"
    /\ \E f \in dial[d].waiting, ok \in BOOLEAN :
         Becomes(d, Survive(Receive(dial[d], f, ok)))
    /\ UNCHANGED preference

(* The grace is over: the deadline of every family not heard of is set to  *)
(* now.  Discover clears it when it returns, unless it had returned before.*)
DiscoverGrace(d) ==
    /\ dial[d].stage = "discover"
    /\ dial[d].good # {}
    /\ \E returned \in SUBSET dial[d].waiting :
         Becomes(d, [dial[d] EXCEPT !.expired = @ \cup returned])
    /\ UNCHANGED preference
-----------------------------------------------------------------------------
(* Connect at the rendezvous server, then choose between relay and punch.  *)
Connect(d) ==
    /\ dial[d].stage = "connect"
    /\ \/ Becomes(d, FailsClosed(dial[d], "rendezvous"))
       \/ \E relay \in BOOLEAN :
            LET r == [dial[d] EXCEPT !.relay = relay]
            IN  Becomes(d, IF d \notin Probes /\ PreferRelay /\ relay
                             THEN StartRelay(r, "prefer") ELSE StartRace(r))
    /\ UNCHANGED preference

(* realmRacePunch with SelectPunchWinner: v6 wins at once, v4 when v6 has  *)
(* failed or its grace is over; the losers are closed.  Punch clears the   *)
(* read deadline when it returns.                                          *)
ClearsDeadline(r) == {}

Won(r, f) ==
    [r EXCEPT !.stage = "handshake", !.used = f, !.open = {f}, !.expired = ClearsDeadline(r)]

Lost(d, r) ==
    IF d \in Probes \/ ~r.relay THEN FailsClosed(r, "punch")
                                ELSE StartRelay([r EXCEPT !.open = {}], "punch")

ForgetsV4(d, r, f) ==
    IF "v6" \in r.good THEN Won(r, "v6")
    ELSE IF r.waiting # {} THEN r
    ELSE IF f \in r.good THEN Won(r, "v4")
    ELSE Lost(d, r)
Settle(d, r, f) ==
    IF "v6" \in r.good THEN Won(r, "v6")
    ELSE IF r.waiting # {} THEN r
    ELSE IF "v4" \in r.good THEN Won(r, "v4")
    ELSE Lost(d, r)

Punched(d) ==
    /\ dial[d].stage = "race"
    /\ \E f \in dial[d].waiting, ok \in BOOLEAN :
         Becomes(d, Settle(d, Receive(dial[d], f, ok), f))
    /\ UNCHANGED preference

PunchGrace(d) ==
    /\ dial[d].stage = "race"
    /\ "v4" \in dial[d].good
    /\ Becomes(d, Won(dial[d], "v4"))
    /\ UNCHANGED preference
-----------------------------------------------------------------------------
(* realmHandshake on the punched socket.  A failure closes the socket and  *)
(* is counted; the dial falls back to the relay with a fresh nonce.        *)
HandshakeOK(d) ==
    /\ dial[d].stage = "handshake"
    /\ Becomes(d, [dial[d] EXCEPT !.stage = "verify"])
    /\ UNCHANGED preference

FreshNonce(r) == [r EXCEPT !.stage = "reconnect", !.why = "handshake"]

HandshakeError(d) ==
    /\ dial[d].stage = "handshake"
    /\ LET r == [dial[d] EXCEPT !.open = {}, !.used = "none", !.shook = TRUE]
       IN  Becomes(d, IF d \in Probes \/ ~r.relay THEN Fails(r, "handshake") ELSE FreshNonce(r))
    /\ HandshakeFailed

(* offerNewRealmRelay *)
Reconnect(d) ==
    /\ dial[d].stage = "reconnect"
    /\ \/ Becomes(d, Fails(dial[d], "handshake"))
       \/ Becomes(d, StartRelay([dial[d] EXCEPT !.shook = FALSE], "handshake"))
    /\ UNCHANGED preference
-----------------------------------------------------------------------------
(* realmDialRelay: a new socket, RaceRelayJoin on it, then the handshake.  *)
RelayListen(d) ==
    /\ dial[d].stage = "listen"
    /\ \/ Becomes(d, NotJoined(dial[d]))
       \/ Becomes(d, [dial[d] EXCEPT !.stage = "join", !.open = @ \cup {"relay"}, !.watcher = "armed"])
    /\ UNCHANGED preference

(* relayHandshakeTimeout ends the context; the watcher has yet to run.     *)
JoinTimeout(d) ==
    /\ dial[d].stage = "join" /\ dial[d].watcher = "armed"
    /\ Becomes(d, [dial[d] EXCEPT !.watcher = "fired"])
    /\ UNCHANGED preference

(* The watcher sets the read deadline to now, to end ReadFrom. *)
Watch(d) ==
    /\ dial[d].watcher = "fired"
    /\ Becomes(d, [dial[d] EXCEPT !.watcher = "off", !.expired = @ \cup {"relay"}])
    /\ UNCHANGED preference

(* The acknowledgement is read: the deadline is cleared, then readDone is  *)
(* closed and the context cancelled.  A watcher whose context has ended,   *)
(* or that runs for the first time after both, may still set the deadline. *)
Joined(d) ==
    /\ dial[d].stage = "join" /\ "relay" \notin dial[d].expired
    /\ \E w \in IF dial[d].watcher = "armed" THEN {"off", "fired"} ELSE {dial[d].watcher} :
         Becomes(d, [dial[d] EXCEPT !.stage = "relayHandshake", !.used = "relay", !.watcher = w])
    /\ UNCHANGED preference

(* The deadline has passed, or ReadFrom fails. *)
JoinFails(d) ==
    /\ dial[d].stage = "join"
    /\ Becomes(d, NotJoined([dial[d] EXCEPT !.open = @ \ {"relay"}, !.expired = @ \ {"relay"},
                                            !.watcher = "off"]))
    /\ UNCHANGED preference

(* A dial that preferred the relay now closes the sockets of the punch.    *)
(* A failed handshake gives its own error, save in offerNewRealm.          *)
LeavesPunchSockets(r) == r.open
ClosesPunchSockets(r) == {"relay"}

RelayHandshakeOK(d) ==
    /\ dial[d].stage = "relayHandshake"
    /\ Becomes(d, [dial[d] EXCEPT !.stage = "done", !.open = ClosesPunchSockets(dial[d])])
    /\ UNCHANGED preference

RelayHandshakeError(d) ==
    /\ dial[d].stage = "relayHandshake"
    /\ LET r == [dial[d] EXCEPT !.used = "none", !.watcher = "off", !.expired = {}]
       IN  Becomes(d, FailsClosed(r, IF r.why = "handshake" THEN "handshake" ELSE "relay"))
    /\ UNCHANGED preference
-----------------------------------------------------------------------------
(* verifyDirect, after the dial has returned its direct connection: passed,*)
(* failed (counted, the connection is closed), or the connection ended.    *)
VerifyPasses(d) ==
    /\ dial[d].stage = "verify"
    /\ Becomes(d, [dial[d] EXCEPT !.stage = "done"])
    /\ HandshakeSucceeded

VerifyFails(d) ==
    /\ dial[d].stage = "verify"
    /\ Becomes(d, Idle)
    /\ HandshakeFailed

VerifyEnds(d) ==
    /\ dial[d].stage = "verify"
    /\ Becomes(d, Idle)
    /\ UNCHANGED preference

(* The error was returned, or the connection has ended: dial again. *)
Again(d) ==
    /\ dial[d].stage = "done"
    /\ Becomes(d, Idle)
    /\ UNCHANGED preference

Proceed(d) ==
    \/ OpenFamilies(d) \/ Resolve(d) \/ Discovered(d) \/ DiscoverGrace(d)
    \/ Connect(d) \/ Punched(d) \/ PunchGrace(d) \/ HandshakeOK(d) \/ HandshakeError(d)
    \/ Reconnect(d) \/ RelayListen(d) \/ JoinTimeout(d) \/ Watch(d) \/ Joined(d) \/ JoinFails(d)
    \/ RelayHandshakeOK(d) \/ RelayHandshakeError(d)

Verify(d) == VerifyPasses(d) \/ VerifyFails(d) \/ VerifyEnds(d)

Next == Tick \/ \E d \in Dials : Proceed(d) \/ Verify(d) \/ Again(d)

Spec == Init /\ [][Next]_vars

(* Every wait of a dial has a timeout of its own. *)
FairSpec == Spec /\ \A d \in Dials : WF_vars(Proceed(d))
-----------------------------------------------------------------------------
(* A dial that has returned holds no socket but that of the connection it  *)
(* returned, and a handshake runs on a socket that is still open: every    *)
(* early return of offerNewRealmPunch closes what was opened before it.    *)
SocketsAccounted ==
    \A d \in Dials :
        /\ dial[d].stage \in {"idle", "verify", "done"} => dial[d].open = {dial[d].used} \ {"none"}
        /\ dial[d].used # "none" => dial[d].used \in dial[d].open

(* A path that works is used.  A punch is reported as failed only if no    *)
(* family has punched through.  A socket that shakes hands after a punch   *)
(* has no read deadline in the past, although the grace of the discovery   *)
(* may have set one on it.  No relay is joined with a nonce on which a     *)
(* handshake was tried: the node may have stopped waiting at the relay by  *)
(* then.  (And all variables keep their types.)                            *)
NoPunchWasted ==
    /\ TypeOK
    /\ \A d \in Dials :
         /\ dial[d].why = "punch" \/ dial[d].err = "punch" => dial[d].good = {}
         /\ dial[d].stage = "handshake" => dial[d].used \notin dial[d].expired
         /\ dial[d].stage \in {"join", "relayHandshake"} => ~dial[d].shook

(* A socket that has joined a relay has no read deadline in the past,      *)
(* which fails: the goroutine that ends the join may set one after the     *)
(* socket was handed on.                                                   *)
JoinedSocketClean ==
    \A d \in Dials : dial[d].stage = "relayHandshake" => "relay" \notin dial[d].expired

(* Dials prefer the relay only after Threshold failures in a row with no   *)
(* verified direct connection in between, and never for longer than the    *)
(* current back-off.                                                       *)
PreferenceJustified == left > 0 => failures >= Threshold /\ left <= backoff

(* Every dial returns, also when the preferred relay cannot be joined. *)
DialEnds ==
    \A d \in Dials : dial[d].stage # "idle" ~> dial[d].stage \in {"idle", "verify", "done"}
=============================================================================
