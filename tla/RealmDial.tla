------------------------------ MODULE RealmDial ------------------------------
(***************************************************************************)
(* One dial of the kernel's realm client (transport/realm): the protocols  *)
(* under overlay/ call PunchTracedWithMode, wrap the socket it returns in  *)
(* a QUIC stream and run their own handshake over it.                      *)
(*                                                                         *)
(* The families are discovered by one goroutine each; on a NAT that looks  *)
(* symmetric the punch race of the families itself races DialRelay, which  *)
(* has one goroutine and one socket per relay.  Every goroutine is a       *)
(* process here.  All durations are abstracted: a timer may fire at any    *)
(* point where it is armed.                                                *)
(***************************************************************************)
EXTENDS Naturals, Sequences, Functions

CONSTANTS
    Relays,        \* relay addresses a rendezvous answer can name
    STUNServers,   \* number of STUN servers asked in each family
    STUNAttempts   \* number of attempt timeouts of runDiscoveryAttempts

ASSUME ConstantsAssumption ==
    /\ STUNServers \in Nat \ {0}
    /\ STUNAttempts \in Nat \ {0}
    /\ Relays \cap {"v4", "v6", "none"} = {}

VARIABLES
    mode,      \* PunchMode
    stage,     \* how far the caller's goroutine is
    open,      \* sockets that are open
    expired,   \* open sockets whose read deadline is in the past
    stun,      \* per family: the goroutine of discoverFamilies
    grace,     \* the grace timer of discoverFamilies is armed
    answer,    \* the rendezvous server's ConnectResponse
    punch,     \* racePunch and squic.Punch per family
    relay,     \* DialRelay and dialRelayOne per relay
    ended,     \* the caller's context has ended
    conn,      \* socket of the PunchedConn that is returned
    err,       \* stage named by the error that is returned
    trace      \* *Trace

vars == <<mode, stage, open, expired, stun, grace, answer, punch, relay, ended, conn, err, trace>>

Families == {"v4", "v6"}
Sockets == Families \cup Relays
Modes == {"normal", "punchOnly", "relayOnly"}
FailStages == {"stun", "rendezvous", "candidate", "punch", "handshake"}

Stages == {"start", "discover", "connect", "punch", "race", "drainPunch", "drainRelay",
           "relay", "wrap", "handshake", "up", "failed"}
Phases == {"off", "run", "ok", "err", "taken"}   \* of a goroutine and its result

TypeOK ==
    /\ mode \in Modes /\ stage \in Stages
    /\ open \subseteq Sockets /\ expired \subseteq open
    /\ \A f \in Families :
         /\ stun[f].at \in {"off", "check", "set", "read", "ok", "err", "good", "bad"}
         /\ stun[f].attempts \in 0..STUNAttempts
         /\ stun[f].pending \in 0..STUNServers
         /\ Range(stun[f].mapped) \subseteq {f} \X (1..STUNServers)
         /\ stun[f].cut \in BOOLEAN
    /\ grace \in BOOLEAN
    /\ answer.peers \subseteq Families /\ answer.relays \subseteq Relays
    /\ punch.at \in Phases /\ punch.winner \in Families \cup {"none"} /\ punch.v4 \in BOOLEAN
    /\ punch.of \in [Families -> Phases]
    /\ relay.at \in Phases /\ relay.winner \in Relays \cup {"none"}
    /\ relay.of \in [Relays -> Phases]
    /\ relay.watcher \in [Relays -> {"off", "waits", "fires"}]
    /\ ended \in BOOLEAN
    /\ conn \in Sockets \cup {"none"}
    /\ err \in FailStages \cup {"none", "relay"}
    /\ trace \in [fail : FailStages \cup {"none"}, relayUsed : BOOLEAN, tunnel : BOOLEAN, sent : Nat]

Idle == [at |-> "off", attempts |-> 0, pending |-> STUNServers, mapped |-> <<>>, cut |-> FALSE]

Init ==
    /\ mode \in Modes /\ stage = "start"
    /\ open = {} /\ expired = {}
    /\ stun = [f \in Families |-> Idle]
    /\ grace = FALSE
    /\ answer = [peers |-> {}, relays |-> {}]
    /\ punch = [at |-> "off", winner |-> "none", v4 |-> FALSE, of |-> [f \in Families |-> "off"]]
    /\ relay = [at |-> "off", winner |-> "none", of |-> [r \in Relays |-> "off"],
                watcher |-> [r \in Relays |-> "off"]]
    /\ ended = FALSE
    /\ conn = "none" /\ err = "none"
    /\ trace = [fail |-> "none", relayUsed |-> FALSE, tunnel |-> FALSE, sent |-> 0]
-----------------------------------------------------------------------------
(* Trace: the first failure is kept; Emit hands the trace to the sinks.    *)
Fail(t, s) == IF t.fail = "none" THEN [t EXCEPT !.fail = s] ELSE t

RelayUnrecorded(t) == t
RelayEstablished(t) == [t EXCEPT !.relayUsed = TRUE]
HandshakeDone(t) == [t EXCEPT !.tunnel = TRUE]
Emit(t) == [t EXCEPT !.sent = @ + 1]

(* PunchTracedWithMode returns an error; the protocol emits and gives up.  *)
Failed(t, e) ==
    /\ stage' = "failed" /\ err' = e /\ conn' = "none"
    /\ trace' = Emit(t)

(* It returns a socket; the protocol goes on to wrap it. *)
Returns(t, s) ==
    /\ stage' = "wrap" /\ conn' = s /\ err' = "none"
    /\ trace' = t

KeepsOutcome == UNCHANGED <<conn, err, trace>>

Close(S) == open' = open \ S /\ expired' = expired \ S
-----------------------------------------------------------------------------
(* openFamilies: one socket per family that can listen; then the STUN      *)
(* servers are resolved, and one goroutine per family starts to discover.  *)
OpenFamilies ==
    /\ stage = "start" /\ mode # "relayOnly"
    /\ \/ /\ Failed(Fail(trace, "stun"), "stun")   \* no family, or no server resolved
          /\ UNCHANGED <<open, stun>>
       \/ \E F \in SUBSET Families \ {{}} :
            /\ open' = F
            /\ stun' = [f \in Families |-> IF f \in F THEN [Idle EXCEPT !.at = "check"] ELSE Idle]
            /\ stage' = "discover" /\ KeepsOutcome
    /\ UNCHANGED <<mode, expired, grace, answer, punch, relay, ended>>

(* A goroutine of discoverFamilies runs squic.Discover.  Its result goes   *)
(* into the channel after the deferred SetReadDeadline has cleared the     *)
(* deadline.  It succeeds if any server has answered.                      *)
Discovered(f) ==
    /\ stun' = [stun EXCEPT ![f].at = IF stun[f].mapped # <<>> THEN "ok" ELSE "err"]
    /\ expired' = expired \ {f}

AttemptsOver(f) == stun[f].attempts = STUNAttempts

(* The head of the loop over the attempts: the context is checked, the     *)
(* requests still pending are sent.                                        *)
DiscoverCheck(f) ==
    /\ stun[f].at = "check"
    /\ IF stun[f].cut \/ ended \/ stun[f].pending = 0 \/ AttemptsOver(f)
         THEN Discovered(f)
         ELSE /\ stun' = [stun EXCEPT ![f].at = "set", ![f].attempts = @ + 1]
              /\ UNCHANGED expired
    /\ UNCHANGED <<mode, stage, open, grace, answer, punch, relay, ended>> /\ KeepsOutcome

DiscoverSet(f) ==
    /\ stun[f].at = "set"
    /\ stun' = [stun EXCEPT ![f].at = "read"]
    /\ expired' = expired \ {f}
    /\ UNCHANGED <<mode, stage, open, grace, answer, punch, relay, ended>> /\ KeepsOutcome

(* A STUN response with the mapped address; runDiscoveryAttempts keeps     *)
(* every mapped address once.                                              *)
DiscoverAnswer(f) ==
    /\ stun[f].at = "read" /\ f \notin expired
    /\ \E k \in 1..Len(stun[f].mapped) + 1 :   \* one seen before, or another
         stun' = [stun EXCEPT ![f].pending = @ - 1,
                              ![f].at = IF stun[f].pending = 1 THEN "check" ELSE "read",
                              ![f].mapped = IF <<f, k>> \in Range(@) THEN @ ELSE Append(@, <<f, k>>)]
    /\ UNCHANGED <<mode, stage, open, expired, grace, answer, punch, relay, ended>> /\ KeepsOutcome

(* The attempt's deadline, or the one the grace timer has set. *)
DiscoverTimeout(f) ==
    /\ stun[f].at = "read"
    /\ stun' = [stun EXCEPT ![f].at = "check"]
    /\ UNCHANGED <<mode, stage, open, expired, grace, answer, punch, relay, ended>> /\ KeepsOutcome

(* A read error other than a timeout discards the answers there were. *)
DiscoverReadError(f) ==
    /\ stun[f].at = "read"
    /\ stun' = [stun EXCEPT ![f].at = "err", ![f].mapped = <<>>]
    /\ expired' = expired \ {f}
    /\ UNCHANGED <<mode, stage, open, grace, answer, punch, relay, ended>> /\ KeepsOutcome

(* discoverFamilies receives a result; the first success arms the grace.   *)
(* After the last one the families that failed are closed, and without a   *)
(* survivor the dial fails.                                                *)
Waiting == {f \in Families : stun[f].at \in {"check", "set", "read", "ok", "err"}}

ArmsGrace(f) == stun[f].at = "ok" /\ Waiting # {f}

DropsLate(f) == stun[f].at = "ok" /\ ~stun[f].cut
Survives(f) == stun[f].at = "ok"

DiscoverReceive(f) ==
    /\ stage = "discover" /\ stun[f].at \in {"ok", "err"}
    /\ stun' = [stun EXCEPT ![f] = [Idle EXCEPT !.at = IF Survives(f) THEN "good" ELSE "bad",
                                                !.mapped = stun[f].mapped]]
    /\ grace' = (grace \/ ArmsGrace(f))
    /\ IF Waiting # {f}
         THEN /\ UNCHANGED <<stage, open, expired>> /\ KeepsOutcome
         ELSE LET bad == {g \in Families : stun'[g].at # "good"}
              IN  /\ Close(bad)
                  /\ IF bad = Families
                       THEN Failed(Fail(trace, "stun"), "stun")
                       ELSE stage' = "connect" /\ KeepsOutcome
    /\ UNCHANGED <<mode, answer, punch, relay, ended>>

(* familyDiscoverGrace: the families not received yet are cancelled and    *)
(* their read deadlines set to now, whatever their goroutines are doing.   *)
DiscoverGrace ==
    /\ stage = "discover" /\ grace
    /\ grace' = FALSE
    /\ stun' = [f \in Families |-> IF f \in Waiting THEN [stun[f] EXCEPT !.cut = TRUE] ELSE stun[f]]
    /\ expired' = expired \cup Waiting
    /\ UNCHANGED <<mode, stage, open, answer, punch, relay, ended>> /\ KeepsOutcome
-----------------------------------------------------------------------------
(* guessNATType on the mapped addresses of all surviving families. *)
guessNATType(srflx) ==
    IF Len(srflx) < 2 THEN "unknown"
    ELSE IF \E i \in 2..Len(srflx) : srflx[i] # srflx[1] THEN "symmetric"
    ELSE "cone"

Surviving == {f \in Families : stun[f].at = "good"}

Mapped(f) == IF f \in Surviving THEN stun[f].mapped ELSE <<>>

localAddresses == Mapped("v4") \o Mapped("v6")

(* racePunch and DialRelay start a goroutine per socket, on raceCtx. *)
StartPunch == [punch EXCEPT !.at = "run",
                            !.of = [f \in Families |-> IF f \in Surviving THEN "run" ELSE "off"]]
StartRelay(R) == [relay EXCEPT !.at = "run", !.of = [r \in Relays |-> IF r \in R THEN "run" ELSE "off"]]

(* control.Connect, then the choice of the path. *)
Connect ==
    /\ stage = "connect"
    /\ \/ /\ Failed(Fail(trace, "rendezvous"), "rendezvous")
          /\ Close(Families)
          /\ UNCHANGED <<stun, answer, punch, relay>>
       \/ \E P \in SUBSET Families, R \in SUBSET Relays :
            /\ answer' = [peers |-> P, relays |-> R]
            /\ punch' = StartPunch
            /\ stun' = [f \in Families |-> [stun[f] EXCEPT !.mapped = <<>>]]   \* not used again
            /\ IF mode = "normal" /\ R # {} /\ guessNATType(localAddresses) = "symmetric"
                 THEN stage' = "race" /\ relay' = StartRelay(R)
                 ELSE stage' = "punch" /\ UNCHANGED relay
            /\ UNCHANGED <<open, expired>> /\ KeepsOutcome
    /\ UNCHANGED <<mode, grace, ended>>

(* dialRelayOnly: no STUN and no family socket (the one that is opened to  *)
(* learn a local address is closed at once).                               *)
ConnectRelayOnly ==
    /\ stage = "start" /\ mode = "relayOnly"
    /\ \/ /\ \E s \in {"stun", "rendezvous", "candidate"} : Failed(Fail(trace, s), s)
          /\ UNCHANGED <<answer, relay>>
       \/ \E R \in SUBSET Relays \ {{}}, P \in SUBSET Families :
            /\ answer' = [peers |-> P, relays |-> R]
            /\ relay' = StartRelay(R)
            /\ stage' = "relay" /\ KeepsOutcome
    /\ UNCHANGED <<mode, open, expired, stun, grace, punch, ended>>
-----------------------------------------------------------------------------
(* squic.Punch on one family (module PunchProtocol models its packets).    *)
(* Each round sets a read deadline of its own, and on return the deadline  *)
(* is cleared, except where there was no compatible peer address at all.   *)
ClearsDeadline(f) == expired' = expired \ {f}

PunchOK(f) ==
    /\ punch.of[f] = "run" /\ f \in answer.peers /\ f \in open
    /\ punch' = [punch EXCEPT !.of[f] = "ok"]
    /\ ClearsDeadline(f)
    /\ UNCHANGED <<mode, stage, open, stun, grace, answer, relay, ended>> /\ KeepsOutcome

PunchError(f) ==
    /\ punch.of[f] = "run"
    /\ punch' = [punch EXCEPT !.of[f] = "err"]
    /\ IF f \in answer.peers THEN ClearsDeadline(f) ELSE UNCHANGED expired
    /\ UNCHANGED <<mode, stage, open, stun, grace, answer, relay, ended>> /\ KeepsOutcome

(* racePunch: SelectPunchWinner prefers v6 for a while; the losers are     *)
(* closed.                                                                 *)
PunchWon(f) ==
    /\ punch' = [punch EXCEPT !.at = "ok", !.winner = f,
                              !.of = [g \in Families |-> IF g = f THEN "taken" ELSE @[g]]]
    /\ Close(Surviving \ {f})

PunchTake(f) ==
    /\ punch.at = "run" /\ punch.of[f] \in {"ok", "err"}
    /\ LET rest == \E g \in Families \ {f} : punch.of[g] \in {"run", "ok", "err"}
           took == [punch EXCEPT !.of[f] = "taken"]
       IN  CASE punch.of[f] = "ok" /\ (f = "v6" \/ ~rest) -> PunchWon(f)
             [] punch.of[f] = "ok" /\ f = "v4" /\ rest ->
                  punch' = [took EXCEPT !.v4 = TRUE] /\ UNCHANGED <<open, expired>>
             [] punch.of[f] = "err" /\ punch.v4 -> PunchWon("v4")
             [] punch.of[f] = "err" /\ ~punch.v4 /\ rest ->
                  punch' = took /\ UNCHANGED <<open, expired>>
             [] OTHER -> punch' = [took EXCEPT !.at = "err"] /\ Close(Surviving)
    /\ UNCHANGED <<mode, stage, stun, grace, answer, relay, ended>> /\ KeepsOutcome

PunchGrace ==
    /\ punch.at = "run" /\ punch.v4
    /\ PunchWon("v4")
    /\ UNCHANGED <<mode, stage, stun, grace, answer, relay, ended>> /\ KeepsOutcome
-----------------------------------------------------------------------------
(* dialRelayOne: listen, then relayJoin with a goroutine that watches the  *)
(* context to end ReadFrom.                                                *)
RelayListen(r) ==
    /\ relay.of[r] = "run" /\ r \notin open
    /\ \/ /\ relay' = [relay EXCEPT !.watcher[r] = "waits"]
          /\ open' = open \cup {r}
       \/ relay' = [relay EXCEPT !.of[r] = "err"] /\ UNCHANGED open
    /\ UNCHANGED <<mode, stage, expired, stun, grace, answer, punch, ended>> /\ KeepsOutcome

(* relayHandshakeTimeout, or the end of a context above it.  Also when     *)
(* the join has returned and cancelled its context: a watcher that first   *)
(* runs then finds both of its channels ready.                             *)
WatcherWakes(r) ==
    /\ relay.watcher[r] = "waits"
    /\ relay' = [relay EXCEPT !.watcher[r] = "fires"]
    /\ UNCHANGED <<mode, stage, open, expired, stun, grace, answer, punch, ended>> /\ KeepsOutcome

WatcherExits(r) ==
    /\ relay.watcher[r] = "waits" /\ relay.of[r] # "run"
    /\ relay' = [relay EXCEPT !.watcher[r] = "off"]
    /\ UNCHANGED <<mode, stage, open, expired, stun, grace, answer, punch, ended>> /\ KeepsOutcome

WatcherFires(r) ==
    /\ relay.watcher[r] = "fires"
    /\ relay' = [relay EXCEPT !.watcher[r] = "off"]
    /\ expired' = expired \cup ({r} \cap open)
    /\ UNCHANGED <<mode, stage, open, stun, grace, answer, punch, ended>> /\ KeepsOutcome

(* The acknowledgement is read before the deadline. *)
RelayJoined(r) ==
    /\ relay.of[r] = "run" /\ r \in open \ expired
    /\ relay' = [relay EXCEPT !.of[r] = "ok"]
    /\ UNCHANGED <<mode, stage, open, expired, stun, grace, answer, punch, ended>> /\ KeepsOutcome

(* ReadFrom fails, at the deadline or otherwise; the socket is closed. *)
RelayError(r) ==
    /\ relay.of[r] = "run" /\ r \in open
    /\ relay' = [relay EXCEPT !.of[r] = "err"]
    /\ Close({r})
    /\ UNCHANGED <<mode, stage, stun, grace, answer, punch, ended>> /\ KeepsOutcome

(* DialRelay takes every result: the first success wins and cancels the    *)
(* others, a later one is closed.                                          *)
ClosesSecond(r) == IF relay.of[r] = "ok" /\ relay.winner # "none" THEN Close({r})
                   ELSE UNCHANGED <<open, expired>>

RelayTake(r) ==
    /\ relay.at = "run" /\ relay.of[r] \in {"ok", "err"}
    /\ LET winner == IF relay.of[r] = "ok" /\ relay.winner = "none" THEN r ELSE relay.winner
           last == \A q \in Relays \ {r} : relay.of[q] \in {"off", "taken"}
       IN  relay' = [relay EXCEPT !.of[r] = "taken", !.winner = winner,
                                  !.at = IF ~last THEN "run" ELSE IF winner = "none" THEN "err" ELSE "ok"]
    /\ ClosesSecond(r)
    /\ UNCHANGED <<mode, stage, stun, grace, answer, punch, ended>> /\ KeepsOutcome
-----------------------------------------------------------------------------
(* racePunchAndRelay: the caller takes the two results in any order.  The  *)
(* first success cancels the other side, whose result is waited for.       *)
RacePunch ==
    /\ stage = "race" /\ punch.at \in {"ok", "err"}
    /\ punch' = [punch EXCEPT !.at = "taken"]
    /\ IF punch.at = "ok"
         THEN stage' = "drainRelay" /\ KeepsOutcome
         ELSE IF relay.at = "taken" THEN Failed(Fail(trace, "punch"), "punch")
                                    ELSE UNCHANGED stage /\ KeepsOutcome
    /\ UNCHANGED <<mode, open, expired, stun, grace, answer, relay, ended>>

RaceRelay ==
    /\ stage = "race" /\ relay.at \in {"ok", "err"}
    /\ relay' = [relay EXCEPT !.at = "taken"]
    /\ IF relay.at = "ok"
         THEN stage' = "drainPunch" /\ KeepsOutcome
         ELSE IF punch.at = "taken" THEN Failed(Fail(trace, "punch"), "punch")
                                    ELSE UNCHANGED stage /\ KeepsOutcome
    /\ UNCHANGED <<mode, open, expired, stun, grace, answer, punch, ended>>

RelayJoinedFirst == relay.at = "ok"
RelaySettled == relay.at \in {"ok", "err", "taken"}

(* The punch has won; a relay that was joined meanwhile is closed. *)
DrainRelay ==
    /\ stage = "drainRelay" /\ RelaySettled
    /\ relay' = [relay EXCEPT !.at = "taken"]
    /\ Close(IF relay.at = "ok" THEN {relay.winner} ELSE {})
    /\ Returns(trace, punch.winner)
    /\ UNCHANGED <<mode, stun, grace, answer, punch, ended>>

(* The relay has won; a family that has punched through meanwhile is       *)
(* closed (the others were closed by racePunch).                           *)
TrustsPunch == {}
PunchedAnyway == IF punch.winner # "none" THEN {punch.winner} ELSE {}

DrainPunch ==
    /\ stage = "drainPunch" /\ punch.at \in {"ok", "err", "taken"}
    /\ punch' = [punch EXCEPT !.at = "taken"]
    /\ Close(PunchedAnyway)
    /\ Returns(RelayEstablished(trace), relay.winner)
    /\ UNCHANGED <<mode, stun, grace, answer, relay, ended>>
-----------------------------------------------------------------------------
(* The path without the race: the punch first, the relay if it has failed. *)
PunchReturns ==
    /\ stage = "punch" /\ punch.at = "ok"
    /\ Returns(trace, punch.winner)
    /\ UNCHANGED <<mode, open, expired, stun, grace, answer, punch, relay, ended>>

PunchFails ==
    /\ stage = "punch" /\ punch.at = "err"
    /\ LET t == Fail(trace, IF answer.peers = {} THEN "candidate" ELSE "punch")
       IN  IF mode = "punchOnly" \/ answer.relays = {}
             THEN Failed(t, t.fail) /\ UNCHANGED relay
             ELSE /\ relay' = StartRelay(answer.relays)
                  /\ stage' = "relay" /\ trace' = t /\ UNCHANGED <<conn, err>>
    /\ UNCHANGED <<mode, open, expired, stun, grace, answer, punch, ended>>

RelayReturns ==
    /\ stage = "relay" /\ relay.at = "ok"
    /\ Returns(RelayEstablished(trace), relay.winner)
    /\ UNCHANGED <<mode, open, expired, stun, grace, answer, punch, relay, ended>>

(* The error of the punch is returned and the relay's only recorded;       *)
(* without a punch (relay only) the relay's error is the dial's.           *)
FailureReturned == IF mode = "relayOnly" THEN "punch" ELSE trace.fail

RelayFails ==
    /\ stage = "relay" /\ relay.at = "err"
    /\ Failed(Fail(trace, "punch"), FailureReturned)
    /\ UNCHANGED <<mode, open, expired, stun, grace, answer, punch, relay, ended>>
-----------------------------------------------------------------------------
(* The protocol: WrapStreamFromPunch, then (all but shadowsocks) its own   *)
(* TLS or header handshake; an error closes what there is.                 *)
WrapOK ==
    /\ stage = "wrap"
    /\ \/ stage' = "handshake" /\ UNCHANGED trace
       \/ stage' = "up" /\ trace' = Emit(HandshakeDone(trace))
    /\ UNCHANGED <<mode, open, expired, stun, grace, answer, punch, relay, ended, conn, err>>

ClosesHole == Close({conn})

ProtocolError ==
    /\ stage \in {"wrap", "handshake"}
    /\ Failed(Fail(trace, "handshake"), "handshake")
    /\ ClosesHole
    /\ UNCHANGED <<mode, stun, grace, answer, punch, relay, ended>>

HandshakeOK ==
    /\ stage = "handshake"
    /\ stage' = "up" /\ trace' = Emit(HandshakeDone(trace))
    /\ UNCHANGED <<mode, open, expired, stun, grace, answer, punch, relay, ended, conn, err>>

(* The caller gives the dial up, or its context expires.  Later than the   *)
(* discovery this ends reads and joins as their own timeouts do, and so    *)
(* does the cancellation of a race that is decided.                        *)
Cancel ==
    /\ stage = "discover" /\ ~ended
    /\ ended' = TRUE
    /\ UNCHANGED <<mode, stage, open, expired, stun, grace, answer, punch, relay>> /\ KeepsOutcome
-----------------------------------------------------------------------------
Discover(f) ==
    DiscoverCheck(f) \/ DiscoverSet(f) \/ DiscoverAnswer(f) \/ DiscoverTimeout(f)
    \/ DiscoverReadError(f) \/ DiscoverReceive(f)
PunchFamily(f) == PunchOK(f) \/ PunchError(f) \/ PunchTake(f)
Join(r) == RelayListen(r) \/ RelayJoined(r) \/ RelayError(r) \/ RelayTake(r)
Watch(r) == WatcherWakes(r) \/ WatcherExits(r) \/ WatcherFires(r)
Main ==
    OpenFamilies \/ Connect \/ ConnectRelayOnly \/ RacePunch \/ RaceRelay \/ DrainRelay
    \/ DrainPunch \/ PunchReturns \/ PunchFails \/ RelayReturns \/ RelayFails
    \/ WrapOK \/ ProtocolError \/ HandshakeOK
Timers == DiscoverGrace \/ PunchGrace

Next ==
    \/ Main \/ Timers \/ Cancel
    \/ \E f \in Families : Discover(f) \/ PunchFamily(f)
    \/ \E r \in Relays : Join(r) \/ Watch(r)

Spec == Init /\ [][Next]_vars

(* Go runs every runnable goroutine, and every read of the dial has a      *)
(* deadline, a timeout or a watcher.                                       *)
FairSpec ==
    /\ Spec /\ WF_vars(Main)
    /\ \A f \in Families : WF_vars(Discover(f)) /\ WF_vars(PunchFamily(f))
    /\ \A r \in Relays : WF_vars(Join(r)) /\ WF_vars(Watch(r))
-----------------------------------------------------------------------------
(* Of all the sockets of a dial (two families, one per relay) the only one *)
(* open after PunchTracedWithMode has returned is the one it has handed    *)
(* over, whichever of punch and relays have succeeded and in which order;  *)
(* after a failure there is none.  (And all variables keep their types.)   *)
SocketsAccounted ==
    /\ TypeOK
    /\ stage \in {"wrap", "handshake", "up", "failed"} => open = {conn} \ {"none"}

(* The grace drops a family that has not answered, never one that has: its *)
(* addresses reach the rendezvous server.  If its socket punches through   *)
(* it is handed over with no read deadline in the past, although the grace *)
(* may have set one after the family's goroutine had finished.             *)
AnsweredFamilyKept ==
    \A f \in Families :
        /\ stun[f].mapped # <<>> /\ stage = "connect" => f \in Surviving
        /\ stage = "wrap" /\ conn = f => f \notin expired

(* A dial sends its trace once, when it ends; it reports a relay exactly   *)
(* if the dial's socket is a relay's, and a tunnel only if that socket is  *)
(* open.  The stage that it reports is the stage of the error the caller   *)
(* gets: a failed relay never replaces the failure of the punch.  Only a   *)
(* handshake over a relay that rescued the dial fails after a recorded     *)
(* punch failure.                                                          *)
TraceTrue ==
    /\ stage = "failed" =>
         \/ err = trace.fail
         \/ err = "handshake" /\ trace.relayUsed /\ trace.fail \in {"punch", "candidate"}
    /\ trace.sent = IF stage \in {"up", "failed"} THEN 1 ELSE 0
    /\ conn # "none" => (trace.relayUsed <=> conn \in Relays)
    /\ trace.tunnel => conn \in open

(* Every dial ends. *)
DialEnds == <>(stage \in {"up", "failed"})

(* The relay is raced only on a NAT that gave one family two different     *)
(* mappings, which fails: guessNATType mixes the families.                 *)
RaceOnSymmetricNAT ==
    [][stage' = "race" => stage = "race" \/ \E f \in Surviving : Len(stun[f].mapped) > 1]_vars
=============================================================================
