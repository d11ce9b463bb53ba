----------------------------- MODULE Hy2Client -----------------------------
(***************************************************************************)
(* The Hysteria2 client of a realm                                         *)
(* (third_party/sing-quic/hysteria2: client.go and realm_*.go): one shared *)
(* dial at a time (offer, completeOffer), the fallback to a relay, the     *)
(* verification of direct connections, the background probe that moves the *)
(* client from a relay back to a direct connection, draining, proactive    *)
(* reconnection and CloseWithError, which a network change calls too.      *)
(*                                                                         *)
(* Every section under connAccess, and every step between two of them that *)
(* another goroutine can observe, is one action.  Durations are abstracted *)
(* to the order in which timers may fire.                                  *)
(***************************************************************************)
EXTENDS Integers, FiniteSets

CONSTANTS
    Conns,    \* clientQUICConnection objects, drawn fresh
    Callers,  \* callers of DialConn
    Nil

ASSUME ConstantsAssumption == Nil \notin Conns /\ IsFiniteSet(Callers)

VARIABLES
    conn,      \* Client.conn
    dial,      \* stage of the pending offer, "none" when Client.pending is nil
    built,     \* the connection offerNew returned, Nil for an error
    discarded, \* clientOffer.discarded
    closed,    \* Client.closed
    dropped,   \* the connection a CloseWithError closes after unlocking
    family,    \* clientQUICConnection.family, "none" before it is built
    alive,     \* connections whose QUIC context is not done
    verifier,  \* the goroutine of verifyDirect
    probe,     \* the goroutine of probeDirectWhileRelayed
    direct,    \* the connection a probe has dialled
    timedOut,  \* connections that idled out and idleReconnect has yet to see
    reconnect, \* connections whose reconnectProactively is about to call offer
    caller,    \* control state of a DialConn
    using,     \* the connection the caller got from offer
    streams,   \* clientQUICConnection.streams
    stale,     \* history: connections dialled before the last CloseWithError
    staleDial  \* history: so is the pending offer

offering == <<dial, built, discarded>>
closing == <<closed, dropped>>
link == <<family, alive>>
guards == <<verifier, probe, direct, timedOut, reconnect>>
users == <<caller, using, streams>>
history == <<stale, staleDial>>

vars == <<conn, offering, closing, link, guards, users, history>>

TypeOK ==
    /\ conn \in Conns \cup {Nil}
    /\ dial \in {"none", "dialing", "finish"}
    /\ built \in Conns \cup {Nil}
    /\ discarded \in BOOLEAN
    /\ closed \in BOOLEAN
    /\ dropped \in Conns \cup {Nil}
    /\ family \in [Conns -> {"none", "direct", "relay"}]
    /\ alive \in SUBSET Conns
    /\ verifier \in [Conns -> {"off", "running", "close", "reconnect", "passed"}]
    /\ probe \in [Conns -> {"off", "wait", "dial", "await", "swap", "drain"}]
    /\ direct \in [Conns -> Conns \cup {Nil}]
    /\ timedOut \in SUBSET Conns
    /\ reconnect \in SUBSET Conns
    /\ caller \in [Callers -> {"idle", "waiting", "got", "opened", "counted"}]
    /\ using \in [Callers -> Conns \cup {Nil}]
    /\ streams \in [Conns -> Nat]
    /\ stale \in SUBSET Conns
    /\ staleDial \in BOOLEAN

(* NewClient. *)
Init ==
    /\ conn = Nil
    /\ dial = "none" /\ built = Nil /\ discarded = FALSE
    /\ closed = FALSE /\ dropped = Nil
    /\ family = [c \in Conns |-> "none"]
    /\ alive = {}
    /\ verifier = [c \in Conns |-> "off"]
    /\ probe = [c \in Conns |-> "off"]
    /\ direct = [c \in Conns |-> Nil]
    /\ timedOut = {}
    /\ reconnect = {}
    /\ caller = [k \in Callers |-> "idle"]
    /\ using = [k \in Callers |-> Nil]
    /\ streams = [c \in Conns |-> 0]
    /\ stale = {} /\ staleDial = FALSE
-----------------------------------------------------------------------------
Fresh(c) == family[c] = "none"

(* isCurrentConn: the client is not closed and c is its live connection.   *)
IsCurrent(c) == ~closed /\ conn = c /\ c \in alive

(* closeWithError; a second call has no effect. *)
CloseConn(c) == alive' = alive \ {c}

(* realmHandshake: a new connection with the goroutines that watch it; old *)
(* tells whether its dial began before the last CloseWithError.            *)
Attach(c, f, old) ==
    /\ Fresh(c)
    /\ family' = [family EXCEPT ![c] = f]
    /\ alive' = alive \cup {c}
    /\ verifier' = [verifier EXCEPT ![c] = IF f = "direct" THEN "running" ELSE "off"]
    /\ stale' = IF old THEN stale \cup {c} ELSE stale
    /\ UNCHANGED <<timedOut, reconnect, staleDial>>
-----------------------------------------------------------------------------
(* offer, by a caller or by reconnectProactively: a live connection is     *)
(* returned, a pending offer is joined, otherwise a dial is started.       *)
Offer ==
    /\ IF dial = "none" /\ ~(conn \in alive)
         THEN dial' = "dialing" /\ discarded' = FALSE /\ staleDial' = FALSE
         ELSE UNCHANGED <<dial, discarded, staleDial>>
    /\ UNCHANGED <<conn, built, closing, link, stale>>

CallerOffers(k) ==
    /\ caller[k] = "idle"
    /\ caller' = [caller EXCEPT ![k] = IF conn \in alive THEN "got" ELSE "waiting"]
    /\ using' = [using EXCEPT ![k] = IF conn \in alive THEN conn ELSE Nil]
    /\ Offer
    /\ UNCHANGED <<guards, streams>>

Reconnects(c) ==
    /\ c \in reconnect
    /\ reconnect' = reconnect \ {c}
    /\ Offer
    /\ UNCHANGED <<verifier, probe, direct, timedOut, users>>

(* offerNewRealm returns a direct connection, a relay connection or an     *)
(* error; how it chooses is the subject of module Hy2Dial.                 *)
ProbeOf(f) == IF f = "relay" THEN "wait" ELSE "off"
Dial(c, f) ==
    /\ dial = "dialing"
    /\ dial' = "finish"
    /\ built' = c
    /\ Attach(c, f, staleDial)
    /\ probe' = [probe EXCEPT ![c] = ProbeOf(f)]
    /\ UNCHANGED <<conn, discarded, closing, direct, users>>

DialFails ==
    /\ dial = "dialing"
    /\ dial' = "finish"
    /\ built' = Nil
    /\ UNCHANGED <<conn, discarded, closing, link, guards, users, history>>

(* completeOffer, under the lock: a discarded offer never installs its     *)
(* connection, which is closed afterwards; the waiting callers are woken.  *)
InstallsAlways == built # Nil
Installs == ~discarded /\ built # Nil

WakesOnSuccess(k) == caller[k] = "waiting" /\ Installs
Wakes(k) == caller[k] = "waiting"

CompleteOffer ==
    /\ dial = "finish"
    /\ dial' = "none"
    /\ conn' = IF Installs THEN built ELSE conn
    /\ caller' = [k \in Callers |-> IF ~Wakes(k) THEN caller[k]
                                    ELSE IF Installs THEN "got" ELSE "idle"]
    /\ using' = [k \in Callers |-> IF Wakes(k) /\ Installs THEN built
                                   ELSE using[k]]
    /\ IF discarded /\ built # Nil THEN CloseConn(built) ELSE UNCHANGED alive
    /\ built' = Nil /\ discarded' = FALSE /\ staleDial' = FALSE
    /\ UNCHANGED <<closing, family, guards, streams, stale>>
-----------------------------------------------------------------------------
(* DialConn after offer: open the stream, then count it. *)
OpenStream(k) ==
    /\ caller[k] = "got"
    /\ caller' = [caller EXCEPT ![k] = IF using[k] \in alive THEN "opened" ELSE "idle"]
    /\ using' = [using EXCEPT ![k] = IF @ \in alive THEN @ ELSE Nil]
    /\ UNCHANGED <<conn, offering, closing, link, guards, streams, history>>

CountStream(k) ==
    /\ caller[k] = "opened"
    /\ caller' = [caller EXCEPT ![k] = "counted"]
    /\ streams' = [streams EXCEPT ![using[k]] = @ + 1]
    /\ UNCHANGED <<conn, offering, closing, link, guards, using, history>>

(* clientConn.Close, which releases the count once. *)
Release(n) == n - 1

CloseStream(k) ==
    /\ caller[k] = "counted"
    /\ caller' = [caller EXCEPT ![k] = "idle"]
    /\ using' = [using EXCEPT ![k] = Nil]
    /\ streams' = [streams EXCEPT ![using[k]] = Release(@)]
    /\ UNCHANGED <<conn, offering, closing, link, guards, history>>

(* The caller's context ends while it waits for the shared dial. *)
CallerLeaves(k) ==
    /\ caller[k] = "waiting"
    /\ caller' = [caller EXCEPT ![k] = "idle"]
    /\ UNCHANGED <<conn, offering, closing, link, guards, using, streams, history>>
-----------------------------------------------------------------------------
(* A connection ends by idle timeout, or is closed by the peer or by the   *)
(* stall watch.                                                            *)
ConnEnds(c, idle) ==
    /\ c \in alive
    /\ CloseConn(c)
    /\ timedOut' = IF idle THEN timedOut \cup {c} ELSE timedOut
    /\ UNCHANGED <<conn, offering, closing, family, verifier, probe, direct,
                   reconnect, users, history>>

(* idleReconnect: after an idle timeout of the current connection of a     *)
(* client that is not closed, offer again.                                 *)
Redials(c) == ~closed /\ conn = c
IdleReconnect(c) ==
    /\ c \in timedOut
    /\ timedOut' = timedOut \ {c}
    /\ reconnect' = IF Redials(c) THEN reconnect \cup {c} ELSE reconnect
    /\ UNCHANGED <<conn, offering, closing, link, verifier, probe, direct, users, history>>

(* verifyDirect: an RTT sample after the settle time verifies the          *)
(* connection and clears the failures.  The select of waitDirectVerified   *)
(* may take this case, or the deadline, although the connection has just   *)
(* ended.  A probe that waits for the verdict is woken at once when its    *)
(* relay ends, long before the settle time is over.                        *)
VerifyPasses(c) ==
    /\ verifier[c] = "running"
    /\ \A r \in Conns : probe[r] = "await" /\ direct[r] = c => r \in alive
    /\ verifier' = [verifier EXCEPT ![c] = "passed"]
    /\ UNCHANGED <<conn, offering, closing, link, probe, direct, timedOut, reconnect, users, history>>

(* No sample by the deadline: count a failure and see whether the          *)
(* connection is the current one; then close it and reconnect if it was.   *)
VerifyFails(c) ==
    /\ verifier[c] = "running"
    /\ verifier' = [verifier EXCEPT ![c] = IF IsCurrent(c) THEN "reconnect" ELSE "close"]
    /\ UNCHANGED <<conn, offering, closing, link, probe, direct, timedOut, reconnect, users, history>>

VerifyCloses(c) ==
    /\ verifier[c] \in {"close", "reconnect"}
    /\ verifier' = [verifier EXCEPT ![c] = "off"]
    /\ CloseConn(c)
    /\ reconnect' = IF verifier[c] = "reconnect" THEN reconnect \cup {c} ELSE reconnect
    /\ UNCHANGED <<conn, offering, closing, family, probe, direct, timedOut, users, history>>

(* The connection ended before the verdict: nothing is counted. *)
VerifyEnds(c) ==
    /\ verifier[c] = "running"
    /\ c \notin alive
    /\ verifier' = [verifier EXCEPT ![c] = "off"]
    /\ UNCHANGED <<conn, offering, closing, link, probe, direct, timedOut,
                   reconnect, users, history>>
-----------------------------------------------------------------------------
(* probeDirectWhileRelayed of relay connection r.  Its context ends with   *)
(* the relay connection.                                                   *)
ProbeExits(r) ==
    /\ probe[r] = "wait"
    /\ r \notin alive
    /\ probe' = [probe EXCEPT ![r] = "off"]
    /\ UNCHANGED <<conn, offering, closing, link, verifier, direct, timedOut,
                   reconnect, users, history>>

(* The retry timer, a minute or more after the handshake, when the offer   *)
(* that built the connection has long completed.                           *)
ProbeTimer(r) ==
    /\ probe[r] = "wait"
    /\ built # r
    /\ probe' = [probe EXCEPT ![r] = IF IsCurrent(r) THEN "dial" ELSE "off"]
    /\ UNCHANGED <<conn, offering, closing, link, verifier, direct, timedOut,
                   reconnect, users, history>>

(* offerNewRealmPunch(ctx, false): fails before or in the handshake, or    *)
(* gives a direct connection that is being verified.                       *)
ProbeDial(r) ==
    /\ probe[r] = "dial"
    /\ \/ \E d \in Conns :
            /\ r \in alive
            /\ Attach(d, "direct", r \in stale)
            /\ direct' = [direct EXCEPT ![r] = d]
            /\ probe' = [probe EXCEPT ![r] = "await"]
       \/ /\ probe' = [probe EXCEPT ![r] = "wait"]
          /\ UNCHANGED <<link, verifier, direct, timedOut, reconnect, history>>
    /\ UNCHANGED <<conn, offering, closing, users>>

(* awaitDirectVerified: any case of the select that is ready. *)
HandshakeDone(d) == d \in alive
Verified(d) == verifier[d] = "passed"
ProbeVerified(r) ==
    /\ probe[r] = "await"
    /\ Verified(direct[r])
    /\ probe' = [probe EXCEPT ![r] = "swap"]
    /\ UNCHANGED <<conn, offering, closing, link, verifier, direct, timedOut,
                   reconnect, users, history>>

ProbeUnverified(r) ==
    /\ probe[r] = "await"
    /\ direct[r] \notin alive \/ r \notin alive
    /\ CloseConn(direct[r])
    /\ probe' = [probe EXCEPT ![r] = "wait"]
    /\ direct' = [direct EXCEPT ![r] = Nil]
    /\ UNCHANGED <<conn, offering, closing, family, verifier, timedOut,
                   reconnect, users, history>>

(* swapConn, which looks at closed and at the current connection only; a   *)
(* direct connection that is not installed is closed.                      *)
Swaps(r) == ~closed /\ conn = r
ProbeSwap(r) ==
    /\ probe[r] = "swap"
    /\ IF Swaps(r)
         THEN /\ conn' = direct[r]
              /\ probe' = [probe EXCEPT ![r] = "drain"]
              /\ UNCHANGED alive
         ELSE /\ CloseConn(direct[r])
              /\ probe' = [probe EXCEPT ![r] = "off"]
              /\ UNCHANGED conn
    /\ direct' = [direct EXCEPT ![r] = Nil]
    /\ UNCHANGED <<offering, closing, family, verifier, timedOut, reconnect, users, history>>

(* drainConn: closed when idle, or at the deadline, unless it has ended.   *)
DrainEnds(r) ==
    /\ probe[r] = "drain"
    /\ CloseConn(r)
    /\ probe' = [probe EXCEPT ![r] = "off"]
    /\ UNCHANGED <<conn, offering, closing, family, verifier, direct, timedOut,
                   reconnect, users, history>>

IdleAtOne(r) == streams[r] <= 1 /\ DrainEnds(r)
Drained(r) == streams[r] <= 0 /\ DrainEnds(r)
NoDeadline(r) == Drained(r)
DrainDeadline(r) == DrainEnds(r)
-----------------------------------------------------------------------------
(* CloseWithError: called by Close and, on a network change, by            *)
(* InterfaceUpdated, after which the client goes on being used.  closed is *)
(* set before the lock is taken; whoever reads it in between gives up, as  *)
(* it would once the connection is gone.                                   *)
CloseWithError ==
    /\ dropped = Nil
    /\ closed' = TRUE
    /\ dropped' = conn
    /\ conn' = Nil
    /\ discarded' = (dial # "none")
    /\ stale' = alive
    /\ staleDial' = (dial # "none")
    /\ UNCHANGED <<dial, built, link, guards, users>>

CloseDropped ==
    /\ dropped # Nil
    /\ dropped' = Nil
    /\ CloseConn(dropped)
    /\ UNCHANGED <<conn, offering, closed, family, guards, users, history>>

Dials ==
    \/ \E c \in Conns, f \in {"direct", "relay"} : Dial(c, f)
    \/ DialFails
    \/ CompleteOffer

Uses(k) ==
    \/ CallerOffers(k) \/ OpenStream(k) \/ CountStream(k) \/ CloseStream(k) \/ CallerLeaves(k)

Verifies(c) == VerifyPasses(c) \/ VerifyFails(c) \/ VerifyCloses(c) \/ VerifyEnds(c)

Probes(r) ==
    \/ ProbeExits(r) \/ ProbeTimer(r) \/ ProbeDial(r) \/ ProbeVerified(r)
    \/ ProbeUnverified(r) \/ ProbeSwap(r) \/ Drained(r)
    \/ DrainDeadline(r)

Next ==
    \/ Dials
    \/ \E k \in Callers : Uses(k)
    \/ \E c \in Conns :
         \/ \E idle \in BOOLEAN : ConnEnds(c, idle)
         \/ IdleReconnect(c)
         \/ Reconnects(c)
         \/ Verifies(c)
         \/ Probes(c)
    \/ CloseWithError
    \/ CloseDropped

Spec == Init /\ [][Next]_vars

(* Dials, verifications, probes and drains go on: each of their steps is   *)
(* bounded by a timeout of its own.                                        *)
FairSpec ==
    /\ Spec
    /\ WF_vars(Dials)
    /\ \A c \in Conns :
         /\ WF_vars(IdleReconnect(c))
         /\ WF_vars(Reconnects(c))
         /\ WF_vars(Verifies(c))
         /\ WF_vars(Probes(c))
    /\ WF_vars(CloseDropped)
-----------------------------------------------------------------------------
(* After a network change or Close, no connection whose dial began before  *)
(* it is ever installed or handed to a caller that asks later: pending     *)
(* offers are discarded and probes of the old connection give up.  (And    *)
(* all variables keep their types.)                                        *)
NoStaleConn == TypeOK /\ conn \notin stale

(* A live relay connection is only ever left for a direct connection that  *)
(* was verified, never for one that has merely shaken hands.               *)
LeavesForVerified ==
    conn \in alive /\ family[conn] = "relay" /\ conn' \notin {conn, Nil}
        => verifier[conn'] = "passed"
WorkingRelayKept == [][LeavesForVerified]_vars

(* Switching back to a direct connection does not cut a stream on the      *)
(* relay connection: before its deadline the drain closes the relay only   *)
(* when no caller has a counted stream open on it.  A stream that is open  *)
(* and not counted yet has no such protection.                             *)
DrainsWhenUnused ==
    \A r \in Conns : r \in alive /\ Drained(r) =>
        ~\E k \in Callers : using[k] = r /\ caller[k] = "counted"
StreamsSurviveSwitch == [][DrainsWhenUnused]_vars

(* Every live connection has an owner that will close it: the client, the  *)
(* pending offer, a CloseWithError, a probe, a drain or a verification.    *)
(* It fails from three connections on: completeOffer overwrites a direct   *)
(* connection that a probe has installed while the offer was under way.    *)
NoOrphan ==
    \A c \in alive :
        \/ c \in {conn, built, dropped}
        \/ \E r \in Conns : direct[r] = c
        \/ probe[c] = "drain"
        \/ verifier[c] \in {"close", "reconnect"}

(* A caller that waits for the shared dial is answered. *)
CallersAnswered == \A k \in Callers : caller[k] = "waiting" ~> caller[k] # "waiting"

(* While a client that was not closed stays on a relay, the direct path is *)
(* retried in the background.                                              *)
RelayProbed ==
    \A r \in Conns :
        (conn = r /\ r \in alive /\ family[r] = "relay")
            ~> (probe[r] \in {"dial", "await", "swap"} \/ conn # r \/ r \notin alive \/ closed)

(* The same for a client whose network has changed, which fails: closed    *)
(* stays set after a network change.                                       *)
RelayAlwaysProbed ==
    \A r \in Conns :
        (conn = r /\ r \in alive /\ family[r] = "relay")
            ~> (probe[r] \in {"dial", "await", "swap"} \/ conn # r \/ r \notin alive)

(* A current connection that ends by idle timeout is redialled without     *)
(* waiting for a new stream.                                               *)
IdleRedialled ==
    \A c \in Conns :
        (conn = c /\ c \in timedOut /\ ~closed) ~> (conn # c \/ dial # "none" \/ closed)

(* A relay connection the client has switched away from is closed.         *)
SwitchedRelayReleased == \A r \in Conns : probe[r] = "drain" ~> r \notin alive

(* The goroutines that look after connections do what they are for: the    *)
(* three properties above.                                                 *)
Maintained == RelayProbed /\ IdleRedialled /\ SwitchedRelayReleased
=============================================================================
