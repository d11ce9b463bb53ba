---------------------------- MODULE URLTestGroup ----------------------------
(***************************************************************************)
(* An outbound group that selects one of its nodes by URL tests            *)
(* (protocol/group/urltest.go), in its plain mode (the fastest node, with  *)
(* a tolerance) and in the failover mode (failover_strikes: the first node *)
(* until it has failed that many tests in a row), with the interrupt group *)
(* that closes connections after a switch (common/interrupt) and the       *)
(* history of test results (common/urltest).                               *)
(*                                                                         *)
(* Several goroutines act on the group: the round of tests (one at a time, *)
(* guarded by checking), the ticker, the timer of a forced round,          *)
(* another group (the application's health check) that tests this group's  *)
(* current node, and the dials.  selectedOutboundTCP and -UDP are not      *)
(* locked, so every read and write of them is a step of its own.           *)
(***************************************************************************)
EXTENDS Naturals, Sequences, Functions

CONSTANTS
    Order,      \* the outbounds in the order of the configuration
    Strikes,    \* failover_strikes of the groups considered; 0 is the plain mode
    Delays,     \* test results, in ms
    Tolerance,  \* in ms
    Conns,      \* connections, by name
    External,   \* those that a switch does not interrupt (isExternal)
    UDPConns,   \* those that use UDP
    MaxDelay    \* 2^16: delays are uint16

Nodes == Range(Order)
NoResult == MaxDelay
Nets == {"tcp", "udp"}
NetOf(c) == IF c \in UDPConns THEN "udp" ELSE "tcp"

ASSUME ConstantsAssumption ==
    /\ Order \in Seq(Nodes) /\ Order # <<>> /\ \A i, j \in DOMAIN Order : Order[i] = Order[j] => i = j
    /\ Strikes \subseteq Nat /\ MaxDelay \in Nat
    /\ Delays \subseteq 0..MaxDelay - 1 /\ Delays # {}
    /\ Tolerance \in 1..MaxDelay - 1
    /\ External \subseteq Conns /\ UDPConns \subseteq Conns
    /\ "none" \notin Nodes

VARIABLES
    needed,    \* failoverStrikes of this group
    up,        \* nodes that work now
    selected,  \* selectedOutboundTCP, selectedOutboundUDP
    strikes,   \* consecutive failures per node, up to the number that condemns
    history,   \* delay per node, or NoResult
    checking,  \* the flag of a running round
    round,     \* the round that holds the flag
    probe,     \* a test of the current node by another group
    pending,   \* recheckPending: a forced round is scheduled
    ticker,    \* the ticker exists, with the goroutine that waits for its ticks
    active,    \* lastActive is recent
    conn,      \* the connections
    failed     \* history variable: tests the first node has failed in a row

vars == <<needed, up, selected, strikes, history, checking, round, probe, pending,
          ticker, active, conn, failed>>

NoRound == [at |-> "idle", left |-> {}, again |-> FALSE, updated |-> FALSE]
NoProbe == [at |-> "idle", node |-> "none"]

TypeOK ==
    /\ needed \in Strikes /\ up \subseteq Nodes
    /\ selected \in [Nets -> Nodes \cup {"none"}]
    /\ strikes \in [Nodes -> 0..needed] /\ failed \in 0..needed
    /\ history \in [Nodes -> Delays \cup {NoResult}]
    /\ checking \in BOOLEAN /\ pending \in BOOLEAN
    /\ active \in BOOLEAN
    /\ round \in [at : {"idle", "test", "udp", "interrupt"}, left : SUBSET Nodes,
                  again : BOOLEAN, updated : BOOLEAN]
    /\ probe \in [at : {"idle", "test", "act"}, node : Nodes \cup {"none"}]
    /\ ticker \in BOOLEAN
    /\ conn \in [Conns -> [at : {"off", "dial", "open"}, node : Nodes \cup {"none"}, late : BOOLEAN]]
    /\ \A c \in Conns : conn[c].at # "off" => conn[c].node \in Nodes

NoConn == [at |-> "off", node |-> "none", late |-> FALSE]
-----------------------------------------------------------------------------
(* strikes: a failure of a condemned node changes nothing that is looked   *)
(* at, so the count stops there.                                           *)
Counted(n) == IF strikes[n] < needed THEN strikes[n] + 1 ELSE needed

OneTooFew(s, n) == s[n] + 1 >= needed
condemned(s, n) == s[n] >= needed
NoStrikes == [n \in Nodes |-> 0]

(* selectFailover: the node to use and the strikes after it. *)
ResetKept(s, o) == [node |-> Order[1], exists |-> TRUE, strikes |-> s]
ResetStrikes(s, o) == [node |-> Order[1], exists |-> TRUE, strikes |-> NoStrikes]

First(S) == CHOOSE i \in S : \A j \in S : i <= j

selectFailover(s, cur) ==
    LET alive == {i \in DOMAIN Order : ~condemned(s, Order[i])}
    IN  IF cur # "none" /\ ~condemned(s, cur) THEN [node |-> cur, exists |-> TRUE, strikes |-> s]
        ELSE IF alive # {} THEN [node |-> Order[First(alive)], exists |-> TRUE, strikes |-> s]
        ELSE ResetStrikes(s, cur)

(* Select in the plain mode: the current node unless another one is faster *)
(* by more than the tolerance; uint16 arithmetic, and a minDelay of 0      *)
(* means that there is none yet.                                           *)
Better(min, d) == min = 0 \/ min > (d + Tolerance) % MaxDelay

Consider(acc, n) ==
    IF history[n] # NoResult /\ Better(acc.min, history[n]) THEN [min |-> history[n], node |-> n] ELSE acc

(* The loop over the outbounds: what it has found after each of them. *)
Scan(start) ==
    LET seen[i \in 0..Len(Order)] == IF i = 0 THEN start ELSE Consider(seen[i - 1], Order[i]) IN seen

FirstNode(s) == [node |-> Order[1], exists |-> FALSE, strikes |-> s]

selectFastest(s, cur) ==
    LET start == IF cur # "none" /\ history[cur] # NoResult
                   THEN [min |-> history[cur], node |-> cur] ELSE [min |-> 0, node |-> "none"]
        best == Scan(start)[Len(Order)]
    IN  IF best.node = "none" THEN FirstNode(s)
                              ELSE [node |-> best.node, exists |-> TRUE, strikes |-> s]

Select(s, cur) == IF needed > 0 THEN selectFailover(s, cur) ELSE selectFastest(s, cur)

(* URLTest.Start: the failover mode selects at once. *)
Init ==
    /\ needed \in Strikes /\ up = Nodes
    /\ selected = [w \in Nets |-> IF needed > 0 THEN Order[1] ELSE "none"]
    /\ strikes = NoStrikes /\ failed = 0
    /\ history = [n \in Nodes |-> NoResult]
    /\ checking = TRUE /\ probe = NoProbe   \* PostStart starts a round; there is no result yet
    /\ round = [at |-> "test", left |-> IF needed > 0 THEN {Order[1]} ELSE Nodes,
                again |-> FALSE, updated |-> FALSE]
    /\ pending = FALSE
    /\ ticker = FALSE /\ active = TRUE
    /\ conn = [c \in Conns |-> NoConn]
-----------------------------------------------------------------------------
(* urlTest: without force, a node with a recent result is left out.  In    *)
(* the failover mode only the nodes in use are tested.                     *)
failoverCheckTargets ==
    LET t == selectFailover(strikes, selected["tcp"])
        u == selectFailover(t.strikes, selected["udp"])
    IN  {t.node, u.node}
Targets == IF needed > 0 THEN failoverCheckTargets ELSE Nodes

StrikesAfterTargets ==
    IF needed > 0
      THEN selectFailover(selectFailover(strikes, selected["tcp"]).strikes, selected["udp"]).strikes
      ELSE strikes

Recent == {n \in Nodes : history[n] # NoResult}

StartRound(force) ==
    /\ checking' = TRUE
    /\ strikes' = StrikesAfterTargets
    /\ \E skip \in IF force THEN {{}} ELSE SUBSET Recent :
         round' = [at |-> "test", left |-> Targets \ skip, again |-> FALSE, updated |-> FALSE]

(* checking.Swap(true) finds a round running: nothing is done. *)
Check == IF checking THEN UNCHANGED <<checking, strikes, round>> ELSE StartRound(FALSE)

(* The result of one test of the round. *)
KeepsStrikes(n) == strikes
Cleared(n) == [strikes EXCEPT ![n] = 0]

(* Only the plain mode compares delays. *)
DelaysSeen == IF needed > 0 THEN {CHOOSE d \in Delays : TRUE} ELSE Delays

Passed(n) ==
    /\ strikes' = IF needed > 0 THEN Cleared(n) ELSE strikes
    /\ failed' = IF n = Order[1] THEN 0 ELSE failed
    /\ \E d \in DelaysSeen : history' = [history EXCEPT ![n] = d]

Struck(n) ==
    /\ strikes' = [strikes EXCEPT ![n] = Counted(n)]
    /\ failed' = IF n = Order[1] /\ failed < needed THEN failed + 1 ELSE failed

FailedTest(n) ==
    /\ Struck(n)
    /\ history' = IF Counted(n) < needed THEN history ELSE [history EXCEPT ![n] = NoResult]

TestDone(n) ==
    /\ round.at = "test" /\ n \in round.left
    /\ IF n \in up THEN Passed(n) ELSE FailedTest(n)
    /\ round' = [at |-> "test", left |-> round.left \ {n}, updated |-> round.updated,
                 again |-> round.again \/ (n \notin up /\ Counted(n) < needed)]
    /\ UNCHANGED <<needed, up, selected, checking, probe, pending, ticker, active, conn>>

(* performUpdateCheck: a new selection for TCP, one for UDP, and           *)
(* connections are interrupted if a selection was replaced.                *)
Moved(s, cur) ==
    LET r == Select(s, cur)
        moves == cur = "none" \/ (r.exists /\ r.node # cur)
    IN  [node |-> IF moves THEN r.node ELSE cur, strikes |-> r.strikes, updated |-> moves /\ cur # "none"]

InterruptsTCP(c) == c \notin External /\ NetOf(c) = "tcp"
Interrupts(c) == c \notin External

AfterInterrupt(updated) ==
    [c \in Conns |-> IF updated /\ conn[c].at = "open" /\ Interrupts(c) THEN NoConn ELSE conn[c]]

RoundUpdate(net) ==
    /\ IF net = "tcp" THEN round.at = "test" /\ round.left = {} ELSE round.at = net
    /\ LET r == Moved(strikes, selected[net])
       IN  /\ strikes' = r.strikes
           /\ selected' = [selected EXCEPT ![net] = r.node]
           /\ round' = [at |-> IF net = "tcp" THEN "udp" ELSE "interrupt", left |-> {},
                        again |-> round.again, updated |-> round.updated \/ r.updated]
    /\ UNCHANGED <<needed, up, history, checking, probe, pending, ticker, active, conn, failed>>

(* The end of the round: the interruption, scheduleCheck for a node with a *)
(* first strike, and the flag is cleared.                                  *)
RoundDone ==
    /\ round.at = "interrupt"
    /\ conn' = AfterInterrupt(round.updated)
    /\ pending' = (pending \/ round.again)
    /\ checking' = FALSE /\ round' = NoRound
    /\ UNCHANGED <<needed, up, selected, strikes, history, probe, ticker, active, failed>>
-----------------------------------------------------------------------------
(* scheduleCheck: after the delay the timer looks at the flag and starts a *)
(* forced round; while a round runs it waits.                              *)
TimerFires ==
    /\ pending /\ ~checking
    /\ pending' = FALSE
    /\ StartRound(TRUE)
    /\ UNCHANGED <<needed, up, selected, history, probe, ticker, active, conn, failed>>

(* loopCheck: a tick while the group is used.  A tick during a round does  *)
(* nothing, whoever runs the round.  A timer that has just found the flag  *)
(* clear gives up its forced round when this one sets it first.            *)
LoopCheck ==
    /\ ticker /\ active
    /\ Check
    /\ pending' \in IF checking THEN {pending} ELSE {pending, FALSE}
    /\ UNCHANGED <<needed, up, selected, history, probe, ticker, active, conn, failed>>

(* The group has not been used for idleTimeout: the loop ends. *)
LoopEnds ==
    /\ ticker /\ ~active
    /\ ticker' = FALSE
    /\ UNCHANGED <<needed, up, selected, strikes, history, checking, round, probe, pending,
                   active, conn, failed>>

Unused ==
    /\ active /\ \A c \in Conns : conn[c].at # "dial"
    /\ active' = FALSE
    /\ UNCHANGED <<needed, up, selected, strikes, history, checking, round, probe, pending,
                   ticker, conn, failed>>
-----------------------------------------------------------------------------
(* Another group tests this one: it asks Now(), tests that node and calls  *)
(* onExternalProbe (only in the failover mode).  It shares the history,    *)
(* and is itself in the plain mode: a failure drops the result.            *)
Now == IF selected["tcp"] # "none" THEN selected["tcp"] ELSE selected["udp"]

ProbeStarts ==
    /\ needed > 0 /\ probe.at = "idle" /\ Now # "none"
    /\ probe' = [at |-> "test", node |-> Now]
    /\ UNCHANGED <<needed, up, selected, strikes, history, checking, round, pending, ticker, active, conn, failed>>

ProbeDone ==
    /\ probe.at = "test"
    /\ IF probe.node \in up THEN Passed(probe.node)
       ELSE /\ Struck(probe.node)
            /\ history' = [history EXCEPT ![probe.node] = NoResult]
    /\ probe' = IF probe.node \in up \/ Counted(probe.node) < needed THEN NoProbe
                ELSE [at |-> "act", node |-> probe.node]
    /\ UNCHANGED <<needed, up, selected, checking, round, pending, ticker, active, conn>>

(* A running round is left to switch at its end.  Otherwise the probe runs *)
(* performUpdateCheck itself: one step, because a round that starts now    *)
(* updates only after its tests.                                           *)
LeavesToRound == checking
ProbeActs ==
    /\ probe.at = "act"
    /\ probe' = NoProbe
    /\ LET t == Moved(strikes, selected["tcp"])
           u == Moved(t.strikes, selected["udp"])
       IN  IF LeavesToRound THEN UNCHANGED <<strikes, selected, conn>>
           ELSE /\ strikes' = u.strikes
                /\ selected' = [tcp |-> t.node, udp |-> u.node]
                /\ conn' = AfterInterrupt(t.updated \/ u.updated)
    /\ UNCHANGED <<needed, up, history, checking, round, pending, ticker, active, failed>>
-----------------------------------------------------------------------------
(* DialContext and ListenPacket: Touch, then the node to dial.  A new loop *)
(* stores lastActive itself when it is old, and may test at once.  A loop  *)
(* that has read the old lastActive before Touch ends after it.            *)
Dial(c) ==
    /\ conn[c].at = "off"
    /\ active' = TRUE
    /\ ticker' \in IF ticker /\ ~active THEN BOOLEAN ELSE {TRUE}
    /\ LET cur == selected[NetOf(c)]
           r == Select(strikes, "none")
       IN  /\ conn' = [conn EXCEPT ![c] = [at |-> "dial", node |-> IF cur # "none" THEN cur ELSE r.node,
                                           late |-> FALSE]]
           /\ strikes' = IF cur # "none" THEN strikes ELSE r.strikes
    /\ UNCHANGED <<needed, up, selected, history, checking, round, probe, pending, failed>>

(* The connection is registered in the interrupt group, perhaps after the  *)
(* switch that would have interrupted it, or before any node is selected.  *)
DialOK(c) ==
    /\ conn[c].at = "dial" /\ conn[c].node \in up
    /\ conn' = [conn EXCEPT ![c] = [at |-> "open", node |-> conn[c].node,
                                    late |-> selected[NetOf(c)] # conn[c].node]]
    /\ UNCHANGED <<needed, up, selected, strikes, history, checking, round, probe, pending,
                   ticker, active, failed>>

(* onDialFailure *)
DialFails(c) ==
    /\ conn[c].at = "dial"
    /\ conn' = [conn EXCEPT ![c] = NoConn]
    /\ IF needed = 0
         THEN history' = [history EXCEPT ![conn[c].node] = NoResult] /\ UNCHANGED pending
         ELSE pending' = TRUE /\ UNCHANGED history
    /\ UNCHANGED <<needed, up, selected, strikes, checking, round, probe, ticker, active, failed>>

CloseConn(c) ==
    /\ conn[c].at = "open"
    /\ conn' = [conn EXCEPT ![c] = NoConn]
    /\ UNCHANGED <<needed, up, selected, strikes, history, checking, round, probe, pending,
                   ticker, active, failed>>

(* The network: a node goes down or comes back. *)
Flip(n) ==
    /\ up' = IF n \in up THEN up \ {n} ELSE up \cup {n}
    /\ UNCHANGED <<needed, selected, strikes, history, checking, round, probe, pending,
                   ticker, active, conn, failed>>
-----------------------------------------------------------------------------
Round == (\E n \in Nodes : TestDone(n)) \/ (\E w \in Nets : RoundUpdate(w)) \/ RoundDone
Loop == LoopCheck \/ LoopEnds
Probe == ProbeDone \/ ProbeActs

Next ==
    \/ Round \/ TimerFires \/ Loop \/ Unused \/ ProbeStarts \/ Probe
    \/ \E c \in Conns : Dial(c) \/ DialOK(c) \/ DialFails(c) \/ CloseConn(c)
    \/ \E n \in Nodes : Flip(n)

Spec == Init /\ [][Next]_vars

(* Tests have timeouts and timers fire.  The connections keep being        *)
(* dialled: an unused group stops testing on purpose.                      *)
FairSpec ==
    /\ Spec /\ WF_vars(Round) /\ SF_vars(TimerFires)
    /\ SF_vars(LoopCheck /\ ~checking /\ round'.left = Targets) /\ WF_vars(Probe)
    /\ \A c \in Conns : WF_vars(Dial(c) \/ DialOK(c) \/ DialFails(c) \/ CloseConn(c))
-----------------------------------------------------------------------------
(* Strikes are failures in a row: the first node never has more than the   *)
(* tests it has failed since it last passed one, whoever tested it.        *)
StrikesInARow == needed > 0 => strikes[Order[1]] <= failed

(* Plain mode: the node that would be selected is within the tolerance of  *)
(* the fastest one, as long as no delay is 0 and no sum overflows.         *)
SelectsNearFastest ==
    needed = 0 /\ (\A n \in Recent : history[n] > 0 /\ history[n] + Tolerance < MaxDelay) =>
        \A w \in Nets : LET r == Select(strikes, selected[w])
                        IN  r.exists => \A n \in Recent : history[r.node] <= history[n] + Tolerance

(* What selections rest on, in the two modes, is sound.  (And all          *)
(* variables keep their types: what is selected is a node.)                *)
SelectionSound == TypeOK /\ StrikesInARow /\ SelectsNearFastest

(* In the failover mode the group leaves the first node only when it has   *)
(* failed as many tests in a row as failover_strikes says.                 *)
SwitchJustified ==
    [][\A w \in Nets : needed > 0 /\ selected[w] = Order[1] /\ selected'[w] # Order[1] =>
         failed >= needed]_vars

(* A connection that the group may interrupt does not outlive the switch   *)
(* away from its node: while no switch is under way, it is on the selected *)
(* node, unless that node was not the selected one when it was registered. *)
OldConnsInterrupted ==
    ~round.updated =>
        \A c \in Conns \ External :
            conn[c].at = "open" => conn[c].late \/ conn[c].node = selected[NetOf(c)]

(* Failover mode: when only one node works for good, the group ends up on  *)
(* it for both networks, as long as it is used.  (In the plain mode every  *)
(* failed dial, even of a working node, drops the node's result, and one   *)
(* that falls before each selection keeps the group where it is.)          *)
FindsWorkingNode ==
    needed > 0 => \A n \in Nodes : <>[](up = {n}) => <>[](selected["tcp"] = n /\ selected["udp"] = n)

(* When all nodes are condemned the group goes back to the first: an       *)
(* update that moves TCP to the first node leaves UDP there too (every     *)
(* node here carries both).  It fails: TCP's selection clears the strikes  *)
(* that UDP's is about to read.                                            *)
BackToFirst ==
    [][needed > 0 /\ round.at = "udp" /\ round'.at = "interrupt" /\ round.updated
         /\ selected["tcp"] = Order[1] => selected'["udp"] = Order[1]]_vars
=============================================================================
