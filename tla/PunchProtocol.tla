--------------------------- MODULE PunchProtocol ---------------------------
(***************************************************************************)
(* Hole punching between a client and a node for one address family        *)
(* (third_party/sing-quic/hysteria2/realm: punch_engine.go,                *)
(* punch_conn.go): Punch on the client; on the node the reading goroutine  *)
(* (PunchPacketConn.ReadFrom), the dispatcher and Respond with             *)
(* confirmRoundTrip.                                                       *)
(*                                                                         *)
(* Each direction has two ways to be aimed: at the candidates the          *)
(* rendezvous server listed, and at the address a packet was seen to come  *)
(* from.  NATs decide which of the four get through.  Init picks any of    *)
(* these, either mode of the node, and whether the network is lossy.       *)
(* Both candidate lists are non-empty: without candidates Punch and        *)
(* Respond return at once.                                                 *)
(***************************************************************************)
EXTENDS Naturals, Sequences, SequencesExt

CONSTANTS
    EventBuffer,  \* capacity of the event channels
    MaxInFlight   \* bound: no retransmission while so many packets travel

ASSUME ConstantsAssumption ==
    EventBuffer \in Nat \ {0} /\ MaxInFlight \in Nat \ {0}

VARIABLES
    open,     \* which (direction, aim) pairs get through
    passive,  \* the node is in direct mode: it answers and never probes
    lossy,    \* packets may be lost and reordered
    client,   \* Punch
    heard,    \* Punch has set confirmDeadline
    node,     \* Respond
    events,   \* punch packets on their way to Respond
    watched,  \* the peer has an entry in PunchPacketConn.watch
    traffic,  \* trafficCh is closed
    toNode,   \* packets travelling to the node, oldest first
    toClient

setting == <<open, passive, lossy>>
punchVars == <<setting, client, heard, node, events, watched, traffic, toNode, toClient>>

Ways == {"up", "down"} \X {"listed", "seen"}
Punches == {"hello", "ack"}

PunchTypeOK ==
    /\ open \in SUBSET Ways /\ passive \in BOOLEAN /\ lossy \in BOOLEAN
    /\ client \in {"idle", "punching", "won", "failed"}
    /\ heard \in BOOLEAN
    /\ node \in {"idle", "waiting", "acking", "confirming", "won", "failed"}
    /\ events \in Seq(Punches) /\ Len(events) <= EventBuffer
    /\ watched \in BOOLEAN /\ traffic \in BOOLEAN
    /\ toNode \in Seq(Punches \cup {"quic"})
    /\ toClient \in Seq(Punches)

PunchInit ==
    /\ open \in SUBSET Ways /\ passive \in BOOLEAN /\ lossy \in BOOLEAN
    /\ client = "idle" /\ heard = FALSE
    /\ node = "idle" /\ events = <<>>
    /\ watched = FALSE /\ traffic = FALSE
    /\ toNode = <<>> /\ toClient = <<>>
-----------------------------------------------------------------------------
(* A write to a candidate or to an observed address: what a NAT blocks     *)
(* never arrives.                                                          *)
Up(aims, packets) ==
    IF \E aim \in aims : <<"up", aim>> \in open THEN toNode \o packets ELSE toNode
Down(aim, packets) == IF <<"down", aim>> \in open THEN toClient \o packets ELSE toClient

Quiet == Len(toNode) + Len(toClient) < MaxInFlight

(* The node's AddAttempt and RemoveAttempt. *)
AttemptRegistered == node \in {"waiting", "acking", "confirming"}

(* Answers get through both ways, and so does the first Hello of at least  *)
(* one side, aimed at a candidate.                                         *)
Reachable ==
    /\ {<<"up", "seen">>, <<"down", "seen">>} \subseteq open
    /\ <<"up", "listed">> \in open \/ (~passive /\ <<"down", "listed">> \in open)

(* The deadlines (1.5 s, 10 s) are many times the retransmission interval  *)
(* of 100 ms and the round trip: on a network that neither loses packets   *)
(* nor blocks them they are not reached.                                   *)
DeadlineReached == lossy \/ ~Reachable

(* The packet read next from a queue: the oldest, or any if the network    *)
(* reorders.                                                               *)
Arrivals(queue) == {i \in 1..Len(queue) : lossy \/ i = 1}
-----------------------------------------------------------------------------
(* Punch: a Hello to every candidate at once and after every interval; the *)
(* source of a Hello of the node has become a candidate.                   *)
ClientSends ==
    /\ client = "idle" \/ (client = "punching" /\ Quiet)
    /\ client' = "punching"
    /\ toNode' = Up(IF heard THEN {"listed", "seen"} ELSE {"listed"}, <<"hello">>)
    /\ UNCHANGED <<setting, heard, node, events, watched, traffic, toClient>>

(* Punch reads a packet.  Only an Ack ends it; a Hello is answered, and    *)
(* the first one starts the confirmation window.                           *)
Wins(packet) == packet = "ack"

AckThenHello == <<"ack", "hello">>
Answer == <<"hello", "ack">>

ClientReads(i) ==
    /\ client = "punching"
    /\ i \in Arrivals(toClient)
    /\ toClient' = RemoveAt(toClient, i)
    /\ IF Wins(toClient[i])
         THEN client' = "won" /\ UNCHANGED <<heard, toNode>>
         ELSE heard' = TRUE /\ toNode' = Up({"seen"}, Answer) /\ UNCHANGED client
    /\ UNCHANGED <<setting, node, events, watched, traffic>>

(* Packets nobody reads any more, and those lost on the way. *)
ClientIgnores ==
    /\ toClient # <<>>
    /\ client \in {"won", "failed"} \/ lossy
    /\ \E i \in Arrivals(toClient) : toClient' = RemoveAt(toClient, i)
    /\ UNCHANGED <<setting, client, heard, node, events, watched, traffic, toNode>>

(* Either deadline of Punch. *)
ConfirmExpires == client = "punching" /\ heard /\ DeadlineReached
PunchExpires == client = "punching" /\ DeadlineReached
ClientGivesUp ==
    /\ ConfirmExpires \/ PunchExpires
    /\ client' = "failed"
    /\ UNCHANGED <<setting, heard, node, events, watched, traffic, toNode, toClient>>

(* After a successful Punch the QUIC handshake runs on the same socket     *)
(* towards the address the Ack came from.                                  *)
ClientHandshakes ==
    /\ client = "won"
    /\ Quiet
    /\ toNode' = Up({"seen"}, <<"quic">>)
    /\ UNCHANGED <<setting, client, heard, node, events, watched, traffic, toClient>>
-----------------------------------------------------------------------------
(* Respond: AddAttempt, then a Hello to every candidate unless passive,    *)
(* repeated by the ticker of Respond and of confirmRoundTrip.              *)
NodeSends ==
    /\ node = "idle" \/ (node \in {"waiting", "confirming"} /\ Quiet)
    /\ node' = IF node = "idle" THEN "waiting" ELSE node
    /\ toClient' = IF passive THEN toClient ELSE Down("listed", <<"hello">>)
    /\ UNCHANGED <<setting, client, heard, events, watched, traffic, toNode>>

(* PunchPacketConn.ReadFrom: a punch packet of the registered attempt      *)
(* becomes an event, dropped when the buffer is full; anything else is     *)
(* traffic of the peer and wakes the watcher.                              *)
Accepts == Len(events) < EventBuffer
Wakes == watched

NodeReads(i) ==
    /\ i \in Arrivals(toNode)
    /\ toNode' = RemoveAt(toNode, i)
    /\ IF AttemptRegistered /\ toNode[i] \in Punches
         THEN /\ events' = IF Accepts THEN Append(events, toNode[i]) ELSE events
              /\ UNCHANGED <<watched, traffic>>
         ELSE /\ traffic' = (traffic \/ Wakes)
              /\ watched' = (watched /\ ~Wakes)
              /\ UNCHANGED events
    /\ UNCHANGED <<setting, client, heard, node, toClient>>

NodeLoses ==
    /\ lossy
    /\ toNode # <<>>
    /\ \E i \in Arrivals(toNode) : toNode' = RemoveAt(toNode, i)
    /\ UNCHANGED <<setting, client, heard, node, events, watched, traffic, toClient>>

(* Respond takes an event.  An Ack ends it; after a Hello the watch is     *)
(* registered before the Ack is sent.                                      *)
Respond ==
    /\ node = "waiting"
    /\ events # <<>>
    /\ IF Head(events) = "ack"
         THEN node' = "won" /\ events' = <<>> /\ UNCHANGED <<watched, traffic>>
         ELSE /\ node' = "acking" /\ events' = Tail(events)
              /\ watched' = TRUE /\ traffic' = FALSE
    /\ UNCHANGED <<setting, client, heard, toNode, toClient>>

SendAck ==
    /\ node = "acking"
    /\ node' = "confirming"
    /\ toClient' = Down("seen", <<"ack">>)
    /\ UNCHANGED <<setting, client, heard, events, watched, traffic, toNode>>

(* confirmRoundTrip: an Ack or traffic of the peer confirms; another Hello *)
(* is answered and proves nothing.                                         *)
ConfirmedByAny(packet) == TRUE
Confirmed(packet) == packet = "ack"

ConfirmEvent ==
    /\ node = "confirming"
    /\ events # <<>>
    /\ IF Confirmed(Head(events))
         THEN node' = "won" /\ events' = <<>> /\ watched' = FALSE /\ UNCHANGED toClient
         ELSE /\ events' = Tail(events)
              /\ toClient' = Down("seen", <<"ack">>)
              /\ UNCHANGED <<node, watched>>
    /\ UNCHANGED <<setting, client, heard, traffic, toNode>>

ConfirmTraffic ==
    /\ node = "confirming"
    /\ traffic
    /\ node' = "won" /\ events' = <<>> /\ watched' = FALSE
    /\ UNCHANGED <<setting, client, heard, traffic, toNode, toClient>>

(* The confirmation window closes: back to waiting for another candidate.  *)
Unconfirmed ==
    /\ node = "confirming"
    /\ DeadlineReached
    /\ node' = "waiting" /\ watched' = FALSE
    /\ UNCHANGED <<setting, client, heard, events, traffic, toNode, toClient>>

(* The ten seconds of Respond are over. *)
NeverEnds == FALSE
RespondExpires == node \in {"waiting", "confirming"} /\ DeadlineReached
NodeGivesUp ==
    /\ RespondExpires
    /\ node' = "failed" /\ events' = <<>> /\ watched' = FALSE
    /\ UNCHANGED <<setting, client, heard, traffic, toNode, toClient>>
-----------------------------------------------------------------------------
ClientNext ==
    \/ ClientSends \/ ClientIgnores \/ ClientGivesUp \/ ClientHandshakes
    \/ \E i \in DOMAIN toClient : ClientReads(i)

NodeNext ==
    \/ NodeSends \/ NodeLoses \/ Respond \/ SendAck \/ ConfirmEvent
    \/ ConfirmTraffic \/ Unconfirmed \/ NodeGivesUp
    \/ \E i \in DOMAIN toNode : NodeReads(i)

PunchNext == ClientNext \/ NodeNext

PunchSpec == PunchInit /\ [][PunchNext]_punchVars

(* Timers fire, packets arrive and goroutines run.  A ticker and a         *)
(* deadline both fire again and again whatever else happens in between.    *)
FairPunchSpec ==
    /\ PunchSpec
    /\ SF_punchVars(ClientSends) /\ SF_punchVars(ClientHandshakes) /\ SF_punchVars(NodeSends)
    /\ WF_punchVars(\E i \in DOMAIN toClient : ClientReads(i))
    /\ WF_punchVars(ClientIgnores /\ client \in {"won", "failed"})
    /\ WF_punchVars(\E i \in DOMAIN toNode : NodeReads(i))
    /\ WF_punchVars(Respond) /\ WF_punchVars(SendAck)
    /\ WF_punchVars(ConfirmEvent) /\ WF_punchVars(ConfirmTraffic)
    /\ WF_punchVars(ClientGivesUp) /\ SF_punchVars(NodeGivesUp)
-----------------------------------------------------------------------------
Passes(direction) == \E aim \in {"listed", "seen"} : <<direction, aim>> \in open

(* The client never takes a one-way hole for success: whatever is lost or  *)
(* reordered and whatever the NATs block, Punch succeeds only if packets   *)
(* get through in both directions.  A Hello that arrives proves one only.  *)
ClientRoundTrip == client = "won" => Passes("up") /\ Passes("down")

(* The same for the node, whose Respond relies on the client's Ack or on   *)
(* the traffic that only a client that has succeeded sends.                *)
NodeRoundTrip == node = "won" => Passes("up") /\ Passes("down")

(* Neither side ever succeeds over a one-way hole. *)
RoundTrip == ClientRoundTrip /\ NodeRoundTrip

(* Where packets get through and are neither lost nor reordered both sides *)
(* succeed: the client's Hello before its Ack makes the node answer before *)
(* it stops listening.                                                     *)
BothWin == Reachable /\ ~lossy => <>(client = "won") /\ <>(node = "won")

(* Both sides end on every network; a path that does not work makes the    *)
(* client fail so that it can fall back to a relay.                        *)
PunchEnds == <>(client \in {"won", "failed"}) /\ <>(node \in {"won", "failed"})
=============================================================================
