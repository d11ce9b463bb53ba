--------------------------- MODULE RealmPeerProofs --------------------------
(***************************************************************************)
(* Proofs about the two protocols of a realm's node.  Hole punching with a *)
(* client, for every buffer size, every number of packets in flight, both  *)
(* modes of the node and every network.  Publication of its addresses, for *)
(* any number of sessions and addresses of a NAT that hands out no address *)
(* twice.                                                                  *)
(***************************************************************************)
EXTENDS PunchProtocol, RealmNode, TLAPS

(* What a write adds to a queue was there before or is written now. *)
LEMMA ConcatProperties ==
    ASSUME NEW S, NEW q \in Seq(S), NEW r \in Seq(S)
    PROVE  /\ q \o r \in Seq(S)
           /\ Len(q \o r) = Len(q) + Len(r)
           /\ \A j \in 1..Len(q) : (q \o r)[j] = q[j]
           /\ \A j \in 1..Len(r) : (q \o r)[Len(q) + j] = r[j]
           /\ \A j \in 1..Len(q \o r) :
                \/ \E k \in 1..Len(q) : (q \o r)[j] = q[k]
                \/ \E k \in 1..Len(r) : (q \o r)[j] = r[k]
<1>1. q \o r \in Seq(S) /\ Len(q \o r) = Len(q) + Len(r)
  OBVIOUS
<1>2. /\ \A j \in 1..Len(q) : (q \o r)[j] = q[j]
      /\ \A j \in 1..Len(r) : (q \o r)[Len(q) + j] = r[j]
  BY <1>1
<1>3. ASSUME NEW j \in 1..Len(q \o r)
      PROVE  \/ \E k \in 1..Len(q) : (q \o r)[j] = q[k]
             \/ \E k \in 1..Len(r) : (q \o r)[j] = r[k]
  <2>1. CASE j <= Len(q)
    BY <1>1, <2>1
  <2>2. CASE j > Len(q)
    <3>1. (q \o r)[j] = r[j - Len(q)] /\ j - Len(q) \in 1..Len(r) BY <1>1, <2>2
    <3> QED BY <3>1
  <2> QED BY <1>1, <2>1, <2>2
<1> QED BY <1>1, <1>3, <1>2
(* Taking a packet out of a queue leaves a queue of the others.            *)
LEMMA RemoveAtProperties ==
    ASSUME NEW S, NEW q \in Seq(S), NEW i \in 1..Len(q)
    PROVE  /\ RemoveAt(q, i) \in Seq(S)
           /\ \A j \in 1..Len(RemoveAt(q, i)) :
                \E k \in 1..Len(q) : RemoveAt(q, i)[j] = q[k]
<1> DEFINE a == SubSeq(q, 1, i - 1)
           b == SubSeq(q, i + 1, Len(q))
<1>1. /\ a \in Seq(S) /\ Len(a) = i - 1
      /\ \A j \in 1..Len(a) : a[j] = q[j]
  OBVIOUS
<1>2. /\ b \in Seq(S) /\ Len(b) = Len(q) - i
      /\ \A j \in 1..Len(b) : b[j] = q[i + j]
  OBVIOUS
<1>3. RemoveAt(q, i) = a \o b
  BY Zenon DEF RemoveAt
<1>4. /\ a \o b \in Seq(S)
      /\ \A j \in 1..Len(a \o b) :
           \/ \E k \in 1..Len(a) : (a \o b)[j] = a[k]
           \/ \E k \in 1..Len(b) : (a \o b)[j] = b[k]
  <2>1. \A x, y \in Seq(S) :
           /\ x \o y \in Seq(S)
           /\ \A j \in 1..Len(x \o y) :
                \/ \E k \in 1..Len(x) : (x \o y)[j] = x[k]
                \/ \E k \in 1..Len(y) : (x \o y)[j] = y[k]
    BY ConcatProperties, SMTT(30)
  <2> HIDE DEF a, b
  <2> QED BY <1>1, <1>2, <2>1, Zenon
<1>5. /\ \A k \in 1..Len(a) : k \in 1..Len(q)
      /\ \A k \in 1..Len(b) : i + k \in 1..Len(q)
  BY <1>1, <1>2
<1> HIDE DEF a, b
<1>6. \A j \in 1..Len(a \o b) : \E k \in 1..Len(q) : (a \o b)[j] = q[k]
  BY <1>1, <1>2, <1>4, <1>5, ZenonT(60)
<1> QED BY <1>3, <1>4, <1>6, Zenon

-----------------------------------------------------------------------------
(* What a packet on its way proves.  A packet that travels proves its own  *)
(* direction; an Ack, or traffic, also proves the other one, since it was  *)
(* only sent after a packet of the peer had arrived.                       *)
Upward(q) == \A k \in 1..Len(q) : Passes("up") /\ (q[k] # "hello" => Passes("down"))
Downward(q) == \A k \in 1..Len(q) : Passes("down") /\ (q[k] # "hello" => Passes("up"))

(* A write of packets that witness the direction keeps the queue's witness. *)
LEMMA UpwardConcat ==
    ASSUME NEW S, NEW q \in Seq(S), NEW r \in Seq(S), Upward(q), Upward(r)
    PROVE  Upward(q \o r)
<1>1. ASSUME NEW j \in 1..Len(q \o r)
      PROVE  Passes("up") /\ ((q \o r)[j] # "hello" => Passes("down"))
  <2>1. \/ \E k \in 1..Len(q) : (q \o r)[j] = q[k]
        \/ \E k \in 1..Len(r) : (q \o r)[j] = r[k]
    BY ConcatProperties
  <2> QED BY <2>1, Zenon DEF Upward
<1> QED BY <1>1, Zenon DEF Upward

(* The strengthening under which the two properties are inductive.  The    *)
(* peer is only watched while Respond holds a Hello of it, so the traffic  *)
(* that wakes the watcher is not a late punch packet.                      *)
Evidence ==
    /\ Upward(toNode) /\ Upward(events)
    /\ Downward(toClient)
    /\ node \in {"acking", "confirming"} => Passes("up")
    /\ watched => node \in {"acking", "confirming"}
    /\ traffic => Passes("up") /\ Passes("down")
    /\ ClientRoundTrip
    /\ NodeRoundTrip

Inv == PunchTypeOK /\ Evidence

LEMMA InitInv == PunchInit => Inv
<1> SUFFICES ASSUME PunchInit PROVE Inv
  BY Zenon
<1>1. PunchTypeOK
  <2>1. \A S : <<>> \in Seq(S)
    OBVIOUS
  <2>2. Len(<<>>) <= EventBuffer
    BY ConstantsAssumption
  <2> QED BY <2>1, <2>2, Zenon DEF PunchInit, PunchTypeOK
<1>2. Upward(toNode) /\ Upward(events) /\ Downward(toClient)
  BY DEF PunchInit, Upward, Downward
<1>3. ClientRoundTrip /\ NodeRoundTrip
  BY Zenon DEF PunchInit, ClientRoundTrip, NodeRoundTrip
<1>4. node = "idle" /\ ~watched /\ ~traffic
  BY Zenon DEF PunchInit
<1> QED BY <1>1, <1>2, <1>3, <1>4, Zenon DEF Inv, Evidence

(* Which ways are open never changes during an attempt. *)
LEMMA OpenFixed ==
    ASSUME [PunchNext]_punchVars
    PROVE  open' = open /\ passive' = passive /\ lossy' = lossy /\ \A d \in {"up", "down"} : Passes(d)' = Passes(d)
<1>1. open' = open /\ passive' = passive /\ lossy' = lossy
  BY Zenon DEF PunchNext, ClientNext, NodeNext, punchVars, setting, ClientSends, ClientReads, ClientIgnores,
         ClientGivesUp, ClientHandshakes, NodeSends, NodeReads, NodeLoses, Respond, SendAck,
         ConfirmEvent, ConfirmTraffic, Unconfirmed, NodeGivesUp
<1> QED BY <1>1, Zenon DEF Passes

(* A write of the client keeps what its queue proves. *)
LEMMA UpKeeps ==
    ASSUME Inv, NEW aims \in SUBSET {"listed", "seen"}, NEW r \in Seq(Punches \cup {"quic"}),
           (\E k \in 1..Len(r) : r[k] # "hello") => Passes("down")
    PROVE  Up(aims, r) \in Seq(Punches \cup {"quic"}) /\ Upward(Up(aims, r))
<1>1. toNode \in Seq(Punches \cup {"quic"}) /\ Upward(toNode)
  BY Zenon DEF Inv, PunchTypeOK, Evidence
<1>2. CASE \E aim \in aims : <<"up", aim>> \in open
  <2>1. Passes("up") BY <1>2, Zenon DEF Passes
  <2>2. Up(aims, r) = toNode \o r BY <1>2, Zenon DEF Up
  <2> QED BY <1>1, <2>1, <2>2, ConcatProperties DEF Upward
<1>3. CASE ~ \E aim \in aims : <<"up", aim>> \in open
  BY <1>1, <1>3, Zenon DEF Up
<1> QED BY <1>2, <1>3, Zenon

(* The same for a write of the node. *)
LEMMA DownKeeps ==
    ASSUME Inv, NEW aim \in {"listed", "seen"}, NEW r \in Seq(Punches),
           (\E k \in 1..Len(r) : r[k] # "hello") => Passes("up")
    PROVE  Down(aim, r) \in Seq(Punches) /\ Downward(Down(aim, r))
<1>1. toClient \in Seq(Punches) /\ Downward(toClient)
  BY Zenon DEF Inv, PunchTypeOK, Evidence
<1>2. CASE <<"down", aim>> \in open
  <2>1. Passes("down") BY <1>2, Zenon DEF Passes
  <2>2. Down(aim, r) = toClient \o r BY <1>2, Zenon DEF Down
  <2> QED BY <1>1, <2>1, <2>2, ConcatProperties DEF Downward
<1>3. CASE <<"down", aim>> \notin open
  BY <1>1, <1>3, Zenon DEF Down
<1> QED BY <1>2, <1>3, Zenon

(* A read, or a loss, keeps what the rest of the queue proves. *)
LEMMA RemoveKeeps ==
    ASSUME Inv
    PROVE  /\ \A i \in 1..Len(toNode) :
                /\ RemoveAt(toNode, i) \in Seq(Punches \cup {"quic"})
                /\ Upward(RemoveAt(toNode, i))
           /\ \A i \in 1..Len(toClient) :
                /\ RemoveAt(toClient, i) \in Seq(Punches)
                /\ Downward(RemoveAt(toClient, i))
           /\ events # <<>> => Tail(events) \in Seq(Punches) /\ Upward(Tail(events))
                                /\ Len(Tail(events)) <= EventBuffer
<1>1. /\ toNode \in Seq(Punches \cup {"quic"}) /\ Upward(toNode)
      /\ toClient \in Seq(Punches) /\ Downward(toClient)
      /\ events \in Seq(Punches) /\ Upward(events) /\ Len(events) <= EventBuffer
  BY Zenon DEF Inv, PunchTypeOK, Evidence
<1>2. ASSUME NEW i \in 1..Len(toNode)
      PROVE  /\ RemoveAt(toNode, i) \in Seq(Punches \cup {"quic"})
             /\ Upward(RemoveAt(toNode, i))
  BY <1>1, RemoveAtProperties, Zenon DEF Upward
<1>3. ASSUME NEW i \in 1..Len(toClient)
      PROVE  /\ RemoveAt(toClient, i) \in Seq(Punches)
             /\ Downward(RemoveAt(toClient, i))
  BY <1>1, RemoveAtProperties, Zenon DEF Downward
<1>4. ASSUME events # <<>>
      PROVE  Tail(events) \in Seq(Punches) /\ Upward(Tail(events))
             /\ Len(Tail(events)) <= EventBuffer
  <2>1. /\ Tail(events) \in Seq(Punches) /\ Len(Tail(events)) = Len(events) - 1
        /\ \A k \in 1..Len(Tail(events)) : Tail(events)[k] = events[k + 1]
    BY <1>1, <1>4
  <2>2. \A k \in 1..Len(Tail(events)) : k + 1 \in 1..Len(events)
    BY <1>1, <2>1
  <2>3. Len(Tail(events)) <= EventBuffer
    BY <1>1, <2>1, ConstantsAssumption
  <2> QED BY <1>1, <2>1, <2>2, <2>3, Zenon DEF Upward
<1> QED BY <1>2, <1>3, <1>4, Zenon

(* Steps of the client and of the network towards it. *)
LEMMA ClientStep ==
    ASSUME Inv, ClientNext
    PROVE  Inv'
<1>1. open' = open /\ passive' = passive /\ lossy' = lossy /\ \A d \in {"up", "down"} : Passes(d)' = Passes(d)
  BY OpenFixed, Zenon DEF PunchNext
<1> USE DEF Inv, PunchTypeOK, Evidence, ClientRoundTrip, NodeRoundTrip
<1>2. CASE ClientSends
  <2> DEFINE aims == IF heard THEN {"listed", "seen"} ELSE {"listed"}
  <2>1. <<"hello">> \in Seq(Punches \cup {"quic"}) /\ ~ \E k \in 1..Len(<<"hello">>) : <<"hello">>[k] # "hello"
    BY DEF Punches
  <2>2. Up(aims, <<"hello">>) \in Seq(Punches \cup {"quic"}) /\ Upward(Up(aims, <<"hello">>))
    BY <2>1, UpKeeps, Zenon
  <2> QED BY <1>1, <1>2, <2>2, ZenonT(60) DEF ClientSends, Upward, Downward
<1>3. ASSUME NEW i \in DOMAIN toClient, ClientReads(i)
      PROVE  Inv'
  <2>1. i \in 1..Len(toClient) /\ Passes("down") /\ (toClient[i] # "hello" => Passes("up"))
    BY <1>3 DEF Downward
  <2>2. toClient' \in Seq(Punches) /\ Downward(toClient')
    BY <1>3, <2>1, RemoveKeeps, Zenon DEF ClientReads
  <2>3. CASE Wins(toClient[i])
    <3>1. Passes("up") BY <2>1, <2>3, Zenon DEF Wins
    <3> QED BY <1>1, <1>3, <2>1, <2>2, <2>3, <3>1, Zenon DEF ClientReads, Upward, Downward
  <2>4. CASE ~Wins(toClient[i])
    <3>1. Answer \in Seq(Punches \cup {"quic"}) BY DEF Answer, Punches
    <3>2. Up({"seen"}, Answer) \in Seq(Punches \cup {"quic"}) /\ Upward(Up({"seen"}, Answer))
      BY <2>1, <3>1, UpKeeps, Zenon
    <3> QED BY <1>1, <1>3, <2>2, <2>4, <3>2, Zenon DEF ClientReads, Upward, Downward
  <2> QED BY <2>3, <2>4, Zenon
<1>4. CASE ClientIgnores
  <2>1. PICK i \in 1..Len(toClient) : toClient' = RemoveAt(toClient, i)
    BY <1>4, Zenon DEF ClientIgnores, Arrivals
  <2>2. toClient' \in Seq(Punches) /\ Downward(toClient')
    BY <2>1, RemoveKeeps, Zenon
  <2> QED BY <1>1, <1>4, <2>2, ZenonT(60) DEF ClientIgnores, Upward, Downward
<1>5. CASE ClientGivesUp
  BY <1>1, <1>5, Zenon DEF ClientGivesUp, Upward, Downward
<1>6. CASE ClientHandshakes
  <2>1. <<"quic">> \in Seq(Punches \cup {"quic"})
    OBVIOUS
  <2>2. Passes("down")
    BY <1>6, Zenon DEF ClientHandshakes
  <2>3. Up({"seen"}, <<"quic">>) \in Seq(Punches \cup {"quic"}) /\ Upward(Up({"seen"}, <<"quic">>))
    BY <2>1, <2>2, UpKeeps, Zenon
  <2> QED BY <1>1, <1>6, <2>3, Zenon DEF ClientHandshakes, Upward, Downward
<1> QED BY <1>2, <1>3, <1>4, <1>5, <1>6, Zenon DEF ClientNext

(* Steps of the node and of the network towards it. *)
LEMMA NodeStep ==
    ASSUME Inv, NodeNext
    PROVE  Inv'
<1>1. open' = open /\ passive' = passive /\ lossy' = lossy /\ \A d \in {"up", "down"} : Passes(d)' = Passes(d)
  BY OpenFixed, Zenon DEF PunchNext
<1>a. <<"ack">> \in Seq(Punches) /\ <<"hello">> \in Seq(Punches)
  BY DEF Punches
<1> USE DEF Inv, PunchTypeOK, Evidence, ClientRoundTrip, NodeRoundTrip
<1>2. CASE NodeSends
  <2>1. ~ \E k \in 1..Len(<<"hello">>) : <<"hello">>[k] # "hello"
    OBVIOUS
  <2>2. Down("listed", <<"hello">>) \in Seq(Punches) /\ Downward(Down("listed", <<"hello">>))
    BY <1>a, <2>1, DownKeeps, Zenon
  <2> QED BY <1>1, <1>2, <2>2, ZenonT(60) DEF NodeSends, Upward, Downward
<1>3. ASSUME NEW i \in DOMAIN toNode, NodeReads(i)
      PROVE  Inv'
  <2>1. i \in 1..Len(toNode) /\ Passes("up") /\ (toNode[i] # "hello" => Passes("down"))
    BY <1>3 DEF Upward
  <2>2. toNode' \in Seq(Punches \cup {"quic"}) /\ Upward(toNode')
    BY <1>3, <2>1, RemoveKeeps, Zenon DEF NodeReads
  <2>3. CASE AttemptRegistered /\ toNode[i] \in Punches /\ Accepts
    <3>1. <<toNode[i]>> \in Seq(Punches)
      BY <2>3
    <3>2. Append(events, toNode[i]) = events \o <<toNode[i]>>
      BY <2>3
    <3>3. /\ events \o <<toNode[i]>> \in Seq(Punches)
          /\ Len(events \o <<toNode[i]>>) = Len(events) + 1
          /\ Upward(events \o <<toNode[i]>>)
      <4>1. events \in Seq(Punches) /\ Upward(events)
        BY Zenon DEF Inv
      <4>2. Len(<<toNode[i]>>) = 1 /\ \A k \in 1..1 : <<toNode[i]>>[k] = toNode[i]
        OBVIOUS
      <4>3. Upward(<<toNode[i]>>)
        BY <2>1, <4>2, Zenon DEF Upward
      <4>4. /\ events \o <<toNode[i]>> \in Seq(Punches)
            /\ Len(events \o <<toNode[i]>>) = Len(events) + 1
        BY <3>1, <4>1, <4>2, ConcatProperties, Zenon
      <4> QED BY <3>1, <4>1, <4>3, <4>4, UpwardConcat, Zenon
    <3>4. Len(events) + 1 <= EventBuffer
      BY <2>3, ConstantsAssumption DEF Accepts
    <3> QED BY <1>1, <1>3, <2>2, <2>3, <3>2, <3>3, <3>4, ZenonT(60) DEF NodeReads, Upward, Downward
  <2>4. CASE AttemptRegistered /\ toNode[i] \in Punches /\ ~Accepts
    BY <1>1, <1>3, <2>2, <2>4, ZenonT(60) DEF NodeReads, Upward, Downward
  <2>5. CASE ~(AttemptRegistered /\ toNode[i] \in Punches)
    <3>1. watched => Passes("up") /\ Passes("down")
      BY <2>1, <2>5, Zenon DEF AttemptRegistered, Punches
    <3> QED BY <1>1, <1>3, <2>2, <2>5, <3>1, ZenonT(60) DEF NodeReads, Wakes, Upward, Downward
  <2> QED BY <2>3, <2>4, <2>5, Zenon
<1>4. CASE NodeLoses
  <2>1. PICK i \in 1..Len(toNode) : toNode' = RemoveAt(toNode, i)
    BY <1>4, Zenon DEF NodeLoses, Arrivals
  <2>2. toNode' \in Seq(Punches \cup {"quic"}) /\ Upward(toNode')
    BY <2>1, RemoveKeeps, Zenon
  <2> QED BY <1>1, <1>4, <2>2, Zenon DEF NodeLoses, Upward, Downward
<1>b. events # <<>> => Passes("up") /\ (Head(events) # "hello" => Passes("down"))
  BY DEF Upward
<1>c. Upward(<<>>) /\ <<>> \in Seq(Punches) /\ Len(<<>>) <= EventBuffer
  BY ConstantsAssumption DEF Upward
<1>5. CASE Respond
  <2>1. CASE Head(events) = "ack"
    BY <1>1, <1>5, <1>b, <1>c, <2>1, Zenon DEF Respond, Upward, Downward
  <2>2. CASE Head(events) # "ack"
    BY <1>1, <1>5, <1>b, <2>2, RemoveKeeps, Zenon DEF Respond, Upward, Downward
  <2> QED BY <2>1, <2>2, Zenon
<1>d. Passes("up") => Down("seen", <<"ack">>) \in Seq(Punches) /\ Downward(Down("seen", <<"ack">>))
  BY <1>a, DownKeeps, Zenon
<1>6. CASE SendAck
  BY <1>1, <1>6, <1>d, Zenon DEF SendAck, Upward, Downward
<1>7. CASE ConfirmEvent
  <2>1. CASE Confirmed(Head(events))
    BY <1>1, <1>7, <1>b, <1>c, <2>1, Zenon DEF ConfirmEvent, Confirmed, Upward, Downward
  <2>2. CASE ~Confirmed(Head(events))
    BY <1>1, <1>7, <1>d, <2>2, RemoveKeeps, ZenonT(60) DEF ConfirmEvent, Upward, Downward
  <2> QED BY <2>1, <2>2, Zenon
<1>8. CASE ConfirmTraffic
  BY <1>1, <1>8, <1>c, Zenon DEF ConfirmTraffic, Upward, Downward
<1>9. CASE Unconfirmed
  BY <1>1, <1>9, Zenon DEF Unconfirmed, Upward, Downward
<1>10. CASE NodeGivesUp
  BY <1>1, <1>10, <1>c, Zenon DEF NodeGivesUp, Upward, Downward
<1> QED BY <1>2, <1>3, <1>4, <1>5, <1>6, <1>7, <1>8, <1>9, <1>10, Zenon DEF NodeNext

(* The invariant holds in every reachable state. *)
THEOREM Invariant == PunchSpec => []Inv
<1>1. PunchInit => Inv
  BY InitInv, Zenon
<1>2. Inv /\ [PunchNext]_punchVars => Inv'
  <2> SUFFICES ASSUME Inv, [PunchNext]_punchVars PROVE Inv'
    BY Zenon
  <2>1. CASE PunchNext
    BY <2>1, ClientStep, NodeStep, Zenon DEF PunchNext
  <2>2. CASE UNCHANGED punchVars
    BY <2>2 DEF punchVars, setting, Inv, PunchTypeOK, Evidence, ClientRoundTrip, NodeRoundTrip, Upward, Downward,
                Passes
  <2> QED BY <2>1, <2>2, Zenon
<1> QED BY <1>1, <1>2, PTL DEF PunchSpec

(* Buffers and queues keep their types; the event buffer never overflows   *)
(* (PunchPacketConn.ReadFrom drops what does not fit).                     *)
THEOREM TypeCorrect == PunchSpec => []PunchTypeOK
<1>1. Inv => PunchTypeOK BY Zenon DEF Inv
<1> QED BY <1>1, Invariant, PTL

(* Neither Punch nor Respond ever reports success over a one-way hole. *)
THEOREM RoundTripCorrect == PunchSpec => []RoundTrip
<1>1. Inv => RoundTrip BY Zenon DEF Inv, Evidence, RoundTrip
<1> QED BY <1>1, Invariant, PTL

-----------------------------------------------------------------------------
(* The node that keeps itself registered: RealmNode. *)

AtMost(a, b) == b # Nil /\ a <= b

(* One request is out at a time, and its answer comes after it.  A         *)
(* registration carries addresses; a heartbeat is for the session the node *)
(* has.                                                                    *)
WireInv ==
    /\ request.kind \in {"none", "register", "heartbeat"}
    /\ answer.kind # "none" => request.kind = "none"
    /\ life = "running" /\ loop # "wait" => request.kind = "none" /\ answer.kind = "none"
    /\ request.kind = "register" => request.address # Nil
    /\ request.kind = "heartbeat" => sessionID # Nil /\ request.session = sessionID
    /\ answer.kind = "register" => answer.address # Nil /\ answer.session # Nil
    /\ answer.kind \in {"heartbeat", "unauthorized"} => sessionID # Nil /\ answer.session = sessionID

(* Addresses only move on, and those held further from the NAT are older:  *)
(* what the node knows, what it sends, what the server has and what the    *)
(* node believes to be published.                                          *)
OrderInv ==
    /\ fresh => addresses # Nil
    /\ addresses # Nil => addresses <= current
    /\ published # Nil => AtMost(published, addresses)
    /\ served # Nil => AtMost(served, addresses)
    /\ request.address # Nil => AtMost(request.address, addresses)
    /\ answer.address # Nil => AtMost(answer.address, addresses)
    /\ request.kind # "none" /\ request.address # Nil /\ published # Nil => published <= request.address
    /\ sessionID # Nil => published # Nil
    /\ owner # Nil /\ owner = sessionID => AtMost(published, served)
    /\ owner # Nil /\ owner = answer.session /\ answer.kind \in {"register", "heartbeat"}
          => answer.address \in {served, Nil}

NodeInv == TypeOK /\ WireInv /\ OrderInv

(* TypeOK without, and with only, the Boolean variables. *)
NodeFlags == signal \in BOOLEAN /\ fresh \in BOOLEAN /\ missed \in BOOLEAN
NodeValues ==
    /\ current \in Addresses
    /\ life \in {"running", "closed"}
    /\ loop \in {"idle", "stun", "wait"}
    /\ addresses \in Addresses \cup {Nil}
    /\ published \in Addresses \cup {Nil}
    /\ served \in Addresses \cup {Nil}
    /\ {sessionID, stream, deregister, owner} \subseteq Sessions \cup {Nil}
    /\ request \in Messages /\ answer \in Messages
    /\ owner = Nil <=> served = Nil

NodeRest == NodeValues /\ WireInv /\ OrderInv

LEMMA NodeParts == (NodeInv <=> NodeFlags /\ NodeRest) /\ (NodeInv' <=> NodeFlags' /\ NodeRest')
BY Zenon DEF NodeInv, NodeRest, TypeOK, NodeFlags, NodeValues

LEMMA ConstantFacts == MaxAddress \in Nat \ {0} /\ Nil \notin Sessions /\ Nil \notin Nat
BY NodeAssumption, Zenon

(* An address of a message is one of Addresses, a number. *)
LEMMA AddressesNat == Addresses \subseteq Nat /\ Nil \notin Addresses
BY ConstantFacts DEF Addresses

LEMMA Order == \A a, b, c \in Nat : a <= a /\ (a <= b /\ b <= c => a <= c)
OBVIOUS

LEMMA MessageTypes ==
    /\ NoMessage \in Messages
    /\ NoMessage.kind = "none" /\ NoMessage.session = Nil /\ NoMessage.address = Nil
    /\ \A m \in Messages : m.session \in Sessions \cup {Nil} /\ m.address \in Addresses \cup {Nil}
BY Zenon DEF Messages, NoMessage

LEMMA InitNode == ASSUME Init PROVE NodeInv
<1>1. NodeFlags
  BY Zenon DEF Init, NodeFlags
<1>2. NodeValues
  BY ConstantFacts, MessageTypes DEF Init, NodeValues, Addresses
<1>3. WireInv /\ OrderInv
  BY MessageTypes, Zenon DEF Init, WireInv, OrderInv
<1> QED BY <1>1, <1>2, <1>3, NodeParts, Zenon DEF NodeRest

(* The node sends the addresses it knows from now on, which are at least   *)
(* as new as those it knew: register, or a heartbeat for its session.      *)
LEMMA Sends ==
    ASSUME NodeRest, request.kind = "none", NEW d \in Addresses, d <= current,
           addresses # Nil => addresses <= d,
           addresses' = d, loop' = "wait", answer' \in Messages, answer'.kind = "none",
           answer'.address \in {answer.address, Nil},
           request' \in Messages,
           \/ request'.kind = "register" /\ request'.address = d
           \/ /\ request'.kind = "heartbeat" /\ request'.address \in {d, Nil}
              /\ sessionID # Nil /\ request'.session = sessionID,
           UNCHANGED <<current, life, published, sessionID, stream, deregister, owner, served>>
    PROVE  NodeRest'
<1> USE AddressesNat, ConstantFacts, MessageTypes
<1>1. NodeValues'
  BY Zenon DEF NodeRest, NodeValues
<1>2. WireInv'
  BY Zenon DEF NodeRest, NodeValues, WireInv
<1>3. current \in Nat /\ d \in Nat /\ (addresses # Nil => addresses \in Nat)
  BY Zenon DEF NodeRest, NodeValues
<1>4. \A a \in Nat : addresses # Nil /\ a <= addresses => a <= d
  BY <1>3
<1>5. OrderInv'
  <2>1. /\ published # Nil => published \in Nat /\ published <= d
        /\ served # Nil => served \in Nat /\ served <= d
        /\ answer.address # Nil => answer.address <= d
    BY <1>3, <1>4, Zenon DEF NodeRest, NodeValues, OrderInv, AtMost
  <2>2. /\ addresses' # Nil /\ addresses' <= current'
        /\ published' # Nil => AtMost(published, addresses)'
        /\ served' # Nil => AtMost(served, addresses)'
        /\ answer'.address # Nil => AtMost(answer.address, addresses)'
    BY <2>1, Zenon DEF AtMost
  <2>3. request'.address # Nil => request'.address = d /\ AtMost(request.address, addresses)'
    BY <1>3 DEF AtMost
  <2>4. /\ sessionID' # Nil => published' # Nil
        /\ owner' # Nil /\ owner' = sessionID' => AtMost(published, served)'
    BY Zenon DEF NodeRest, OrderInv, AtMost
  <2> QED BY <2>1, <2>2, <2>3, <2>4, Zenon DEF OrderInv
<1> QED BY <1>1, <1>2, <1>5, Zenon DEF NodeRest

LEMMA FlagsStep ==
    ASSUME NodeFlags, [Next]_vars
    PROVE  NodeFlags'
BY Zenon DEF NodeFlags, Next, Run, Serve, vars, nodeVars, wire, directory,
       TakeReset, ResetFails, ResetDiscovers, HeartbeatTimer, Registered,
       Refused, Heartbeaten, SessionInvalid, ServeRegister, ServeHeartbeat,
       Lose, Expire, RemoveSession, NetworkChange, CacheExpires, ConnectEvent,
       OpenStream, StreamEnds, Close, Deregister, DeregisterLost

LEMMA RestStep ==
    ASSUME ~Recurs, NodeRest, [Next]_vars
    PROVE  NodeRest'
<1> USE ConstantFacts, AddressesNat, MessageTypes
    DEF NodeRest, NodeValues, WireInv, OrderInv, AtMost, nodeVars, wire, directory
<1>1. CASE TakeReset
  BY <1>1, Zenon DEF TakeReset
<1>2. CASE ResetFails
  BY <1>2, Zenon DEF ResetFails
<1>3. CASE ResetDiscovers
  <2>1. /\ Discovered \in Addresses /\ Discovered <= current
        /\ addresses # Nil => addresses <= Discovered
    BY DEF Discovered
  <2>2. /\ addresses' = Discovered /\ loop' = "wait" /\ request.kind = "none" /\ answer.kind = "none"
        /\ UNCHANGED <<current, life, published, sessionID, stream, deregister, answer, owner, served>>
    BY <1>3, Zenon DEF ResetDiscovers, SendRegister, SendHeartbeat, Send
  <2>3. /\ request' \in Messages
        /\ \/ request'.kind = "register" /\ request'.address = Discovered
           \/ /\ request'.kind = "heartbeat" /\ request'.address \in {Discovered, Nil}
              /\ sessionID # Nil /\ request'.session = sessionID
    BY <1>3, <2>1 DEF ResetDiscovers, SendRegister, SendHeartbeat, Send,
                      Publish, Messages
  <2> QED BY <2>1, <2>2, <2>3, Sends, Zenon
<1>4. CASE HeartbeatTimer
  <2>1. addresses # Nil
    BY <1>4, Zenon DEF HeartbeatTimer, MayRegister
  <2>2. addresses \in Addresses /\ addresses \in Nat
    BY <2>1, Zenon
  <2>3. addresses \in Addresses /\ addresses <= current /\ addresses <= addresses
    BY <2>1, <2>2
  <2>4. /\ addresses' = addresses /\ loop' = "wait" /\ request.kind = "none" /\ answer.kind = "none"
        /\ UNCHANGED <<current, life, published, sessionID, stream, deregister, answer, owner, served>>
    BY <1>4, Zenon DEF HeartbeatTimer, SendRegister, SendHeartbeat, Send
  <2>5. /\ request' \in Messages
        /\ \/ request'.kind = "register" /\ request'.address = addresses
           \/ /\ request'.kind = "heartbeat" /\ request'.address \in {addresses, Nil}
              /\ sessionID # Nil /\ request'.session = sessionID
    BY <1>4, <2>3 DEF HeartbeatTimer, SendRegister, SendHeartbeat, Send,
                      Publish, Messages
  <2> QED BY <2>3, <2>4, <2>5, Sends, Zenon
<1>5. CASE Registered
  <2>1. /\ sessionID' = answer.session /\ published' = answer.address
        /\ answer.address \in Addresses /\ answer.session \in Sessions
        /\ loop' = "idle" /\ answer' = NoMessage /\ request.kind = "none"
        /\ UNCHANGED <<current, life, addresses, fresh, stream, deregister, request, owner, served>>
    BY <1>5, Zenon DEF Registered
  <2>2. owner # Nil /\ owner = sessionID' => answer.address = served /\ served <= served
    BY <1>5, <2>1, Order, Zenon DEF Registered
  <2>3. NodeValues'
    BY <2>1, Zenon
  <2>4. WireInv'
    BY <2>1, Zenon
  <2>5. OrderInv'
    BY <2>1, <2>2, Zenon
  <2> QED BY <2>3, <2>4, <2>5, Zenon
<1>6. CASE Refused
  BY <1>6, Zenon DEF Refused
<1>7. CASE Heartbeaten
  <2>1. /\ published' = IF answer.address = Nil THEN published ELSE answer.address
        /\ answer.session = sessionID /\ sessionID # Nil
        /\ loop' = "idle" /\ answer' = NoMessage /\ request.kind = "none"
        /\ UNCHANGED <<current, life, addresses, fresh, sessionID, stream, deregister, request,
                       owner, served>>
    BY <1>7, Zenon DEF Heartbeaten, PublishedAs
  <2>2. owner # Nil /\ owner = sessionID => answer.address \in {served, Nil} /\ served <= served
    BY <1>7, <2>1 DEF Heartbeaten
  <2>3. NodeValues'
    BY <2>1, Zenon
  <2>4. WireInv'
    BY <2>1, Zenon
  <2>5. OrderInv'
    BY <2>1, <2>2, Zenon
  <2> QED BY <2>3, <2>4, <2>5, Zenon
<1>8. CASE SessionInvalid
  <2>1. /\ addresses \in Addresses /\ addresses <= current /\ addresses <= addresses
        /\ request.kind = "none"
    BY <1>8 DEF SessionInvalid
  <2>2. /\ addresses' = addresses /\ loop' = "wait" /\ answer' = NoMessage
        /\ UNCHANGED <<current, life, published, sessionID, stream, deregister, owner, served>>
    BY <1>8, Zenon DEF SessionInvalid, Reregisters, SendRegister, Send
  <2>3. request' \in Messages /\ request'.kind = "register" /\ request'.address = addresses
    BY <1>8, <2>1 DEF SessionInvalid, Reregisters, SendRegister, Send, Messages
  <2> QED BY <2>1, <2>2, <2>3, Sends, Zenon
<1>9. CASE ServeRegister
  BY <1>9 DEF Messages, ServeRegister, Fresh
<1>10. CASE ServeHeartbeat
  BY <1>10 DEF Messages, ServeHeartbeat
<1>11. CASE Lose
  BY <1>11, Zenon DEF Lose
<1>12. CASE Expire
  BY <1>12, ZenonT(60) DEF Expire, RemoveSession
<1>13. CASE NetworkChange
  BY <1>13 DEF NetworkChange, Addresses
<1>14. CASE CacheExpires
  BY <1>14 DEF CacheExpires
<1>15. CASE ConnectEvent
  <2>1. /\ Discovered \in Addresses /\ Discovered <= current
        /\ addresses # Nil => addresses <= Discovered
    BY DEF Discovered
  <2>2. /\ addresses' = Discovered
        /\ UNCHANGED <<current, life, loop, published, sessionID, stream, deregister, request, answer,
                       owner, served>>
    BY <1>15, Zenon DEF ConnectEvent
  <2>3. \A a \in Nat : addresses # Nil /\ a <= addresses => a <= Discovered
    BY <2>1, Order, Zenon
  <2>4. NodeValues' /\ WireInv'
    BY <2>1, <2>2, Zenon
  <2>5. OrderInv'
    BY <2>1, <2>2, <2>3, Zenon
  <2> QED BY <2>4, <2>5, Zenon
<1>16. CASE OpenStream \/ StreamEnds
  BY <1>16 DEF OpenStream, StreamEnds
<1>17. CASE Close
  BY <1>17, Zenon DEF Close
<1>18. CASE Deregister \/ DeregisterLost
  BY <1>18 DEF Deregister, DeregisterLost, RemoveSession
<1>19. CASE UNCHANGED vars
  BY <1>19 DEF vars
<1> QED BY <1>1, <1>2, <1>3, <1>4, <1>5, <1>6, <1>7, <1>8, <1>9, <1>10, <1>11, <1>12, <1>13, <1>14,
           <1>15, <1>16, <1>17, <1>18, <1>19, Zenon DEF Next, Run, Serve

LEMMA NodeNextInv ==
    ASSUME ~Recurs, NodeInv, [Next]_vars
    PROVE  NodeInv'
BY FlagsStep, RestStep, NodeParts, Zenon

(* For any number of sessions and of addresses, if the NAT hands out none  *)
(* twice: the node stops publishing only when the server has its           *)
(* addresses, whatever requests and answers were lost.                     *)
THEOREM PublishesCorrect == ASSUME ~Recurs PROVE Spec => []PublishesUntilServed
<1>0. Init => NodeInv
  BY InitNode, Zenon
<1>1. NodeInv /\ [Next]_vars => NodeInv'
  BY NodeNextInv, Zenon
<1>2. NodeInv => PublishesUntilServed
  <2> SUFFICES ASSUME NodeInv, owner # Nil, owner = sessionID, published = addresses
               PROVE  served = addresses
    BY Zenon DEF NodeInv, WireInv, PublishesUntilServed
  <2>1. published # Nil /\ served # Nil /\ published <= served /\ served <= addresses
    BY Zenon DEF NodeInv, TypeOK, OrderInv, AtMost
  <2>2. served \in Nat /\ addresses \in Nat
    BY <2>1, AddressesNat, Zenon DEF NodeInv, TypeOK
  <2> QED BY <2>1, <2>2
<1> QED BY <1>0, <1>1, <1>2, PTL DEF Spec
=============================================================================
