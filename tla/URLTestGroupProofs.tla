------------------------- MODULE URLTestGroupProofs -------------------------
(***************************************************************************)
(* Proofs about the URL test group, for any nodes, delays, tolerance and   *)
(* connections and for both modes: what a selection rests on is sound, the *)
(* first node is left only after its strikes, and no connection that the   *)
(* group may interrupt outlives a switch.                                  *)
(***************************************************************************)
EXTENDS URLTestGroup, FiniteSetTheorems, TLAPS

(* What holds at 0 and is handed on up to n holds up to n.  The library's  *)
(* induction is about predicates; a set and the ordering of the finite     *)
(* sets by inclusion do for an interval.                                   *)
LEMMA IntervalInduction ==
    ASSUME NEW n \in Nat, NEW S, 0 \in S, \A i \in 0..n : i < n /\ i \in S => i + 1 \in S
    PROVE  0..n \subseteq S
<1> DEFINE W == {0..i : i \in (0..n) \ S}
<1> SUFFICES ASSUME NEW k \in (0..n) \ S PROVE FALSE
  BY Zenon
<1>1. IsFiniteSet(0..n)
  BY FS_Interval
<1>2. IsWellFoundedOn(StrictSubsetOrdering(0..n), SUBSET (0..n))
  <2>1. FiniteSubsetsOf(0..n) = SUBSET (0..n)
    BY <1>1, FS_FiniteSubsetsOfFinite, Zenon
  <2> QED BY <1>1, <2>1, FS_StrictSubsetOrderingWellFounded, Zenon
<1>3. W \subseteq SUBSET (0..n) /\ W # {}
  OBVIOUS
<1> HIDE DEF W
<1>4. PICK x \in W : \A y \in W : ~(<<y, x>> \in StrictSubsetOrdering(0..n))
  BY <1>2, <1>3, WFMin, Zenon
<1>5. PICK i \in (0..n) \ S : x = 0..i
  BY <1>4, Zenon DEF W
<1>6. i # 0 /\ i - 1 \in 0..n /\ i - 1 < n /\ (i - 1) + 1 = i
  OBVIOUS
<1>7. i - 1 \notin S
  BY <1>6, Zenon
<1>8. 0..(i - 1) \in W
  BY <1>6, <1>7, Zenon DEF W
<1>9. 0..(i - 1) \subseteq x /\ i \in x /\ i \notin 0..(i - 1)
  BY <1>5, <1>6
<1>10. <<0..(i - 1), x>> \in StrictSubsetOrdering(0..n)
  BY <1>3, <1>8, <1>9, Zenon DEF StrictSubsetOrdering
<1> QED BY <1>4, <1>8, <1>10, Zenon

(* Indices have a first one. *)
LEMMA FirstIndex ==
    ASSUME NEW n \in Nat, NEW A \in SUBSET (1..n), A # {}
    PROVE  First(A) \in A /\ \A j \in A : First(A) <= j
<1> DEFINE Least == \E i \in A : \A j \in A : i <= j
           S == {k \in 0..n : (\E i \in A : i <= k) => Least}
<1>1. 0 \in S
  OBVIOUS
<1>2. ASSUME NEW k \in 0..n, k < n, k \in S PROVE k + 1 \in S
  <2>1. CASE \E i \in A : i <= k
    BY <1>2, <2>1
  <2>2. CASE ~ \E i \in A : i <= k
    <3>1. \A j \in A : k + 1 <= j
      BY <2>2
    <3>2. (\E i \in A : i <= k + 1) => k + 1 \in A
      BY <3>1
    <3> QED BY <1>2, <3>1, <3>2
  <2> QED BY <2>1, <2>2, Zenon
<1> HIDE DEF S
<1>3. n \in S
  BY <1>1, <1>2, IntervalInduction
<1>4. \E i \in A : i <= n
  <2>1. PICK i \in A : i \in 1..n
    BY Zenon
  <2> QED BY <2>1
<1>5. Least
  BY <1>3, <1>4, Zenon DEF S
<1> QED BY <1>5, Zenon DEF First

(* Order is a sequence of nodes, from 1 on. *)
LEMMA OrderFacts ==
    /\ Len(Order) \in Nat /\ Len(Order) >= 1 /\ DOMAIN Order = 1..Len(Order)
    /\ \A i \in 1..Len(Order) : Order[i] \in Nodes
    /\ \A n \in Nodes : \E i \in 1..Len(Order) : Order[i] = n
    /\ Order[1] \in Nodes /\ Order[1] # "none"
<1>1. Order \in Seq(Nodes) /\ Order # <<>>
  BY ConstantsAssumption, Zenon
<1>2. Len(Order) \in Nat /\ Len(Order) >= 1 /\ DOMAIN Order = 1..Len(Order)
  BY <1>1
<1>3. \A n \in Nodes : \E i \in 1..Len(Order) : Order[i] = n
  BY <1>2, Zenon DEF Nodes, Range
<1>4. \A i \in 1..Len(Order) : Order[i] \in Nodes
  BY <1>1
<1> QED BY <1>2, <1>3, <1>4, ConstantsAssumption

(* The numbers. *)
LEMMA Numbers ==
    /\ Strikes \subseteq Nat /\ MaxDelay \in Nat /\ Tolerance \in Nat /\ NoResult = MaxDelay
    /\ Delays \subseteq Nat /\ Delays # {} /\ "none" \notin Nodes
<1>1. Strikes \subseteq Nat /\ MaxDelay \in Nat /\ Delays \subseteq 0..MaxDelay - 1 /\ Delays # {}
      /\ Tolerance \in 1..MaxDelay - 1 /\ "none" \notin Nodes
  BY ConstantsAssumption, Zenon
<1> QED BY <1>1 DEF NoResult

(* The loop of Select is what it says: the recursion has a solution. *)
LEMMA ScanLoop ==
    ASSUME NEW start, Len(Order) \in Nat
    PROVE  Scan(start) = [i \in 0..Len(Order) |-> IF i = 0 THEN start ELSE Consider(Scan(start)[i - 1], Order[i])]
<1> DEFINE Chain(g, k) == g = [i \in 0..k |-> IF i = 0 THEN start ELSE Consider(g[i - 1], Order[i])]
           S == {k \in 0..Len(Order) : \E g : Chain(g, k)}
<1>1. 0 \in S
  <2>1. Chain([i \in 0..0 |-> start], 0)
    OBVIOUS
  <2> HIDE DEF Chain
  <2> QED BY <2>1
<1>2. ASSUME NEW k \in 0..Len(Order), k < Len(Order), k \in S PROVE k + 1 \in S
  <2>1. PICK g : Chain(g, k)
    BY <1>2, Zenon
  <2> DEFINE h == [i \in 0..(k + 1) |-> IF i = k + 1 THEN Consider(g[k], Order[k + 1]) ELSE g[i]]
  <2>2. \A i \in 0..k : h[i] = g[i] /\ g[i] = IF i = 0 THEN start ELSE Consider(g[i - 1], Order[i])
    BY <2>1
  <2>3. h[k + 1] = Consider(h[k], Order[k + 1])
    BY <2>2
  <2>4. \A i \in 0..(k + 1) : h[i] = IF i = 0 THEN start ELSE Consider(h[i - 1], Order[i])
    <3> SUFFICES ASSUME NEW i \in 0..(k + 1)
                 PROVE  h[i] = IF i = 0 THEN start ELSE Consider(h[i - 1], Order[i])
      BY Zenon
    <3>1. CASE i = k + 1
      BY <2>3, <3>1
    <3>2. CASE i \in 0..k
      <4>1. i # 0 => i - 1 \in 0..k
        BY <3>2
      <4> HIDE DEF h
      <4> QED BY <2>2, <3>2, <4>1, Zenon
    <3> QED BY <3>1, <3>2
  <2>5. Chain(h, k + 1)
    <3>1. h = [i \in 0..(k + 1) |-> h[i]]
      BY Zenon
    <3> HIDE DEF h
    <3> QED BY <2>4, <3>1, Zenon
  <2> HIDE DEF Chain, h
  <2> QED BY <1>2, <2>5
<1>3. \E g : Chain(g, Len(Order))
  <2> HIDE DEF S
  <2>1. 0..Len(Order) \subseteq S
    BY <1>1, <1>2, IntervalInduction, Zenon
  <2>2. Len(Order) \in S
    BY <2>1
  <2> HIDE DEF Chain
  <2> QED BY <2>2, Zenon DEF S
<1>4. Scan(start) = CHOOSE g : Chain(g, Len(Order))
  BY Zenon DEF Scan
<1>5. Chain(Scan(start), Len(Order))
  <2> HIDE DEF Chain
  <2> QED BY <1>3, <1>4, Zenon
<1> QED BY <1>5, Zenon

(* What Select has found after i outbounds: a node with a result, and, if  *)
(* no delay is 0 and no sum wraps, one within the tolerance of them all.   *)
Comparable == \A n \in Recent : history[n] > 0 /\ history[n] + Tolerance < MaxDelay

Found(b) ==
    /\ b.min \in Nat
    /\ \/ b.node = "none" /\ b.min = 0
       \/ b.node \in Recent /\ b.min = history[b.node]

Near(b, n) == n \in Recent => b.node \in Recent /\ b.min <= history[n] + Tolerance

(* One turn of the loop. *)
LEMMA ConsiderStep ==
    ASSUME history \in [Nodes -> Delays \cup {NoResult}], NEW b, Found(b), NEW n \in Nodes
    PROVE  /\ Found(Consider(b, n))
           /\ Comparable => Near(Consider(b, n), n)
           /\ Comparable => \A m \in Nodes : Near(b, m) => Near(Consider(b, n), m)
<1>1. /\ \A m \in Nodes : history[m] \in Nat
      /\ MaxDelay \in Nat /\ Tolerance \in Nat /\ NoResult = MaxDelay
      /\ \A m \in Nodes : m \in Recent <=> history[m] # NoResult
      /\ Recent \subseteq Nodes /\ "none" \notin Recent
  BY Numbers, Zenon DEF Recent
<1>2. CASE history[n] # NoResult /\ Better(b.min, history[n])
  <2>1. Consider(b, n) = [min |-> history[n], node |-> n]
    BY <1>2, Zenon DEF Consider
  <2>2. Found(Consider(b, n))
    BY <1>1, <1>2, <2>1 DEF Found
  <2>3. Near(Consider(b, n), n)
    BY <1>1, <1>2, <2>1 DEF Near
  <2>4. ASSUME Comparable, NEW m \in Nodes, Near(b, m) PROVE Near(Consider(b, n), m)
    <3>1. (history[n] + Tolerance) % MaxDelay = history[n] + Tolerance
      BY <1>1, <1>2, <2>4 DEF Comparable
    <3>2. m \in Recent => b.min > history[n] + Tolerance
      BY <1>1, <1>2, <2>4, <3>1 DEF Comparable, Better, Near, Found
    <3> QED BY <1>1, <1>2, <2>1, <2>4, <3>2 DEF Near, Found
  <2> QED BY <2>2, <2>3, <2>4, Zenon
<1>3. CASE ~(history[n] # NoResult /\ Better(b.min, history[n]))
  <2>1. Consider(b, n) = b
    BY <1>3, Zenon DEF Consider
  <2>2. ASSUME Comparable, n \in Recent PROVE Near(b, n)
    <3>1. (history[n] + Tolerance) % MaxDelay = history[n] + Tolerance
      BY <1>1, <2>2 DEF Comparable
    <3> QED BY <1>1, <1>3, <2>2, <3>1 DEF Near, Found, Better
  <2> QED BY <2>1, <2>2, Zenon DEF Near
<1> QED BY <1>2, <1>3, Zenon

(* The whole loop. *)
LEMMA ScanFinds ==
    ASSUME history \in [Nodes -> Delays \cup {NoResult}], NEW start, Found(start)
    PROVE  LET b == Scan(start)[Len(Order)]
           IN  Found(b) /\ (Comparable => \A n \in Nodes : Near(b, n))
<1> DEFINE seen == Scan(start)
           S == {k \in 0..Len(Order) :
                   Found(seen[k]) /\ (Comparable => \A j \in 1..k : Near(seen[k], Order[j]))}
<1> HIDE DEF seen
<1>1. /\ Len(Order) \in Nat /\ Len(Order) >= 1
      /\ \A i \in 1..Len(Order) : Order[i] \in Nodes
      /\ \A n \in Nodes : \E i \in 1..Len(Order) : Order[i] = n
  BY OrderFacts, Zenon
<1>2. seen = [i \in 0..Len(Order) |-> IF i = 0 THEN start ELSE Consider(seen[i - 1], Order[i])]
  BY <1>1, ScanLoop, Zenon DEF seen
<1>3. seen[0] = start /\ \A k \in 0..Len(Order) : k < Len(Order) => seen[k + 1] = Consider(seen[k], Order[k + 1])
  BY <1>1, <1>2
<1>4. 0 \in S
  BY <1>1, <1>3
<1>5. ASSUME NEW k \in 0..Len(Order), k < Len(Order), k \in S PROVE k + 1 \in S
  <2>1. seen[k + 1] = Consider(seen[k], Order[k + 1]) /\ Order[k + 1] \in Nodes /\ Found(seen[k])
    BY <1>1, <1>3, <1>5
  <2>2. Found(seen[k + 1])
    BY <2>1, ConsiderStep, Zenon
  <2>3. ASSUME Comparable, NEW j \in 1..(k + 1) PROVE Near(seen[k + 1], Order[j])
    <3>1. CASE j = k + 1
      BY <2>1, <2>3, <3>1, ConsiderStep
    <3>2. CASE j \in 1..k
      <4>1. Near(seen[k], Order[j]) /\ Order[j] \in Nodes
        BY <1>1, <1>5, <2>3, <3>2
      <4> QED BY <2>1, <2>3, <4>1, ConsiderStep
    <3> QED BY <3>1, <3>2
  <2> QED BY <1>1, <1>5, <2>2, <2>3
<1>6. Len(Order) \in S
  <2> HIDE DEF S
  <2>1. 0..Len(Order) \subseteq S
    BY <1>1, <1>4, <1>5, IntervalInduction, Zenon
  <2> QED BY <1>1, <2>1
<1>7. Found(seen[Len(Order)]) /\ (Comparable => \A j \in 1..Len(Order) : Near(seen[Len(Order)], Order[j]))
  BY <1>6, Zenon
<1>8. Comparable => \A n \in Nodes : Near(seen[Len(Order)], n)
  BY <1>1, <1>7, Zenon
<1> QED BY <1>7, <1>8, Zenon DEF seen

(* Select in the plain mode: a node, and one near the fastest. *)
LEMMA FastestSound ==
    ASSUME history \in [Nodes -> Delays \cup {NoResult}], NEW s, NEW cur \in Nodes \cup {"none"}
    PROVE  LET r == selectFastest(s, cur)
           IN  /\ r.node \in Nodes /\ r.strikes = s /\ r.exists \in BOOLEAN
               /\ Comparable /\ r.exists => \A n \in Recent : history[r.node] <= history[n] + Tolerance
<1> DEFINE start == IF cur # "none" /\ history[cur] # NoResult
                      THEN [min |-> history[cur], node |-> cur] ELSE [min |-> 0, node |-> "none"]
           b == Scan(start)[Len(Order)]
           r == selectFastest(s, cur)
<1>1. /\ \A m \in Nodes : history[m] \in Nat
      /\ \A m \in Nodes : m \in Recent <=> history[m] # NoResult
      /\ Recent \subseteq Nodes /\ Order[1] \in Nodes /\ "none" \notin Nodes
  BY Numbers, OrderFacts, Zenon DEF Recent
<1>2. Found(start)
  BY <1>1, Zenon DEF Found
<1>3. r = IF b.node = "none" THEN FirstNode(s) ELSE [node |-> b.node, exists |-> TRUE, strikes |-> s]
  BY Zenon DEF selectFastest
<1> HIDE DEF start, r
<1>4. Found(b) /\ (Comparable => \A n \in Nodes : Near(b, n))
  BY <1>2, ScanFinds, Zenon
<1> HIDE DEF b
<1>5. CASE b.node = "none"
  <2>1. r = [node |-> Order[1], exists |-> FALSE, strikes |-> s]
    BY <1>3, <1>5, Zenon DEF FirstNode
  <2> QED BY <1>1, <2>1 DEF r
<1>6. CASE b.node # "none"
  <2>1. r = [node |-> b.node, exists |-> TRUE, strikes |-> s] /\ b.node \in Recent /\ b.min = history[b.node]
    BY <1>3, <1>4, <1>6, Zenon DEF Found
  <2>2. Comparable => \A n \in Recent : history[b.node] <= history[n] + Tolerance
    BY <1>1, <1>4, <2>1, Zenon DEF Near
  <2> QED BY <1>1, <2>1, <2>2 DEF r
<1> QED BY <1>5, <1>6, Zenon

StrikeCounts == [Nodes -> 0..needed]

(* selectFailover: the node is left only when it is condemned. *)
LEMMA FailoverSound ==
    ASSUME needed \in Nat, NEW s \in StrikeCounts, NEW cur \in Nodes \cup {"none"}
    PROVE  LET r == selectFailover(s, cur)
           IN  /\ r.node \in Nodes /\ r.strikes \in {s, NoStrikes} /\ r.exists = TRUE
               /\ cur # "none" /\ r.node # cur => s[cur] >= needed
<1> DEFINE alive == {i \in DOMAIN Order : ~condemned(s, Order[i])}
           r == selectFailover(s, cur)
<1>1. r = IF cur # "none" /\ ~condemned(s, cur) THEN [node |-> cur, exists |-> TRUE, strikes |-> s]
          ELSE IF alive # {} THEN [node |-> Order[First(alive)], exists |-> TRUE, strikes |-> s]
          ELSE ResetStrikes(s, cur)
  BY Zenon DEF selectFailover
<1>2. alive # {} => Order[First(alive)] \in Nodes
  <2>1. Len(Order) \in Nat /\ DOMAIN Order = 1..Len(Order) /\ \A i \in 1..Len(Order) : Order[i] \in Nodes
    BY OrderFacts, Zenon
  <2>2. alive \in SUBSET (1..Len(Order))
    BY <2>1, Zenon
  <2> HIDE DEF alive
  <2> QED BY <2>1, <2>2, FirstIndex, Zenon
<1> HIDE DEF alive, r
<1>3. Order[1] \in Nodes
  BY OrderFacts, Zenon
<1>4. s[cur] \in 0..needed \/ cur = "none"
  BY Zenon DEF StrikeCounts
<1>5. CASE cur # "none" /\ ~condemned(s, cur)
  <2>1. r = [node |-> cur, exists |-> TRUE, strikes |-> s]
    BY <1>1, <1>5, Zenon
  <2> QED BY <1>5, <2>1 DEF r
<1>6. CASE ~(cur # "none" /\ ~condemned(s, cur)) /\ alive # {}
  <2>1. r = [node |-> Order[First(alive)], exists |-> TRUE, strikes |-> s]
    BY <1>1, <1>6, Zenon
  <2> QED BY <1>2, <1>6, <2>1 DEF r, condemned
<1>7. CASE ~(cur # "none" /\ ~condemned(s, cur)) /\ alive = {}
  <2>1. r = [node |-> Order[1], exists |-> TRUE, strikes |-> NoStrikes]
    BY <1>1, <1>7, Zenon DEF ResetStrikes
  <2> QED BY <1>3, <1>7, <2>1 DEF r, condemned
<1> QED BY <1>5, <1>6, <1>7, Zenon

(* Select and what performUpdateCheck makes of it: the strikes are the     *)
(* same or cleared, a selection that is replaced is an update, and in the  *)
(* failover mode the node that is left is condemned.                       *)
LEMMA MovedSound ==
    ASSUME needed \in Nat, history \in [Nodes -> Delays \cup {NoResult}],
           NEW s \in StrikeCounts, NEW cur \in Nodes \cup {"none"}
    PROVE  /\ Select(s, cur).node \in Nodes /\ Select(s, cur).strikes \in {s, NoStrikes}
           /\ LET m == Moved(s, cur)
              IN  /\ m.node \in Nodes /\ m.strikes \in {s, NoStrikes} /\ m.updated \in BOOLEAN
                  /\ cur # "none" /\ m.node # cur => m.updated
                  /\ needed > 0 /\ cur # "none" /\ m.node # cur => s[cur] >= needed
<1> DEFINE r == Select(s, cur)
           moves == cur = "none" \/ (r.exists /\ r.node # cur)
           m == Moved(s, cur)
<1>1. /\ r.node \in Nodes /\ r.strikes \in {s, NoStrikes} /\ r.exists \in BOOLEAN
      /\ needed > 0 /\ cur # "none" /\ r.node # cur => s[cur] >= needed
  <2>1. CASE needed > 0
    <3>1. r = selectFailover(s, cur)
      BY <2>1, Zenon DEF Select
    <3> QED BY <2>1, <3>1, FailoverSound, Zenon
  <2>2. CASE ~(needed > 0)
    <3>1. r = selectFastest(s, cur)
      BY <2>2, Zenon DEF Select
    <3> QED BY <2>2, <3>1, FastestSound, Zenon
  <2> QED BY <2>1, <2>2, Zenon
<1>2. m = [node |-> IF moves THEN r.node ELSE cur, strikes |-> r.strikes, updated |-> moves /\ cur # "none"]
  BY Zenon DEF Moved
<1>3. moves \in BOOLEAN /\ (moves /\ cur # "none") \in BOOLEAN
  BY Zenon
<1> HIDE DEF r, m
<1>4. /\ m.node = IF moves THEN r.node ELSE cur
      /\ m.strikes = r.strikes /\ m.updated = (moves /\ cur # "none")
  BY <1>2, Zenon
<1>5. m.node \in Nodes
  BY <1>1, <1>4, Zenon
<1>6. m.updated \in BOOLEAN
  BY <1>3, <1>4, Zenon
<1>7. cur # "none" /\ m.node # cur => moves /\ m.node = r.node
  BY <1>4, Zenon
<1> QED BY <1>1, <1>4, <1>5, <1>6, <1>7, Zenon DEF r, m

-----------------------------------------------------------------------------
(* The inductive invariant.  While no round holds the flag none has        *)
(* replaced a selection, a probe that runs has a node, and strikes of the  *)
(* first node are tests it has failed in a row.                            *)
Selections ==
    /\ needed \in Strikes /\ up \subseteq Nodes
    /\ selected \in [Nets -> Nodes \cup {"none"}]
    /\ history \in [Nodes -> Delays \cup {NoResult}]

Failures ==
    /\ strikes \in StrikeCounts /\ failed \in 0..needed
    /\ strikes[Order[1]] <= failed

RoundKinds == [at : {"idle", "test", "udp", "interrupt"}, left : SUBSET Nodes,
               again : BOOLEAN, updated : BOOLEAN]
RoundInv ==
    /\ round \in RoundKinds
    /\ ~checking => round.at = "idle" /\ ~round.updated

ProbeInv ==
    /\ probe \in [at : {"idle", "test", "act"}, node : Nodes \cup {"none"}]
    /\ probe.at # "idle" => probe.node \in Nodes

ConnKinds == [at : {"off", "dial", "open"}, node : Nodes \cup {"none"}, late : BOOLEAN]
ConnInv ==
    /\ conn \in [Conns -> ConnKinds]
    /\ \A c \in Conns : conn[c].at # "off" => conn[c].node \in Nodes
    /\ OldConnsInterrupted

Flags == checking \in BOOLEAN /\ pending \in BOOLEAN /\ active \in BOOLEAN /\ ticker \in BOOLEAN

GroupInv == Selections /\ Failures /\ RoundInv /\ ProbeInv /\ ConnInv /\ Flags

(* The selections in the states of the invariant. *)
LEMMA SelectedFacts ==
    ASSUME Selections, Failures
    PROVE  /\ needed \in Nat /\ NoStrikes \in StrikeCounts
           /\ history \in [Nodes -> Delays \cup {NoResult}]
           /\ \A w \in Nets : selected[w] \in Nodes \cup {"none"}
           /\ "tcp" \in Nets /\ "udp" \in Nets
           /\ Order[1] \in Nodes /\ NoStrikes[Order[1]] = 0 /\ Order[1] # "none"
<1>1. needed \in Nat
  BY Numbers, Zenon DEF Selections
<1> QED BY <1>1, OrderFacts DEF Selections, StrikeCounts, NoStrikes, Nets

(* A switch in the states of the invariant: the strikes are kept or        *)
(* cleared, and the first node is left when it has failed the tests.       *)
LEMMA MovesFacts ==
    ASSUME Selections, Failures, NEW s \in {strikes, NoStrikes}, NEW w \in Nets
    PROVE  LET m == Moved(s, selected[w])
           IN  /\ m.node \in Nodes /\ m.strikes \in {strikes, NoStrikes} /\ m.updated \in BOOLEAN
               /\ selected[w] # "none" /\ m.node # selected[w] => m.updated
               /\ needed > 0 /\ selected[w] = Order[1] /\ m.node # Order[1] => failed >= needed
<1> DEFINE m == Moved(s, selected[w])
<1>1. /\ needed \in Nat /\ s \in StrikeCounts /\ selected[w] \in Nodes \cup {"none"}
      /\ history \in [Nodes -> Delays \cup {NoResult}] /\ Order[1] \in Nodes /\ Order[1] # "none"
      /\ NoStrikes[Order[1]] = 0
  BY SelectedFacts, Zenon DEF Failures
<1>2. /\ m.node \in Nodes /\ m.strikes \in {s, NoStrikes} /\ m.updated \in BOOLEAN
      /\ selected[w] # "none" /\ m.node # selected[w] => m.updated
      /\ needed > 0 /\ selected[w] # "none" /\ m.node # selected[w] => s[selected[w]] >= needed
  BY <1>1, MovedSound, Zenon
<1> HIDE DEF m
<1>3. ASSUME needed > 0, selected[w] = Order[1], m.node # Order[1] PROVE failed >= needed
  <2>1. s[Order[1]] >= needed
    BY <1>1, <1>2, <1>3, Zenon
  <2>2. s[Order[1]] \in 0..needed /\ failed \in 0..needed /\ strikes[Order[1]] <= failed
    BY <1>1, Zenon DEF Failures, StrikeCounts
  <2> QED BY <1>1, <1>3, <2>1, <2>2
<1>4. m.strikes \in {strikes, NoStrikes}
  BY <1>2, Zenon
<1> QED BY <1>2, <1>3, <1>4, Zenon DEF m

LEMMA TargetsFacts ==
    ASSUME Selections, Failures
    PROVE  Targets \subseteq Nodes /\ StrikesAfterTargets \in {strikes, NoStrikes}
<1>1. CASE needed > 0
  <2> DEFINE t == selectFailover(strikes, selected["tcp"])
             u == selectFailover(t.strikes, selected["udp"])
  <2>1. /\ needed \in Nat /\ strikes \in StrikeCounts /\ NoStrikes \in StrikeCounts
        /\ selected["tcp"] \in Nodes \cup {"none"} /\ selected["udp"] \in Nodes \cup {"none"}
    BY SelectedFacts, Zenon DEF Failures
  <2>2. t.node \in Nodes /\ t.strikes \in {strikes, NoStrikes}
    BY <2>1, FailoverSound, Zenon
  <2> HIDE DEF t
  <2>3. t.strikes \in StrikeCounts
    BY <2>1, <2>2, Zenon
  <2>4. u.node \in Nodes /\ u.strikes \in {t.strikes, NoStrikes}
    BY <2>1, <2>3, FailoverSound, Zenon
  <2> HIDE DEF u
  <2>5. Targets = {t.node, u.node} /\ StrikesAfterTargets = u.strikes
    BY <1>1, Zenon DEF t, u, Targets, failoverCheckTargets, StrikesAfterTargets
  <2> QED BY <2>2, <2>4, <2>5, Zenon
<1>2. CASE ~(needed > 0)
  BY <1>2, Zenon DEF Targets, StrikesAfterTargets
<1> QED BY <1>1, <1>2, Zenon

LEMMA DialFacts ==
    ASSUME Selections, Failures
    PROVE  Select(strikes, "none").node \in Nodes /\ Select(strikes, "none").strikes \in {strikes, NoStrikes}
<1>1. needed \in Nat /\ strikes \in StrikeCounts /\ history \in [Nodes -> Delays \cup {NoResult}]
  BY SelectedFacts, Zenon DEF Failures
<1> QED BY <1>1, MovedSound, Zenon

(* The steps of the group, one by one. *)
LEMMA Steps ==
    ASSUME Next
    PROVE  \/ \E n \in Nodes : TestDone(n) \/ Flip(n)
           \/ \E w \in Nets : RoundUpdate(w)
           \/ RoundDone \/ TimerFires \/ LoopCheck \/ LoopEnds \/ Unused
           \/ ProbeStarts \/ ProbeDone \/ ProbeActs
           \/ \E c \in Conns : Dial(c) \/ DialOK(c) \/ DialFails(c) \/ CloseConn(c)
BY Zenon DEF Next, Round, Loop, Probe

(* ProbeActs, with its two moves. *)
LEMMA ProbeMoves ==
    ASSUME Selections, Failures, ProbeActs
    PROVE  /\ UNCHANGED <<needed, up, history, checking, round, pending, ticker, active, failed>>
           /\ strikes' \in {strikes, NoStrikes}
           /\ selected' \in [Nets -> Nodes \cup {"none"}]
           /\ \A w \in Nets : needed > 0 /\ selected[w] = Order[1] /\ selected'[w] # Order[1] => failed >= needed
           /\ \/ UNCHANGED <<selected, conn>>
              \/ /\ ~checking
                 /\ \E b \in BOOLEAN :
                      /\ conn' = AfterInterrupt(b)
                      /\ \A w \in Nets : selected[w] # "none" /\ selected'[w] # selected[w] => b
<1> DEFINE t == Moved(strikes, selected["tcp"])
           u == Moved(t.strikes, selected["udp"])
<1>1. /\ t.node \in Nodes /\ t.strikes \in {strikes, NoStrikes} /\ t.updated \in BOOLEAN
      /\ selected["tcp"] # "none" /\ t.node # selected["tcp"] => t.updated
      /\ needed > 0 /\ selected["tcp"] = Order[1] /\ t.node # Order[1] => failed >= needed
  BY MovesFacts, Zenon DEF Nets
<1> HIDE DEF t
<1>2. /\ u.node \in Nodes /\ u.strikes \in {strikes, NoStrikes} /\ u.updated \in BOOLEAN
      /\ selected["udp"] # "none" /\ u.node # selected["udp"] => u.updated
      /\ needed > 0 /\ selected["udp"] = Order[1] /\ u.node # Order[1] => failed >= needed
  BY <1>1, MovesFacts, Zenon DEF Nets
<1> HIDE DEF u
<1>3. /\ UNCHANGED <<needed, up, history, checking, round, pending, ticker, active, failed>>
      /\ \/ UNCHANGED <<strikes, selected, conn>>
         \/ /\ ~checking /\ strikes' = u.strikes /\ selected' = [tcp |-> t.node, udp |-> u.node]
            /\ conn' = AfterInterrupt(t.updated \/ u.updated)
  BY Zenon DEF ProbeActs, LeavesToRound, t, u
<1>4. CASE UNCHANGED <<strikes, selected, conn>>
  BY <1>3, <1>4, Zenon DEF Selections
<1>5. CASE /\ ~checking /\ strikes' = u.strikes /\ selected' = [tcp |-> t.node, udp |-> u.node]
           /\ conn' = AfterInterrupt(t.updated \/ u.updated)
  <2>1. /\ selected' \in [Nets -> Nodes \cup {"none"}]
        /\ selected'["tcp"] = t.node /\ selected'["udp"] = u.node
    BY <1>1, <1>2, <1>5 DEF Nets
  <2>2. PICK b \in BOOLEAN : b = (t.updated \/ u.updated)
    BY Zenon
  <2>3. conn' = AfterInterrupt(b)
    BY <1>5, <2>2, Zenon
  <2>4. \A w \in Nets : selected[w] # "none" /\ selected'[w] # selected[w] => b
    BY <1>1, <1>2, <2>1, <2>2, Zenon DEF Nets
  <2>5. \A w \in Nets : needed > 0 /\ selected[w] = Order[1] /\ selected'[w] # Order[1] => failed >= needed
    BY <1>1, <1>2, <2>1, Zenon DEF Nets
  <2> QED BY <1>2, <1>3, <1>5, <2>1, <2>3, <2>4, <2>5, Zenon
<1> QED BY <1>3, <1>4, <1>5, Zenon

(* RoundUpdate, with its move. *)
LEMMA RoundMoves ==
    ASSUME Selections, Failures, RoundInv, NEW w \in Nets, RoundUpdate(w)
    PROVE  /\ UNCHANGED <<needed, up, history, checking, probe, pending, ticker, active, conn, failed>>
           /\ checking
           /\ strikes' \in {strikes, NoStrikes}
           /\ \E n \in Nodes, b \in BOOLEAN, a \in {"udp", "interrupt"} :
                /\ selected' = [selected EXCEPT ![w] = n]
                /\ needed > 0 /\ selected[w] = Order[1] /\ n # Order[1] => failed >= needed
                /\ round' = [at |-> a, left |-> {}, again |-> round.again, updated |-> b]
                /\ round.updated => b
                /\ selected[w] # "none" /\ n # selected[w] => b
<1> DEFINE r == Moved(strikes, selected[w])
<1>1. /\ r.node \in Nodes /\ r.strikes \in {strikes, NoStrikes} /\ r.updated \in BOOLEAN
      /\ selected[w] # "none" /\ r.node # selected[w] => r.updated
      /\ needed > 0 /\ selected[w] = Order[1] /\ r.node # Order[1] => failed >= needed
  BY MovesFacts, Zenon
<1> HIDE DEF r
<1>2. PICK b \in BOOLEAN : b = (round.updated \/ r.updated)
  BY Zenon
<1>3. PICK a \in {"udp", "interrupt"} : a = IF w = "tcp" THEN "udp" ELSE "interrupt"
  BY Zenon
<1>4. /\ UNCHANGED <<needed, up, history, checking, probe, pending, ticker, active, conn, failed>>
      /\ strikes' = r.strikes /\ selected' = [selected EXCEPT ![w] = r.node]
      /\ round' = [at |-> a, left |-> {}, again |-> round.again, updated |-> b]
      /\ round.at \in {"test", "udp", "tcp"}
  BY <1>2, <1>3, Zenon DEF RoundUpdate, r, Nets
<1>5. checking
  BY <1>4, Zenon DEF RoundInv
<1> QED BY <1>1, <1>2, <1>4, <1>5, Zenon

-----------------------------------------------------------------------------
(* A test that ends: what it does to the strikes and the results. *)
LEMMA TestKept ==
    ASSUME Selections, Failures, needed' = needed, NEW n \in Nodes, Passed(n) \/ Struck(n)
    PROVE  Failures'
<1>1. /\ needed \in Nat /\ strikes \in [Nodes -> 0..needed] /\ failed \in 0..needed
      /\ strikes[Order[1]] <= failed /\ Order[1] \in Nodes
  BY SelectedFacts, Zenon DEF Failures, StrikeCounts
<1>2. CASE Passed(n)
  <2>1. /\ strikes' = (IF needed > 0 THEN [strikes EXCEPT ![n] = 0] ELSE strikes)
        /\ failed' = IF n = Order[1] THEN 0 ELSE failed
    BY <1>2, Zenon DEF Passed, Cleared
  <2>2. strikes' \in [Nodes -> 0..needed] /\ failed' \in 0..needed
    BY <1>1, <2>1
  <2>3. strikes'[Order[1]] <= failed'
    BY <1>1, <2>1
  <2> QED BY <2>2, <2>3, Zenon DEF Failures, StrikeCounts
<1>3. CASE Struck(n)
  <2>1. /\ strikes' = [strikes EXCEPT ![n] = Counted(n)]
        /\ failed' = IF n = Order[1] /\ failed < needed THEN failed + 1 ELSE failed
    BY <1>3, Zenon DEF Struck
  <2>2. Counted(n) \in 0..needed /\ Counted(n) = IF strikes[n] < needed THEN strikes[n] + 1 ELSE needed
    BY <1>1 DEF Counted
  <2>3. strikes' \in [Nodes -> 0..needed] /\ failed' \in 0..needed
    BY <1>1, <2>1, <2>2
  <2>4. strikes'[Order[1]] <= failed'
    BY <1>1, <2>1, <2>2
  <2> QED BY <2>3, <2>4, Zenon DEF Failures, StrikeCounts
<1> QED BY <1>2, <1>3, Zenon

LEMMA ClearedKept ==
    ASSUME Selections, Failures, UNCHANGED <<needed, failed>>, strikes' \in {strikes, NoStrikes}
    PROVE  Failures'
<1>1. /\ needed \in Nat /\ NoStrikes \in StrikeCounts /\ NoStrikes[Order[1]] = 0
  BY SelectedFacts, Zenon
<1> QED BY <1>1 DEF Failures, StrikeCounts

(* The node of a test. *)
LEMMA TestedNode ==
    ASSUME RoundInv, ProbeInv
    PROVE  /\ \A n : TestDone(n) => n \in Nodes /\ (Passed(n) \/ Struck(n)) /\ UNCHANGED needed
           /\ ProbeDone => probe.node \in Nodes /\ (Passed(probe.node) \/ Struck(probe.node)) /\ UNCHANGED needed
<1>1. ASSUME NEW n, TestDone(n) PROVE n \in Nodes /\ (Passed(n) \/ Struck(n)) /\ UNCHANGED needed
  BY <1>1, Zenon DEF TestDone, FailedTest, RoundInv, RoundKinds
<1>2. ASSUME ProbeDone PROVE probe.node \in Nodes /\ (Passed(probe.node) \/ Struck(probe.node)) /\ UNCHANGED needed
  BY <1>2, Zenon DEF ProbeDone, ProbeInv
<1> QED BY <1>1, <1>2, Zenon

LEMMA FailuresStep ==
    ASSUME GroupInv, Next
    PROVE  Failures'
<1> USE DEF GroupInv
<1>1. ASSUME NEW n \in Nodes, TestDone(n) PROVE Failures'
  BY <1>1, TestedNode, TestKept, Zenon
<1>2. ASSUME ProbeDone PROVE Failures'
  BY <1>2, TestedNode, TestKept, Zenon
<1>3. ASSUME NEW w \in Nets, RoundUpdate(w) PROVE Failures'
  BY <1>3, RoundMoves, ClearedKept, Zenon
<1>4. ASSUME ProbeActs PROVE Failures'
  BY <1>4, ProbeMoves, ClearedKept, Zenon
<1>5. ASSUME TimerFires \/ LoopCheck PROVE Failures'
  <2>1. strikes' \in {strikes, NoStrikes} /\ UNCHANGED <<needed, failed>>
    BY <1>5, TargetsFacts, Zenon DEF TimerFires, LoopCheck, Check, StartRound
  <2> QED BY <2>1, ClearedKept, Zenon
<1>6. ASSUME NEW c \in Conns, Dial(c) PROVE Failures'
  <2>1. strikes' \in {strikes, NoStrikes} /\ UNCHANGED <<needed, failed>>
    BY <1>6, DialFacts, Zenon DEF Dial
  <2> QED BY <2>1, ClearedKept, Zenon
<1>7. ASSUME UNCHANGED <<needed, strikes, failed>> PROVE Failures'
  BY <1>7, ClearedKept, Zenon
<1>8. \/ \E n \in Nodes : TestDone(n)
      \/ \E w \in Nets : RoundUpdate(w)
      \/ TimerFires \/ LoopCheck \/ ProbeDone \/ ProbeActs \/ \E c \in Conns : Dial(c)
      \/ UNCHANGED <<needed, strikes, failed>>
  BY Steps, Zenon DEF Flip, RoundDone, LoopEnds, Unused, ProbeStarts, DialOK, DialFails, CloseConn
<1> QED BY <1>1, <1>2, <1>3, <1>4, <1>5, <1>6, <1>7, <1>8, Zenon

LEMMA SelectionsStep ==
    ASSUME GroupInv, Next
    PROVE  Selections'
<1> USE DEF GroupInv
<1>1. needed' = needed /\ up' \subseteq Nodes
  <2>1. \/ UNCHANGED <<needed, up>>
        \/ \E n \in Nodes : Flip(n)
    BY Steps, Zenon DEF TestDone, RoundUpdate, RoundDone, TimerFires, LoopCheck, LoopEnds, Unused, ProbeStarts,
                 ProbeDone, ProbeActs, Dial, DialOK, DialFails, CloseConn
  <2> QED BY <2>1, Zenon DEF Flip, Selections
<1>2. selected' \in [Nets -> Nodes \cup {"none"}]
  <2>1. ASSUME NEW w \in Nets, RoundUpdate(w) PROVE selected' \in [Nets -> Nodes \cup {"none"}]
    <3>1. PICK n \in Nodes : selected' = [selected EXCEPT ![w] = n]
      BY <2>1, RoundMoves, Zenon
    <3> QED BY <3>1, Zenon DEF Selections
  <2>2. ASSUME ProbeActs PROVE selected' \in [Nets -> Nodes \cup {"none"}]
    BY <2>2, ProbeMoves, Zenon
  <2>3. \/ \E w \in Nets : RoundUpdate(w)
        \/ ProbeActs \/ selected' = selected
    BY Steps, Zenon DEF TestDone, Flip, RoundDone, TimerFires, LoopCheck, LoopEnds, Unused, ProbeStarts,
                 ProbeDone, Dial, DialOK, DialFails, CloseConn
  <2> QED BY <2>1, <2>2, <2>3, Zenon DEF Selections
<1>3. history' \in [Nodes -> Delays \cup {NoResult}]
  <2>1. ASSUME NEW n \in Nodes, \E d \in Delays \cup {NoResult} : history' = [history EXCEPT ![n] = d]
        PROVE  history' \in [Nodes -> Delays \cup {NoResult}]
    BY <2>1, Zenon DEF Selections
  <2>2. DelaysSeen \subseteq Delays
    BY Numbers, Zenon DEF DelaysSeen
  <2>3. \/ \E n \in Nodes : TestDone(n)
        \/ ProbeDone \/ \E c \in Conns : DialFails(c)
        \/ history' = history
    BY Steps, Zenon DEF Flip, RoundUpdate, RoundDone, TimerFires, LoopCheck, LoopEnds, Unused, ProbeStarts,
                 ProbeActs, Dial, DialOK, CloseConn
  <2>4. ASSUME NEW n \in Nodes, TestDone(n) PROVE history' \in [Nodes -> Delays \cup {NoResult}]
    <3>1. history' = history \/ \E d \in Delays \cup {NoResult} : history' = [history EXCEPT ![n] = d]
      BY <2>2, <2>4, Zenon DEF TestDone, Passed, FailedTest
    <3> QED BY <2>1, <3>1, Zenon DEF Selections
  <2>5. ASSUME ProbeDone PROVE history' \in [Nodes -> Delays \cup {NoResult}]
    <3>1. /\ probe.node \in Nodes
          /\ \E d \in Delays \cup {NoResult} : history' = [history EXCEPT ![probe.node] = d]
      BY <2>2, <2>5, TestedNode, Zenon DEF ProbeDone, Passed
    <3> QED BY <2>1, <3>1, Zenon
  <2>6. ASSUME NEW c \in Conns, DialFails(c) PROVE history' \in [Nodes -> Delays \cup {NoResult}]
    <3>1. /\ conn[c].node \in Nodes
          /\ history' = history \/ \E d \in Delays \cup {NoResult} : history' = [history EXCEPT ![conn[c].node] = d]
      BY <2>6, Zenon DEF DialFails, ConnInv
    <3> QED BY <2>1, <3>1, Zenon DEF Selections
  <2> QED BY <2>3, <2>4, <2>5, <2>6, Zenon DEF Selections
<1> QED BY <1>1, <1>2, <1>3, Zenon DEF Selections

LEMMA RoundStep ==
    ASSUME GroupInv, Next
    PROVE  RoundInv'
<1> USE DEF GroupInv
<1>1. ASSUME NEW n \in Nodes, TestDone(n) PROVE RoundInv'
  <2>1. PICK b \in BOOLEAN : b = (round.again \/ (n \notin up /\ Counted(n) < needed))
    BY Zenon
  <2>2. /\ round' = [at |-> "test", left |-> round.left \ {n}, updated |-> round.updated, again |-> b]
        /\ round.at = "test" /\ checking' = checking
    BY <1>1, <2>1, Zenon DEF TestDone
  <2> QED BY <2>2, Zenon DEF RoundInv, RoundKinds
<1>2. ASSUME NEW w \in Nets, RoundUpdate(w) PROVE RoundInv'
  <2>1. PICK b \in BOOLEAN, a \in {"udp", "interrupt"} :
          round' = [at |-> a, left |-> {}, again |-> round.again, updated |-> b] /\ checking /\ checking' = checking
    BY <1>2, RoundMoves, Zenon
  <2> QED BY <2>1, Zenon DEF RoundInv, RoundKinds
<1>3. ASSUME RoundDone PROVE RoundInv'
  <2>1. round' = [at |-> "idle", left |-> {}, again |-> FALSE, updated |-> FALSE]
    BY <1>3, Zenon DEF RoundDone, NoRound
  <2> QED BY <2>1, Zenon DEF RoundInv, RoundKinds
<1>4. ASSUME TimerFires \/ LoopCheck PROVE RoundInv'
  <2>1. \/ UNCHANGED <<round, checking>>
        \/ /\ checking' = TRUE
           /\ \E l \in SUBSET Nodes : round' = [at |-> "test", left |-> l, again |-> FALSE, updated |-> FALSE]
    BY <1>4, TargetsFacts, Zenon DEF TimerFires, LoopCheck, Check, StartRound
  <2>2. ASSUME checking' = TRUE, NEW l \in SUBSET Nodes,
               round' = [at |-> "test", left |-> l, again |-> FALSE, updated |-> FALSE]
        PROVE  RoundInv'
    BY <2>2, Zenon DEF RoundInv, RoundKinds
  <2>3. ASSUME UNCHANGED <<round, checking>> PROVE RoundInv'
    BY <2>3, Zenon DEF RoundInv
  <2> QED BY <2>1, <2>2, <2>3, Zenon
<1>5. \/ \E n \in Nodes : TestDone(n)
      \/ \E w \in Nets : RoundUpdate(w)
      \/ RoundDone \/ TimerFires \/ LoopCheck
      \/ UNCHANGED <<round, checking>>
  BY Steps, Zenon DEF Flip, LoopEnds, Unused, ProbeStarts, ProbeDone, ProbeActs, Dial, DialOK, DialFails,
               CloseConn
<1>6. ASSUME UNCHANGED <<round, checking>> PROVE RoundInv'
  BY <1>6, Zenon DEF RoundInv
<1> QED BY <1>1, <1>2, <1>3, <1>4, <1>5, <1>6, Zenon

LEMMA ProbeStep ==
    ASSUME GroupInv, Next
    PROVE  ProbeInv'
<1> USE DEF GroupInv
<1>1. ASSUME ProbeStarts PROVE ProbeInv'
  <2>1. Now \in Nodes /\ probe' = [at |-> "test", node |-> Now]
    BY <1>1, SelectedFacts, Zenon DEF ProbeStarts, Now
  <2> QED BY <2>1, Zenon DEF ProbeInv
<1>2. ASSUME ProbeDone PROVE ProbeInv'
  <2>1. probe.node \in Nodes /\ (probe' = NoProbe \/ probe' = [at |-> "act", node |-> probe.node])
    BY <1>2, TestedNode, Zenon DEF ProbeDone
  <2> QED BY <2>1 DEF ProbeInv, NoProbe
<1>3. ASSUME ProbeActs PROVE ProbeInv'
  BY <1>3, Zenon DEF ProbeActs, ProbeInv, NoProbe
<1>4. ProbeStarts \/ ProbeDone \/ ProbeActs \/ probe' = probe
  BY Steps, Zenon DEF TestDone, Flip, RoundUpdate, RoundDone, TimerFires, LoopCheck, LoopEnds, Unused, Dial,
               DialOK, DialFails, CloseConn
<1> QED BY <1>1, <1>2, <1>3, <1>4, Zenon DEF ProbeInv

(* The interruption: after it no connection that may be interrupted is     *)
(* open, and without it the connections stay.                              *)
LEMMA Interrupted ==
    ASSUME NEW b \in BOOLEAN, conn \in [Conns -> ConnKinds], conn' = AfterInterrupt(b),
           \A c \in Conns : conn[c].at # "off" => conn[c].node \in Nodes
    PROVE  /\ conn' \in [Conns -> ConnKinds]
           /\ \A c \in Conns : conn'[c].at # "off" => conn'[c].node \in Nodes
           /\ b => \A c \in Conns \ External : conn'[c].at # "open"
           /\ ~b => conn' = conn
<1>1. NoConn \in ConnKinds /\ NoConn.at = "off"
  BY Zenon DEF NoConn, ConnKinds
<1>2. conn' = [c \in Conns |-> IF b /\ conn[c].at = "open" /\ c \notin External THEN NoConn ELSE conn[c]]
  BY Zenon DEF AfterInterrupt, Interrupts
<1>3. \A c \in Conns : conn'[c] = IF b /\ conn[c].at = "open" /\ c \notin External THEN NoConn ELSE conn[c]
  BY <1>2, Zenon
<1>4. conn' \in [Conns -> ConnKinds]
  BY <1>1, <1>2, Zenon
<1>5. ~b => conn' = conn
  <2>1. conn = [c \in Conns |-> conn[c]]
    BY Zenon
  <2> QED BY <1>2, <2>1, Zenon
<1> QED BY <1>1, <1>3, <1>4, <1>5, Zenon

(* Connections that move alone. *)
LEMMA OneConnKept ==
    ASSUME ConnInv, UNCHANGED <<selected, round>>, NEW c \in Conns, NEW k \in ConnKinds,
           conn' = [conn EXCEPT ![c] = k], k.at # "off" => k.node \in Nodes,
           k.at = "open" => k.late \/ k.node = selected[NetOf(c)]
    PROVE  ConnInv'
<1>1. conn \in [Conns -> ConnKinds]
  BY Zenon DEF ConnInv
<1>2. conn' \in [Conns -> ConnKinds] /\ \A d \in Conns : conn'[d] = IF d = c THEN k ELSE conn[d]
  BY <1>1, Zenon
<1>3. \A d \in Conns : conn'[d].at # "off" => conn'[d].node \in Nodes
  BY <1>2, Zenon DEF ConnInv
<1>4. OldConnsInterrupted'
  BY <1>2, Zenon DEF ConnInv, OldConnsInterrupted, NetOf
<1> QED BY <1>2, <1>3, <1>4, Zenon DEF ConnInv

LEMMA ConnStep ==
    ASSUME GroupInv, Next
    PROVE  ConnInv'
<1> USE DEF GroupInv
<1>1. /\ conn \in [Conns -> ConnKinds]
      /\ \A c \in Conns : conn[c].at # "off" => conn[c].node \in Nodes
  BY Zenon DEF ConnInv
<1>2. \A c : NetOf(c) \in Nets
  BY Zenon DEF NetOf, Nets
<1>3. NoConn \in ConnKinds /\ NoConn.at = "off"
  BY Zenon DEF NoConn, ConnKinds
<1>4. ASSUME UNCHANGED <<selected, conn>>, round.updated => round'.updated \/ \A c \in Conns \ External : conn'[c].at # "open"
      PROVE  ConnInv'
  BY <1>1, <1>4, Zenon DEF ConnInv, OldConnsInterrupted, NetOf
<1>5. ASSUME NEW w \in Nets, RoundUpdate(w) PROVE ConnInv'
  <2>1. PICK n \in Nodes, b \in BOOLEAN :
          /\ selected' = [selected EXCEPT ![w] = n] /\ round'.updated = b
          /\ round.updated => b
          /\ selected[w] # "none" /\ n # selected[w] => b
    BY <1>5, RoundMoves
  <2>2. conn' = conn
    BY <1>5, RoundMoves, Zenon
  <2>3. OldConnsInterrupted'
    <3> SUFFICES ASSUME ~b, NEW c \in Conns \ External, conn[c].at = "open"
                 PROVE  conn[c].late \/ conn[c].node = selected'[NetOf(c)]
      BY <2>1, <2>2, Zenon DEF OldConnsInterrupted, NetOf
    <3>1. conn[c].late \/ conn[c].node = selected[NetOf(c)]
      BY <2>1, Zenon DEF ConnInv, OldConnsInterrupted
    <3>2. conn[c].node \in Nodes /\ conn[c].node # "none"
      BY <1>1, Numbers, Zenon
    <3>3. selected'[NetOf(c)] = IF NetOf(c) = w THEN n ELSE selected[NetOf(c)]
      BY <1>2, <2>1, Zenon DEF Selections
    <3> QED BY <2>1, <3>1, <3>2, <3>3, Zenon
  <2> QED BY <1>1, <2>2, <2>3, Zenon DEF ConnInv
<1>6. ASSUME ProbeActs PROVE ConnInv'
  <2>1. CASE UNCHANGED <<selected, conn>>
    BY <1>4, <1>6, <2>1, ProbeMoves, Zenon
  <2>2. CASE ~UNCHANGED <<selected, conn>>
    <3>1. PICK b \in BOOLEAN :
            /\ conn' = AfterInterrupt(b)
            /\ \A w \in Nets : selected[w] # "none" /\ selected'[w] # selected[w] => b
      BY <1>6, <2>2, ProbeMoves, Zenon
    <3>2. round' = round /\ ~round.updated
      BY <1>6, <2>2, ProbeMoves, Zenon DEF RoundInv
    <3>3. /\ conn' \in [Conns -> ConnKinds]
          /\ \A c \in Conns : conn'[c].at # "off" => conn'[c].node \in Nodes
          /\ b => \A c \in Conns \ External : conn'[c].at # "open"
          /\ ~b => conn' = conn
      BY <1>1, <3>1, Interrupted, Zenon
    <3>4. OldConnsInterrupted'
      <4> SUFFICES ASSUME NEW c \in Conns \ External, conn'[c].at = "open"
                   PROVE  conn'[c].late \/ conn'[c].node = selected'[NetOf(c)]
        BY Zenon DEF OldConnsInterrupted, NetOf
      <4>1. ~b /\ conn' = conn
        BY <3>3, Zenon
      <4>2. conn[c].late \/ conn[c].node = selected[NetOf(c)]
        BY <3>2, <4>1, Zenon DEF ConnInv, OldConnsInterrupted
      <4>3. conn[c].node # "none"
        BY <1>1, <4>1, Numbers, Zenon
      <4> QED BY <1>2, <3>1, <4>1, <4>2, <4>3, Zenon
    <3> QED BY <3>3, <3>4, Zenon DEF ConnInv
  <2> QED BY <2>1, <2>2, Zenon
<1>7. ASSUME RoundDone PROVE ConnInv'
  <2>1. PICK b \in BOOLEAN : b = round.updated
    BY Zenon DEF RoundInv, RoundKinds
  <2>2. conn' = AfterInterrupt(b) /\ selected' = selected
    BY <1>7, <2>1, Zenon DEF RoundDone
  <2>3. /\ conn' \in [Conns -> ConnKinds]
        /\ \A c \in Conns : conn'[c].at # "off" => conn'[c].node \in Nodes
        /\ b => \A c \in Conns \ External : conn'[c].at # "open"
        /\ ~b => conn' = conn
    BY <1>1, <2>2, Interrupted, Zenon
  <2>4. OldConnsInterrupted'
    BY <2>1, <2>2, <2>3, Zenon DEF ConnInv, OldConnsInterrupted, NetOf
  <2> QED BY <2>3, <2>4, Zenon DEF ConnInv
<1>8. ASSUME TimerFires \/ LoopCheck PROVE ConnInv'
  <2>1. UNCHANGED <<selected, conn>> /\ (round' = round \/ ~round.updated)
    BY <1>8, Zenon DEF TimerFires, LoopCheck, Check, RoundInv
  <2> QED BY <1>4, <2>1, Zenon
<1>9. ASSUME NEW n \in Nodes, TestDone(n) PROVE ConnInv'
  <2>1. UNCHANGED <<selected, conn>> /\ round'.updated = round.updated
    BY <1>9, Zenon DEF TestDone
  <2> QED BY <1>4, <2>1, Zenon
<1>10. ASSUME NEW c \in Conns, Dial(c) PROVE ConnInv'
  <2> DEFINE n == IF selected[NetOf(c)] # "none" THEN selected[NetOf(c)] ELSE Select(strikes, "none").node
  <2>1. n \in Nodes
    BY <1>2, DialFacts, SelectedFacts, Zenon
  <2>2. conn' = [conn EXCEPT ![c] = [at |-> "dial", node |-> n, late |-> FALSE]] /\ UNCHANGED <<selected, round>>
    BY <1>10, Zenon DEF Dial
  <2> HIDE DEF n
  <2>3. [at |-> "dial", node |-> n, late |-> FALSE] \in ConnKinds
    BY <2>1, Zenon DEF ConnKinds
  <2> QED BY <2>1, <2>2, <2>3, OneConnKept, Zenon
<1>11. ASSUME NEW c \in Conns, DialOK(c) PROVE ConnInv'
  <2>1. PICK b \in BOOLEAN : b = (selected[NetOf(c)] # conn[c].node)
    BY Zenon
  <2>2. /\ conn' = [conn EXCEPT ![c] = [at |-> "open", node |-> conn[c].node, late |-> b]]
        /\ UNCHANGED <<selected, round>> /\ conn[c].node \in Nodes
    BY <1>1, <1>11, <2>1, Zenon DEF DialOK
  <2>3. [at |-> "open", node |-> conn[c].node, late |-> b] \in ConnKinds
    BY <2>2, Zenon DEF ConnKinds
  <2> QED BY <2>1, <2>2, <2>3, OneConnKept, Zenon
<1>12. ASSUME NEW c \in Conns, DialFails(c) \/ CloseConn(c) PROVE ConnInv'
  <2>1. conn' = [conn EXCEPT ![c] = NoConn] /\ UNCHANGED <<selected, round>>
    BY <1>12, Zenon DEF DialFails, CloseConn
  <2> QED BY <1>3, <2>1, OneConnKept, Zenon
<1>13. ASSUME UNCHANGED <<selected, conn, round>> PROVE ConnInv'
  BY <1>4, <1>13, Zenon
<1>14. \/ \E n \in Nodes : TestDone(n)
       \/ \E w \in Nets : RoundUpdate(w)
       \/ RoundDone \/ TimerFires \/ LoopCheck \/ ProbeActs
       \/ \E c \in Conns : Dial(c) \/ DialOK(c) \/ DialFails(c) \/ CloseConn(c)
       \/ UNCHANGED <<selected, conn, round>>
  BY Steps, Zenon DEF Flip, LoopEnds, Unused, ProbeStarts, ProbeDone
<1> QED BY <1>5, <1>6, <1>7, <1>8, <1>9, <1>10, <1>11, <1>12, <1>13, <1>14, Zenon

LEMMA FlagsStep ==
    ASSUME GroupInv, Next
    PROVE  Flags'
<1>1. Flags
  BY Zenon DEF GroupInv
<1>2. checking' \in {checking, TRUE, FALSE} /\ active' \in {active, TRUE, FALSE}
  BY Steps, Zenon DEF TestDone, Flip, RoundUpdate, RoundDone, TimerFires, LoopCheck, Check, StartRound,
               LoopEnds, Unused, ProbeStarts, ProbeDone, ProbeActs, Dial, DialOK, DialFails, CloseConn
<1>3. ticker' \in {ticker} \cup BOOLEAN
  BY Steps, Zenon DEF TestDone, Flip, RoundUpdate, RoundDone, TimerFires, LoopCheck, LoopEnds, Unused,
               ProbeStarts, ProbeDone, ProbeActs, Dial, DialOK, DialFails, CloseConn
<1>4. pending' \in {pending} \cup BOOLEAN
  BY Steps, Zenon DEF TestDone, Flip, RoundUpdate, RoundDone, TimerFires, LoopCheck, LoopEnds, Unused,
               ProbeStarts, ProbeDone, ProbeActs, Dial, DialOK, DialFails, CloseConn
<1> QED BY <1>1, <1>2, <1>3, <1>4, Zenon DEF Flags

LEMMA GroupInit == ASSUME Init PROVE GroupInv
<1>1. Strikes \subseteq Nat /\ Order[1] \in Nodes
  BY Numbers, OrderFacts, Zenon
<1>2. Selections
  BY <1>1, Zenon DEF Init, Selections
<1>3. Failures
  BY <1>1 DEF Init, Failures, StrikeCounts, NoStrikes
<1>4. RoundInv
  <2> DEFINE l == IF needed > 0 THEN {Order[1]} ELSE Nodes
  <2>1. l \subseteq Nodes /\ checking = TRUE /\ round = [at |-> "test", left |-> l, again |-> FALSE, updated |-> FALSE]
    BY <1>1, Zenon DEF Init
  <2> HIDE DEF l
  <2> QED BY <2>1, Zenon DEF RoundInv, RoundKinds
<1>5. ProbeInv
  BY Zenon DEF Init, ProbeInv, NoProbe
<1>6. ConnInv
  <2>1. NoConn \in ConnKinds /\ NoConn.at = "off"
    BY Zenon DEF NoConn, ConnKinds
  <2> QED BY <2>1, Zenon DEF Init, ConnInv, OldConnsInterrupted
<1>7. Flags
  BY Zenon DEF Init, Flags
<1> QED BY <1>2, <1>3, <1>4, <1>5, <1>6, <1>7, Zenon DEF GroupInv

LEMMA GroupNext == ASSUME GroupInv, [Next]_vars PROVE GroupInv'
<1>1. CASE Next
  BY <1>1, SelectionsStep, FailuresStep, RoundStep, ProbeStep, ConnStep, FlagsStep, Zenon DEF GroupInv
<1>2. CASE UNCHANGED vars
  BY <1>2, Zenon DEF vars, GroupInv, Selections, Failures, StrikeCounts, RoundInv, ProbeInv, ConnInv,
              OldConnsInterrupted, NetOf, Flags
<1> QED BY <1>1, <1>2, Zenon

(* What selections rest on is sound in every group: strikes are failures   *)
(* in a row, and the node that the plain mode selects is within the        *)
(* tolerance of the fastest.                                               *)
THEOREM SelectionsCorrect == Spec => []SelectionSound
<1>1. Init => GroupInv
  BY GroupInit, Zenon
<1>2. GroupInv /\ [Next]_vars => GroupInv'
  BY GroupNext, Zenon
<1>3. ASSUME GroupInv PROVE SelectionSound
  <2> USE <1>3 DEF GroupInv
  <2>1. TypeOK
    BY Zenon DEF TypeOK, Selections, Failures, StrikeCounts, RoundInv, RoundKinds, ProbeInv, ConnInv,
           ConnKinds, Flags
  <2>2. StrikesInARow
    BY Zenon DEF StrikesInARow, Failures
  <2>3. SelectsNearFastest
    <3> SUFFICES ASSUME needed = 0, Comparable, NEW w \in Nets, Select(strikes, selected[w]).exists
                 PROVE  \A n \in Recent : history[Select(strikes, selected[w]).node] <= history[n] + Tolerance
      BY Zenon DEF SelectsNearFastest, Comparable
    <3>1. selected[w] \in Nodes \cup {"none"} /\ history \in [Nodes -> Delays \cup {NoResult}]
      BY SelectedFacts, Zenon
    <3>2. Select(strikes, selected[w]) = selectFastest(strikes, selected[w])
      BY DEF Select
    <3> QED BY <3>1, <3>2, FastestSound, ZenonT(60)
  <2> QED BY <2>1, <2>2, <2>3, Zenon DEF SelectionSound
<1> QED BY <1>1, <1>2, <1>3, PTL DEF Spec

(* No connection that the group may interrupt outlives the switch away     *)
(* from its node.                                                          *)
THEOREM InterruptsCorrect == Spec => []OldConnsInterrupted
<1>1. Init => GroupInv
  BY GroupInit, Zenon
<1>2. GroupInv /\ [Next]_vars => GroupInv'
  BY GroupNext, Zenon
<1>3. GroupInv => OldConnsInterrupted
  BY Zenon DEF GroupInv, ConnInv
<1> QED BY <1>1, <1>2, <1>3, PTL DEF Spec

(* In the failover mode the first node is left only after as many tests    *)
(* failed in a row as failover_strikes says, whoever moves a selection.    *)
THEOREM SwitchesCorrect == Spec => SwitchJustified
<1> DEFINE Justified == \A w \in Nets : needed > 0 /\ selected[w] = Order[1] /\ selected'[w] # Order[1] =>
                          failed >= needed
<1>1. Init => GroupInv
  BY GroupInit, Zenon
<1>2. GroupInv /\ [Next]_vars => GroupInv'
  BY GroupNext, Zenon
<1>3. ASSUME GroupInv, [Next]_vars PROVE [Justified]_vars
  <2>1. ASSUME NEW v \in Nets, RoundUpdate(v) PROVE Justified
    <3>1. PICK n \in Nodes :
            /\ selected' = [selected EXCEPT ![v] = n]
            /\ needed > 0 /\ selected[v] = Order[1] /\ n # Order[1] => failed >= needed
      BY <1>3, <2>1, RoundMoves, Zenon DEF GroupInv
    <3>2. \A w \in Nets : selected'[w] = IF w = v THEN n ELSE selected[w]
      BY <1>3, <3>1, Zenon DEF GroupInv, Selections
    <3> QED BY <3>1, <3>2, Zenon
  <2>2. ASSUME ProbeActs PROVE Justified
    BY <1>3, <2>2, ProbeMoves, Zenon DEF GroupInv
  <2>3. ASSUME Next PROVE selected' = selected \/ ProbeActs \/ \E w \in Nets : RoundUpdate(w)
    BY <2>3, Steps, Zenon DEF TestDone, Flip, RoundDone, TimerFires, LoopCheck, LoopEnds, Unused, ProbeStarts,
                       ProbeDone, Dial, DialOK, DialFails, CloseConn
  <2>4. ASSUME selected' = selected PROVE Justified
    BY <2>4, Zenon
  <2> QED BY <1>3, <2>1, <2>2, <2>3, <2>4, Zenon
<1> QED BY <1>1, <1>2, <1>3, PTL DEF Spec, SwitchJustified
=============================================================================
