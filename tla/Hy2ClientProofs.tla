-------------------------- MODULE Hy2ClientProofs --------------------------
(***************************************************************************)
(* Proofs about module Hy2Client, for any number of connections and        *)
(* callers: no connection from before a network change is installed, a     *)
(* working relay is left for verified connections only, a drain does not   *)
(* cut a counted stream, and whatever waits has somebody who ends the wait.*)
(***************************************************************************)
EXTENDS Hy2Client, FiniteSetTheorems, TLAPS

(* Who can become the current connection.  An offer that began before the  *)
(* last CloseWithError is discarded, no probe outlives a CloseWithError,   *)
(* and while an offer is pending the current connection has ended, unless  *)
(* a probe has just installed a direct one.                                *)
OfferInv ==
    /\ conn \notin stale
    /\ \A c \in alive \cup stale \cup ({conn, built} \ {Nil}) : ~Fresh(c)
    /\ ~closed => stale = {} /\ ~staleDial
    /\ dial # "none" /\ staleDial => discarded
    /\ dial = "finish" /\ built \in stale => discarded
    /\ dial # "none" /\ conn \in alive => family[conn] = "direct"

(* What a probe holds: a direct connection, verified before it is swapped  *)
(* in.                                                                     *)
ProbeInv ==
    \A r \in Conns :
        /\ direct[r] # Nil => family[direct[r]] = "direct"
        /\ probe[r] \in {"await", "swap"} => direct[r] # Nil
        /\ probe[r] = "swap" => verifier[direct[r]] = "passed"

(* The count of a connection's streams is exact. *)
Counted(c) == {k \in Callers : caller[k] = "counted" /\ using[k] = c}
StreamsInv ==
    /\ \A k \in Callers : caller[k] \in {"got", "opened", "counted"} => using[k] \in Conns
    /\ \A c \in Conns : streams[c] = Cardinality(Counted(c))

Inv == TypeOK /\ OfferInv /\ ProbeInv /\ StreamsInv

(* A connection has a finite number of counted streams, so that a caller   *)
(* which releases one finds it counted.                                    *)
LEMMA CountedFinite ==
    ASSUME NEW c \in Conns
    PROVE  IsFiniteSet(Counted(c)) /\ Cardinality(Counted(c)) \in Nat
<1>1. Counted(c) \subseteq Callers
  BY Zenon DEF Counted
<1> QED BY <1>1, ConstantsAssumption, FS_Subset, FS_CardinalityType, Zenon

LEMMA ReleasesCounted ==
    ASSUME Inv, NEW k \in Callers, caller[k] = "counted"
    PROVE  using[k] \in Conns /\ streams[using[k]] \in Nat \ {0}
<1>1. using[k] \in Conns /\ k \in Counted(using[k])
  BY Zenon DEF Inv, StreamsInv, Counted
<1>2. Cardinality(Counted(using[k])) # 0
  BY <1>1, CountedFinite, FS_EmptySet, Zenon
<1> QED BY <1>1, <1>2, CountedFinite, Zenon DEF Inv, StreamsInv

LEMMA InitInv == Init => Inv
<1> SUFFICES ASSUME Init PROVE Inv
  BY Zenon
<1>1. TypeOK
  BY Zenon DEF Init, TypeOK
<1>2. OfferInv /\ ProbeInv
  BY ConstantsAssumption, Zenon DEF Init, OfferInv, ProbeInv, Fresh
<1>3. \A c \in Conns : Counted(c) = {}
  BY Zenon DEF Init, Counted
<1>4. StreamsInv
  BY <1>3, FS_EmptySet, Zenon DEF Init, StreamsInv
<1> QED BY <1>1, <1>2, <1>4, Zenon DEF Inv

(* The steps of Next, one by one. *)
LEMMA Steps ==
    ASSUME [Next]_vars
    PROVE  \/ \E c \in Conns, f \in {"direct", "relay"} : Dial(c, f)
           \/ DialFails \/ CompleteOffer \/ CloseWithError \/ CloseDropped
           \/ \E k \in Callers : CallerOffers(k) \/ OpenStream(k) \/ CountStream(k)
                                 \/ CloseStream(k) \/ CallerLeaves(k)
           \/ \E c \in Conns, idle \in BOOLEAN : ConnEnds(c, idle)
           \/ \E c \in Conns : IdleReconnect(c) \/ Reconnects(c) \/ VerifyPasses(c)
                               \/ VerifyFails(c) \/ VerifyCloses(c) \/ VerifyEnds(c)
           \/ \E r \in Conns : ProbeExits(r) \/ ProbeTimer(r) \/ ProbeDial(r) \/ ProbeVerified(r)
                               \/ ProbeUnverified(r) \/ ProbeSwap(r) \/ DrainEnds(r)
           \/ UNCHANGED vars
BY Zenon DEF Next, Dials, Uses, Verifies, Probes, Drained, DrainDeadline

LEMMA TypeStep ==
    ASSUME Inv, [Next]_vars
    PROVE  TypeOK'
<1> USE DEF Inv, TypeOK, offering, closing, link, guards, users, history
<1>1. ASSUME NEW c \in Conns, NEW f \in {"direct", "relay"}, Dial(c, f) PROVE TypeOK'
  BY <1>1, Zenon DEF Dial, Attach, ProbeOf
<1>2. CASE DialFails \/ CloseWithError \/ CloseDropped
  BY <1>2, Zenon DEF DialFails, CloseWithError, CloseDropped, CloseConn
<1>3. CASE CompleteOffer
  BY <1>3, Zenon DEF CompleteOffer, CloseConn, Installs
<1>4. ASSUME NEW k \in Callers, CallerOffers(k) PROVE TypeOK'
  BY <1>4, Zenon DEF CallerOffers, Offer
<1>5. ASSUME NEW k \in Callers, OpenStream(k) \/ CallerLeaves(k) PROVE TypeOK'
  BY <1>5 DEF OpenStream, CallerLeaves
<1>6. ASSUME NEW k \in Callers, CountStream(k) PROVE TypeOK'
  BY <1>6 DEF CountStream, StreamsInv
<1>7. ASSUME NEW k \in Callers, CloseStream(k) PROVE TypeOK'
  <2>1. using[k] \in Conns /\ streams[using[k]] \in Nat \ {0}
    BY <1>7, ReleasesCounted, Zenon DEF CloseStream
  <2> QED BY <1>7, <2>1 DEF CloseStream, Release
<1>8. ASSUME NEW c \in Conns, NEW idle \in BOOLEAN, ConnEnds(c, idle) PROVE TypeOK'
  BY <1>8, ZenonT(60) DEF ConnEnds, CloseConn
<1>9. ASSUME NEW c \in Conns, IdleReconnect(c) \/ Reconnects(c) PROVE TypeOK'
  BY <1>9, ZenonT(60) DEF IdleReconnect, Reconnects, Offer
<1>10. ASSUME NEW c \in Conns,
              VerifyPasses(c) \/ VerifyFails(c) \/ VerifyCloses(c) \/ VerifyEnds(c)
       PROVE  TypeOK'
  BY <1>10 DEF VerifyPasses, VerifyFails, VerifyCloses, VerifyEnds, CloseConn
<1>11. ASSUME NEW r \in Conns,
              ProbeExits(r) \/ ProbeTimer(r) \/ ProbeVerified(r) \/ ProbeUnverified(r) \/ DrainEnds(r)
       PROVE  TypeOK'
  BY <1>11 DEF ProbeExits, ProbeTimer, ProbeVerified, ProbeUnverified, DrainEnds, CloseConn
<1>12. ASSUME NEW r \in Conns, ProbeDial(r) PROVE TypeOK'
  BY <1>12 DEF ProbeDial, Attach
<1>13. ASSUME NEW r \in Conns, ProbeSwap(r) PROVE TypeOK'
  BY <1>13 DEF ProbeSwap, CloseConn
<1>14. CASE UNCHANGED vars
  BY <1>14, Zenon DEF vars
<1> QED BY Steps, <1>1, <1>2, <1>3, <1>4, <1>5, <1>6, <1>7, <1>8, <1>9, <1>10, <1>11, <1>12, <1>13, <1>14, ZenonT(60)

(* Only completeOffer and swapConn install a connection: the first one     *)
(* whose offer was not discarded, the second one of a client that was      *)
(* never closed.                                                           *)
LEMMA OfferStep ==
    ASSUME Inv, [Next]_vars
    PROVE  OfferInv'
<1> USE DEF Inv, TypeOK, OfferInv, Fresh, offering, closing, link, guards, users, history
<1>1. ASSUME NEW c \in Conns, NEW f \in {"direct", "relay"}, Dial(c, f) PROVE OfferInv'
  BY <1>1, ConstantsAssumption DEF Dial, Attach
<1>2. CASE DialFails \/ CloseDropped
  BY <1>2, ConstantsAssumption DEF DialFails, CloseDropped, CloseConn
<1>3. CASE CompleteOffer
  BY <1>3, ConstantsAssumption, Zenon DEF CompleteOffer, CloseConn, Installs
<1>4. ASSUME NEW k \in Callers, CallerOffers(k) PROVE OfferInv'
  BY <1>4 DEF CallerOffers, Offer
<1>5. ASSUME NEW k \in Callers,
             OpenStream(k) \/ CountStream(k) \/ CloseStream(k) \/ CallerLeaves(k)
      PROVE  OfferInv'
  BY <1>5 DEF OpenStream, CountStream, CloseStream, CallerLeaves
<1>6. ASSUME NEW c \in Conns, NEW idle \in BOOLEAN, ConnEnds(c, idle) PROVE OfferInv'
  BY <1>6, ZenonT(60) DEF ConnEnds, CloseConn
<1>7. ASSUME NEW c \in Conns, IdleReconnect(c) \/ Reconnects(c) PROVE OfferInv'
  BY <1>7, Zenon DEF IdleReconnect, Reconnects, Offer
<1>8. ASSUME NEW c \in Conns,
             VerifyPasses(c) \/ VerifyFails(c) \/ VerifyCloses(c) \/ VerifyEnds(c)
      PROVE  OfferInv'
  BY <1>8 DEF VerifyPasses, VerifyFails, VerifyCloses, VerifyEnds, CloseConn
<1>9. ASSUME NEW r \in Conns,
             ProbeExits(r) \/ ProbeTimer(r) \/ ProbeVerified(r) \/ ProbeUnverified(r) \/ DrainEnds(r)
      PROVE  OfferInv'
  BY <1>9 DEF ProbeExits, ProbeTimer, ProbeVerified, ProbeUnverified, DrainEnds, CloseConn
<1>10. ASSUME NEW r \in Conns, ProbeDial(r) PROVE OfferInv'
  BY <1>10, ConstantsAssumption DEF ProbeDial, Attach
<1>11. ASSUME NEW r \in Conns, ProbeSwap(r) PROVE OfferInv'
  BY <1>11, ConstantsAssumption DEF ProbeSwap, Swaps, CloseConn, ProbeInv
<1>12. CASE UNCHANGED vars
  BY <1>12, Zenon DEF vars
<1>13. CASE CloseWithError
  <2>1. /\ closed' /\ conn' = Nil /\ stale' = alive
        /\ dial # "none" => discarded'
        /\ UNCHANGED <<dial, built, family, alive>>
    BY <1>13, Zenon DEF CloseWithError
  <2> QED BY <2>1, ConstantsAssumption, Zenon
<1> QED BY Steps, <1>1, <1>2, <1>3, <1>4, <1>5, <1>6, <1>7, <1>8, <1>9, <1>10, <1>11, <1>12,
       <1>13, Zenon

(* A verdict stands: only a fresh connection gets a verifier, and the one  *)
(* a probe holds is not fresh.                                             *)
LEMMA ProbeStep ==
    ASSUME Inv, [Next]_vars
    PROVE  ProbeInv'
<1> USE DEF Inv, TypeOK, ProbeInv, Fresh, offering, closing, link, guards, users, history
<1>1. ASSUME NEW c \in Conns, NEW f \in {"direct", "relay"}, Dial(c, f) PROVE ProbeInv'
  BY <1>1, ZenonT(60) DEF Dial, Attach, ProbeOf
<1>2. CASE DialFails \/ CompleteOffer \/ CloseWithError \/ CloseDropped
  BY <1>2, Zenon DEF DialFails, CompleteOffer, CloseWithError, CloseDropped
<1>3. ASSUME NEW k \in Callers,
             CallerOffers(k) \/ OpenStream(k) \/ CountStream(k) \/ CloseStream(k) \/ CallerLeaves(k)
      PROVE  ProbeInv'
  BY <1>3 DEF CallerOffers, Offer, OpenStream, CountStream, CloseStream, CallerLeaves
<1>4. ASSUME NEW c \in Conns, NEW idle \in BOOLEAN, ConnEnds(c, idle) PROVE ProbeInv'
  BY <1>4, Zenon DEF ConnEnds
<1>5. ASSUME NEW c \in Conns, IdleReconnect(c) \/ Reconnects(c) PROVE ProbeInv'
  BY <1>5, Zenon DEF IdleReconnect, Reconnects, Offer
<1>6. ASSUME NEW c \in Conns,
             VerifyPasses(c) \/ VerifyFails(c) \/ VerifyCloses(c) \/ VerifyEnds(c)
      PROVE  ProbeInv'
  BY <1>6 DEF VerifyPasses, VerifyFails, VerifyCloses, VerifyEnds
<1>7. ASSUME NEW r \in Conns,
             ProbeExits(r) \/ ProbeTimer(r) \/ ProbeVerified(r) \/ ProbeUnverified(r)
             \/ ProbeSwap(r) \/ DrainEnds(r)
      PROVE  ProbeInv'
  BY <1>7 DEF ProbeExits, ProbeTimer, ProbeVerified, Verified, ProbeUnverified, ProbeSwap, DrainEnds
<1>8. ASSUME NEW r \in Conns, ProbeDial(r) PROVE ProbeInv'
  BY <1>8, ConstantsAssumption DEF ProbeDial, Attach
<1>9. CASE UNCHANGED vars
  BY <1>9, Zenon DEF vars
<1> QED BY Steps, <1>1, <1>2, <1>3, <1>4, <1>5, <1>6, <1>7, <1>8, <1>9, Zenon

(* A step that neither counts nor releases a stream leaves the counts      *)
(* exact.                                                                  *)
LEMMA CountsKept ==
    ASSUME Inv, UNCHANGED streams,
           \A k \in Callers : /\ caller[k] = "counted" <=> caller'[k] = "counted"
                              /\ caller[k] = "counted" => using'[k] = using[k]
    PROVE  \A c \in Conns : streams'[c] = Cardinality(Counted(c)')
<1> SUFFICES ASSUME NEW c \in Conns PROVE streams'[c] = Cardinality(Counted(c)')
  BY Zenon
<1>1. Counted(c)' = Counted(c)
  BY Zenon DEF Counted
<1> QED BY <1>1, Zenon DEF Inv, StreamsInv

LEMMA StreamsStep ==
    ASSUME Inv, [Next]_vars
    PROVE  StreamsInv'
<1>1. ASSUME NEW k \in Callers, CountStream(k) PROVE StreamsInv'
  <2>1. /\ using' = using /\ using[k] \in Conns
        /\ \A j \in Callers : caller'[j] = IF j = k THEN "counted" ELSE caller[j]
        /\ \A c \in Conns : streams'[c] = IF c = using[k] THEN streams[c] + 1 ELSE streams[c]
    BY <1>1, Zenon DEF CountStream, Inv, TypeOK, StreamsInv
  <2>2. k \notin Counted(using[k])
    BY <1>1, Zenon DEF CountStream, Counted
  <2>3. Counted(using[k])' = Counted(using[k]) \cup {k}
    BY <2>1, Zenon DEF Counted
  <2>4. Cardinality(Counted(using[k])') = Cardinality(Counted(using[k])) + 1
    BY <2>1, <2>2, <2>3, CountedFinite, FS_AddElement, Zenon
  <2>5. \A c \in Conns \ {using[k]} : Counted(c)' = Counted(c)
    BY <1>1, <2>1 DEF Counted, CountStream
  <2>6. \A c \in Conns : streams'[c] = Cardinality(Counted(c)')
    BY <2>1, <2>4, <2>5, Zenon DEF Inv, StreamsInv
  <2> QED BY <2>1, <2>6, Zenon DEF Inv, StreamsInv
<1>2. ASSUME NEW k \in Callers, CloseStream(k) PROVE StreamsInv'
  <2>1. PICK u \in Conns : u = using[k] /\ streams[u] \in Nat \ {0}
    BY <1>2, ReleasesCounted, Zenon DEF CloseStream
  <2>2. /\ caller[k] = "counted"
        /\ \A j \in Callers : caller'[j] = IF j = k THEN "idle" ELSE caller[j]
        /\ \A j \in Callers : using'[j] = IF j = k THEN Nil ELSE using[j]
        /\ \A c \in Conns : streams'[c] = IF c = u THEN streams[c] - 1 ELSE streams[c]
    BY <1>2, <2>1, Zenon DEF CloseStream, Release, Inv, TypeOK
  <2>3. Counted(u)' = Counted(u) \ {k} /\ k \in Counted(u)
    BY <2>1, <2>2 DEF Counted
  <2>4. Cardinality(Counted(u)') = Cardinality(Counted(u)) - 1
    BY <2>3, CountedFinite, FS_RemoveElement, Zenon
  <2>5. \A c \in Conns \ {u} : Counted(c)' = Counted(c)
    BY <2>1, <2>2, ConstantsAssumption DEF Counted
  <2>6. \A c \in Conns : streams'[c] = Cardinality(Counted(c)')
    BY <2>2, <2>4, <2>5, Zenon DEF Inv, StreamsInv
  <2> QED BY <2>2, <2>6, Zenon DEF Inv, StreamsInv
<1>3. CASE CompleteOffer
  <2>1. \A k \in Callers : /\ caller[k] = "counted" <=> caller'[k] = "counted"
                           /\ caller[k] = "counted" => using'[k] = using[k]
                           /\ caller'[k] \in {"got", "opened", "counted"} => using'[k] \in Conns
    BY <1>3, Zenon DEF CompleteOffer, Wakes, Installs, Inv, TypeOK, StreamsInv
  <2> QED BY <1>3, <2>1, CountsKept, Zenon DEF CompleteOffer, StreamsInv
<1>4. ASSUME NEW k \in Callers, CallerOffers(k) \/ OpenStream(k) \/ CallerLeaves(k) PROVE StreamsInv'
  <2>1. \A j \in Callers : /\ caller[j] = "counted" <=> caller'[j] = "counted"
                           /\ caller[j] = "counted" => using'[j] = using[j]
                           /\ caller'[j] \in {"got", "opened", "counted"} => using'[j] \in Conns
    BY <1>4 DEF CallerOffers, OpenStream, CallerLeaves, Inv, TypeOK, StreamsInv
  <2>2. UNCHANGED streams
    BY <1>4, Zenon DEF CallerOffers, OpenStream, CallerLeaves
  <2> QED BY <2>1, <2>2, CountsKept, Zenon DEF StreamsInv
<1>5. ASSUME UNCHANGED users PROVE StreamsInv'
  <2>1. UNCHANGED <<caller, using, streams>>
    BY <1>5, Zenon DEF users
  <2> QED BY <2>1, CountsKept, Zenon DEF Inv, StreamsInv
<1>6. ASSUME NEW c \in Conns, NEW f \in {"direct", "relay"}, Dial(c, f) PROVE UNCHANGED users
  BY <1>6, Zenon DEF Dial
<1>7. CASE DialFails \/ CloseWithError \/ CloseDropped \/ UNCHANGED vars
  BY <1>5, <1>7, Zenon DEF DialFails, CloseWithError, CloseDropped, vars
<1>8. ASSUME NEW c \in Conns, NEW idle \in BOOLEAN, ConnEnds(c, idle) PROVE UNCHANGED users
  BY <1>8, Zenon DEF ConnEnds
<1>9. ASSUME NEW c \in Conns,
             IdleReconnect(c) \/ Reconnects(c) \/ VerifyPasses(c) \/ VerifyFails(c)
             \/ VerifyCloses(c) \/ VerifyEnds(c)
      PROVE  UNCHANGED users
  BY <1>9, Zenon DEF IdleReconnect, Reconnects, VerifyPasses, VerifyFails, VerifyCloses, VerifyEnds
<1>10. ASSUME NEW r \in Conns,
              ProbeExits(r) \/ ProbeTimer(r) \/ ProbeDial(r) \/ ProbeVerified(r)
              \/ ProbeUnverified(r) \/ ProbeSwap(r) \/ DrainEnds(r)
       PROVE  UNCHANGED users
  BY <1>10, Zenon DEF ProbeExits, ProbeTimer, ProbeDial, ProbeVerified, ProbeUnverified, ProbeSwap, DrainEnds
<1> QED BY Steps, <1>1, <1>2, <1>3, <1>4, <1>5, <1>6, <1>7, <1>8, <1>9, <1>10, Zenon

LEMMA NextInv == Inv /\ [Next]_vars => Inv'
BY TypeStep, OfferStep, ProbeStep, StreamsStep, Zenon DEF Inv

(* For any number of connections and callers: after a network change or    *)
(* Close, no connection whose dial began before it is ever installed.      *)
THEOREM StaleCorrect == Spec => []NoStaleConn
<1>1. Inv => NoStaleConn
  BY Zenon DEF Inv, OfferInv, NoStaleConn
<1> QED BY <1>1, InitInv, NextInv, PTL DEF Spec

(* For any number of connections and callers: a live relay connection is   *)
(* only left for a verified direct connection.  An offer that completes    *)
(* cannot replace it, since offers begin only when the current connection  *)
(* has ended.                                                              *)
THEOREM RelayKept == Spec => WorkingRelayKept
<1>1. ASSUME Inv, [Next]_vars PROVE [LeavesForVerified]_vars
  <2> SUFFICES ASSUME conn \in alive, family[conn] = "relay", conn' \notin {conn, Nil}
               PROVE  verifier[conn'] = "passed"
    BY Zenon DEF LeavesForVerified
  <2>1. ASSUME NEW r \in Conns, ProbeSwap(r) PROVE verifier[conn'] = "passed"
    BY <1>1, <2>1, Zenon DEF ProbeSwap, Inv, ProbeInv
  <2>2. ~CompleteOffer
    BY <1>1, Zenon DEF CompleteOffer, Inv, OfferInv
  <2>3. ~CloseWithError /\ ~UNCHANGED conn
    BY Zenon DEF CloseWithError
  <2>4. \E r \in Conns : ProbeSwap(r)
    BY <1>1, <2>2, <2>3, Steps, Zenon DEF vars, Dial, DialFails, CloseDropped, CallerOffers, Offer, OpenStream,
       CountStream, CloseStream, CallerLeaves, ConnEnds, IdleReconnect, Reconnects, VerifyPasses,
       VerifyFails, VerifyCloses, VerifyEnds, ProbeExits, ProbeTimer, ProbeDial, ProbeVerified,
       ProbeUnverified, DrainEnds
  <2> QED BY <2>1, <2>4, Zenon
<1> QED BY <1>1, InitInv, NextInv, PTL DEF Spec, WorkingRelayKept

(* For any number of connections and callers: the drain of a relay that    *)
(* the client has left, before its deadline, cuts no counted stream.       *)
THEOREM StreamsSurvive == Spec => StreamsSurviveSwitch
<1>1. ASSUME Inv PROVE DrainsWhenUnused
  <2> SUFFICES ASSUME NEW r \in Conns, Drained(r), NEW k \in Callers,
                      using[k] = r, caller[k] = "counted"
               PROVE  FALSE
    BY Zenon DEF DrainsWhenUnused
  <2>1. streams[r] \in Nat \ {0}
    BY <1>1, ReleasesCounted, Zenon
  <2> QED BY <2>1 DEF Drained
<1>2. Inv => [DrainsWhenUnused]_vars
  BY <1>1, Zenon
<1> QED BY <1>2, InitInv, NextInv, PTL DEF Spec, StreamsSurviveSwitch
-----------------------------------------------------------------------------
(* Nobody is forgotten: a caller waits only while there is an offer that   *)
(* will wake it, the live relay connection of a client that was not closed *)
(* has its probe, and no drain is about to close the current connection.   *)
LookedAfter ==
    /\ \A k \in Callers : caller[k] = "waiting" => dial # "none"
    /\ \A r \in Conns :
         /\ conn = r /\ r \in alive /\ family[r] = "relay" /\ ~closed =>
              probe[r] \in {"wait", "dial", "await", "swap"}
         /\ probe[r] = "drain" => conn # r

(* The connection that an offer has built is probed already; only relays   *)
(* are probed, and once the retry timer has fired they are never offered   *)
(* again.                                                                  *)
CareInv ==
    /\ LookedAfter
    /\ \A r \in Conns :
         /\ built = r /\ r \in alive /\ family[r] = "relay" /\ ~closed =>
              probe[r] \in {"wait", "dial", "await", "swap"}
         /\ probe[r] # "off" => family[r] = "relay"
         /\ probe[r] \in {"dial", "await", "swap", "drain"} => built # r

LEMMA InitCare == Init => CareInv
BY ConstantsAssumption, Zenon DEF Init, CareInv, LookedAfter

LEMMA CareStep ==
    ASSUME Inv, CareInv, [Next]_vars
    PROVE  CareInv'
<1> USE DEF CareInv, LookedAfter, offering, closing, link, guards, users, history
<1>0. /\ TypeOK /\ Nil \notin Conns
      /\ \A c \in Conns : Fresh(c) => c # conn /\ c # built /\ c \notin alive
      /\ \A r \in Conns : direct[r] # Nil => family[direct[r]] = "direct"
      /\ \A r \in Conns : probe[r] \in {"await", "swap"} => direct[r] # Nil
  BY ConstantsAssumption, Zenon DEF Inv, OfferInv, ProbeInv
<1>1. ASSUME NEW c \in Conns, NEW f \in {"direct", "relay"}, Dial(c, f) PROVE CareInv'
  <2>1. /\ \A r \in Conns : family'[r] = IF r = c THEN f ELSE family[r]
        /\ \A r \in Conns : probe'[r] = IF r # c THEN probe[r] ELSE IF f = "relay" THEN "wait" ELSE "off"
        /\ alive' = alive \cup {c} /\ built' = c /\ dial' = "finish" /\ Fresh(c)
        /\ UNCHANGED <<conn, closed, caller>>
    BY <1>0, <1>1 DEF Dial, Attach, ProbeOf, TypeOK
  <2> QED BY <1>0, <2>1 DEF Fresh
<1>2. CASE DialFails
  BY <1>0, <1>2, Zenon DEF DialFails
<1>3. CASE CompleteOffer
  <2>1. /\ \A k \in Callers : caller'[k] # "waiting"
        /\ conn' \in {conn, built} /\ built' = Nil /\ alive' \subseteq alive
        /\ UNCHANGED <<closed, family, probe>>
    BY <1>0, <1>3 DEF CompleteOffer, Wakes, CloseConn, TypeOK
  <2> QED BY <1>0, <2>1, Zenon
<1>4. CASE CloseWithError
  BY <1>0, <1>4, Zenon DEF CloseWithError
<1>5. ASSUME alive' \subseteq alive, UNCHANGED <<conn, built, closed, family, probe, dial, caller>>
      PROVE  CareInv'
  BY <1>5, Zenon
<1>6. CASE CloseDropped
  BY <1>5, <1>6, Zenon DEF CloseDropped, CloseConn
<1>7. ASSUME NEW k \in Callers, CallerOffers(k) PROVE CareInv'
  <2>1. /\ \A j \in Callers : caller'[j] = "waiting" => caller[j] = "waiting" \/ ~(conn \in alive)
        /\ dial' = IF dial = "none" /\ ~(conn \in alive) THEN "dialing" ELSE dial
        /\ UNCHANGED <<conn, built, closed, family, alive, probe>>
    BY <1>0, <1>7, Zenon DEF CallerOffers, Offer, TypeOK
  <2> QED BY <2>1, Zenon
<1>8. ASSUME NEW k \in Callers,
             OpenStream(k) \/ CountStream(k) \/ CloseStream(k) \/ CallerLeaves(k)
      PROVE  CareInv'
  <2>1. /\ \A j \in Callers : caller'[j] = "waiting" => caller[j] = "waiting"
        /\ UNCHANGED <<conn, built, closed, family, alive, probe, dial>>
    BY <1>0, <1>8 DEF OpenStream, CountStream, CloseStream, CallerLeaves, TypeOK
  <2> QED BY <2>1, Zenon
<1>9. ASSUME NEW c \in Conns, NEW idle \in BOOLEAN, ConnEnds(c, idle) PROVE CareInv'
  BY <1>5, <1>9, Zenon DEF ConnEnds, CloseConn
<1>10. ASSUME NEW c \in Conns, Reconnects(c) PROVE CareInv'
  <2>1. /\ dial' \in {dial, "dialing"}
        /\ UNCHANGED <<conn, built, closed, family, alive, probe, caller>>
    BY <1>10, Zenon DEF Reconnects, Offer
  <2> QED BY <2>1, Zenon
<1>11. ASSUME NEW c \in Conns,
              IdleReconnect(c) \/ VerifyPasses(c) \/ VerifyFails(c) \/ VerifyCloses(c) \/ VerifyEnds(c)
       PROVE  CareInv'
  BY <1>5, <1>11, Zenon DEF IdleReconnect, VerifyPasses, VerifyFails, VerifyCloses, VerifyEnds, CloseConn
<1>12. ASSUME NEW r \in Conns, NEW p, probe' = [probe EXCEPT ![r] = p], alive' \subseteq alive,
              \/ p \in {"wait", "dial", "await", "swap"} /\ probe[r] # "off"
              \/ p = "off" /\ (r \in alive' /\ ~closed => conn # r /\ built # r),
              p \in {"dial", "await", "swap"} => built # r,
              UNCHANGED <<conn, built, closed, family, dial, caller>>
       PROVE  CareInv'
  <2>1. \A q \in Conns : probe'[q] = IF q = r THEN p ELSE probe[q]
    BY <1>0, <1>12 DEF TypeOK
  <2> QED BY <1>12, <2>1
<1>13. ASSUME NEW r \in Conns, ProbeExits(r) PROVE CareInv'
  BY <1>12, <1>13, Zenon DEF ProbeExits
<1>14. ASSUME NEW r \in Conns, ProbeTimer(r) PROVE CareInv'
  BY <1>12, <1>14 DEF ProbeTimer, IsCurrent
<1>15. ASSUME NEW r \in Conns, ProbeVerified(r) PROVE CareInv'
  BY <1>12, <1>15 DEF ProbeVerified
<1>16. ASSUME NEW r \in Conns, ProbeUnverified(r) PROVE CareInv'
  BY <1>12, <1>16 DEF ProbeUnverified, CloseConn
<1>17. ASSUME NEW r \in Conns, DrainEnds(r) PROVE CareInv'
  BY <1>12, <1>17, Zenon DEF DrainEnds, CloseConn
<1>18. ASSUME NEW r \in Conns, ProbeDial(r) PROVE CareInv'
  <2>1. CASE r \in alive /\ \E d \in Conns : /\ Attach(d, "direct", r \in stale)
                                             /\ probe' = [probe EXCEPT ![r] = "await"]
    <3>1. PICK d \in Conns : /\ Attach(d, "direct", r \in stale)
                             /\ probe' = [probe EXCEPT ![r] = "await"]
      BY <2>1, Zenon
    <3>2. /\ \A q \in Conns : family'[q] = IF q = d THEN "direct" ELSE family[q]
          /\ \A q \in Conns : probe'[q] = IF q = r THEN "await" ELSE probe[q]
          /\ alive' = alive \cup {d} /\ Fresh(d) /\ probe[r] = "dial"
          /\ UNCHANGED <<conn, built, closed, dial, caller>>
      BY <1>0, <1>18, <3>1 DEF ProbeDial, Attach, TypeOK
    <3>3. family[d] = "none"
      BY <3>2, Zenon DEF Fresh
    <3> QED BY <1>0, <3>2, <3>3
  <2>2. CASE probe' = [probe EXCEPT ![r] = "wait"] /\ UNCHANGED link
    BY <1>12, <1>18, <2>2 DEF ProbeDial
  <2> QED BY <1>18, <2>1, <2>2, Zenon DEF ProbeDial
<1>19. ASSUME NEW r \in Conns, ProbeSwap(r) PROVE CareInv'
  <2>1. CASE Swaps(r)
    <3>1. /\ \A q \in Conns : probe'[q] = IF q = r THEN "drain" ELSE probe[q]
          /\ conn' = direct[r] /\ probe[r] = "swap"
          /\ UNCHANGED <<built, alive, closed, family, dial, caller>>
      BY <1>0, <1>19, <2>1 DEF ProbeSwap, TypeOK
    <3>2. family[conn'] = "direct" /\ family[r] = "relay" /\ built # r
      BY <1>0, <3>1, Zenon
    <3>3. \A q \in Conns : family[q] = "relay" => conn' # q
      BY <3>2, Zenon
    <3> QED BY <3>1, <3>2, <3>3, ZenonT(60)
  <2>2. CASE ~Swaps(r)
    BY <1>12, <1>19, <2>2, Zenon DEF ProbeSwap, Swaps, CloseConn
  <2> QED BY <2>1, <2>2, Zenon
<1>20. CASE UNCHANGED vars
  BY <1>5, <1>20, Zenon DEF vars
<1> QED BY Steps, <1>1, <1>2, <1>3, <1>4, <1>6, <1>7, <1>8, <1>9, <1>10, <1>11, <1>13, <1>14, <1>15,
       <1>16, <1>17, <1>18, <1>19, <1>20, ZenonT(60)

(* For any number of connections and callers: whatever offers, probes,     *)
(* drains and closes do to each other, no wake-up is lost (offer starts a  *)
(* dial before it waits, and completeOffer wakes every waiter, also on     *)
(* failure), a client on a relay never loses the goroutine that looks for  *)
(* the direct path, and drainConn never has the current connection.  This  *)
(* is what CallersAnswered and RelayProbed rest on.                        *)
THEOREM CareCorrect == Spec => []LookedAfter
<1>1. Inv /\ CareInv /\ [Next]_vars => CareInv'
  BY CareStep, Zenon
<1>2. CareInv => LookedAfter
  BY Zenon DEF CareInv
<1> QED BY <1>1, <1>2, InitInv, NextInv, InitCare, PTL DEF Spec
============================================================================
