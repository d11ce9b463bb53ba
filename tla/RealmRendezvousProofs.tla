----------------------- MODULE RealmRendezvousProofs -----------------------
(***************************************************************************)
(* Proofs about the rendezvous server, for every number of users, realms,  *)
(* sessions and requests and every value of the limits: its invariants,    *)
(* and that it implements the directory of module RealmDirectory.          *)
(***************************************************************************)
EXTENDS RealmRendezvous, FiniteSetTheorems, SequenceTheorems, TLAPS

(* Giving back k of n units leaves a natural number, the exact difference  *)
(* when no more is given back than was taken (removeSessionLocked).        *)
LEMMA GiveBackExact ==
    ASSUME NEW n \in Nat, NEW k \in Nat
    PROVE  /\ GiveBack(n, k) \in Nat
           /\ k <= n => GiveBack(n, k) = n - k
BY DEF GiveBack

(* The number of sessions of any kind is a natural number, since only      *)
(* finitely many sessions are ever created.                                *)
LEMMA FiniteSessions ==
    ASSUME NEW S \in SUBSET Sessions
    PROVE  IsFiniteSet(S) /\ Cardinality(S) \in Nat
BY ConstantsAssumption, FS_Subset, FS_CardinalityType, Zenon

(* removeSessionLocked leaves every table well typed. *)
LEMMA RemoveSessionsType ==
    ASSUME TypeOK, NEW S \in SUBSET Sessions, RemoveSessions(S)
    PROVE  /\ realms' \in [Realms -> Sessions \cup {Nil}]
           /\ sessions' \in SUBSET Sessions
           /\ userCounts' \in [Users -> Nat]
           /\ closed' \in SUBSET Sessions
           /\ timer' \in [Sessions -> BOOLEAN]
           /\ pending' \in [Sessions -> SUBSET Attempts]
           /\ channel' \in [Attempts -> {"open", "payload", "closed"}]
<1> DEFINE R == S \ closed
           removed(u) == {s \in R \cap sessions : userOf[s] = u}
<1>1. userCounts' \in [Users -> Nat]
  <2>1. \A u \in Users : Cardinality(removed(u)) \in Nat
    <3>1. \A u \in Users : removed(u) \in SUBSET Sessions
      BY Zenon DEF TypeOK
    <3> QED BY <3>1, FiniteSessions, Zenon
  <2>2. \A u \in Users : GiveBack(userCounts[u], Cardinality(removed(u))) \in Nat
    BY <2>1, GiveBackExact, Zenon DEF TypeOK
  <2> QED BY <2>2, Zenon DEF RemoveSessions
<1>2. realms' \in [Realms -> Sessions \cup {Nil}]
  BY Zenon DEF RemoveSessions, TypeOK
<1>3. timer' \in [Sessions -> BOOLEAN]
  BY Zenon DEF RemoveSessions, TypeOK
<1>4. pending' \in [Sessions -> SUBSET Attempts] /\ sessions' \in SUBSET Sessions
      /\ closed' \in SUBSET Sessions
  BY Zenon DEF RemoveSessions, TypeOK
<1>5. channel' \in [Attempts -> {"open", "payload", "closed"}]
  BY Zenon DEF RemoveSessions, TypeOK
<1> QED BY <1>1, <1>2, <1>3, <1>4, <1>5, Zenon

(* Every step of the server keeps its tables well typed. *)
LEMMA TypeStep == TypeOK /\ [Next]_vars => TypeOK'
<1> SUFFICES ASSUME TypeOK, [Next]_vars PROVE TypeOK'
  BY Zenon
<1> USE DEF registry, session, clock, request, stream, attempt, response
<1>1. ASSUME NEW s \in Sessions, NEW u \in Users, NEW r \in Realms,
             NEW x \in AddrLists, NEW y \in RelayLists \cup {Nil}, Register(s, u, r, x, y)
      PROVE  TypeOK'
  BY <1>1 DEF Register, TypeOK
<1>2. ASSUME NEW s \in Sessions, NEW k \in Kinds, Authenticate(s, k) PROVE TypeOK'
  BY <1>2 DEF Authenticate, TypeOK
<1>3. ASSUME NEW s \in Sessions, Deregister(s) PROVE TypeOK'
  <2>1. RemoveSessions({s}) /\ {s} \in SUBSET Sessions
    BY <1>3, Zenon DEF Deregister
  <2>2. authed' \in SUBSET (Sessions \X Kinds)
    BY <1>3, Zenon DEF Deregister, TypeOK
  <2> QED BY <1>3, <2>1, <2>2, RemoveSessionsType, Zenon DEF Deregister, TypeOK
<1>4. ASSUME NEW s \in Sessions, NEW x \in AddrLists \cup {Nil},
             NEW y \in RelayLists \cup {Nil}, Heartbeat(s, x, y)
      PROVE  TypeOK'
  BY <1>4 DEF Heartbeat, Rearm, Kinds, TypeOK
<1>5. ASSUME NEW s \in Sessions, HeartbeatAck(s) PROVE TypeOK'
  <2>1. events' \in [Sessions -> Seq(Attempts \cup {Ack})]
    BY <1>5, AppendProperties, Zenon DEF HeartbeatAck, TypeOK
  <2> QED BY <1>5, <2>1, Zenon DEF HeartbeatAck, TypeOK
<1>6. ASSUME NEW s \in Sessions, OpenEvents(s) PROVE TypeOK'
  BY <1>6, Zenon DEF OpenEvents, TypeOK
<1>7. ASSUME NEW s \in Sessions, NEW d \in BOOLEAN, StreamEvent(s, d) PROVE TypeOK'
  <2>1. /\ Head(events[s]) \in Attempts \cup {Ack}
        /\ Tail(events[s]) \in Seq(Attempts \cup {Ack})
    BY <1>7, HeadTailProperties, Zenon DEF StreamEvent, TypeOK
  <2>2. told' \in SUBSET Attempts
    BY <1>7, <2>1, Zenon DEF StreamEvent, TypeOK
  <2> QED BY <1>7, <2>1, <2>2, Zenon DEF StreamEvent, TypeOK
<1>8. ASSUME NEW s \in Sessions, CloseEvents(s) PROVE TypeOK'
  BY <1>8, Zenon DEF CloseEvents, TypeOK
<1>9. ASSUME NEW s \in Sessions, NEW a \in Attempts, AuthenticateAnswer(s, a)
      PROVE  TypeOK'
  BY <1>9 DEF AuthenticateAnswer, TypeOK
<1>10. ASSUME NEW s \in Sessions, NEW a \in Attempts, NEW x \in AddrLists,
              ConnectResponse(s, a, x)
       PROVE  TypeOK'
  BY <1>10, Zenon DEF ConnectResponse, TypeOK
<1>11. ASSUME NEW s \in Sessions, Expire(s) PROVE TypeOK'
  BY <1>11, Zenon DEF Expire, TypeOK
<1>12. ASSUME NEW s \in Sessions, TimerFires(s) PROVE TypeOK'
  BY <1>12, Zenon DEF TimerFires, TypeOK
<1>13. ASSUME NEW s \in Sessions, RemoveExpired(s) PROVE TypeOK'
  <2>1. fired' \in [Sessions -> BOOLEAN]
    BY <1>13, Zenon DEF RemoveExpired, TypeOK
  <2>2. CASE RemoveSessions({s})
    BY <1>13, <2>1, <2>2, RemoveSessionsType, ZenonT(60) DEF RemoveExpired, TypeOK
  <2>3. CASE UNCHANGED <<registry, timer, channel, pending>>
    BY <1>13, <2>1, <2>3, Zenon DEF RemoveExpired, TypeOK
  <2> QED BY <1>13, <2>2, <2>3, Zenon DEF RemoveExpired
<1>14. ASSUME NEW a \in Attempts, NEW r \in Realms, ConnectLookup(a, r) PROVE TypeOK'
  BY <1>14 DEF ConnectLookup, PCs, Replies, TypeOK
<1>15. ASSUME NEW a \in Attempts, ConnectRegister(a) PROVE TypeOK'
  <2>1. /\ pc' \in [Attempts -> PCs]
        /\ reply' \in [Attempts -> Replies]
        /\ pending' \in [Sessions -> SUBSET Attempts]
        /\ channel' \in [Attempts -> {"open", "payload", "closed"}]
    BY <1>15, Zenon DEF ConnectRegister, PCs, Replies, TypeOK
  <2> QED BY <1>15, <2>1, Zenon DEF ConnectRegister, TypeOK
<1>16. ASSUME NEW a \in Attempts, ConnectSend(a) PROVE TypeOK'
  <2>1. pc' \in [Attempts -> PCs] /\ reply' \in [Attempts -> Replies]
    BY <1>16, Zenon DEF ConnectSend, PCs, Replies, TypeOK
  <2>2. events' \in [Sessions -> Seq(Attempts \cup {Ack})]
    BY <1>16, AppendProperties, ZenonT(60) DEF ConnectSend, TypeOK
  <2> QED BY <1>16, <2>1, <2>2, Zenon DEF ConnectSend, TypeOK
<1>17. ASSUME NEW a \in Attempts, NEW rep \in Replies, NEW x \in AddrLists \cup {Nil},
              Leave(a, rep, x), UNCHANGED <<pending, channel, answer>>
       PROVE  TypeOK'
  BY <1>17, Zenon DEF Leave, PCs, TypeOK
<1>18. ASSUME NEW a \in Attempts,
              \/ ConnectAnswered(a) \/ ConnectClosed(a) \/ ConnectTimeout(a)
              \/ ConnectDone(a) \/ ConnectGone(a)
       PROVE  TypeOK'
  <2>1. \E rep \in Replies, x \in AddrLists \cup {Nil} : Leave(a, rep, x)
    BY <1>18, Zenon DEF ConnectAnswered, ConnectClosed, ConnectTimeout, ConnectDone, ConnectGone,
                 Replies, TypeOK
  <2> QED BY <2>1, <1>17, Zenon DEF Leave
<1>19. ASSUME NEW a \in Attempts, ConnectCancel(a) PROVE TypeOK'
  BY <1>19, Zenon DEF ConnectCancel, Forget, PCs, TypeOK
<1>20. CASE CloseAll
  <2>1. RemoveSessions(sessions) /\ sessions \in SUBSET Sessions
    BY <1>20, Zenon DEF CloseAll, TypeOK
  <2> QED BY <1>20, <2>1, RemoveSessionsType, Zenon DEF CloseAll, TypeOK
<1>21. CASE UNCHANGED vars
  BY <1>21, Zenon DEF vars, TypeOK
<1> QED
  BY <1>1, <1>2, <1>3, <1>4, <1>5, <1>6, <1>7, <1>8, <1>9, <1>10, <1>11, <1>12, <1>13,
     <1>14, <1>15, <1>16, <1>18, <1>19, <1>20, <1>21, ZenonT(60)
     DEF Next, NodeRequest, Timers, ClientRequest

(* Requests, timers and closed flags only exist for sessions that a        *)
(* registration has created: handlers get their session from the table.    *)
Created ==
    /\ closed \subseteq born
    /\ \A p \in authed \cup answering : p[1] \in born
    /\ \A s \in Sessions : fired[s] \/ timer[s] => s \in born

(* The tables and the flags, together with what makes them inductive.      *)
RegistryInv == TypeOK /\ Created /\ RegistryConsistent

(* Removing sessions that exist keeps tables and flags in agreement.       *)
LEMMA RemoveSessionsRegistry ==
    ASSUME RegistryInv, NEW S \in SUBSET born, RemoveSessions(S),
           UNCHANGED <<born, realmOf>>
    PROVE  /\ closed' \subseteq born'
           /\ RegistryConsistent'
           /\ \A s \in Sessions : timer'[s] => timer[s]
<1> USE DEF RegistryInv, TypeOK, Created, RegistryConsistent
<1>1. closed' \subseteq born' /\ sessions' = born' \ closed'
  BY Zenon DEF RemoveSessions
<1>2. \A s \in sessions' : realmOf'[s] \in Realms /\ realms'[realmOf'[s]] = s
  BY DEF RemoveSessions
<1>3. \A r \in Realms : realms'[r] # Nil =>
        realms'[r] \in sessions' /\ realmOf'[realms'[r]] = r
  BY Zenon DEF RemoveSessions
<1>4. \A s \in Sessions : timer'[s] => timer[s]
  BY Zenon DEF RemoveSessions
<1> QED BY <1>1, <1>2, <1>3, <1>4, Zenon

(* Every step keeps the tables and the flags in agreement. *)
LEMMA RegistryStep == RegistryInv /\ [Next]_vars => RegistryInv'
<1> SUFFICES ASSUME RegistryInv, [Next]_vars PROVE Created' /\ RegistryConsistent'
  BY TypeStep, Zenon DEF RegistryInv
<1> USE DEF registry, session, clock, request, stream, attempt, response
<1>1. ASSUME NEW s \in Sessions, NEW u \in Users, NEW r \in Realms,
             NEW x \in AddrLists, NEW y \in RelayLists \cup {Nil}, Register(s, u, r, x, y)
      PROVE  Created' /\ RegistryConsistent'
  <2>1. s # Nil /\ s \notin closed /\ s \notin sessions
    BY <1>1, ConstantsAssumption, Zenon DEF Register, RegistryInv, Created, RegistryConsistent
  <2>2. Created'
    BY <1>1, Zenon DEF Register, RegistryInv, Created, TypeOK
  <2>3. sessions' = born' \ closed'
    BY <1>1, <2>1, Zenon DEF Register, RegistryInv, RegistryConsistent
  <2>4. \A t \in sessions' : realmOf'[t] \in Realms /\ realms'[realmOf'[t]] = t
    BY <1>1, <2>1, ConstantsAssumption DEF Register, Free, RegistryInv, RegistryConsistent, TypeOK
  <2>5. \A q \in Realms : realms'[q] # Nil =>
          realms'[q] \in sessions' /\ realmOf'[realms'[q]] = q
    BY <1>1, <2>1 DEF Register, Free, RegistryInv, RegistryConsistent, TypeOK
  <2> QED BY <2>2, <2>3, <2>4, <2>5, Zenon DEF RegistryConsistent
<1>2. ASSUME NEW s \in Sessions, NEW k \in Kinds, Authenticate(s, k)
      PROVE  Created' /\ RegistryConsistent'
  BY <1>2 DEF Authenticate, Authentic, RegistryInv, Created, RegistryConsistent
<1>3. ASSUME NEW s \in Sessions, Deregister(s) PROVE Created' /\ RegistryConsistent'
  <2>1. s \in born
    BY <1>3 DEF Deregister, RegistryInv, Created
  <2> QED BY <1>3, <2>1, RemoveSessionsRegistry, Zenon DEF Deregister, RegistryInv, Created
<1>4. ASSUME NEW s \in Sessions, NEW x \in AddrLists \cup {Nil},
             NEW y \in RelayLists \cup {Nil}, Heartbeat(s, x, y)
      PROVE  Created' /\ RegistryConsistent'
  BY <1>4 DEF Heartbeat, Rearm, RegistryInv, Created, RegistryConsistent, TypeOK
<1>5. ASSUME NEW s \in Sessions, HeartbeatAck(s) PROVE Created' /\ RegistryConsistent'
  BY <1>5, Zenon DEF HeartbeatAck, RegistryInv, Created, RegistryConsistent
<1>6. ASSUME NEW s \in Sessions, NEW a \in Attempts, AuthenticateAnswer(s, a)
      PROVE  Created' /\ RegistryConsistent'
  BY <1>6 DEF AuthenticateAnswer, Authentic, RegistryInv, Created, RegistryConsistent
<1>7. ASSUME NEW s \in Sessions, NEW a \in Attempts, NEW x \in AddrLists,
             ConnectResponse(s, a, x)
      PROVE  Created' /\ RegistryConsistent'
  BY <1>7, Zenon DEF ConnectResponse, RegistryInv, Created, RegistryConsistent
<1>8. ASSUME NEW s \in Sessions, TimerFires(s) PROVE Created' /\ RegistryConsistent'
  BY <1>8, ZenonT(60) DEF TimerFires, RegistryInv, Created, RegistryConsistent, TypeOK
<1>9. ASSUME NEW s \in Sessions, RemoveExpired(s) PROVE Created' /\ RegistryConsistent'
  <2>1. s \in born
    BY <1>9, Zenon DEF RemoveExpired, RegistryInv, Created
  <2>2. \A t \in Sessions : fired'[t] => fired[t]
    BY <1>9, Zenon DEF RemoveExpired, RegistryInv, TypeOK
  <2>3. CASE RemoveSessions({s})
    BY <1>9, <2>1, <2>2, <2>3, RemoveSessionsRegistry, Zenon
       DEF RemoveExpired, RegistryInv, Created
  <2>4. CASE UNCHANGED <<registry, timer, channel, pending>>
    BY <1>9, <2>2, <2>4, Zenon DEF RemoveExpired, RegistryInv, Created, RegistryConsistent
  <2> QED BY <1>9, <2>3, <2>4, Zenon DEF RemoveExpired
<1>10. CASE CloseAll
  <2>1. sessions \in SUBSET born
    BY Zenon DEF RegistryInv, RegistryConsistent
  <2> QED BY <1>10, <2>1, RemoveSessionsRegistry, Zenon DEF CloseAll, RegistryInv, Created
<1>11. CASE UNCHANGED <<registry, born, realmOf, authed, answering, fired, timer>>
  BY <1>11, Zenon DEF RegistryInv, Created, RegistryConsistent
<1>12. ASSUME NEW s \in Sessions,
              OpenEvents(s) \/ (\E d \in BOOLEAN : StreamEvent(s, d)) \/ CloseEvents(s)
              \/ Expire(s)
       PROVE  Created' /\ RegistryConsistent'
  BY <1>11, <1>12, Zenon DEF OpenEvents, StreamEvent, CloseEvents, Expire
<1>13. CASE ClientRequest
  BY <1>11, <1>13, ZenonT(60) DEF ClientRequest, ConnectLookup, ConnectRegister, ConnectSend, Leave,
     ConnectAnswered, ConnectClosed, ConnectTimeout, ConnectDone, ConnectGone, ConnectCancel
<1>14. CASE UNCHANGED vars
  BY <1>11, <1>14, Zenon DEF vars
<1> QED
  BY <1>1, <1>2, <1>3, <1>4, <1>5, <1>6, <1>7, <1>8, <1>9, <1>10, <1>12, <1>13, <1>14, Zenon
     DEF Next, NodeRequest, Timers

(* The user's counter and the user's sessions, with the tables.            *)
QuotaInv == RegistryInv /\ QuotaExact

(* removeSessionLocked gives back exactly the units of the sessions it     *)
(* takes out of the table.                                                 *)
LEMMA RemoveSessionsQuota ==
    ASSUME QuotaInv, NEW S \in SUBSET Sessions, RemoveSessions(S), UNCHANGED userOf
    PROVE  QuotaExact'
<1> SUFFICES ASSUME NEW u \in Users
             PROVE  /\ userCounts'[u] = Cardinality(Held(u)')
                    /\ MaxRealms[u] > 0 => Cardinality(Held(u)') <= MaxRealms[u]
  BY Zenon DEF QuotaExact
<1> DEFINE R == S \ closed
           removed == {s \in R \cap sessions : userOf[s] = u}
<1>1. Held(u)' = Held(u) \ removed /\ Held(u) \cap removed = removed
  BY Zenon DEF RemoveSessions, Held, QuotaInv, RegistryInv, TypeOK
<1>2. /\ Held(u) \in SUBSET Sessions
      /\ removed \in SUBSET Sessions
      /\ removed \in SUBSET Held(u)
  BY Zenon DEF Held, QuotaInv, RegistryInv, TypeOK
<1>3. /\ IsFiniteSet(Held(u)) /\ Cardinality(Held(u)) \in Nat
      /\ IsFiniteSet(removed) /\ Cardinality(removed) \in Nat
      /\ Cardinality(removed) <= Cardinality(Held(u))
  BY <1>2, FiniteSessions, FS_Subset, Zenon
<1>4. Cardinality(Held(u)') = Cardinality(Held(u)) - Cardinality(removed)
  BY <1>1, <1>3, FS_Difference, ZenonT(60)
<1>5. userCounts'[u] = GiveBack(userCounts[u], Cardinality(removed))
  BY Zenon DEF RemoveSessions
<1>6. userCounts[u] = Cardinality(Held(u))
      /\ (MaxRealms[u] > 0 => Cardinality(Held(u)) <= MaxRealms[u])
  BY Zenon DEF QuotaInv, QuotaExact
<1>7. userCounts'[u] = Cardinality(Held(u)) - Cardinality(removed)
  BY <1>3, <1>5, <1>6, GiveBackExact, Zenon
<1>8. MaxRealms[u] \in Nat
  BY ConstantsAssumption, Zenon
<1> QED BY <1>3, <1>4, <1>6, <1>7, <1>8

(* Every step keeps the counters exact and the quota respected. *)
LEMMA QuotaStep == QuotaInv /\ [Next]_vars => QuotaInv'
<1> SUFFICES ASSUME QuotaInv, [Next]_vars PROVE QuotaExact'
  BY RegistryStep, Zenon DEF QuotaInv
<1> USE DEF registry, session, clock, request, stream, attempt, response
<1>1. ASSUME NEW s \in Sessions, NEW u \in Users, NEW r \in Realms,
             NEW x \in AddrLists, NEW y \in RelayLists \cup {Nil}, Register(s, u, r, x, y)
      PROVE  QuotaExact'
  <2>1. s \notin sessions
    BY <1>1, Zenon DEF Register, QuotaInv, RegistryInv, RegistryConsistent
  <2>2. Held(u)' = Held(u) \cup {s} /\ s \notin Held(u)
    BY <1>1, <2>1 DEF Register, Held, QuotaInv, RegistryInv, TypeOK
  <2>3. \A v \in Users \ {u} : Held(v)' = Held(v)
    BY <1>1, <2>1 DEF Register, Held, QuotaInv, RegistryInv, TypeOK
  <2>4. Held(u) \in SUBSET Sessions
    BY Zenon DEF Held, QuotaInv, RegistryInv, TypeOK
  <2>5. IsFiniteSet(Held(u)) /\ Cardinality(Held(u)) \in Nat
    BY <2>4, FiniteSessions, Zenon
  <2>6. Cardinality(Held(u)') = Cardinality(Held(u)) + 1
    BY <2>2, <2>5, FS_AddElement, Zenon
  <2>7. /\ userCounts'[u] = userCounts[u] + 1
        /\ \A v \in Users \ {u} : userCounts'[v] = userCounts[v]
        /\ MaxRealms[u] > 0 => userCounts[u] < MaxRealms[u]
    BY <1>1, Zenon DEF Register, QuotaInv, RegistryInv, TypeOK
  <2>8. MaxRealms[u] \in Nat
    BY ConstantsAssumption, Zenon
  <2>9. /\ userCounts'[u] = Cardinality(Held(u)')
        /\ MaxRealms[u] > 0 => Cardinality(Held(u)') <= MaxRealms[u]
    BY <2>5, <2>6, <2>7, <2>8 DEF QuotaInv, QuotaExact
  <2>10. \A v \in Users \ {u} :
           /\ userCounts'[v] = Cardinality(Held(v)')
           /\ MaxRealms[v] > 0 => Cardinality(Held(v)') <= MaxRealms[v]
    BY <2>3, <2>7, Zenon DEF QuotaInv, QuotaExact
  <2> QED BY <2>9, <2>10, Zenon DEF QuotaExact
<1>2. ASSUME NEW s \in Sessions, Deregister(s) PROVE QuotaExact'
  BY <1>2, RemoveSessionsQuota, Zenon DEF Deregister
<1>3. CASE UNCHANGED <<registry, userOf>>
  BY <1>3, Zenon DEF QuotaInv, QuotaExact, Held
<1>4. ASSUME NEW s \in Sessions, RemoveExpired(s) PROVE QuotaExact'
  BY <1>3, <1>4, RemoveSessionsQuota, Zenon DEF RemoveExpired
<1>5. CASE CloseAll
  <2>1. sessions \in SUBSET Sessions
    BY Zenon DEF QuotaInv, RegistryInv, TypeOK
  <2> QED BY <1>5, <2>1, RemoveSessionsQuota, Zenon DEF CloseAll
<1>6. ASSUME NEW s \in Sessions,
             \/ \E k \in Kinds : Authenticate(s, k)
             \/ \E x \in AddrLists \cup {Nil}, y \in RelayLists \cup {Nil} : Heartbeat(s, x, y)
             \/ HeartbeatAck(s) \/ OpenEvents(s) \/ CloseEvents(s)
             \/ \E d \in BOOLEAN : StreamEvent(s, d)
             \/ \E a \in Attempts :
                  AuthenticateAnswer(s, a) \/ (\E x \in AddrLists : ConnectResponse(s, a, x))
             \/ Expire(s) \/ TimerFires(s)
      PROVE  QuotaExact'
  BY <1>3, <1>6, Zenon DEF Authenticate, Heartbeat, HeartbeatAck, OpenEvents, CloseEvents,
     StreamEvent, AuthenticateAnswer, ConnectResponse, Expire, TimerFires
<1>7. CASE ClientRequest
  BY <1>3, <1>7 DEF ClientRequest, ConnectLookup, ConnectRegister, ConnectSend, Leave,
     ConnectAnswered, ConnectClosed, ConnectTimeout, ConnectDone, ConnectGone, ConnectCancel
<1>8. CASE UNCHANGED vars
  BY <1>3, <1>8, Zenon DEF vars
<1> QED
  BY <1>1, <1>2, <1>4, <1>5, <1>6, <1>7, <1>8, Zenon DEF Next, NodeRequest, Timers

(* Every step leaves each live session with something that will remove it: *)
(* an armed timer, or a callback on its way that finds it expired.         *)
LEMMA TimerStep ==
    RegistryInv /\ TimerCoverage /\ [Next]_vars => TimerCoverage'
<1> SUFFICES ASSUME RegistryInv, TimerCoverage, [Next]_vars PROVE TimerCoverage'
  BY Zenon
<1> USE DEF registry, session, clock, request, stream, attempt, response
<1>1. ASSUME NEW s \in Sessions, NEW u \in Users, NEW r \in Realms,
             NEW x \in AddrLists, NEW y \in RelayLists \cup {Nil}, Register(s, u, r, x, y)
      PROVE  TimerCoverage'
  BY <1>1 DEF Register, TimerCoverage, RegistryInv, TypeOK
<1>2. ASSUME NEW S \in SUBSET Sessions, RemoveSessions(S), UNCHANGED expired,
             \A t \in Sessions : t \in S \/ fired'[t] = fired[t]
      PROVE  TimerCoverage'
  BY <1>2, Zenon DEF RemoveSessions, TimerCoverage, RegistryInv, RegistryConsistent, TypeOK
<1>3. ASSUME NEW s \in Sessions, Deregister(s) PROVE TimerCoverage'
  BY <1>2, <1>3, Zenon DEF Deregister
<1>4. ASSUME NEW s \in Sessions, NEW x \in AddrLists \cup {Nil},
             NEW y \in RelayLists \cup {Nil}, Heartbeat(s, x, y)
      PROVE  TimerCoverage'
  BY <1>4, Zenon DEF Heartbeat, Rearm, TimerCoverage, RegistryInv, TypeOK
<1>5. ASSUME NEW s \in Sessions, Expire(s) PROVE TimerCoverage'
  BY <1>5, Zenon DEF Expire, TimerCoverage, RegistryInv, TypeOK
<1>6. ASSUME NEW s \in Sessions, TimerFires(s) PROVE TimerCoverage'
  BY <1>6, Zenon DEF TimerFires, TimerCoverage, RegistryInv, TypeOK
<1>7. ASSUME NEW s \in Sessions, RemoveExpired(s) PROVE TimerCoverage'
  <2>1. CASE expired[s]
    BY <1>2, <1>7, <2>1, Zenon DEF RemoveExpired, RegistryInv, TypeOK
  <2>2. CASE ~expired[s]
    BY <1>7, <2>2, Zenon DEF RemoveExpired, TimerCoverage, RegistryInv, TypeOK
  <2> QED BY <2>1, <2>2, Zenon
<1>8. CASE CloseAll
  BY <1>2, <1>8, Zenon DEF CloseAll, RegistryInv, TypeOK
<1>9. CASE UNCHANGED <<sessions, clock>>
  BY <1>9, Zenon DEF TimerCoverage
<1>10. ASSUME NEW s \in Sessions,
              \/ \E k \in Kinds : Authenticate(s, k)
              \/ HeartbeatAck(s) \/ OpenEvents(s) \/ CloseEvents(s)
              \/ \E d \in BOOLEAN : StreamEvent(s, d)
              \/ \E a \in Attempts :
                   AuthenticateAnswer(s, a) \/ (\E x \in AddrLists : ConnectResponse(s, a, x))
       PROVE  TimerCoverage'
  BY <1>9, <1>10, Zenon DEF Authenticate, HeartbeatAck, OpenEvents, CloseEvents, StreamEvent,
     AuthenticateAnswer, ConnectResponse
<1>11. CASE ClientRequest
  BY <1>9, <1>11, ZenonT(60) DEF ClientRequest, ConnectLookup, ConnectRegister, ConnectSend, Leave,
     ConnectAnswered, ConnectClosed, ConnectTimeout, ConnectDone, ConnectGone, ConnectCancel
<1>12. CASE UNCHANGED vars
  BY <1>9, <1>12, Zenon DEF vars
<1> QED
  BY <1>1, <1>3, <1>4, <1>5, <1>6, <1>7, <1>8, <1>10, <1>11, <1>12, Zenon
     DEF Next, NodeRequest, Timers

(* A request that has not reached registerPending has a fresh channel. *)
Unanswered == \A a \in Attempts : pc[a] \in {"idle", "found"} => channel[a] = "open"

(* The pending maps, with what makes them inductive.                       *)
PendingInv == TypeOK /\ PendingExact /\ Unanswered

(* Every step keeps each pending map equal to the requests that wait.      *)
LEMMA PendingStep == PendingInv /\ [Next]_vars => PendingInv'
<1> SUFFICES ASSUME PendingInv, [Next]_vars PROVE PendingExact' /\ Unanswered'
  BY TypeStep, Zenon DEF PendingInv
<1> USE DEF registry, session, clock, request, stream, attempt, response
<1>1. ASSUME NEW S \in SUBSET Sessions, RemoveSessions(S), UNCHANGED attempt
      PROVE  PendingExact' /\ Unanswered'
  <2>1. Unanswered'
    BY <1>1, Zenon DEF RemoveSessions, PendingInv, PendingExact, Unanswered, TypeOK
  <2>2. PendingExact'
    BY <1>1 DEF RemoveSessions, PendingInv, PendingExact, Unanswered, TypeOK
  <2> QED BY <2>1, <2>2, Zenon
<1>2. ASSUME NEW s \in Sessions, Deregister(s) \/ RemoveExpired(s)
      PROVE  PendingExact' /\ Unanswered'
  <2>1. CASE RemoveSessions({s})
    BY <1>1, <1>2, <2>1, Zenon DEF Deregister, RemoveExpired
  <2>2. CASE UNCHANGED <<registry, timer, channel, pending, attempt>>
    BY <2>2, Zenon DEF PendingInv, PendingExact, Unanswered
  <2> QED BY <1>2, <2>1, <2>2, Zenon DEF Deregister, RemoveExpired
<1>3. CASE CloseAll
  BY <1>1, <1>3, Zenon DEF CloseAll, PendingInv, TypeOK
<1>4. ASSUME NEW s \in Sessions, NEW a \in Attempts, NEW x \in AddrLists,
             ConnectResponse(s, a, x)
      PROVE  PendingExact' /\ Unanswered'
  <2>1. CASE Awaited(s, a)
    <3>1. at[a] = s /\ channel[a] = "open" /\ pc[a] \in {"registered", "waiting", "leaving"}
      BY <2>1, Zenon DEF Awaited, PendingInv, PendingExact
    <3>2. /\ pending' = [pending EXCEPT ![s] = @ \ {a}]
          /\ channel' = [channel EXCEPT ![a] = "payload"]
          /\ UNCHANGED <<closed, pc, at>>
      BY <1>4, <2>1, <3>1, Zenon DEF ConnectResponse
    <3>3. PendingExact'
      BY <3>1, <3>2 DEF PendingInv, PendingExact, TypeOK
    <3>4. Unanswered'
      BY <3>1, <3>2, Zenon DEF PendingInv, Unanswered, TypeOK
    <3> QED BY <3>3, <3>4, Zenon
  <2>2. CASE ~Awaited(s, a)
    <3>1. UNCHANGED <<closed, pc, at, pending, channel>>
      BY <1>4, <2>2, Zenon DEF ConnectResponse, PendingInv, TypeOK
    <3> QED BY <3>1, Zenon DEF PendingInv, PendingExact, Unanswered
  <2> QED BY <2>1, <2>2, Zenon
<1>5. ASSUME NEW a \in Attempts, NEW r \in Realms, ConnectLookup(a, r)
      PROVE  PendingExact' /\ Unanswered'
  BY <1>5 DEF ConnectLookup, PendingInv, PendingExact, Unanswered, TypeOK
<1>6. ASSUME NEW a \in Attempts, ConnectRegister(a) PROVE PendingExact' /\ Unanswered'
  BY <1>6 DEF ConnectRegister, PendingInv, PendingExact, Unanswered, TypeOK
<1>7. ASSUME NEW a \in Attempts, ConnectSend(a) PROVE PendingExact' /\ Unanswered'
  BY <1>7 DEF ConnectSend, PendingInv, PendingExact, Unanswered, TypeOK
<1>8. ASSUME NEW a \in Attempts,
             \/ ConnectAnswered(a) \/ ConnectClosed(a) \/ ConnectTimeout(a)
             \/ ConnectDone(a) \/ ConnectGone(a)
      PROVE  PendingExact' /\ Unanswered'
  <2>1. /\ pc[a] = "waiting" /\ pc' = [pc EXCEPT ![a] = "leaving"]
        /\ UNCHANGED <<registry, at, response>>
    BY <1>8, Zenon DEF ConnectAnswered, ConnectClosed, ConnectTimeout, ConnectDone, ConnectGone,
                Leave
  <2> QED BY <2>1 DEF PendingInv, PendingExact, Unanswered, TypeOK
<1>9. ASSUME NEW a \in Attempts, ConnectCancel(a) PROVE PendingExact' /\ Unanswered'
  BY <1>9 DEF ConnectCancel, Forget, PendingInv, PendingExact, Unanswered, TypeOK
<1>10. CASE UNCHANGED <<closed, pc, at, pending, channel>>
  BY <1>10, Zenon DEF PendingInv, PendingExact, Unanswered
<1>11. ASSUME NEW s \in Sessions,
              \/ \E u \in Users, r \in Realms, x \in AddrLists, y \in RelayLists \cup {Nil} :
                   Register(s, u, r, x, y)
              \/ \E k \in Kinds : Authenticate(s, k)
              \/ \E x \in AddrLists \cup {Nil}, y \in RelayLists \cup {Nil} : Heartbeat(s, x, y)
              \/ HeartbeatAck(s) \/ OpenEvents(s) \/ CloseEvents(s)
              \/ \E d \in BOOLEAN : StreamEvent(s, d)
              \/ \E a \in Attempts : AuthenticateAnswer(s, a)
              \/ Expire(s) \/ TimerFires(s)
       PROVE  PendingExact' /\ Unanswered'
  BY <1>10, <1>11, ZenonT(60) DEF Register, Authenticate, Heartbeat, HeartbeatAck, OpenEvents,
     CloseEvents, StreamEvent, AuthenticateAnswer, Expire, TimerFires
<1>12. CASE UNCHANGED vars
  BY <1>10, <1>12, Zenon DEF vars
<1> QED
  BY <1>2, <1>3, <1>4, <1>5, <1>6, <1>7, <1>8, <1>9, <1>11, <1>12, Zenon
     DEF Next, NodeRequest, Timers, ClientRequest

(* The inductive invariant of the server. *)
Inv == QuotaInv /\ TimerCoverage /\ PendingInv

(* A server starts with empty tables. *)
LEMMA InitInv == Init => Inv
<1> SUFFICES ASSUME Init PROVE Inv
  BY Zenon
<1>1. TypeOK
  <2>1. events \in [Sessions -> Seq(Attempts \cup {Ack})]
    BY EmptySeq, Zenon DEF Init
  <2> QED BY <2>1, Zenon DEF Init, TypeOK, PCs, Replies
<1>2. Created /\ RegistryConsistent
  BY Zenon DEF Init, Created, RegistryConsistent
<1>3. QuotaExact
  <2>1. \A u \in Users : Held(u) = {} /\ MaxRealms[u] \in Nat
    BY ConstantsAssumption, Zenon DEF Init, Held
  <2>2. \A u \in Users : Cardinality(Held(u)) = 0 /\ userCounts[u] = 0
    BY <2>1, FS_EmptySet, Zenon DEF Init
  <2> QED BY <2>1, <2>2 DEF QuotaExact
<1>4. TimerCoverage /\ PendingExact /\ Unanswered
  BY Zenon DEF Init, TimerCoverage, PendingExact, Unanswered
<1> QED BY <1>1, <1>2, <1>3, <1>4, Zenon DEF Inv, QuotaInv, RegistryInv, PendingInv

(* The invariant holds of every reachable state. *)
THEOREM Invariant == Spec => []Inv
<1>1. Inv /\ [Next]_vars => Inv'
  BY QuotaStep, TimerStep, PendingStep, Zenon DEF Inv, QuotaInv
<1> QED BY <1>1, InitInv, PTL DEF Spec

(* The server's variables keep their types, in particular a user's counter *)
(* never becomes negative.                                                 *)
THEOREM TypeCorrect == Spec => []TypeOK
BY Invariant, PTL DEF Inv, PendingInv

(* The realm table, the session table and the closed flags always agree.   *)
THEOREM RegistryCorrect == Spec => []RegistryConsistent
BY Invariant, PTL DEF Inv, QuotaInv, RegistryInv

(* The hand-kept counter of a user is the number of the user's sessions,   *)
(* which never exceeds the limit, for any number of users and sessions.    *)
THEOREM QuotaCorrect == Spec => []QuotaExact
BY Invariant, PTL DEF Inv, QuotaInv

(* No live session is ever left without a timer that will remove it.       *)
THEOREM TimerCorrect == Spec => []TimerCoverage
BY Invariant, PTL DEF Inv

(* The pending map of a session is exactly the set of waiting requests.    *)
THEOREM PendingCorrect == Spec => []PendingExact
BY Invariant, PTL DEF Inv, PendingInv

(* A connect request only receives an answer posted with the token of the  *)
(* session it looked up, while that session is live: an answer cannot      *)
(* cross over to a request of another session.                             *)
THEOREM AnswerCorrect == Spec => AnswerFromOwner
<1>1. Inv /\ [Next]_vars => [OwnerAnswers]_vars
  <2> SUFFICES ASSUME Inv, [Next]_vars PROVE [OwnerAnswers]_vars
    BY Zenon
  <2> USE DEF registry, session, clock, request, stream, attempt, response
  <2>1. ASSUME NEW s \in Sessions, NEW a \in Attempts, NEW x \in AddrLists,
               ConnectResponse(s, a, x)
        PROVE  OwnerAnswers
    <3>1. \A b \in Attempts \ {a} : channel'[b] = channel[b]
      BY <2>1, Zenon DEF ConnectResponse, Inv, PendingInv, TypeOK
    <3>2. channel'[a] # channel[a] => Awaited(s, a)
      BY <2>1, Zenon DEF ConnectResponse, Inv, PendingInv, TypeOK
    <3>3. Awaited(s, a) => at[a] = s /\ s \notin closed
      BY Zenon DEF Awaited, Inv, PendingInv, PendingExact
    <3>4. <<s, a>> \in answering
      BY <2>1, Zenon DEF ConnectResponse
    <3>5. s \in born
      BY <3>4 DEF Inv, QuotaInv, RegistryInv, Created
    <3>6. Awaited(s, a) => s \in sessions
      BY <3>3, <3>5, Zenon DEF Inv, QuotaInv, RegistryInv, RegistryConsistent
    <3> QED BY <3>1, <3>2, <3>3, <3>4, <3>6, Zenon DEF OwnerAnswers
  <2>2. ASSUME NEW S, RemoveSessions(S) PROVE OwnerAnswers
    BY <2>2, Zenon DEF RemoveSessions, OwnerAnswers
  <2>3. ASSUME NEW s \in Sessions, Deregister(s) \/ RemoveExpired(s) PROVE OwnerAnswers
    BY <2>2, <2>3, Zenon DEF Deregister, RemoveExpired, OwnerAnswers
  <2>4. CASE CloseAll
    BY <2>2, <2>4, Zenon DEF CloseAll
  <2>5. ASSUME NEW a \in Attempts, ConnectRegister(a) PROVE OwnerAnswers
    BY <2>5, Zenon DEF ConnectRegister, OwnerAnswers, Inv, PendingInv, TypeOK
  <2>6. ASSUME UNCHANGED channel PROVE OwnerAnswers
    BY <2>6, Zenon DEF OwnerAnswers
  <2>7. ASSUME NEW s \in Sessions,
               \/ \E u \in Users, r \in Realms, x \in AddrLists, y \in RelayLists \cup {Nil} :
                    Register(s, u, r, x, y)
               \/ \E k \in Kinds : Authenticate(s, k)
               \/ \E x \in AddrLists \cup {Nil}, y \in RelayLists \cup {Nil} :
                    Heartbeat(s, x, y)
               \/ HeartbeatAck(s) \/ OpenEvents(s) \/ CloseEvents(s)
               \/ \E d \in BOOLEAN : StreamEvent(s, d)
               \/ \E a \in Attempts : AuthenticateAnswer(s, a)
               \/ Expire(s) \/ TimerFires(s)
        PROVE  OwnerAnswers
    BY <2>6, <2>7, Zenon DEF Register, Authenticate, Heartbeat, HeartbeatAck, OpenEvents,
       CloseEvents, StreamEvent, AuthenticateAnswer, Expire, TimerFires
  <2>8. ASSUME NEW a \in Attempts,
               \/ \E r \in Realms : ConnectLookup(a, r)
               \/ ConnectSend(a) \/ ConnectAnswered(a) \/ ConnectClosed(a)
               \/ ConnectTimeout(a) \/ ConnectDone(a) \/ ConnectGone(a) \/ ConnectCancel(a)
        PROVE  OwnerAnswers
    BY <2>6, <2>8, Zenon DEF ConnectLookup, ConnectSend, Leave, ConnectAnswered, ConnectClosed,
       ConnectTimeout, ConnectDone, ConnectGone, ConnectCancel
  <2>9. CASE UNCHANGED vars
    BY <2>9, Zenon
  <2> QED
    BY <2>1, <2>3, <2>4, <2>5, <2>7, <2>8, <2>9, Zenon
       DEF Next, NodeRequest, Timers, ClientRequest
<1> QED BY <1>1, Invariant, PTL DEF Spec, AnswerFromOwner

(* Nothing is ever sent on a channel that removeSessionLocked has closed.  *)
THEOREM NoSendCorrect == Spec => NoSendOnClosed
<1>1. Inv /\ [Next]_vars => [ClosedOnlyDrain]_vars
  <2> SUFFICES ASSUME Inv, [Next]_vars PROVE [ClosedOnlyDrain]_vars
    BY Zenon
  <2> USE DEF registry, session, clock, request, stream, attempt, response
  <2>1. TypeOK /\ \A s \in Sessions : Len(events[s]) \in Nat
    BY LenProperties, Zenon DEF Inv, PendingInv, TypeOK
  <2>2. ASSUME events' = events,
               \A a \in Attempts : channel[a] = "closed" => channel'[a] = "closed"
        PROVE  ClosedOnlyDrain
    BY <2>1, <2>2 DEF ClosedOnlyDrain, TypeOK
  <2>3. ASSUME NEW S, RemoveSessions(S), events' = events PROVE ClosedOnlyDrain
    <3>1. \A a \in Attempts : channel[a] = "closed" => channel'[a] = "closed"
      BY <2>3, Zenon DEF RemoveSessions
    <3> QED BY <2>2, <2>3, <3>1, Zenon
  <2>4. ASSUME NEW s \in Sessions, Deregister(s) \/ RemoveExpired(s) PROVE ClosedOnlyDrain
    BY <2>2, <2>3, <2>4, Zenon DEF Deregister, RemoveExpired
  <2>5. CASE CloseAll
    BY <2>3, <2>5, Zenon DEF CloseAll
  <2>6. ASSUME NEW s \in Sessions, HeartbeatAck(s) PROVE ClosedOnlyDrain
    BY <2>1, <2>6 DEF HeartbeatAck, Accepts, ClosedOnlyDrain, TypeOK
  <2>7. ASSUME NEW s \in Sessions, NEW d \in BOOLEAN, StreamEvent(s, d)
        PROVE  ClosedOnlyDrain
    <3>1. Len(Tail(events[s])) <= Len(events[s])
      BY <2>1, <2>7, HeadTailProperties DEF StreamEvent, TypeOK
    <3> QED BY <2>1, <2>7, <3>1 DEF StreamEvent, ClosedOnlyDrain, TypeOK
  <2>8. ASSUME NEW s \in Sessions, NEW a \in Attempts, NEW x \in AddrLists,
               ConnectResponse(s, a, x)
        PROVE  ClosedOnlyDrain
    BY <2>1, <2>2, <2>8, Zenon DEF ConnectResponse, TypeOK
  <2>9. ASSUME NEW a \in Attempts, ConnectRegister(a) PROVE ClosedOnlyDrain
    <3>1. channel[a] = "open"
      BY <2>9, Zenon DEF ConnectRegister, Inv, PendingInv, Unanswered
    <3> QED BY <2>1, <2>2, <2>9, <3>1, Zenon DEF ConnectRegister, TypeOK
  <2>10. ASSUME NEW a \in Attempts, ConnectSend(a) PROVE ClosedOnlyDrain
    BY <2>1, <2>10 DEF ConnectSend, Accepts, ClosedOnlyDrain, TypeOK
  <2>11. ASSUME NEW s \in Sessions,
               \/ \E u \in Users, r \in Realms, x \in AddrLists, y \in RelayLists \cup {Nil} :
                    Register(s, u, r, x, y)
               \/ \E k \in Kinds : Authenticate(s, k)
               \/ \E x \in AddrLists \cup {Nil}, y \in RelayLists \cup {Nil} :
                    Heartbeat(s, x, y)
               \/ OpenEvents(s) \/ CloseEvents(s)
               \/ \E a \in Attempts : AuthenticateAnswer(s, a)
               \/ Expire(s) \/ TimerFires(s)
        PROVE  ClosedOnlyDrain
    BY <2>2, <2>11, Zenon DEF Register, Authenticate, Heartbeat, OpenEvents, CloseEvents,
       AuthenticateAnswer, Expire, TimerFires
  <2>12. ASSUME NEW a \in Attempts,
               \/ \E r \in Realms : ConnectLookup(a, r)
               \/ ConnectAnswered(a) \/ ConnectClosed(a) \/ ConnectTimeout(a)
               \/ ConnectDone(a) \/ ConnectGone(a) \/ ConnectCancel(a)
        PROVE  ClosedOnlyDrain
    BY <2>2, <2>12, Zenon DEF ConnectLookup, Leave, ConnectAnswered, ConnectClosed,
       ConnectTimeout, ConnectDone, ConnectGone, ConnectCancel
  <2>13. CASE UNCHANGED vars
    BY <2>13, Zenon
  <2> QED
    BY <2>4, <2>5, <2>6, <2>7, <2>8, <2>9, <2>10, <2>11, <2>12, <2>13, Zenon
       DEF Next, NodeRequest, Timers, ClientRequest
<1> QED BY <1>1, Invariant, PTL DEF Spec, NoSendOnClosed
-----------------------------------------------------------------------------
(* The server implements the directory.                                    *)

(* A step that changes neither the owners, nor the sessions in use, nor    *)
(* where a request stands, is invisible to the directory.                  *)
LEMMA Invisible ==
    ASSUME realms' = realms, born' = born, at' = at,
           \A a \in Attempts : Standing(a)' = Standing(a)
    PROVE  UNCHANGED Directory!vars
BY Zenon DEF Directory!vars

(* removeSessionLocked, for any set of sessions, is a release of realms:   *)
(* it closes only channels that hold no answer.                            *)
LEMMA RemoveIsRelease ==
    ASSUME Inv, NEW S \in SUBSET Sessions, RemoveSessions(S), born' = born, at' = at, pc' = pc
    PROVE  Directory!Next
<1> DEFINE R == {r \in Realms : realms[r] \in S \ closed /\ realmOf[realms[r]] = r}
<1>1. realms' = [r \in Realms |-> IF r \in R THEN Nil ELSE realms[r]]
  BY Zenon DEF RemoveSessions
<1>2. ASSUME NEW a \in Attempts PROVE Standing(a)' = Standing(a)
  <2>1. ASSUME NEW s \in S \ closed, a \in pending[s] PROVE channel[a] = "open"
    BY <1>2, <2>1, Zenon DEF Inv, PendingInv, PendingExact, TypeOK
  <2>2. channel'[a] = channel[a] \/ (channel[a] = "open" /\ channel'[a] = "closed")
    BY <1>2, <2>1, Zenon DEF RemoveSessions, Inv, PendingInv, TypeOK
  <2> QED BY <2>2, Zenon DEF Standing
<1>3. Directory!Release(R)
  BY <1>1, <1>2, Zenon DEF Directory!Release
<1>4. R \in SUBSET Realms
  BY Zenon
<1> QED BY <1>3, <1>4, Zenon DEF Directory!Next

(* A registration is a claim. *)
LEMMA RegisterIsClaim ==
    ASSUME Inv, NEW s \in Sessions, NEW u \in Users, NEW r \in Realms, NEW x, NEW y,
           Register(s, u, r, x, y)
    PROVE  Directory!Next
<1>1. Directory!Claim(r, s)
  BY Zenon DEF Register, Free, Standing, Directory!Claim, attempt, response
<1> QED BY <1>1, Zenon DEF Directory!Next

(* The answer of a node is one of the session that was asked, or invisible. *)
LEMMA ResponseIsAnswer ==
    ASSUME Inv, NEW s \in Sessions, NEW a \in Attempts, NEW x \in AddrLists,
           ConnectResponse(s, a, x)
    PROVE  [Directory!Next]_(Directory!vars)
<1> USE DEF registry, session, clock, request, stream, attempt, response
<1>1. \A b \in Attempts \ {a} : Standing(b)' = Standing(b)
  BY Zenon DEF ConnectResponse, Standing, Inv, PendingInv, TypeOK
<1>2. realms' = realms /\ born' = born /\ at' = at /\ pc' = pc
  BY Zenon DEF ConnectResponse
<1>3. CASE Awaited(s, a)
  <2>1. /\ at[a] = s /\ s \notin closed /\ channel[a] = "open"
        /\ pc[a] \in {"registered", "waiting", "leaving"}
    BY <1>3, Zenon DEF Awaited, Inv, PendingInv, PendingExact
  <2>2. s \in born
    BY DEF ConnectResponse, Inv, QuotaInv, RegistryInv, Created
  <2>3. \E r \in Realms : realms[r] = at[a]
    BY <2>1, <2>2, Zenon DEF Inv, QuotaInv, RegistryInv, RegistryConsistent
  <2>4. channel'[a] = "payload"
    BY <1>3, <2>1, Zenon DEF ConnectResponse, Inv, PendingInv, TypeOK
  <2>5. Standing(a) = "asked" /\ Standing(a)' = "answered"
    BY <1>2, <2>1, <2>4, Zenon DEF Standing
  <2>6. Directory!Answer(a)
    BY <1>1, <1>2, <2>3, <2>5, Zenon DEF Directory!Answer
  <2> QED BY <2>6, Zenon DEF Directory!Next
<1>4. CASE ~Awaited(s, a)
  <2>1. channel'[a] = channel[a]
    BY <1>4, Zenon DEF ConnectResponse, Inv, PendingInv, TypeOK
  <2>2. \A b \in Attempts : Standing(b)' = Standing(b)
    BY <1>1, <1>2, <2>1, Zenon DEF Standing
  <2> QED BY <1>2, <2>2, Invisible, Zenon
<1> QED BY <1>3, <1>4, Zenon

(* The steps of a connect request: it asks, goes on, or ends. *)
LEMMA ConnectSteps ==
    ASSUME Inv, NEW a \in Attempts,
           \/ \E r \in Realms : ConnectLookup(a, r)
           \/ ConnectRegister(a) \/ ConnectSend(a) \/ ConnectAnswered(a) \/ ConnectClosed(a)
           \/ ConnectTimeout(a) \/ ConnectDone(a) \/ ConnectGone(a) \/ ConnectCancel(a)
    PROVE  [Directory!Next]_(Directory!vars)
<1> USE DEF registry, session, clock, request, stream, attempt, response
<1>1. TypeOK
  BY Zenon DEF Inv, PendingInv
<1>2. ASSUME realms' = realms, born' = born, at' = at,
             \A b \in Attempts \ {a} : Standing(b)' = Standing(b),
             Standing(a)' = Standing(a) \/ (Standing(a) # "over" /\ Standing(a)' = "over")
      PROVE  [Directory!Next]_(Directory!vars)
  <2>1. CASE Standing(a)' = Standing(a)
    BY <1>2, <2>1, Invisible, Zenon
  <2>2. CASE Standing(a) # "over" /\ Standing(a)' = "over"
    <3>1. Directory!EndRequest(a)
      BY <1>2, <2>2, Zenon DEF Directory!EndRequest
    <3> QED BY <3>1, Zenon DEF Directory!Next
  <2> QED BY <1>2, <2>1, <2>2, Zenon
<1>3. ASSUME UNCHANGED <<realms, born, at, channel>>, pc[a] \notin {"idle", "done"},
             pc'[a] # "idle", \A b \in Attempts \ {a} : pc'[b] = pc[b]
      PROVE  [Directory!Next]_(Directory!vars)
  <2>1. \A b \in Attempts \ {a} : Standing(b)' = Standing(b)
    BY <1>3, Zenon DEF Standing
  <2>2. Standing(a)' = Standing(a) \/ (Standing(a) # "over" /\ Standing(a)' = "over")
    BY <1>3, Zenon DEF Standing
  <2> QED BY <1>2, <1>3, <2>1, <2>2, Zenon
<1>4. ASSUME NEW r \in Realms, ConnectLookup(a, r) PROVE [Directory!Next]_(Directory!vars)
  <2>1. realms' = realms /\ born' = born /\ channel' = channel /\ pc[a] = "idle"
    BY <1>4, Zenon DEF ConnectLookup
  <2>2. \A b \in Attempts \ {a} : Standing(b)' = Standing(b)
    BY <1>1, <1>4, <2>1, Zenon DEF ConnectLookup, Standing, TypeOK
  <2>3. channel[a] = "open"
    BY <2>1, Zenon DEF Inv, PendingInv, Unanswered
  <2>4. CASE realms[r] # Nil /\ realms[r] \notin closed /\ ~expired[realms[r]]
    <3>1. pc'[a] = "found" /\ at' = [at EXCEPT ![a] = realms[r]]
      BY <1>1, <1>4, <2>4, Zenon DEF ConnectLookup, TypeOK
    <3>2. Standing(a) = "new" /\ Standing(a)' = "asked"
      BY <2>1, <2>3, <3>1, Zenon DEF Standing
    <3>3. Directory!Ask(a, r)
      BY <2>1, <2>2, <2>4, <3>1, <3>2, Zenon DEF Directory!Ask
    <3> QED BY <3>3, Zenon DEF Directory!Next
  <2>5. CASE ~(realms[r] # Nil /\ realms[r] \notin closed /\ ~expired[realms[r]])
    <3>1. pc'[a] = "done" /\ at' = at
      BY <1>1, <1>4, <2>5, Zenon DEF ConnectLookup, TypeOK
    <3>2. Standing(a) # "over" /\ Standing(a)' = "over"
      BY <2>1, <3>1, Zenon DEF Standing
    <3> QED BY <1>2, <2>1, <2>2, <3>1, <3>2, Zenon
  <2> QED BY <2>4, <2>5, Zenon
<1>5. CASE ConnectRegister(a)
  <2>1. channel[a] = "open"
    BY <1>5, Zenon DEF ConnectRegister, Inv, PendingInv, Unanswered
  <2>2. channel' = channel
    BY <1>1, <1>5, <2>1, Zenon DEF ConnectRegister, TypeOK
  <2>3. UNCHANGED <<realms, born, at>> /\ pc[a] = "found" /\ pc'[a] \in {"registered", "done"}
    BY <1>1, <1>5, Zenon DEF ConnectRegister, TypeOK
  <2>4. \A b \in Attempts \ {a} : pc'[b] = pc[b]
    BY <1>1, <1>5, Zenon DEF ConnectRegister, TypeOK
  <2> QED BY <1>3, <2>2, <2>3, <2>4, Zenon
<1>6. CASE ConnectSend(a)
  <2>1. /\ UNCHANGED <<realms, born, at, channel>>
        /\ pc[a] = "registered" /\ pc'[a] \in {"waiting", "leaving"}
        /\ \A b \in Attempts \ {a} : pc'[b] = pc[b]
    BY <1>1, <1>6, Zenon DEF ConnectSend, TypeOK
  <2> QED BY <1>3, <2>1, Zenon
<1>7. CASE ConnectAnswered(a) \/ ConnectClosed(a) \/ ConnectTimeout(a) \/ ConnectDone(a) \/ ConnectGone(a)
  <2>1. /\ UNCHANGED <<realms, born, at, channel>>
        /\ pc[a] = "waiting" /\ pc'[a] = "leaving"
        /\ \A b \in Attempts \ {a} : pc'[b] = pc[b]
    BY <1>1, <1>7, Zenon DEF ConnectAnswered, ConnectClosed, ConnectTimeout, ConnectDone, ConnectGone,
       Leave, TypeOK
  <2> QED BY <1>3, <2>1, Zenon
<1>8. CASE ConnectCancel(a)
  <2>1. /\ UNCHANGED <<realms, born, at, channel>>
        /\ pc[a] = "leaving" /\ pc'[a] = "done"
        /\ \A b \in Attempts \ {a} : pc'[b] = pc[b]
    BY <1>1, <1>8, Zenon DEF ConnectCancel, TypeOK
  <2> QED BY <1>3, <2>1, Zenon
<1> QED BY <1>4, <1>5, <1>6, <1>7, <1>8, Zenon

(* The server implements the directory: an owner is only replaced after it *)
(* was released, and a request is only answered by the session it was      *)
(* directed to, while that session owns its realm.                         *)
THEOREM DirectoryCorrect == Spec => ImplementsDirectory
<1>1. Init => Directory!Init
  BY DEF Init, Directory!Init, Standing
<1>2. Inv /\ [Next]_vars => [Directory!Next]_(Directory!vars)
  <2> SUFFICES ASSUME Inv, [Next]_vars PROVE [Directory!Next]_(Directory!vars)
    BY Zenon
  <2> USE DEF registry, session, clock, request, stream, attempt, response
  <2>1. ASSUME NEW s \in Sessions, Deregister(s) \/ RemoveExpired(s)
        PROVE  [Directory!Next]_(Directory!vars)
    <3>1. born' = born /\ at' = at /\ pc' = pc
      BY <2>1, Zenon DEF Deregister, RemoveExpired
    <3>2. RemoveSessions({s}) \/ UNCHANGED <<realms, channel>>
      BY <2>1, Zenon DEF Deregister, RemoveExpired
    <3>3. CASE UNCHANGED <<realms, channel>>
      BY <3>1, <3>3, Invisible, Zenon DEF Standing
    <3> QED BY <3>1, <3>2, <3>3, RemoveIsRelease, Zenon
  <2>2. CASE CloseAll
    <3>1. sessions \in SUBSET Sessions
      BY Zenon DEF Inv, PendingInv, TypeOK
    <3> QED BY <2>2, <3>1, RemoveIsRelease, Zenon DEF CloseAll
  <2>3. ASSUME NEW s \in Sessions,
               \/ \E k \in Kinds : Authenticate(s, k)
               \/ \E x \in AddrLists \cup {Nil}, y \in RelayLists \cup {Nil} : Heartbeat(s, x, y)
               \/ HeartbeatAck(s) \/ OpenEvents(s) \/ CloseEvents(s)
               \/ \E d \in BOOLEAN : StreamEvent(s, d)
               \/ \E a \in Attempts : AuthenticateAnswer(s, a)
               \/ Expire(s) \/ TimerFires(s)
        PROVE  [Directory!Next]_(Directory!vars)
    <3>1. UNCHANGED <<realms, born, at, pc, channel>>
      BY <2>3, Zenon DEF Authenticate, Heartbeat, HeartbeatAck, OpenEvents, CloseEvents, StreamEvent,
         AuthenticateAnswer, Expire, TimerFires
    <3> QED BY <3>1, Invisible, Zenon DEF Standing
  <2>4. CASE UNCHANGED vars
    BY <2>4, Invisible, Zenon DEF vars, Standing
  <2> QED
    BY <2>1, <2>2, <2>3, <2>4, RegisterIsClaim, ResponseIsAnswer, ConnectSteps, Zenon
       DEF Next, NodeRequest, Timers, ClientRequest
<1> QED BY <1>1, <1>2, Invariant, PTL DEF Spec, ImplementsDirectory, Directory!Spec
============================================================================
