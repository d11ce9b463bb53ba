-------------------------- MODULE RealmRendezvous --------------------------
(***************************************************************************)
(* The rendezvous server of the realm service                              *)
(* (protocol/hysteria2/realm_server.go): egress nodes register a realm and *)
(* keep the session alive with heartbeats, clients ask to be connected to  *)
(* a realm, the server forwards the request to the node as a punch event   *)
(* and waits for the node's answer.                                        *)
(*                                                                         *)
(* Every critical section of server.access is one action, so a handler     *)
(* that locks several times is several actions and anything may happen     *)
(* between them.  A session object is used for one registration: sessions  *)
(* are drawn fresh from Sessions, connect requests (and their nonces, 16   *)
(* random bytes each) from Attempts.                                       *)
(*                                                                         *)
(* Time.  A session's deadline is only ever compared with the current time *)
(* (time.Now().After(sess.expires)), so expired[s] is the outcome of that  *)
(* comparison: time passing sets it, a heartbeat clears it.  The timer is  *)
(* armed after the deadline is computed, with the same duration, so it     *)
(* fires when the deadline has passed.                                     *)
(***************************************************************************)
EXTENDS Integers, Sequences, FiniteSets

CONSTANTS
    Users,       \* names of realmUser
    Realms,      \* realm ids
    Sessions,    \* session ids a registration may draw
    Attempts,    \* connect requests, each with a nonce of its own
    AddrLists,   \* address lists that pass validateAddresses (never empty)
    RelayLists,  \* relay lists that pass validateAddresses (never empty)
    Nil,         \* Go's nil: no session, the empty list, a field not set yet
    Ack,         \* a heartbeat_ack event
    MaxRealms,   \* realmUser.maxRealms, 0 is no limit
    MaxPending,  \* maxPendingAttempts
    EventCap,    \* eventChannelSize
    MaxRequests  \* bound: node requests being handled at a time

ASSUME ConstantsAssumption ==
    /\ IsFiniteSet(Sessions)
    /\ Nil \notin Sessions \cup Realms \cup Users \cup AddrLists \cup RelayLists
    /\ Ack \notin Attempts
    /\ MaxRealms \in [Users -> Nat]
    /\ MaxPending \in Nat \ {0}
    /\ EventCap \in Nat \ {0}
    /\ MaxRequests \in Nat \ {0}

VARIABLES
    realms,      \* server.realms: the session a realm is registered to
    sessions,    \* server.sessions: the ids in the table
    userCounts,  \* server.userCounts, an absent entry is 0
    born,        \* sessions that were created
    closed,      \* sessions with closed set and done closed
    realmOf,     \* realmSession.realmID
    userOf,      \* realmSession.username
    addresses,   \* realmSession.addresses
    relay,       \* realmSession.relay
    expired,     \* time.Now().After(sess.expires)
    timer,       \* the session's timer is armed
    fired,       \* the timer's callback runs, before it takes the lock
    events,      \* realmSession.events, the buffered events
    pending,     \* realmSession.pending: the nonces waiting for an answer
    authed,      \* session requests past authSession: <<session, kind>>
    answering,   \* connect responses past authSession: <<session, nonce>>
    streams,     \* sessions with a running handleEvents
    told,        \* nonces of the punch events a node has yet to answer
    pc,          \* control state of a connect request
    at,          \* the session handleConnect looked up
    channel,     \* the request's response channel
    answer,      \* the payload in the channel
    got,         \* serverAddresses of the request
    gotRelay,    \* relayAddresses of the request
    reply        \* how the request was answered

registry == <<realms, sessions, userCounts, closed>>
session == <<born, realmOf, userOf, addresses, relay>>
clock == <<expired, timer, fired>>
request == <<authed, answering>>
stream == <<events, streams, told>>
attempt == <<pc, at, got, gotRelay, reply>>
response == <<pending, channel, answer>>

vars == <<registry, session, clock, request, stream, attempt, response>>

Kinds == {"heartbeat", "heartbeat_ack", "deregister"}
PCs == {"idle", "found", "registered", "waiting", "leaving", "done"}
Replies == {"none", "ok", "realm_not_found", "rate_limited", "gone"}

TypeOK ==
    /\ realms \in [Realms -> Sessions \cup {Nil}]
    /\ sessions \in SUBSET Sessions
    /\ userCounts \in [Users -> Nat]
    /\ born \in SUBSET Sessions
    /\ closed \in SUBSET Sessions
    /\ realmOf \in [Sessions -> Realms \cup {Nil}]
    /\ userOf \in [Sessions -> Users \cup {Nil}]
    /\ addresses \in [Sessions -> AddrLists \cup {Nil}]
    /\ relay \in [Sessions -> RelayLists \cup {Nil}]
    /\ expired \in [Sessions -> BOOLEAN]
    /\ timer \in [Sessions -> BOOLEAN]
    /\ fired \in [Sessions -> BOOLEAN]
    /\ events \in [Sessions -> Seq(Attempts \cup {Ack})]
    /\ pending \in [Sessions -> SUBSET Attempts]
    /\ authed \in SUBSET (Sessions \X Kinds)
    /\ answering \in SUBSET (Sessions \X Attempts)
    /\ streams \in SUBSET Sessions
    /\ told \in SUBSET Attempts
    /\ pc \in [Attempts -> PCs]
    /\ at \in [Attempts -> Sessions \cup {Nil}]
    /\ channel \in [Attempts -> {"open", "payload", "closed"}]
    /\ answer \in [Attempts -> AddrLists \cup {Nil}]
    /\ got \in [Attempts -> AddrLists \cup {Nil}]
    /\ gotRelay \in [Attempts -> RelayLists \cup {Nil}]
    /\ reply \in [Attempts -> Replies]

(* newServer. *)
Init ==
    /\ realms = [r \in Realms |-> Nil]
    /\ sessions = {}
    /\ userCounts = [u \in Users |-> 0]
    /\ born = {}
    /\ closed = {}
    /\ realmOf = [s \in Sessions |-> Nil]
    /\ userOf = [s \in Sessions |-> Nil]
    /\ addresses = [s \in Sessions |-> Nil]
    /\ relay = [s \in Sessions |-> Nil]
    /\ expired = [s \in Sessions |-> FALSE]
    /\ timer = [s \in Sessions |-> FALSE]
    /\ fired = [s \in Sessions |-> FALSE]
    /\ events = [s \in Sessions |-> <<>>]
    /\ pending = [s \in Sessions |-> {}]
    /\ authed = {}
    /\ answering = {}
    /\ streams = {}
    /\ told = {}
    /\ pc = [a \in Attempts |-> "idle"]
    /\ at = [a \in Attempts |-> Nil]
    /\ channel = [a \in Attempts |-> "open"]
    /\ answer = [a \in Attempts |-> Nil]
    /\ got = [a \in Attempts |-> Nil]
    /\ gotRelay = [a \in Attempts |-> Nil]
    /\ reply = [a \in Attempts |-> "none"]
-----------------------------------------------------------------------------
(* getSessionByToken: the session behind a token that authSession accepts. *)
Authentic(s) == s \in sessions /\ s \notin closed /\ ~expired[s]

(* userCounts[name] is given back k times; an entry that reaches 0 goes.   *)
KeepCount(n, k) == n
GiveBack(n, k) == IF n <= k THEN 0 ELSE n - k

(* removeSessionLocked, for each member of S that is not closed yet.       *)
(* Buffered events stay readable in the closed events channel.             *)
RemoveSessions(S) ==
    LET R == S \ closed
        removed(u) == Cardinality({s \in R \cap sessions : userOf[s] = u})
    IN  /\ closed' = closed \cup R
        /\ realms' = [r \in Realms |->
             IF realms[r] \in R /\ realmOf[realms[r]] = r THEN Nil ELSE realms[r]]
        /\ userCounts' = [u \in Users |-> GiveBack(userCounts[u], removed(u))]
        /\ sessions' = sessions \ R
        /\ timer' = [s \in Sessions |-> timer[s] /\ s \notin R]
        /\ channel' = [a \in Attempts |->
             IF \E s \in R : a \in pending[s] THEN "closed" ELSE channel[a]]
        /\ pending' = [s \in Sessions |-> IF s \in R THEN {} ELSE pending[s]]

(* authSession in front of the heartbeat and deregister handlers. *)
Authenticate(s, k) ==
    /\ Authentic(s)
    /\ Cardinality(authed) + Cardinality(answering) < MaxRequests
    /\ k # "heartbeat_ack"
    /\ authed' = authed \cup {<<s, k>>}
    /\ UNCHANGED <<registry, session, clock, answering, stream, attempt, response>>

(* handleRegister refuses a realm that is taken, even by a session that    *)
(* has expired and was not removed yet.                                    *)
FreeOrExpired(r) == realms[r] # Nil => expired[realms[r]]
Free(r) == realms[r] = Nil

(* handleRegister for user u, realm r. *)
Register(s, u, r, x, y) ==
    /\ s \notin born
    /\ Free(r)
    /\ MaxRealms[u] > 0 => userCounts[u] < MaxRealms[u]
    /\ born' = born \cup {s}
    /\ realmOf' = [realmOf EXCEPT ![s] = r]
    /\ userOf' = [userOf EXCEPT ![s] = u]
    /\ addresses' = [addresses EXCEPT ![s] = x]
    /\ relay' = [relay EXCEPT ![s] = y]
    /\ realms' = [realms EXCEPT ![r] = s]
    /\ sessions' = sessions \cup {s}
    /\ userCounts' = [userCounts EXCEPT ![u] = @ + 1]
    /\ timer' = [timer EXCEPT ![s] = TRUE]
    /\ UNCHANGED <<closed, expired, fired, request, stream, attempt, response>>

(* handleDeregister: removeSession of the authenticated session. *)
Deregister(s) ==
    /\ <<s, "deregister">> \in authed
    /\ authed' = authed \ {<<s, "deregister">>}
    /\ RemoveSessions({s})
    /\ UNCHANGED <<session, expired, fired, answering, stream, attempt, answer>>

(* timer.Reset of a heartbeat. *)
NoRearm(s) == timer
Rearm(s) == [timer EXCEPT ![s] = TRUE]

(* handleHeartbeat, the locked section: it does not look at closed again.  *)
(* x and y are the lists of the request, Nil when the field is absent; an  *)
(* empty list that is present is refused by validateAddresses.             *)
Heartbeat(s, x, y) ==
    /\ <<s, "heartbeat">> \in authed
    /\ authed' = (authed \ {<<s, "heartbeat">>}) \cup {<<s, "heartbeat_ack">>}
    /\ expired' = [expired EXCEPT ![s] = FALSE]
    /\ addresses' = [addresses EXCEPT ![s] = IF x # Nil THEN x ELSE @]
    /\ relay' = [relay EXCEPT ![s] = IF y # Nil THEN y ELSE @]
    /\ timer' = Rearm(s)
    /\ UNCHANGED <<registry, born, realmOf, userOf, fired, answering, stream,
                   attempt, response>>

(* sendEvent: dropped when the session is closed or the buffer is full. *)
AcceptsWhenClosed(s) == Len(events[s]) < EventCap
Accepts(s) == s \notin closed /\ Len(events[s]) < EventCap

(* handleHeartbeat, the heartbeat_ack event that shares the punch buffer. *)
HeartbeatAck(s) ==
    /\ <<s, "heartbeat_ack">> \in authed
    /\ authed' = authed \ {<<s, "heartbeat_ack">>}
    /\ events' = [events EXCEPT ![s] = IF Accepts(s) THEN Append(@, Ack) ELSE @]
    /\ UNCHANGED <<registry, session, clock, answering, streams, told, attempt,
                   response>>

(* handleEvents starts to stream, with nothing to check once the session   *)
(* is authenticated; a second stream of the session competes for the same  *)
(* channel and is not told apart.                                          *)
OpenEvents(s) ==
    /\ Authentic(s)
    /\ streams' = streams \cup {s}
    /\ UNCHANGED <<registry, session, clock, request, events, told, attempt,
                   response>>

(* handleEvents takes an event; a write to a connection that is already    *)
(* dead loses it.                                                          *)
StreamEvent(s, delivered) ==
    /\ s \in streams
    /\ events[s] # <<>>
    /\ events' = [events EXCEPT ![s] = Tail(@)]
    /\ told' = IF delivered /\ Head(events[s]) # Ack
                 THEN told \cup {Head(events[s])} ELSE told
    /\ UNCHANGED <<registry, session, clock, request, streams, attempt, response>>

(* handleEvents returns: the request ended, or the channel is drained and  *)
(* closed.                                                                 *)
CloseEvents(s) ==
    /\ s \in streams
    /\ streams' = streams \ {s}
    /\ UNCHANGED <<registry, session, clock, request, events, told, attempt, response>>

(* The deadline of a session passes; nobody looks at the deadline of a     *)
(* closed session.                                                         *)
Expire(s) ==
    /\ s \in sessions
    /\ ~expired[s]
    /\ expired' = [expired EXCEPT ![s] = TRUE]
    /\ UNCHANGED <<registry, session, timer, fired, request, stream, attempt, response>>

(* The session's timer fires and its callback starts. *)
TimerFires(s) ==
    /\ timer[s]
    /\ expired[s]
    /\ timer' = [timer EXCEPT ![s] = FALSE]
    /\ fired' = [fired EXCEPT ![s] = TRUE]
    /\ UNCHANGED <<registry, session, expired, request, stream, attempt, response>>

(* The callback gets the lock: removeExpiredSession, which keeps a session *)
(* whose deadline a heartbeat has moved in the meantime.                   *)
RemoveExpired(s) ==
    /\ fired[s]
    /\ fired' = [fired EXCEPT ![s] = FALSE]
    /\ IF expired[s]
         THEN RemoveSessions({s})
         ELSE UNCHANGED <<registry, timer, channel, pending>>
    /\ UNCHANGED <<session, expired, request, stream, attempt, answer>>

(* closeAll, when the service closes; a handler that is already running    *)
(* goes on.                                                                *)
CloseAll ==
    /\ sessions # {}
    /\ RemoveSessions(sessions)
    /\ UNCHANGED <<session, expired, fired, request, stream, attempt, answer>>
-----------------------------------------------------------------------------
(* handleConnect of request a to realm r, first section: look the realm up *)
(* and copy its addresses.                                                 *)
ConnectLookup(a, r) ==
    LET s == realms[r]
        found == s # Nil /\ s \notin closed /\ ~expired[s]
    IN  /\ pc[a] = "idle"
        /\ pc' = [pc EXCEPT ![a] = IF found THEN "found" ELSE "done"]
        /\ reply' = [reply EXCEPT ![a] = IF found THEN @ ELSE "realm_not_found"]
        /\ at' = [at EXCEPT ![a] = IF found THEN s ELSE @]
        /\ got' = [got EXCEPT ![a] = IF found THEN addresses[s] ELSE @]
        /\ gotRelay' = [gotRelay EXCEPT ![a] = IF found THEN relay[s] ELSE @]
        /\ UNCHANGED <<registry, session, clock, request, stream, response>>

(* registerPending: refused when the session was closed since the lookup,  *)
(* when it is full, or when the nonce is in use.                           *)
ConnectRegister(a) ==
    LET s == at[a]
        ready == /\ s \notin closed
                 /\ Cardinality(pending[s]) < MaxPending
                 /\ a \notin pending[s]
    IN  /\ pc[a] = "found"
        /\ pc' = [pc EXCEPT ![a] = IF ready THEN "registered" ELSE "done"]
        /\ reply' = [reply EXCEPT ![a] = IF ready THEN @ ELSE "rate_limited"]
        /\ pending' = [pending EXCEPT ![s] = IF ready THEN @ \cup {a} ELSE @]
        /\ channel' = [channel EXCEPT ![a] = IF ready THEN "open" ELSE @]
        /\ UNCHANGED <<registry, session, clock, request, stream, at, got, gotRelay,
                       answer>>

(* sendEvent of the punch event. *)
ConnectSend(a) ==
    LET s == at[a]
    IN  /\ pc[a] = "registered"
        /\ pc' = [pc EXCEPT ![a] = IF Accepts(s) THEN "waiting" ELSE "leaving"]
        /\ reply' = [reply EXCEPT ![a] = IF Accepts(s) THEN @ ELSE "rate_limited"]
        /\ events' = [events EXCEPT ![s] = IF Accepts(s) THEN Append(@, a) ELSE @]
        /\ UNCHANGED <<registry, session, clock, request, streams, told, at, got,
                       gotRelay, response>>

Leave(a, rep, x) ==
    /\ pc[a] = "waiting"
    /\ pc' = [pc EXCEPT ![a] = "leaving"]
    /\ reply' = [reply EXCEPT ![a] = rep]
    /\ got' = [got EXCEPT ![a] = x]
    /\ UNCHANGED <<registry, session, clock, request, stream, at, gotRelay, response>>

(* The cases of handleConnect's select; which of several ready cases runs  *)
(* is Go's random choice.                                                  *)
ConnectAnswered(a) == channel[a] = "payload" /\ Leave(a, "ok", answer[a])
ConnectClosed(a) == channel[a] = "closed" /\ Leave(a, "realm_not_found", got[a])
NeverTimesOut(a) == channel[a] # "open" /\ Leave(a, "ok", got[a])
ConnectTimeout(a) == Leave(a, "ok", got[a])
ConnectDone(a) == at[a] \in closed /\ Leave(a, "realm_not_found", got[a])
ConnectGone(a) == Leave(a, "gone", got[a])

(* The deferred cancelPending: deletes the request's own nonce. *)
ForgetAll(s, a) == {}
Forget(s, a) == pending[s] \ {a}

ConnectCancel(a) ==
    /\ pc[a] = "leaving"
    /\ pc' = [pc EXCEPT ![a] = "done"]
    /\ pending' = [pending EXCEPT ![at[a]] = Forget(at[a], a)]
    /\ UNCHANGED <<registry, session, clock, request, stream, at, got, gotRelay, reply,
                   channel, answer>>

(* authSession in front of handleConnectResponse.  A node answers a punch  *)
(* event once, with the session it holds by then, which need not be the    *)
(* one the event came through.                                             *)
AuthenticateAnswer(s, a) ==
    /\ a \in told
    /\ Authentic(s)
    /\ Cardinality(authed) + Cardinality(answering) < MaxRequests
    /\ told' = told \ {a}
    /\ answering' = answering \cup {<<s, a>>}
    /\ UNCHANGED <<registry, session, clock, authed, events, streams, attempt, response>>

(* deliverPending finds the nonce among those of the answering session. *)
AwaitedAnywhere(s, a) == \E t \in Sessions : a \in pending[t]
Awaited(s, a) == s \notin closed /\ a \in pending[s]

(* handleConnectResponse: deliverPending puts the payload into the channel *)
(* of the request that still waits.                                        *)
ConnectResponse(s, a, x) ==
    LET found == Awaited(s, a)
    IN  /\ <<s, a>> \in answering
        /\ answering' = answering \ {<<s, a>>}
        /\ pending' = [pending EXCEPT ![s] = IF found THEN @ \ {a} ELSE @]
        /\ channel' = [channel EXCEPT ![a] = IF found /\ @ = "open" THEN "payload" ELSE @]
        /\ answer' = [answer EXCEPT ![a] = IF found /\ channel[a] = "open" THEN x ELSE @]
        /\ UNCHANGED <<registry, session, clock, authed, stream, attempt>>

NodeRequest ==
    \E s \in Sessions :
        \/ \E u \in Users, r \in Realms, x \in AddrLists, y \in RelayLists \cup {Nil} :
             Register(s, u, r, x, y)
        \/ \E k \in Kinds : Authenticate(s, k)
        \/ Deregister(s)
        \/ \E x \in AddrLists \cup {Nil}, y \in RelayLists \cup {Nil} : Heartbeat(s, x, y)
        \/ HeartbeatAck(s)
        \/ OpenEvents(s)
        \/ \E d \in BOOLEAN : StreamEvent(s, d)
        \/ CloseEvents(s)
        \/ \E a \in Attempts :
             AuthenticateAnswer(s, a) \/ (\E x \in AddrLists : ConnectResponse(s, a, x))

Timers == \E s \in Sessions : Expire(s) \/ TimerFires(s) \/ RemoveExpired(s)

ClientRequest ==
    \E a \in Attempts :
        \/ \E r \in Realms : ConnectLookup(a, r)
        \/ ConnectRegister(a)
        \/ ConnectSend(a)
        \/ ConnectAnswered(a)
        \/ ConnectClosed(a)
        \/ ConnectTimeout(a)
        \/ ConnectDone(a)
        \/ ConnectGone(a)
        \/ ConnectCancel(a)

Next == NodeRequest \/ Timers \/ ClientRequest \/ CloseAll

Spec == Init /\ [][Next]_vars

(* A running handler goes on, the 10 s timer of a waiting connect and the  *)
(* TTL timer of a session fire, and a fired callback gets the lock.        *)
Fairness ==
    /\ \A a \in Attempts :
         /\ WF_vars(ConnectRegister(a))
         /\ WF_vars(ConnectSend(a))
         /\ WF_vars(ConnectTimeout(a))
         /\ WF_vars(ConnectCancel(a))
    /\ \A s \in Sessions : WF_vars(TimerFires(s)) /\ WF_vars(RemoveExpired(s))

FairSpec == Spec /\ Fairness
-----------------------------------------------------------------------------
Held(u) == {s \in sessions : userOf[s] = u}

(* The two tables and the closed flags agree: the sessions in the table    *)
(* are the ones that were created and not closed, each of them owns the    *)
(* realm it registered, and a realm is only ever bound to such a session.  *)
(* (realms, sessions and closed are changed by register, deregister,       *)
(* expiry and closeAll, in any order.)                                     *)
RegistryConsistent ==
    /\ sessions = born \ closed
    /\ \A s \in sessions : realmOf[s] \in Realms /\ realms[realmOf[s]] = s
    /\ \A r \in Realms : realms[r] # Nil =>
         realms[r] \in sessions /\ realmOf[realms[r]] = r

(* userCounts, which register and removeSessionLocked keep by hand, is the *)
(* number of live sessions of the user, so nobody exceeds maxRealms and    *)
(* nobody is locked out by a count that was not given back.                *)
QuotaExact ==
    \A u \in Users :
        /\ userCounts[u] = Cardinality(Held(u))
        /\ MaxRealms[u] > 0 => Cardinality(Held(u)) <= MaxRealms[u]

(* A live session always has its TTL timer armed, or the callback of the   *)
(* timer on its way with the deadline passed: whatever the order of        *)
(* heartbeats, expiry and callbacks, no session is left that nothing will  *)
(* ever remove.                                                            *)
TimerCoverage ==
    \A s \in sessions : timer[s] \/ (fired[s] /\ expired[s])

(* The pending map of a session holds exactly the connect requests that    *)
(* wait on it with an open, empty channel; removal, answer and the         *)
(* deferred cancel of several requests never take out somebody else's.     *)
PendingExact ==
    \A s \in Sessions, a \in Attempts :
        a \in pending[s] <=>
            /\ at[a] = s
            /\ s \notin closed
            /\ pc[a] \in {"registered", "waiting", "leaving"}
            /\ channel[a] = "open"

(* A connect request only ever receives an answer that was posted with the *)
(* token of the session it looked up, while that session is live.          *)
OwnerAnswers ==
    \A a \in Attempts :
        channel[a] # "payload" /\ channel'[a] = "payload" =>
            <<at[a], a>> \in answering /\ at[a] \in sessions
AnswerFromOwner == [][OwnerAnswers]_vars

(* Nothing is sent on a channel that removeSessionLocked has closed (a Go  *)
(* panic): the events of a closed session only drain, and a closed         *)
(* response channel stays as it is.                                        *)
ClosedOnlyDrain ==
    /\ \A s \in closed : Len(events'[s]) <= Len(events[s])
    /\ \A a \in Attempts : channel[a] = "closed" => channel'[a] = "closed"
NoSendOnClosed == [][ClosedOnlyDrain]_vars

(* Every connect request is answered or given up, whatever happens to the  *)
(* session it waits on.  A session whose deadline has passed is removed,   *)
(* and the realm can be registered again, unless a heartbeat that was      *)
(* already authenticated revives it.                                       *)
ConnectTerminates ==
    /\ \A a \in Attempts : pc[a] # "idle" ~> pc[a] = "done"
    /\ \A s \in Sessions : (s \in sessions /\ expired[s]) ~> (s \notin sessions \/ ~expired[s])
-----------------------------------------------------------------------------
(* How far a connect request has come, as the directory sees it. *)
Standing(a) ==
    IF pc[a] = "idle" THEN "new"
    ELSE IF pc[a] = "done" THEN "over"
    ELSE IF channel[a] = "payload" THEN "answered" ELSE "asked"

Directory == INSTANCE RealmDirectory WITH
    owner <- realms, used <- born, asked <- at, standing <- [a \in Attempts |-> Standing(a)]

(* The server implements the directory: whatever the handlers, timers and  *)
(* channels do in between, every step is a claim of a free realm by a new  *)
(* session, a release, a step of one request, or invisible; in particular  *)
(* a request is only answered by the session it was directed to, while     *)
(* that session owns its realm.                                            *)
ImplementsDirectory == Directory!Spec
=============================================================================
