----------------------------- MODULE RealmNode -----------------------------
(***************************************************************************)
(* A node that keeps itself registered with the rendezvous server          *)
(* (third_party/sing-quic/hysteria2/realm: server.go, control.go) and what *)
(* the server does to its realm (protocol/hysteria2/realm_server.go, in    *)
(* full in module RealmRendezvous), with requests and answers that may be  *)
(* lost, sessions that expire, changes of the network and of the NAT, and  *)
(* Close.                                                                  *)
(*                                                                         *)
(* The run loop has one request out at a time.  An address stands for the  *)
(* list that one STUN discovery returns.                                   *)
(***************************************************************************)
EXTENDS Naturals

CONSTANTS
    Sessions,    \* session IDs
    MaxAddress,  \* bound: addresses the NAT hands out
    Recurs,      \* the NAT may hand out an address it used before
    StunFails,   \* a discovery may fail
    Nil

ASSUME NodeAssumption ==
    /\ MaxAddress \in Nat \ {0}
    /\ Recurs \in BOOLEAN /\ StunFails \in BOOLEAN
    /\ Nil \notin Sessions /\ Nil \notin Nat

Addresses == 1..MaxAddress

VARIABLES
    current,     \* the public address a discovery would return now
    life,        \* before or after Close
    loop,        \* what run is doing
    signal,      \* resetSignal holds a signal
    addresses,   \* Server.addresses
    fresh,       \* addressesAt is recent
    published,   \* Server.lastPublishedAddresses
    sessionID,   \* Server.sessionID
    request,     \* what is on its way to the rendezvous server
    answer,      \* what is on its way back
    stream,      \* session whose events the node is reading
    deregister,  \* session that Close is about to deregister
    owner,       \* the rendezvous server's live session of the realm
    served,      \* the addresses of that session
    missed       \* history: its last heartbeat failed, it may expire

nodeVars == <<life, loop, signal, addresses, fresh, published, sessionID, stream, deregister>>
wire == <<request, answer>>
directory == <<owner, served, missed>>
vars == <<current, nodeVars, wire, directory>>

NoMessage == [kind |-> "none", session |-> Nil, address |-> Nil]
Messages == [kind : {"none", "register", "heartbeat", "unauthorized", "taken"},
             session : Sessions \cup {Nil}, address : Addresses \cup {Nil}]

TypeOK ==
    /\ current \in Addresses
    /\ life \in {"running", "closed"}
    /\ loop \in {"idle", "stun", "wait"}
    /\ signal \in BOOLEAN /\ fresh \in BOOLEAN /\ missed \in BOOLEAN
    /\ addresses \in Addresses \cup {Nil}
    /\ published \in Addresses \cup {Nil}
    /\ served \in Addresses \cup {Nil}
    /\ {sessionID, stream, deregister, owner} \subseteq Sessions \cup {Nil}
    /\ request \in Messages /\ answer \in Messages
    /\ owner = Nil <=> served = Nil

(* Start, which signals a first Reset. *)
Init ==
    /\ current = 1
    /\ life = "running" /\ loop = "idle" /\ signal = TRUE
    /\ addresses = Nil /\ fresh = FALSE /\ published = Nil
    /\ sessionID = Nil /\ stream = Nil /\ deregister = Nil
    /\ request = NoMessage /\ answer = NoMessage
    /\ owner = Nil /\ served = Nil /\ missed = FALSE
-----------------------------------------------------------------------------
(* The public address changes; an interface update calls Reset, a NAT that *)
(* rebinds does not.                                                       *)
NetworkChange ==
    /\ \/ Recurs /\ current' \in Addresses \ {current}
       \/ current < MaxAddress /\ current' = current + 1
    /\ signal' \in {signal, TRUE}
    /\ UNCHANGED <<life, loop, addresses, fresh, published, sessionID, stream, deregister, wire, directory>>

(* connectSTUNCacheTTL is over. *)
CacheExpires ==
    /\ fresh
    /\ fresh' = FALSE
    /\ UNCHANGED <<current, life, loop, signal, addresses, published, sessionID, stream,
                   deregister, wire, directory>>

(* connectAddresses: from the cache, or from a discovery that succeeds.    *)
Discovered == IF fresh THEN addresses ELSE current
-----------------------------------------------------------------------------
Send(kind, session, address) ==
    /\ request' = [kind |-> kind, session |-> session, address |-> address]
    /\ loop' = "wait"

(* reRegister *)
SendRegister(known) == Send("register", Nil, known)

(* handleHeartbeat with a session: publish what was not yet published.     *)
Publish(known) == IF known # published THEN known ELSE Nil
SendHeartbeat(known) == Send("heartbeat", sessionID, Publish(known))

(* handleReset: forget the age of the addresses and discover.              *)
TakeReset ==
    /\ life = "running" /\ loop = "idle" /\ signal
    /\ signal' = FALSE
    /\ fresh' = FALSE
    /\ loop' = "stun"
    /\ UNCHANGED <<current, life, addresses, published, sessionID, stream, deregister, wire, directory>>

(* A failed discovery ends handleReset, and run puts off the heartbeat by  *)
(* another interval; after a successful one the node registers, or sends a *)
(* heartbeat if it has a session.                                          *)
ResetFails ==
    /\ life = "running" /\ loop = "stun" /\ StunFails
    /\ loop' = "idle"
    /\ missed' = (owner # Nil)
    /\ UNCHANGED <<current, life, signal, addresses, fresh, published, sessionID, stream,
                   deregister, wire, owner, served>>

ResetDiscovers ==
    /\ life = "running" /\ loop = "stun"
    /\ addresses' = Discovered
    /\ fresh' = TRUE
    /\ IF sessionID = Nil THEN SendRegister(Discovered) ELSE SendHeartbeat(Discovered)
    /\ UNCHANGED <<current, life, signal, published, sessionID, stream, deregister, answer, directory>>

(* heartbeatTimer: without a session handleHeartbeat registers, if it has  *)
(* addresses.                                                              *)
MayRegister == addresses # Nil
HeartbeatTimer ==
    /\ life = "running" /\ loop = "idle"
    /\ IF sessionID = Nil THEN MayRegister /\ SendRegister(addresses)
                          ELSE SendHeartbeat(addresses)
    /\ UNCHANGED <<current, life, signal, addresses, fresh, published, sessionID, stream,
                   deregister, answer, directory>>

(* A client's connect reaches the node: readEvents discovers again when    *)
(* the cache is old, beside the run loop.                                  *)
ConnectEvent ==
    /\ life = "running"
    /\ stream # Nil /\ stream = owner
    /\ addresses' = Discovered
    /\ fresh' = TRUE
    /\ UNCHANGED <<current, life, loop, signal, published, sessionID, stream, deregister, wire, directory>>
-----------------------------------------------------------------------------
(* The rendezvous server's handleRegister and handleHeartbeat. *)
Fresh(s) == s \notin {owner, sessionID, stream, deregister, answer.session, request.session}

ServeRegister ==
    /\ request.kind = "register"
    /\ IF owner # Nil
         THEN /\ answer' = [request EXCEPT !.kind = "taken"]
              /\ UNCHANGED directory
         ELSE \E s \in Sessions :
              /\ Fresh(s)
              /\ owner' = s /\ served' = request.address /\ missed' = FALSE
              /\ answer' = [request EXCEPT !.session = s]
    /\ request' = NoMessage
    /\ UNCHANGED <<current, nodeVars>>

ServeHeartbeat ==
    /\ request.kind = "heartbeat"
    /\ IF request.session # owner
         THEN /\ answer' = [request EXCEPT !.kind = "unauthorized"]
              /\ UNCHANGED directory
         ELSE /\ answer' = request
              /\ served' = IF request.address = Nil THEN served ELSE request.address
              /\ missed' = FALSE
              /\ UNCHANGED owner
    /\ request' = NoMessage
    /\ UNCHANGED <<current, nodeVars>>

(* The session's time to live, twice the heartbeat interval, runs out once *)
(* a heartbeat is missed or nobody knows the session.                      *)
RemoveSession == owner' = Nil /\ served' = Nil /\ missed' = FALSE

OverdueIfMissed == missed
Overdue == missed \/ life = "closed" \/ owner \notin {sessionID, answer.session}

Expire ==
    /\ owner # Nil
    /\ Overdue
    /\ RemoveSession
    /\ UNCHANGED <<current, nodeVars, wire>>

(* A request or an answer is lost; the caller gets an error. *)
Lose ==
    /\ loop = "wait"
    /\ loop' = "idle"
    /\ request' = NoMessage /\ answer' = NoMessage
    /\ missed' = (owner # Nil)
    /\ UNCHANGED <<current, life, signal, addresses, fresh, published, sessionID, stream,
                   deregister, owner, served>>
-----------------------------------------------------------------------------
(* reRegister got its session. *)
Registered ==
    /\ life = "running" /\ answer.kind = "register"
    /\ sessionID' = answer.session
    /\ published' = answer.address
    /\ loop' = "idle" /\ answer' = NoMessage
    /\ UNCHANGED <<current, life, signal, addresses, fresh, stream, deregister, request, directory>>

(* The realm is taken, by an earlier session of this node for instance.    *)
Refused ==
    /\ life = "running" /\ answer.kind = "taken"
    /\ loop' = "idle" /\ answer' = NoMessage
    /\ UNCHANGED <<current, life, signal, addresses, fresh, published, sessionID, stream,
                   deregister, request, directory>>

(* handleHeartbeat after the answer: what was sent is what is published.   *)
PublishedNow(sent) == addresses
PublishedAs(sent) == sent
Heartbeaten ==
    /\ life = "running" /\ answer.kind = "heartbeat"
    /\ published' = IF answer.address = Nil THEN published ELSE PublishedAs(answer.address)
    /\ loop' = "idle" /\ answer' = NoMessage
    /\ UNCHANGED <<current, life, signal, addresses, fresh, sessionID, stream, deregister,
                   request, directory>>

(* 401 or 404: the session is gone, register again. *)
KeepsSession == FALSE
Reregisters == answer.kind = "unauthorized"
SessionInvalid ==
    /\ life = "running" /\ answer.kind = "unauthorized"
    /\ answer' = NoMessage
    /\ IF Reregisters THEN SendRegister(addresses) ELSE loop' = "idle" /\ UNCHANGED request
    /\ UNCHANGED <<current, life, signal, addresses, fresh, published, sessionID, stream,
                   deregister, directory>>
-----------------------------------------------------------------------------
(* runEventStream: open the stream of the session the node has now; the    *)
(* server refuses a session that is not live.                              *)
OpenStream ==
    /\ life = "running"
    /\ stream = Nil /\ sessionID # Nil
    /\ sessionID = owner
    /\ stream' = sessionID
    /\ UNCHANGED <<current, life, loop, signal, addresses, fresh, published, sessionID,
                   deregister, wire, directory>>

(* The stream ends: the server closes that of a removed session; any other *)
(* may break.                                                              *)
MayEnd == stream # Nil
StreamEnds ==
    /\ MayEnd
    /\ stream' = Nil
    /\ UNCHANGED <<current, life, loop, signal, addresses, fresh, published, sessionID,
                   deregister, wire, directory>>

(* Close: the context is cancelled, so that an answer under way is not     *)
(* read any more, then the session is deregistered.                        *)
Close ==
    /\ life = "running"
    /\ life' = "closed"
    /\ loop' = "idle" /\ answer' = NoMessage
    /\ deregister' = sessionID
    /\ UNCHANGED <<current, signal, addresses, fresh, published, sessionID, stream, request, directory>>

Deregister ==
    /\ deregister # Nil
    /\ deregister' = Nil
    /\ IF deregister = owner THEN RemoveSession
                             ELSE UNCHANGED directory
    /\ UNCHANGED <<current, life, loop, signal, addresses, fresh, published, sessionID, stream, wire>>

DeregisterLost ==
    /\ deregister # Nil
    /\ deregister' = Nil
    /\ UNCHANGED <<current, life, loop, signal, addresses, fresh, published, sessionID, stream, wire, directory>>
-----------------------------------------------------------------------------
Run ==
    \/ TakeReset \/ ResetFails \/ ResetDiscovers \/ HeartbeatTimer
    \/ Registered \/ Refused \/ Heartbeaten \/ SessionInvalid

Serve == ServeRegister \/ ServeHeartbeat

Next ==
    \/ Run \/ Serve \/ Lose \/ Expire
    \/ NetworkChange \/ CacheExpires \/ ConnectEvent
    \/ OpenStream \/ StreamEnds
    \/ Close \/ Deregister \/ DeregisterLost

Spec == Init /\ [][Next]_vars

(* Timers fire, goroutines run, sessions nobody renews expire, and not     *)
(* every discovery, request and answer is lost.                            *)
FairSpec ==
    /\ Spec
    /\ WF_vars(TakeReset) /\ SF_vars(ResetDiscovers) /\ SF_vars(HeartbeatTimer)
    /\ SF_vars(ServeRegister) /\ SF_vars(ServeHeartbeat)
    /\ SF_vars(Registered) /\ SF_vars(Refused) /\ SF_vars(Heartbeaten) /\ SF_vars(SessionInvalid)
    /\ SF_vars(Expire) /\ SF_vars(OpenStream)
    /\ WF_vars(StreamEnds /\ stream # owner)
-----------------------------------------------------------------------------
(* The node stops publishing only when the server has its addresses: with  *)
(* nothing outstanding, addresses that equal lastPublishedAddresses are    *)
(* the ones the server hands to clients.  (And all variables keep their    *)
(* types, and a register request carries addresses.)                       *)
PublishesUntilServed ==
    /\ TypeOK
    /\ request.kind = "register" => request.address # Nil
    /\ life = "running" /\ loop # "wait" /\ owner # Nil /\ owner = sessionID /\ published = addresses
         => served = addresses

(* A node that knows addresses gets to be registered with just these,      *)
(* whatever was lost, expired or left behind by an earlier session.        *)
Published ==
    addresses # Nil
        ~> (life = "closed" \/ (owner # Nil /\ owner = sessionID /\ served = addresses))

(* So it does, and a registered node gets to read the events of its        *)
(* session, also after it had to register again.                           *)
Served ==
    /\ Published
    /\ (owner # Nil /\ owner = sessionID)
         ~> (life = "closed" \/ owner # sessionID \/ stream = owner)

(* A closed node's session goes away, by deregistration or by expiry, also *)
(* one that was created while Close ran.                                   *)
Released == life = "closed" ~> owner = Nil
=============================================================================
