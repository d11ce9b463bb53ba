--------------------------- MODULE RealmDirectory ---------------------------
(***************************************************************************)
(* What the rendezvous server promises, without its tables, timers, locks  *)
(* and channels: a directory in which a realm has at most one owner at a   *)
(* time, no session owns a realm twice, and a request that has asked for a *)
(* realm is answered, if at all, by the session that owned the realm when  *)
(* it asked and still does.  RealmRendezvous implements it.                *)
(***************************************************************************)
CONSTANTS Realms, Sessions, Attempts, Nil

VARIABLES
    owner,     \* realm -> the session that owns it, or Nil
    used,      \* sessions that own or have owned a realm
    asked,     \* request -> the session it was directed to
    standing   \* request -> "new", "asked", "answered", "over"

vars == <<owner, used, asked, standing>>

Init ==
    /\ owner = [r \in Realms |-> Nil] /\ used = {}
    /\ asked = [a \in Attempts |-> Nil]
    /\ standing = [a \in Attempts |-> "new"]

Claim(r, s) ==
    /\ owner[r] = Nil /\ s \notin used
    /\ owner' = [owner EXCEPT ![r] = s] /\ used' = used \cup {s}
    /\ UNCHANGED <<asked, standing>>

(* Realms are given up: by deregistration, by expiry, or all of them. *)
Release(R) ==
    /\ owner' = [r \in Realms |-> IF r \in R THEN Nil ELSE owner[r]]
    /\ UNCHANGED <<used, asked, standing>>

Ask(a, r) ==
    /\ standing[a] = "new" /\ owner[r] # Nil
    /\ asked' = [asked EXCEPT ![a] = owner[r]]
    /\ standing' = [standing EXCEPT ![a] = "asked"]
    /\ UNCHANGED <<owner, used>>

Answer(a) ==
    /\ standing[a] = "asked" /\ \E r \in Realms : owner[r] = asked[a]
    /\ standing' = [standing EXCEPT ![a] = "answered"]
    /\ UNCHANGED <<owner, used, asked>>

(* A request ends: refused, given up, or with what it got. *)
EndRequest(a) ==
    /\ standing[a] # "over"
    /\ standing' = [standing EXCEPT ![a] = "over"]
    /\ UNCHANGED <<owner, used, asked>>

Next ==
    \/ \E r \in Realms, s \in Sessions : Claim(r, s)
    \/ \E R \in SUBSET Realms : Release(R)
    \/ \E a \in Attempts : (\E r \in Realms : Ask(a, r)) \/ Answer(a) \/ EndRequest(a)

Spec == Init /\ [][Next]_vars
=============================================================================
