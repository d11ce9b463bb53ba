------------------------- MODULE MCRealmRendezvous -------------------------
(* Instances of RealmRendezvous for TLC: one user is limited to one realm, *)
(* the other is not limited.                                               *)
EXTENDS RealmRendezvous, TLC

CONSTANTS u1, u2

MCMaxRealms == [u \in Users |-> IF u = u1 THEN 1 ELSE 0]

Symmetry == Permutations(Sessions) \cup Permutations(Attempts) \cup Permutations(Realms)
=============================================================================
