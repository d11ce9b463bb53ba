---------------------------- MODULE MCRealmNode ----------------------------
(* Instances of RealmNode for TLC; liveness is checked, so no symmetry. *)
EXTENDS RealmNode, TLC
=============================================================================
