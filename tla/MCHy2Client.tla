---------------------------- MODULE MCHy2Client ----------------------------
(* Instances of Hy2Client for TLC; liveness is checked, so no symmetry. *)
EXTENDS Hy2Client, TLC
=============================================================================
