-------------------------- MODULE MCPunchProtocol --------------------------
(* Hole punching for TLC; the configuration gives the two bounds.          *)
EXTENDS PunchProtocol
=============================================================================
