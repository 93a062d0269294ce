---------------------------- MODULE MCPowerEvents ----------------------------
(* Instance of PowerEvents for TLC. *)
EXTENDS PowerEvents

CONSTANTS s1, s2

=============================================================================
