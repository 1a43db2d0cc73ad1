------------------------------ MODULE MCFecPin ------------------------------
(***************************************************************************)
(* Instance of FecPin for TLC: a machine with two ports on cards with the  *)
(* override.                                                               *)
(***************************************************************************)
EXTENDS FecPin

CONSTANTS p1, p2

MCPorts       == {p1, p2}
MCOverridable == {p1, p2}
=============================================================================
