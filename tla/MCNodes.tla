------------------------------- MODULE MCNodes -------------------------------
(* TLC instances of Nodes.                                                 *)
EXTENDS Nodes

CONSTANTS a1, a2
=============================================================================
