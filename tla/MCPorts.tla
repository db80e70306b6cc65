------------------------------- MODULE MCPorts -------------------------------
(* TLC instances of Ports.                                                 *)
EXTENDS Ports, TLC

CONSTANTS srv, a1, a2, a3, p1, p2, h1

(* StartK3SServer (K3SServerPort is the first port of the range) and       *)
(* StartK3SAgent.                                                          *)
Templates == [t \in Tasks |-> IF t = srv THEN <<From, 0>> ELSE <<0, 0>>]

(* Agents are interchangeable, and passes are.                             *)
Symmetry == Permutations({a1, a2, a3}) \cup Permutations({p1, p2})
=============================================================================
