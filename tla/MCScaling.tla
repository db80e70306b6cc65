------------------------------ MODULE MCScaling ------------------------------
(* TLC instances of Scaling.                                               *)
EXTENDS Scaling, TLC

CONSTANTS d1, s1, s2, a1, a2, r1, r2

KindOfTask == [t \in Tasks |-> CASE t = d1 -> "datastore"
                                 [] t \in {s1, s2} -> "server"
                                 [] OTHER -> "agent"]
AllOne == [k \in Kinds |-> 1]
Symmetry == Permutations(Reqs)
=============================================================================
