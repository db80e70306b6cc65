----------------------------- MODULE MCScheduler -----------------------------
(* TLC instances of Scheduler: the task identifiers of each kind.          *)
EXTENDS Scheduler, TLC

CONSTANTS d1, d2, d3, s1, s2, s3, s4, s5, a1, a2, w1, w2, b1, b2

(* One pool of identifiers per kind; a pool that a run leaves empty is a   *)
(* kind it does not start.                                                 *)
KindOfTask == [t \in Tasks |-> CASE t \in {d1, d2, d3} -> "datastore"
                                 [] t \in {s1, s2, s3, s4, s5} -> "server"
                                 [] OTHER -> "agent"]
OneEach == [k \in Kinds |-> IF k \in {KindOfTask[t] : t \in Tasks} THEN 1 ELSE 0]
Symmetry == Permutations({d2, d3}) \cup Permutations({s1, s2, s3, s4, s5} \cap Tasks)
=============================================================================
