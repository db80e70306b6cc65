---------------------------- MODULE MCSuppression ----------------------------
(* TLC instances of Suppression.  The successive records of a server, of   *)
(* an agent and of a datastore go by one identifier each.                  *)
EXTENDS Suppression

CONSTANTS d1, s1, a1, b1, b2

KindOfTask == [t \in Tasks |-> CASE t = d1 -> "datastore" [] t = s1 -> "server"
                                 [] OTHER -> "agent"]
AsManyAsTasks == [k \in Kinds |-> Cardinality(OfKind(k))]
AgentsOnly == {{"agent"}}
=============================================================================
