---------------------------- MODULE MCEventStream ----------------------------
(* TLC instances of EventStream.                                           *)
EXTENDS EventStream

CONSTANTS f1, f2, f3

SizeOfKind == [k \in Kinds |-> CASE k = "SUBSCRIBED" -> 4 [] k = "HEARTBEAT" -> 1
                                 [] k = "UPDATE" -> 3 [] OTHER -> 2]
=============================================================================
