------------------------- MODULE MCServingDiscovery --------------------------
(* The instance of ServingDiscovery for TLC. *)
EXTENDS ServingDiscovery

CONSTANTS f1, f2, a1

\* One Function may be served, the other stays without Endpoints.
OneAssignment == [f \in FunctionIDs |-> IF f = f1 THEN {a1} ELSE {}]

\* One Function changes, the other is created.
OneChanges == [f \in FunctionIDs |-> IF f = f1 THEN 2 ELSE 1]

=============================================================================
