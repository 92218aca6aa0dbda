-------------------------- MODULE MCArtifactStore --------------------------
(* A small instance of ArtifactStore. *)
EXTENDS ArtifactStore

CONSTANTS d1, d2
\* Two digests of one stripe: calls for either block each other.
OneStripe == [d \in {d1, d2} |-> 0]
============================================================================
