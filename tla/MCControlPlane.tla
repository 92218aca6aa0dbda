--------------------------- MODULE MCControlPlane ---------------------------
(* The instance of ControlPlane for TLC. *)
EXTENDS ControlPlane, TLC

CONSTANTS f1, v1, v2, nov

IDOrder == f1 :> 1 @@ v1 :> 1 @@ v2 :> 2

=============================================================================
