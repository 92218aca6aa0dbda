------------------------- MODULE MCValidatorClient -------------------------
(* One call that competes with others for the slots. *)
EXTENDS ValidatorClient
============================================================================
