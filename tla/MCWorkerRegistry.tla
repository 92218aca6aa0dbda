-------------------------- MODULE MCWorkerRegistry ---------------------------
(* The instance of WorkerRegistry for TLC. *)
EXTENDS WorkerRegistry

CONSTANTS w1, w2, b1, b2

=============================================================================
