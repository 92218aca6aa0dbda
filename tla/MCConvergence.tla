---------------------------- MODULE MCConvergence ----------------------------
(* Convergence with two Functions, two Versions and two calls. *)
EXTENDS Convergence
==============================================================================
