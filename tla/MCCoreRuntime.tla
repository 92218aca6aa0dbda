--------------------------- MODULE MCCoreRuntime ---------------------------
(* A small instance of CoreRuntime. *)
EXTENDS CoreRuntime
============================================================================
