--------------------------- MODULE MCWorkerCache -----------------------------
(* The instance of WorkerCache for TLC. *)
EXTENDS WorkerCache

CONSTANTS k1, k2, k3, a1, a2, x1, x2

\* One small module and two large ones: no two of them fit together.
Weights == [k \in Keys |-> IF k = k1 THEN 1 ELSE 2]

=============================================================================
