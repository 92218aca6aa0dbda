---------------------------- MODULE MCWorkerAgent ----------------------------
(* The instance of WorkerAgent for TLC. *)
EXTENDS WorkerAgent

CONSTANTS a1, g1, self, c1, i1, i2, k1, program

\* The Assignment's compiled program.
OneProgram == [a \in AssignmentIds |-> program]

\* Calls meet in the Agent's own limiter, holding a Replica's and a program's slot.
SlotsOf == [replica |-> 2, program |-> 2, agent |-> 1, engine |-> 1]

OneQueued == [l \in Limiters |-> 1]

=============================================================================
