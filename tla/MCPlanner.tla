----------------------------- MODULE MCPlanner -----------------------------
(* A small instance of Planner. *)
EXTENDS Planner, TLC

Fit(cache, slots, used, memory, usedMemory) ==
    [intent |-> "Schedulable", state |-> "Ready", compatible |-> TRUE, labels |-> TRUE,
     cache |-> cache, slots |-> slots, allocatedSlots |-> used,
     memory |-> memory, allocatedMemory |-> usedMemory]

\* Two Workers whose reports change while decisions are retained: idle and
\* loaded ones, equal counts of unequal capacities, a full one, and a cached
\* one that is not Ready.
FewObservations ==
    {Fit(0, 2, 1, 2, 1), Fit(0, 4, 1, 4, 2), Fit(1, 2, 1, 2, 2),
     [Fit(2, 2, 0, 2, 0) EXCEPT !.state = "Suspect"]}
FewPayloads == {[memory |-> 1, slots |-> 1, existing |-> e] : e \in {{}, {1}}}

Symmetry == Permutations(Commands) \cup Permutations(Assignments)
=============================================================================
