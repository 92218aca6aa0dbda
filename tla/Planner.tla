------------------------------ MODULE Planner ------------------------------
(***************************************************************************)
(* internal/scheduler: the Planner, which places one Assignment on one     *)
(* Worker.  A retained decision answers retries of its command, and new    *)
(* commands for its Assignment, until the control plane acknowledges it.   *)
(*                                                                         *)
(* A request is a command ID and a fingerprint (the Assignment ID and the  *)
(* rest of the request, its payload): requestFingerprint clears the        *)
(* command ID.  The fleet is the list of Worker observations handed to     *)
(* Plan; the calls that are refused change nothing and are left out.       *)
(***************************************************************************)
EXTENDS Integers, FiniteSets, Functions

CONSTANTS
    Commands,       \* command IDs
    Assignments,    \* Assignment IDs
    Payloads,       \* [memory, slots, existing]: what a request asks for
    Workers,        \* Worker IDs, numbered in the order of their names
    Observations,   \* what a Worker may be observed to be
    MaxDecisions,   \* Config.MaxDecisions
    MaxBarrier      \* bound on terms and applied indexes

ASSUME WorkersAssumption == Workers \subseteq Nat /\ IsFiniteSet(Workers)
ASSUME MaxDecisionsAssumption == MaxDecisions \in Nat \ {0}
ASSUME MaxBarrierAssumption == MaxBarrier \in Nat
ASSUME PayloadsAssumption ==
    Payloads \subseteq [memory : Nat, slots : Nat, existing : SUBSET Workers]
ASSUME ObservationsAssumption ==
    Observations \subseteq
        [intent : {"Schedulable", "Draining", "Removed"},
         state : {"Joining", "Ready", "Suspect", "Unavailable"},
         compatible : BOOLEAN, labels : BOOLEAN, cache : 0..2,
         slots : Nat, allocatedSlots : Nat, memory : Nat, allocatedMemory : Nat]

VARIABLES
    barrier,        \* Planner.barrier
    decisions,      \* Planner.decisions
    assignments,    \* Planner.assignments: the command that planned each
    fleet,          \* the observations the next call of Plan receives
    told            \* per Assignment, the Workers named by the answers since
                    \* its decision was last acknowledged

plannerVars == <<barrier, decisions, assignments, fleet, told>>

Fingerprints == [assignment : Assignments, payload : Payloads]
Barriers == [term : 1..MaxBarrier, index : 1..MaxBarrier, ready : BOOLEAN]
NoBarrier == [term |-> 0, index |-> 0, ready |-> FALSE]

-----------------------------------------------------------------------------
\* The order of the eligible candidates.

\* PlacementRequest.Validate: the part the placement depends on.
Validate(p) == p.memory # 0 /\ p.slots # 0

\* WorkerSnapshot.validate.
validate(o) == o.allocatedMemory <= o.memory /\ o.allocatedSlots <= o.slots

\* RuntimeProfile.compatible and labelsMatch, as observed for the request.
compatible(o) == o.compatible /\ o.labels

eligible(p, o) ==
    /\ validate(o) /\ o.intent = "Schedulable" /\ o.state = "Ready" /\ compatible(o)
    /\ o.memory - o.allocatedMemory >= p.memory
    /\ o.slots - o.allocatedSlots >= p.slots

spreadScore(p, w) == IF w \in p.existing THEN 0 ELSE 1

\* Cross-multiplied, so that no fraction is rounded.
compareRatio(ln, ld, rn, rd) ==
    IF ln * rd < rn * ld THEN -1 ELSE IF ln * rd > rn * ld THEN 1 ELSE 0

\* Mutation: loads are compared as counts, not as shares of the capacity.
compareEligibleCounts(p, f, l, r) ==
    LET spread == spreadScore(p, r) - spreadScore(p, l) IN
    IF f[l].cache # f[r].cache THEN f[r].cache - f[l].cache
    ELSE IF spread # 0 THEN spread
    ELSE IF f[l].allocatedSlots # f[r].allocatedSlots THEN f[l].allocatedSlots - f[r].allocatedSlots
    ELSE l - r

\* Negative when l comes first.
compareEligible(p, f, l, r) ==
    LET spread == spreadScore(p, r) - spreadScore(p, l)
        load == compareRatio(f[l].allocatedSlots, f[l].slots, f[r].allocatedSlots, f[r].slots)
        memory == compareRatio(f[l].allocatedMemory, f[l].memory, f[r].allocatedMemory, f[r].memory) IN
    IF f[l].cache # f[r].cache THEN f[r].cache - f[l].cache
    ELSE IF spread # 0 THEN spread
    ELSE IF load # 0 THEN load
    ELSE IF memory # 0 THEN memory
    ELSE l - r

evaluateCandidates(p, f) == {w \in DOMAIN f : eligible(p, f[w])}

\* slices.SortFunc, then the first: a Worker no other comes before.
chosen(p, f) ==
    CHOOSE w \in evaluateCandidates(p, f) :
        \A o \in evaluateCandidates(p, f) : compareEligible(p, f, w, o) <= 0

-----------------------------------------------------------------------------
PlannerInit ==
    /\ barrier = NoBarrier
    /\ decisions = <<>> /\ assignments = <<>>
    /\ fleet \in [Workers -> Observations]
    /\ told = [a \in Assignments |-> {}]

InstallBarrier(b) ==
    /\ b.ready
    /\ barrier.term = 0 \/ (b.term >= barrier.term /\ b.index >= barrier.index)
    /\ barrier' = b
    /\ UNCHANGED <<decisions, assignments, fleet, told>>

InvalidateBarrier ==
    /\ barrier' = [barrier EXCEPT !.ready = FALSE]
    /\ UNCHANGED <<decisions, assignments, fleet, told>>

Tell(a, w) == told' = [told EXCEPT ![a] = @ \cup {w}]

\* A retry of a retained command, with the same fingerprint.
PlanDuplicate(c, q) ==
    /\ Validate(q.payload) /\ c \in DOMAIN decisions /\ decisions[c].fingerprint = q
    /\ Tell(q.assignment, decisions[c].worker)
    /\ UNCHANGED <<barrier, decisions, assignments, fleet>>

\* Another command for a planned Assignment, with the same fingerprint.
PlanSatisfied(c, q) ==
    /\ Validate(q.payload) /\ c \notin DOMAIN decisions /\ q.assignment \in DOMAIN assignments
    /\ LET existing == decisions[assignments[q.assignment]] IN
        /\ existing.fingerprint = q
        /\ Tell(q.assignment, existing.worker)
    /\ UNCHANGED <<barrier, decisions, assignments, fleet>>

Record(c, q) ==
    [fingerprint |-> q, worker |-> chosen(q.payload, fleet), barrier |-> barrier, fleet |-> fleet]

\* Mutation: only the command ID is looked up.
PlanByCommand(c, q) ==
    /\ Validate(q.payload) /\ c \notin DOMAIN decisions
    /\ barrier.ready /\ Cardinality(DOMAIN decisions) < MaxDecisions
    /\ evaluateCandidates(q.payload, fleet) # {}
    /\ decisions' = [x \in DOMAIN decisions \cup {c} |-> IF x = c THEN Record(c, q) ELSE decisions[x]]
    /\ assignments' = [x \in DOMAIN assignments \cup {q.assignment} |-> IF x = q.assignment THEN c ELSE assignments[x]]
    /\ Tell(q.assignment, chosen(q.payload, fleet))
    /\ UNCHANGED <<barrier, fleet>>

\* A new decision.  The history field "fleet" keeps the observations it was
\* made from.
PlanApplied(c, q) ==
    /\ Validate(q.payload) /\ c \notin DOMAIN decisions /\ q.assignment \notin DOMAIN assignments
    /\ barrier.ready /\ Cardinality(DOMAIN decisions) < MaxDecisions
    /\ evaluateCandidates(q.payload, fleet) # {}
    /\ decisions' = [x \in DOMAIN decisions \cup {c} |-> IF x = c THEN Record(c, q) ELSE decisions[x]]
    /\ assignments' = [x \in DOMAIN assignments \cup {q.assignment} |-> IF x = q.assignment THEN c ELSE assignments[x]]
    /\ Tell(q.assignment, chosen(q.payload, fleet))
    /\ UNCHANGED <<barrier, fleet>>

Without(f, k) == Restrict(f, DOMAIN f \ {k})

\* Mutation: the Assignment index is left behind.
AcknowledgeHalf(c) ==
    /\ c \in DOMAIN decisions
    /\ decisions' = Without(decisions, c)
    /\ told' = [told EXCEPT ![decisions[c].fingerprint.assignment] = {}]
    /\ UNCHANGED <<barrier, assignments, fleet>>

Acknowledge(c) ==
    /\ c \in DOMAIN decisions
    /\ LET a == decisions[c].fingerprint.assignment IN
        /\ decisions' = Without(decisions, c)
        /\ assignments' = IF assignments[a] = c THEN Without(assignments, a) ELSE assignments
        /\ told' = [told EXCEPT ![a] = {}]
    /\ UNCHANGED <<barrier, fleet>>

\* The environment: a Worker's next report.
Observe(w, o) ==
    /\ fleet' = [fleet EXCEPT ![w] = o]
    /\ UNCHANGED <<barrier, decisions, assignments, told>>

PlannerNext ==
    \/ \E b \in Barriers : InstallBarrier(b)
    \/ InvalidateBarrier
    \/ \E c \in Commands, q \in Fingerprints :
        PlanDuplicate(c, q) \/ PlanSatisfied(c, q) \/ PlanApplied(c, q)
    \/ \E c \in Commands : Acknowledge(c)
    \/ \E w \in Workers, o \in Observations : Observe(w, o)

PlannerSpec == PlannerInit /\ [][PlannerNext]_plannerVars

-----------------------------------------------------------------------------
\* Every variable has its type: a barrier is none or a term and an index, and
\* every record of decisions and assignments is made of known IDs.
PlannerTypeOK ==
    /\ barrier \in Barriers \cup {NoBarrier}
    /\ DOMAIN decisions \subseteq Commands
    /\ \A c \in DOMAIN decisions :
        decisions[c] \in [fingerprint : Fingerprints, worker : Workers,
                          barrier : Barriers, fleet : [Workers -> Observations]]
    /\ DOMAIN assignments \subseteq Assignments
    /\ fleet \in [Workers -> Observations]
    /\ told \in [Assignments -> SUBSET Workers]

\* The two maps of the Planner index the same decisions: every Assignment
\* names the command that planned it and every command is the one its
\* Assignment names.  So two commands never hold decisions for one Assignment,
\* and Acknowledge's comparison always finds its own command.
RecordsPaired ==
    /\ \A a \in DOMAIN assignments :
        /\ assignments[a] \in DOMAIN decisions
        /\ decisions[assignments[a]].fingerprint.assignment = a
    /\ \A c \in DOMAIN decisions :
        /\ decisions[c].fingerprint.assignment \in DOMAIN assignments
        /\ assignments[decisions[c].fingerprint.assignment] = c

\* Until a decision is acknowledged, all the answers given for an Assignment,
\* to any command and whatever the fleet became since, name one Worker, and it
\* is the Worker of the retained decision.
AnswersAgree ==
    \A a \in Assignments :
        told[a] = IF a \in DOMAIN assignments THEN {decisions[assignments[a]].worker} ELSE {}

\* Decisions are made under an installed barrier, and no barrier installed
\* later is older than the one of a retained decision.
DecisionsAuthorised ==
    \A c \in DOMAIN decisions :
        LET b == decisions[c].barrier IN
        b.ready /\ b.term <= barrier.term /\ b.index <= barrier.index

\* The Planner never retains more than maxDecisions records.
DecisionsBounded == Cardinality(DOMAIN decisions) <= MaxDecisions

\* At every moment the two maps agree, the records are within their bound, and
\* what is retained was decided under the authority of its time.
PlannerInvariant ==
    PlannerTypeOK /\ RecordsPaired /\ DecisionsAuthorised /\ DecisionsBounded

\* The preference the placement is documented by, stated without the code's
\* comparison: a better cache hit, then a Worker without a replica, then the
\* lower load, then the lower memory use.
Better(p, f, w, o) ==
    LET same == f[w].cache = f[o].cache
        spread == spreadScore(p, w) = spreadScore(p, o)
        load == f[w].allocatedSlots * f[o].slots = f[o].allocatedSlots * f[w].slots
    IN  \/ f[w].cache > f[o].cache
        \/ same /\ spreadScore(p, w) > spreadScore(p, o)
        \/ same /\ spread /\ f[w].allocatedSlots * f[o].slots < f[o].allocatedSlots * f[w].slots
        \/ /\ same /\ spread /\ load
           /\ f[w].allocatedMemory * f[o].memory < f[o].allocatedMemory * f[w].memory

\* A decision names a Worker that had room for the request when it was made,
\* and no other Worker with room was better.
DecisionsBest ==
    \A c \in DOMAIN decisions :
        LET f == decisions[c].fleet
            p == decisions[c].fingerprint.payload
            w == decisions[c].worker
            Room(o) == /\ f[o].allocatedSlots + p.slots <= f[o].slots
                       /\ f[o].allocatedMemory + p.memory <= f[o].memory
                       /\ f[o].intent = "Schedulable" /\ f[o].state = "Ready"
                       /\ f[o].compatible /\ f[o].labels
        IN Room(w) /\ \A o \in Workers : Room(o) => ~Better(p, f, o, w)

=============================================================================
