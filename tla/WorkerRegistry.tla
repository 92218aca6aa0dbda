--------------------------- MODULE WorkerRegistry ----------------------------
(***************************************************************************)
(* internal/workerregistry: which Worker Sessions are committed, which of  *)
(* them are alive, and which may be scheduled.  Every method is one        *)
(* critical section under Registry.mu, hence one step.  A call that is     *)
(* refused changes nothing and is left out, except the calls that read the *)
(* clock: a clock that went backwards fails the whole Registry closed.     *)
(*                                                                         *)
(* Runtime, Capacity, Labels and Cache travel with hasInventory and are    *)
(* not represented.  bootID, maxSessionEpoch and current are assigned      *)
(* together by CommitSession and by nothing else: boot and epoch stand for *)
(* all three.                                                              *)
(***************************************************************************)
EXTENDS Naturals, FiniteSets

CONSTANTS
  WorkerIDs, BootIDs,
  MaxWorkers, SuspectAfter, UnavailableAfter,   \* Config
  RevisionSize,      \* the revision counter wraps at this size (2^64 in the code)
  ClockMayRegress,   \* whether the injected clock may go backwards
  MaxEpoch, MaxInventory, MaxClock              \* bounds

ASSUME RegistryAssumption ==
  /\ MaxWorkers \in Nat \ {0}
  /\ SuspectAfter \in Nat \ {0} /\ UnavailableAfter \in Nat /\ SuspectAfter < UnavailableAfter
  /\ RevisionSize \in Nat /\ IsFiniteSet(WorkerIDs) /\ Cardinality(WorkerIDs) < RevisionSize
  /\ ClockMayRegress \in BOOLEAN
  /\ MaxEpoch \in Nat \ {0} /\ MaxInventory \in Nat /\ MaxClock \in Nat

VARIABLES workers, revision, clock, lastElapsed, clockHealthy

vars == <<workers, revision, clock, lastElapsed, clockHealthy>>

Intents == {"Schedulable", "Draining", "Removed"}
Drains == {"NotDraining", "Draining", "Drained"}
States == {"Joining", "Ready", "Suspect", "Unavailable"}

WorkerRecord ==
  [boot : BootIDs, epoch : 1..MaxEpoch, registered : BOOLEAN, needsNewSession : BOOLEAN,
   intent : Intents, drain : Drains, state : States,
   hasInventory : BOOLEAN, inventoryRevision : 0..MaxInventory, lastHeartbeat : 0..MaxClock]

Known == DOMAIN workers

Bump(n) == revision' = (revision + n) % RevisionSize

Init ==
  /\ workers = [w \in {} |-> {}]
  /\ revision = 0
  /\ clock = 0 /\ lastElapsed = 0 /\ clockHealthy = TRUE

\* The environment's clock goes on, and may jump back.
Tick ==
  /\ clock < MaxClock
  /\ clock' = clock + 1
  /\ UNCHANGED <<workers, revision, lastElapsed, clockHealthy>>

ClockRegresses ==
  /\ ClockMayRegress
  /\ \E now \in 0..MaxClock : now < clock /\ clock' = now
  /\ UNCHANGED <<workers, revision, lastElapsed, clockHealthy>>

-----------------------------------------------------------------------------
(* The clock (elapsedLocked): a reading that regresses marks every         *)
(* registered Worker Unavailable, without a new revision, and for good.    *)

ClockReadable == clockHealthy /\ clock >= lastElapsed

Failed(r) ==
  IF r.registered /\ r.intent # "Removed" THEN [r EXCEPT !.state = "Unavailable"] ELSE r

FailClosed ==
  /\ ~ClockReadable
  /\ clockHealthy' = FALSE
  /\ workers' = [w \in Known |-> Failed(workers[w])]
  /\ UNCHANGED <<revision, clock, lastElapsed>>

ReadClock ==
  /\ ClockReadable
  /\ lastElapsed' = clock
  /\ UNCHANGED <<clock, clockHealthy>>

-----------------------------------------------------------------------------
(* Sessions.                                                               *)

NextSession(r, boot) ==
  [r EXCEPT !.epoch = @ + 1, !.boot = boot, !.registered = FALSE, !.needsNewSession = FALSE,
            !.hasInventory = FALSE, !.inventoryRevision = 0, !.state = "Joining"]

FirstSession(boot) ==
  [boot |-> boot, epoch |-> 1, registered |-> FALSE, needsNewSession |-> FALSE,
   intent |-> "Schedulable", drain |-> "NotDraining", state |-> "Joining",
   hasInventory |-> FALSE, inventoryRevision |-> 0, lastHeartbeat |-> 0]

MayCommit(r) == r.intent # "Removed" /\ r.epoch < MaxEpoch

CommitSession(w, boot) ==
  /\ \/ /\ w \in Known /\ MayCommit(workers[w])
        /\ workers' = [workers EXCEPT ![w] = NextSession(workers[w], boot)]
     \/ /\ w \notin Known /\ Cardinality(Known) < MaxWorkers
        /\ workers' = [x \in Known \cup {w} |-> IF x = w THEN FirstSession(boot) ELSE workers[x]]
  /\ Bump(1)
  /\ UNCHANGED <<clock, lastElapsed, clockHealthy>>

\* Repeating a registration finds it registered and changes nothing.
Register(w, boot, epoch) ==
  /\ w \in Known
  /\ LET r == workers[w] IN
       /\ r.intent # "Removed" /\ r.boot = boot /\ r.epoch = epoch
       /\ ~r.needsNewSession /\ ~r.registered
       /\ \/ /\ ReadClock
             /\ workers' = [workers EXCEPT ![w] =
                  [r EXCEPT !.registered = TRUE, !.hasInventory = FALSE,
                            !.state = "Joining", !.lastHeartbeat = clock]]
             /\ Bump(1)
          \/ FailClosed

\* Mutation: an activated Worker goes on with its old session.
SessionCurrentOnly(w, boot, epoch) ==
  /\ w \in Known
  /\ workers[w].registered /\ workers[w].boot = boot /\ workers[w].epoch = epoch

\* currentLocked, and the newer session that an activated Worker needs.
SessionCurrent(w, boot, epoch) ==
  /\ w \in Known
  /\ workers[w].registered /\ workers[w].boot = boot /\ workers[w].epoch = epoch
  /\ ~workers[w].needsNewSession

ReportInventory(w, boot, epoch, inventory) ==
  /\ SessionCurrent(w, boot, epoch)
  /\ ~(workers[w].hasInventory /\ inventory < workers[w].inventoryRevision)
  /\ \/ /\ ReadClock
        /\ workers' = [workers EXCEPT ![w].hasInventory = TRUE, ![w].inventoryRevision = inventory,
                                      ![w].state = "Ready", ![w].lastHeartbeat = clock]
        /\ Bump(1)
     \/ FailClosed

Heartbeat(w, boot, epoch) ==
  /\ SessionCurrent(w, boot, epoch)
  /\ \/ /\ ReadClock
        /\ LET back == workers[w].hasInventory /\ workers[w].state \in {"Suspect", "Unavailable"} IN
             /\ workers' = [workers EXCEPT ![w].lastHeartbeat = clock,
                                           ![w].state = IF back THEN "Ready" ELSE @]
             /\ IF back THEN Bump(1) ELSE UNCHANGED revision
     \/ FailClosed

-----------------------------------------------------------------------------
(* Liveness of the Workers.                                                *)

Evaluated(r) == r.registered /\ ~r.needsNewSession /\ r.hasInventory

\* Mutation: the age of a heartbeat never reaches the bound.
ClassifiedNever(r) == IF clock - r.lastHeartbeat > MaxClock THEN "Suspect" ELSE "Ready"

Classified(r) ==
  LET elapsed == clock - r.lastHeartbeat IN
    CASE elapsed >= UnavailableAfter -> "Unavailable"
      [] elapsed < UnavailableAfter /\ elapsed >= SuspectAfter -> "Suspect"
      [] elapsed < SuspectAfter -> "Ready"

Evaluate ==
  \/ /\ ReadClock
     /\ LET Changed == {w \in Known : Evaluated(workers[w]) /\ Classified(workers[w]) # workers[w].state} IN
          /\ workers' = [w \in Known |-> IF w \in Changed
                           THEN [workers[w] EXCEPT !.state = Classified(workers[w])]
                           ELSE workers[w]]
          /\ Bump(Cardinality(Changed))
  \/ FailClosed

-----------------------------------------------------------------------------
(* Draining and removal.                                                   *)

SetIntentRemoved(w) ==
  /\ w \in Known
  /\ workers[w].intent = "Draining" /\ workers[w].drain = "Drained"
  /\ workers' = [workers EXCEPT ![w].intent = "Removed", ![w].registered = FALSE,
                                ![w].state = "Unavailable"]
  /\ Bump(1)
  /\ UNCHANGED <<clock, lastElapsed, clockHealthy>>

SetIntentDraining(w) ==
  /\ w \in Known /\ workers[w].intent = "Schedulable"
  /\ workers' = [workers EXCEPT ![w].intent = "Draining", ![w].drain = "Draining"]
  /\ Bump(1)
  /\ UNCHANGED <<clock, lastElapsed, clockHealthy>>

SetIntentSchedulable(w) ==
  /\ w \in Known /\ workers[w].intent = "Draining"
  /\ workers' = [workers EXCEPT ![w].intent = "Schedulable", ![w].drain = "NotDraining",
                                ![w].needsNewSession = TRUE, ![w].state = "Joining"]
  /\ Bump(1)
  /\ UNCHANGED <<clock, lastElapsed, clockHealthy>>

\* What a DrainObservation says: no calls, no Assignments, and a fence proof.
DrainProved(idle, assignmentsDrained, acked, expired) ==
  idle /\ assignmentsDrained /\ (acked \/ expired)

\* Mutation: a Worker that was activated meanwhile is reported drained as well.
MayDrainAny(w, boot, epoch) ==
  w \in Known /\ workers[w].registered /\ workers[w].boot = boot /\ workers[w].epoch = epoch

MayDrain(w, boot, epoch) ==
  /\ w \in Known /\ workers[w].registered /\ workers[w].boot = boot /\ workers[w].epoch = epoch
  /\ workers[w].intent = "Draining"

UpdateDrain(w, boot, epoch) ==
  /\ MayDrain(w, boot, epoch)
  /\ \E idle, assignmentsDrained, acked, expired \in BOOLEAN :
       LET next == IF DrainProved(idle, assignmentsDrained, acked, expired)
                   THEN "Drained" ELSE "Draining" IN
         /\ next # workers[w].drain
         /\ workers' = [workers EXCEPT ![w].drain = next]
  /\ Bump(1)
  /\ UNCHANGED <<clock, lastElapsed, clockHealthy>>

Next ==
  \/ Tick
  \/ ClockRegresses
  \/ Evaluate
  \/ \E w \in WorkerIDs :
       \/ SetIntentRemoved(w) \/ SetIntentDraining(w) \/ SetIntentSchedulable(w)
       \/ \E boot \in BootIDs :
            \/ CommitSession(w, boot)
            \/ \E epoch \in 1..MaxEpoch :
                 \/ Register(w, boot, epoch)
                 \/ Heartbeat(w, boot, epoch)
                 \/ UpdateDrain(w, boot, epoch)
                 \/ \E inventory \in 0..MaxInventory : ReportInventory(w, boot, epoch, inventory)

Spec == Init /\ [][Next]_vars

\* The convergence loop evaluates on every interval and time goes on; nothing
\* makes the clock jump back.
FairSpec == Spec /\ WF_vars(Tick) /\ WF_vars(Evaluate)

-----------------------------------------------------------------------------
(* Properties.                                                             *)

\* Every variable keeps its type and the Registry never knows more Workers than
\* its configured limit (CommitSession).
TypeOK ==
  /\ Known \subseteq WorkerIDs /\ Cardinality(Known) <= MaxWorkers
  /\ \A w \in Known : workers[w] \in WorkerRecord
  /\ revision \in 0..(RevisionSize - 1)
  /\ clock \in 0..MaxClock /\ lastElapsed \in 0..MaxClock /\ clockHealthy \in BOOLEAN

\* Whoever the scheduler may see as Ready (or Suspect) has registered its
\* current session and has reported an inventory under it: no order of
\* CommitSession, Register, SetIntent, Evaluate and late heartbeats revives the
\* inventory of a fenced or activated session.
ReadyIsBacked ==
  \A w \in Known : workers[w].state \in {"Ready", "Suspect"} =>
    /\ workers[w].registered /\ workers[w].hasInventory
    /\ ~workers[w].needsNewSession /\ workers[w].intent # "Removed"

\* Once the clock has been seen to regress nobody is Ready, whatever is
\* committed, registered, reported or activated afterwards (elapsedLocked).
FailsClosed ==
  ~clockHealthy => \A w \in Known : workers[w].state \notin {"Ready", "Suspect"}

\* The drain state is about the intent it was derived under: a Worker is
\* draining or drained exactly while it is not Schedulable, and only a drained
\* one is Removed.
DrainFollowsIntent ==
  \A w \in Known :
    /\ workers[w].intent = "Schedulable" <=> workers[w].drain = "NotDraining"
    /\ workers[w].intent = "Removed" => workers[w].drain = "Drained"

\* What every call of the Registry may rely on.
RegistryInvariant == TypeOK /\ ReadyIsBacked /\ FailsClosed /\ DrainFollowsIntent

ReadyWorkers == {w \in Known : workers[w].state = "Ready"}

\* What a step may make of one Worker.
Moves(r, q) ==
  /\ q.epoch \in {r.epoch, r.epoch + 1}
  /\ q.boot # r.boot => q.epoch > r.epoch
  /\ r.intent = "Removed" => q = r
  /\ r.needsNewSession =>
       /\ q.state # "Ready"
       /\ ~q.needsNewSession => q.epoch > r.epoch /\ ~q.registered

\* Session epochs only grow, one at a time, and an epoch belongs to one boot, so
\* that a late call of a fenced boot is never taken for the current session; a
\* removed identity stays as it was left; an activated Worker is not Ready again
\* before a newer session has registered; and whoever compares Revision and
\* ClockHealthy of two Snapshots misses no change of the Ready Workers.
SessionsMoveForward ==
  [][/\ \A w \in Known : w \in Known' /\ Moves(workers[w], workers'[w])
     /\ ReadyWorkers' # ReadyWorkers =>
          revision' # revision \/ clockHealthy' # clockHealthy]_vars

ReadySince(w, t) ==
  w \in Known /\ workers[w].state = "Ready" /\ workers[w].lastHeartbeat = t

\* A Worker that falls silent does not stay Ready, once the clock has stopped
\* going backwards: a Ready Worker whose last heartbeat leaves it time to become
\* Suspect is heard again, or loses Ready.
SilentWorkerLeaves ==
  <>[][clock' >= clock]_vars =>
    \A w \in WorkerIDs : \A t \in 0..MaxClock :
      (ReadySince(w, t) /\ t + SuspectAfter <= MaxClock) ~> ~ReadySince(w, t)

=============================================================================
