----------------------------- MODULE WorkerAgent -----------------------------
(***************************************************************************)
(* internal/workeragent: the Replicas of one Worker boot, their            *)
(* preparation, the invocations that run on them, and Close.  Agent.mu     *)
(* makes every section of a method between Lock and Unlock one step; what  *)
(* a method does after Unlock (waiting for a queue, releasing a lease,     *)
(* closing the cache) is a step of its own that others may precede.        *)
(*                                                                         *)
(* The compiled cache is external to this module: acquire returns a lease  *)
(* or an error at a moment of its choosing, close succeeds or fails.       *)
(* Digests, policies and module descriptions are left out: a request that  *)
(* validatePrepare refuses leaves no trace.                                *)
(***************************************************************************)
EXTENDS ServingGate

CONSTANTS
  Invocations,        \* goroutines inside Agent.Invoke
  Closers,            \* goroutines inside Agent.Close
  ProgramOf,          \* the compiled program an Assignment's module resolves to
  MaxAssignments,     \* Config.MaxAssignments
  Slots, Queue,       \* capacity of the slots and of the queue of each limiter
  MaxIncarnations     \* bound: Replicas prepared under one Assignment ID

ASSUME AgentAssumption ==
  /\ MaxAssignments \in Nat \ {0}
  /\ MaxIncarnations \in Nat \ {0}
  /\ IsFiniteSet(Invocations)

VARIABLES replicas, born, inv, closing, closer, cacheClosing, closed

vars == <<gate, now, replicas, born, inv, closing, closer, cacheClosing, closed>>

agentVars == <<born, closing, closer, cacheClosing, closed, now>>

-----------------------------------------------------------------------------
(* Replicas.                                                               *)

Live == {"Assigned", "Fetching", "Validating", "Compiling", "Ready"}

Terminal == {"Stopped", "Failed", "Lost"}

\* "Panic" is the panic of transitionLocked on an undefined transition.
States == Live \cup {"Draining", "Panic"} \cup Terminal

ValidReplicaTransition ==
     {<<"Assigned", "Fetching">>, <<"Fetching", "Validating">>,
      <<"Validating", "Compiling">>, <<"Compiling", "Ready">>, <<"Draining", "Stopped">>}
  \cup Live \X {"Draining", "Lost"}
  \cup {<<"Draining", "Lost">>}
  \cup {"Fetching", "Validating", "Compiling"} \X {"Failed"}

Transition(r, s) ==
  [r EXCEPT !.state = IF r.state = s \/ <<r.state, s>> \in ValidReplicaTransition
                        THEN s ELSE "Panic"]

Replica == [inc : 1..MaxIncarnations, connection : Connection, fence : Fence,
            state : States, lease : BOOLEAN, preparing : BOOLEAN, prepared : BOOLEAN,
            stop : BOOLEAN, users : Nat, active : Nat, releasing : BOOLEAN, done : BOOLEAN]

\* A Replica that is known to the Agent.
Known(a) == replicas[a] # None

Ready(a) == Known(a) /\ replicas[a].state = "Ready"

NewReplica(c, f, inc) ==
  [inc |-> inc, connection |-> c, fence |-> f, state |-> "Assigned", lease |-> FALSE,
   preparing |-> TRUE, prepared |-> FALSE, stop |-> FALSE, users |-> 0, active |-> 0,
   releasing |-> FALSE, done |-> FALSE]

\* finishTerminalLocked: done is closed once nothing of the Replica is left.
FinishTerminal(r) ==
  [r EXCEPT !.done = @ \/ (/\ r.state \in Terminal /\ ~r.preparing /\ r.users = 0
                           /\ ~r.lease /\ ~r.releasing)]

\* Mutation: the lease is taken out under the users of the Replica.
FinalizeBusy(r) ==
  LET s == IF r.state = "Draining" THEN Transition(r, "Stopped") ELSE r
  IN  IF r.preparing THEN r
      ELSE IF s.state \notin Terminal THEN s
      ELSE IF s.lease /\ ~s.releasing THEN [s EXCEPT !.lease = FALSE, !.releasing = TRUE]
      ELSE FinishTerminal(s)

\* finalizeIdleLocked: the lease is taken out under the lock, released after it.
FinalizeIdle(r) ==
  LET s == IF r.state = "Draining" THEN Transition(r, "Stopped") ELSE r
  IN  IF r.users # 0 \/ r.preparing THEN r
      ELSE IF s.state \notin Terminal THEN s
      ELSE IF s.lease /\ ~s.releasing THEN [s EXCEPT !.lease = FALSE, !.releasing = TRUE]
      ELSE FinishTerminal(s)

\* Mutation: nobody waiting in a queue is told.
StopReplicaSilently(r, s) ==
  IF r.state \in Terminal THEN r
  ELSE FinalizeIdle([Transition(r, s) EXCEPT !.prepared = @ \/ ~r.preparing])

\* drainReplicaLocked (s = "Draining") and loseReplicaLocked (s = "Lost").
StopReplica(r, s) ==
  IF r.state \in Terminal THEN r
  ELSE FinalizeIdle([Transition(r, s) EXCEPT !.stop = TRUE, !.prepared = @ \/ ~r.preparing])

\* Stopping a set of Replicas also revokes what the gate g holds for the ones
\* that were not terminal yet.
StopAll(ids, s, g) ==
  /\ replicas' = [a \in AssignmentIds |->
                    IF a \in ids THEN StopReplica(replicas[a], s) ELSE replicas[a]]
  /\ gate' = Revoke(g, {a \in ids : replicas[a].state \notin Terminal})

-----------------------------------------------------------------------------
(* Control.                                                                *)

\* A new session loses every Replica of another session; a raised epoch, even
\* one whose session is then refused, loses the Replicas still preparing.
AcceptControl(c) ==
  LET g == AcceptAuthoritativeControl(gate, c).gate
      fenced == {a \in AssignmentIds : Known(a) /\ g.session > gate.session
                   /\ replicas[a].fence.assignment.session # g.session}
      orphaned == {a \in AssignmentIds : Known(a) /\ replicas[a].preparing
                     /\ ~CheckAssignment(g, replicas[a].connection, replicas[a].fence)}
  IN  /\ ~closing
      /\ StopAll(fenced \cup orphaned, "Lost", g)
      /\ UNCHANGED <<agentVars, inv>>

Disconnect(c) ==
  LET g == DisconnectControl(gate, c)
      orphaned == {a \in AssignmentIds : Known(a) /\ gate.connected /\ ~g.connected
                     /\ replicas[a].preparing /\ replicas[a].connection = c}
  IN  /\ StopAll(orphaned, "Lost", g)
      /\ UNCHANGED <<agentVars, inv>>

\* A retry of the same preparation joins it and changes nothing.
Prepare(c, f) ==
  LET a == f.assignment.id
  IN  /\ ~closing
      /\ CheckAssignment(gate, c, f)
      /\ ~Known(a)
      /\ Cardinality({b \in AssignmentIds : Known(b)}) < MaxAssignments
      /\ born[a] < MaxIncarnations
      /\ born' = [born EXCEPT ![a] = @ + 1]
      /\ replicas' = [replicas EXCEPT ![a] =
                        Transition(NewReplica(c, f, born[a] + 1), "Fetching")]
      /\ UNCHANGED <<gate, now, inv, closing, closer, cacheClosing, closed>>

\* The lease of a preparation that is not wanted any more is handed back
\* outside the lock, like every other release.
HandBack(r) == [r EXCEPT !.preparing = FALSE, !.prepared = TRUE, !.releasing = TRUE]

\* finishPrepare, for what Cache.Acquire returned: an error, a lease, or a
\* lease on a program compiled for another profile.
FinishPrepare(a, outcome) ==
  LET r == replicas[a]
      stopped == IF r.state = "Draining" THEN Transition(r, "Stopped") ELSE r
      failed == IF r.state \in {"Draining", "Lost"} THEN stopped ELSE Transition(r, "Failed")
      ready == Transition(Transition(Transition(r, "Validating"), "Compiling"), "Ready")
  IN  /\ Known(a) /\ r.preparing
      /\ replicas' = [replicas EXCEPT ![a] =
           IF outcome = "error"
             THEN FinishTerminal([failed EXCEPT !.preparing = FALSE, !.stop = TRUE,
                                                !.prepared = TRUE])
           ELSE IF r.state \in {"Draining", "Lost"} \/ closing
             THEN HandBack(stopped)
           ELSE IF ~CheckAssignment(gate, r.connection, r.fence)
             THEN [HandBack(Transition(r, "Lost")) EXCEPT !.stop = TRUE]
           ELSE IF outcome = "mismatch"
             THEN [HandBack(Transition(r, "Failed")) EXCEPT !.stop = TRUE]
           ELSE [ready EXCEPT !.preparing = FALSE, !.prepared = TRUE, !.lease = TRUE]]
      /\ UNCHANGED <<gate, agentVars, inv>>

InstallAuthorization(c, auth) ==
  LET a == auth.fence.assignment.id
  IN  /\ ~closing
      /\ Ready(a) /\ replicas[a].fence.assignment = auth.fence.assignment
      /\ LET r == Install(gate, c, auth, now)
         IN  gate' = r.gate /\ Answer(r.ok, "installed", auth.fence)
      /\ UNCHANGED <<replicas, agentVars, inv>>

Cancel(c, f) ==
  LET a == f.assignment.id
  IN  /\ ~closing
      /\ CheckAssignment(gate, c, f)
      /\ Known(a) /\ replicas[a].fence.assignment = f.assignment
      /\ StopAll({a}, "Draining", gate)
      /\ UNCHANGED <<agentVars, inv>>

AcknowledgeTerminal(c, a) ==
  /\ ~closing
  /\ CheckControl(gate, c)
  /\ Known(a) /\ replicas[a].state \in Terminal /\ replicas[a].done
  /\ replicas' = [replicas EXCEPT ![a] = None]
  /\ UNCHANGED <<gate, agentVars, inv>>

\* Mutation: nobody looks at the Replica again after the release.
ReleaseLeaseOnly(a) ==
  /\ Known(a) /\ replicas[a].releasing
  /\ replicas' = [replicas EXCEPT ![a].releasing = FALSE]
  /\ UNCHANGED <<gate, agentVars, inv>>

\* release: the goroutine that took the lease out has called Lease.Release.
ReleaseLease(a) ==
  /\ Known(a) /\ replicas[a].releasing
  /\ replicas' = [replicas EXCEPT ![a] = FinishTerminal([@ EXCEPT !.releasing = FALSE])]
  /\ UNCHANGED <<gate, agentVars, inv>>

-----------------------------------------------------------------------------
(* Invocations.  pc names what a goroutine waits for: "looked" is between  *)
(* the two locked sections of Invoke that precede the queues, a limiter's  *)
(* name is inside its acquire, "recheck" and "check" are the two locked    *)
(* looks at the Replica, "finishing" is past every deferred slot release.  *)

Limiters == {"replica", "program", "agent", "engine"}

After == [replica |-> "recheck", program |-> "agent", agent |-> "engine", engine |-> "check"]

\* The pcs at which a slot of the limiter is held.
Holding == [replica |-> {"recheck", "program", "agent", "engine", "check", "accepted"},
            program |-> {"agent", "engine", "check", "accepted"},
            agent   |-> {"engine", "check", "accepted"},
            engine  |-> {"check", "accepted"}]

\* The pcs at which the invocation is one of its Replica's users.
Counted == Limiters \cup {"recheck", "check", "accepted", "finishing"}

Pcs == Counted \cup {"idle", "looked"}

Invocation == [pc : Pcs, fence : Fence \cup {None}, inc : 0..MaxIncarnations,
               queue : {"no", "waiting", "leaving"}, accepted : BOOLEAN]

Idle == [pc |-> "idle", fence |-> None, inc |-> 0, queue |-> "no", accepted |-> FALSE]

Of(i) == inv[i].fence.assignment.id

\* The Replica the invocation looked up is still the one in the map.
Same(i) == Known(Of(i)) /\ replicas[Of(i)].inc = inv[i].inc

StillReady(i) == ~closing /\ Same(i) /\ Ready(Of(i))

Stopped(i) == closing \/ replicas[Of(i)].stop

\* Every Replica has a limiter of its own, every program one, the Agent and
\* the Engine one each.
SameLimiter(i, j, limiter) ==
  CASE limiter = "replica" -> Of(i) = Of(j)
    [] limiter = "program" -> ProgramOf[Of(i)] = ProgramOf[Of(j)]
    [] limiter \in {"agent", "engine"} -> TRUE

\* A call that waited in the queue has a place in both channels until acquire
\* returns.
HoldsSlot(j, l) == inv[j].pc \in Holding[l] \/ (inv[j].pc = l /\ inv[j].queue = "leaving")

SlotFree(i) ==
  LET l == inv[i].pc
  IN  Cardinality({j \in Invocations : HoldsSlot(j, l) /\ SameLimiter(i, j, l)}) < Slots[l]

QueueFree(i) ==
  LET l == inv[i].pc
  IN  Cardinality({j \in Invocations : inv[j].pc = l /\ inv[j].queue # "no" /\ SameLimiter(i, j, l)})
        < Queue[l]

Goto(i, pc) == inv' = [inv EXCEPT ![i].pc = pc, ![i].queue = "no"]

Lookup(i, f) ==
  LET a == f.assignment.id
  IN  /\ inv[i].pc = "idle"
      /\ ~closing /\ Ready(a) /\ replicas[a].fence.assignment = f.assignment
      /\ inv' = [inv EXCEPT ![i] = [Idle EXCEPT !.pc = "looked", !.fence = f,
                                                !.inc = replicas[a].inc]]
      /\ UNCHANGED <<gate, replicas, agentVars>>

\* The map is read a second time: the Replica may be gone or replaced.
Enter(i) ==
  /\ inv[i].pc = "looked"
  /\ StillReady(i)
  /\ replicas' = [replicas EXCEPT ![Of(i)].users = @ + 1]
  /\ Goto(i, "replica")
  /\ UNCHANGED <<gate, agentVars>>

TurnAway(i) ==
  /\ inv[i].pc = "looked"
  /\ inv' = [inv EXCEPT ![i] = Idle]
  /\ UNCHANGED <<gate, replicas, agentVars>>

\* The look at the stop channels that acquire begins with may lie in the past,
\* and a closed stop and a free slot are chosen between at random.
AcquireSlot(i) ==
  /\ inv[i].pc \in Limiters /\ inv[i].queue = "no"
  /\ SlotFree(i)
  /\ Goto(i, After[inv[i].pc])
  /\ UNCHANGED <<gate, replicas, agentVars>>

EnterQueue(i) ==
  /\ inv[i].pc \in Limiters /\ inv[i].queue = "no"
  /\ ~SlotFree(i) /\ QueueFree(i)
  /\ inv' = [inv EXCEPT ![i].queue = "waiting"]
  /\ UNCHANGED <<gate, replicas, agentVars>>

AcquireQueued(i) ==
  /\ inv[i].pc \in Limiters /\ inv[i].queue = "waiting"
  /\ SlotFree(i)
  /\ inv' = [inv EXCEPT ![i].queue = "leaving"]
  /\ UNCHANGED <<gate, replicas, agentVars>>

LeaveQueue(i) ==
  /\ inv[i].queue = "leaving"
  /\ Goto(i, After[inv[i].pc])
  /\ UNCHANGED <<gate, replicas, agentVars>>

AdmissionStops(i) ==
  /\ inv[i].pc \in Limiters /\ inv[i].queue # "leaving"
  /\ Stopped(i)
  /\ Goto(i, "finishing")
  /\ UNCHANGED <<gate, replicas, agentVars>>

Overloaded(i) ==
  /\ inv[i].pc \in Limiters /\ inv[i].queue = "no"
  /\ ~SlotFree(i) /\ ~QueueFree(i)
  /\ Goto(i, "finishing")
  /\ UNCHANGED <<gate, replicas, agentVars>>

\* The deadline may pass at any moment before acceptance.
DeadlineExceeded(i) ==
  /\ inv[i].pc \in Limiters \cup {"check"} /\ inv[i].queue # "leaving"
  /\ Goto(i, "finishing")
  /\ UNCHANGED <<gate, replicas, agentVars>>

Recheck(i) ==
  /\ inv[i].pc = "recheck"
  /\ Goto(i, IF StillReady(i) THEN "program" ELSE "finishing")
  /\ UNCHANGED <<gate, replicas, agentVars>>

\* Mutation: the permission seen before the queues is not looked at again.
AcceptUnchecked(i) ==
  /\ inv[i].pc = "check"
  /\ ~Stopped(i)
  /\ replicas' = [replicas EXCEPT ![Of(i)].active = @ + 1]
  /\ inv' = [inv EXCEPT ![i].pc = "accepted", ![i].accepted = TRUE]
  /\ Answer(TRUE, "accepted", inv[i].fence)
  /\ UNCHANGED <<gate, agentVars>>

\* acceptanceStopped, then the Check callback: the one serving decision, after
\* every queue and before the guest exists.  The deadline is looked at again
\* after AuthorizeSync.
Accept(i) ==
  \E inTime \in BOOLEAN :
    LET r == AuthorizeSync(gate, inv[i].fence, now)
        accepted == StillReady(i) /\ r.ok /\ inTime
    IN  /\ inv[i].pc = "check"
        /\ ~Stopped(i)
        /\ gate' = IF StillReady(i) THEN r.gate ELSE gate
        /\ Answer(StillReady(i) /\ r.ok, "accepted", inv[i].fence)
        /\ replicas' = IF accepted THEN [replicas EXCEPT ![Of(i)].active = @ + 1] ELSE replicas
        /\ inv' = [inv EXCEPT ![i].pc = IF accepted THEN "accepted" ELSE "finishing",
                              ![i].accepted = accepted]
        /\ UNCHANGED agentVars

AcceptanceStopped(i) ==
  /\ inv[i].pc = "check"
  /\ Stopped(i)
  /\ Goto(i, "finishing")
  /\ UNCHANGED <<gate, replicas, agentVars>>

GuestEnds(i) ==
  /\ inv[i].pc = "accepted"
  /\ Goto(i, "finishing")
  /\ UNCHANGED <<gate, replicas, agentVars>>

\* finishInvocation.
Finish(i) ==
  LET a == Of(i)
      r == replicas[a]
  IN  /\ inv[i].pc = "finishing"
      /\ replicas' = [replicas EXCEPT ![a] =
           FinalizeIdle([r EXCEPT !.users = @ - 1,
                                  !.active = IF inv[i].accepted THEN @ - 1 ELSE @])]
      /\ inv' = [inv EXCEPT ![i] = Idle]
      /\ UNCHANGED <<gate, agentVars>>

-----------------------------------------------------------------------------
(* Close.                                                                  *)

BeginClose(k) ==
  /\ closer[k] = "idle"
  /\ closing' = TRUE
  /\ StopAll({a \in AssignmentIds : Known(a)}, "Draining", gate)
  /\ closer' = [closer EXCEPT ![k] = "waiting"]
  /\ UNCHANGED <<now, born, inv, cacheClosing, closed>>

AllDone == \A a \in AssignmentIds : Known(a) => replicas[a].done

\* closeCache: one closer at a time closes the cache, the others wait for it.
CloseCache(k) ==
  /\ closer[k] = "waiting"
  /\ AllDone /\ ~cacheClosing
  /\ cacheClosing' = ~closed
  /\ closer' = [closer EXCEPT ![k] = IF closed THEN "idle" ELSE "closing"]
  /\ UNCHANGED <<gate, now, replicas, born, inv, closing, closed>>

CacheClosed(k, ok) ==
  /\ closer[k] = "closing"
  /\ cacheClosing' = FALSE
  /\ closed' = (closed \/ ok)
  /\ closer' = [closer EXCEPT ![k] = "idle"]
  /\ UNCHANGED <<gate, now, replicas, born, inv, closing>>

\* The caller's context ends while Close waits.
CloseGivesUp(k) ==
  /\ closer[k] = "waiting"
  /\ closer' = [closer EXCEPT ![k] = "idle"]
  /\ UNCHANGED <<gate, now, replicas, born, inv, closing, cacheClosing, closed>>

Tick ==
  /\ now < MaxTime
  /\ now' = now + 1
  /\ UNCHANGED <<gate, replicas, born, inv, closing, closer, cacheClosing, closed>>

-----------------------------------------------------------------------------
Init ==
  /\ GateInit
  /\ replicas = [a \in AssignmentIds |-> None]
  /\ born = [a \in AssignmentIds |-> 0]
  /\ inv = [i \in Invocations |-> Idle]
  /\ closing = FALSE
  /\ closer = [k \in Closers |-> "idle"]
  /\ cacheClosing = FALSE
  /\ closed = FALSE

ControlNext ==
  \/ \E c \in Connection : AcceptControl(c) \/ Disconnect(c)
  \/ \E c \in Connection, f \in Fence : Prepare(c, f) \/ Cancel(c, f)
  \/ \E c \in Connection, a \in AssignmentIds : AcknowledgeTerminal(c, a)

ReplicaNext(a) ==
  \/ \E outcome \in {"lease", "mismatch", "error"} : FinishPrepare(a, outcome)
  \/ ReleaseLease(a)

InvocationNext(i) ==
  \/ \E f \in Fence : Lookup(i, f)
  \/ Enter(i) \/ TurnAway(i) \/ AcquireSlot(i)
  \/ EnterQueue(i) \/ AcquireQueued(i) \/ LeaveQueue(i)
  \/ AdmissionStops(i) \/ Overloaded(i) \/ DeadlineExceeded(i) \/ Recheck(i)
  \/ AcceptanceStopped(i) \/ GuestEnds(i) \/ Finish(i)

CloserNext(k) ==
  \/ BeginClose(k) \/ CloseCache(k) \/ CloseGivesUp(k)
  \/ \E ok \in BOOLEAN : CacheClosed(k, ok)

\* The steps in which the gate grants nothing and accepts nobody.
QuietNext ==
  \/ ControlNext
  \/ \E a \in AssignmentIds : ReplicaNext(a)
  \/ \E i \in Invocations : InvocationNext(i)
  \/ \E k \in Closers : CloserNext(k)
  \/ Tick

Next ==
  \/ QuietNext /\ reply' = Silent
  \/ \E c \in Connection, auth \in Authorization : InstallAuthorization(c, auth)
  \/ \E i \in Invocations : Accept(i)

Spec == Init /\ [][Next]_<<vars, reply>>

\* The Agent's own goroutines are scheduled, Cache.Acquire returns within the
\* preparation deadline, Lease.Release and Cache.Close return.  No fairness is
\* asked of callers, of deadlines or of guests.
Fairness ==
  /\ \A a \in AssignmentIds :
       /\ WF_vars(\E outcome \in {"lease", "mismatch", "error"} : FinishPrepare(a, outcome))
       /\ WF_vars(ReleaseLease(a))
  /\ \A i \in Invocations :
       /\ WF_vars(Enter(i) \/ TurnAway(i))
       /\ WF_vars(AdmissionStops(i))
       /\ WF_vars(LeaveQueue(i))
       /\ WF_vars(Recheck(i))
       /\ WF_vars(Accept(i) \/ AcceptanceStopped(i))
       /\ WF_vars(Finish(i))
  /\ \A k \in Closers :
       /\ WF_vars(CloseCache(k))
       /\ WF_vars(\E ok \in BOOLEAN : CacheClosed(k, ok))

FairSpec == Spec /\ Fairness

\* Guests end too: wazero stops them at their deadline.
GuestsEnd == \A i \in Invocations : WF_vars(GuestEnds(i))

-----------------------------------------------------------------------------
(* Properties.                                                             *)

\* Every variable keeps its type; only the clock bound is the model's own.
TypeOK ==
  /\ GateTypeOK /\ now <= MaxTime
  /\ replicas \in [AssignmentIds -> Replica \cup {None}]
  /\ born \in [AssignmentIds -> 0..MaxIncarnations]
  /\ inv \in [Invocations -> Invocation]
  /\ closing \in BOOLEAN /\ cacheClosing \in BOOLEAN /\ closed \in BOOLEAN
  /\ closer \in [Closers -> {"idle", "waiting", "closing"}]

\* transitionLocked never panics: no interleaving of control, preparation,
\* invocations and Close asks for a transition the state graph does not have.
NoPanic == \A a \in AssignmentIds : Known(a) => replicas[a].state # "Panic"

UsersOf(a) == {i \in Invocations : inv[i].pc \in Counted /\ Of(i) = a}

\* users counts exactly the invocations past their second look at the map, and
\* active the accepted ones that have not finished.
UsersAccounted ==
  \A a \in AssignmentIds :
    /\ Known(a) => /\ replicas[a].users = Cardinality(UsersOf(a))
                   /\ replicas[a].active = Cardinality({i \in UsersOf(a) : inv[i].accepted})
    /\ ~Known(a) => UsersOf(a) = {}

\* An invocation that counts as a user runs on the very Replica it looked up,
\* whose lease is neither released nor being released: the compiled program
\* cannot be closed under a queued or running call.
LeaseOutlivesUsers ==
  \A i \in Invocations : inv[i].pc \in Counted =>
    Same(i) /\ replicas[Of(i)].lease /\ ~replicas[Of(i)].releasing

\* The gate tracks an Assignment only while its Replica is Ready, with the
\* identity the Replica was prepared for: permission given to one Replica is
\* gone before another can be prepared under the same Assignment ID.
PermissionNeedsReadyReplica ==
  \A a \in AssignmentIds : gate.assignments[a] # None =>
    Ready(a) /\ replicas[a].fence.assignment = gate.assignments[a]

\* A Replica still preparing and not yet stopped is bound to the connection
\* that is current: every way to lose a connection has already stopped it.
PreparingIsCurrent ==
  \A a \in AssignmentIds :
    Known(a) /\ replicas[a].preparing /\ replicas[a].state \in Live =>
      ~closing /\ CheckAssignment(gate, replicas[a].connection, replicas[a].fence)

\* done is closed only when nothing is left to release, and stays true: no
\* user, no lease, no release under way, no preparation.
DoneIsFinal ==
  \A a \in AssignmentIds : Known(a) /\ replicas[a].done =>
    /\ replicas[a].state \in Terminal
    /\ ~replicas[a].lease /\ ~replicas[a].releasing /\ ~replicas[a].preparing
    /\ replicas[a].users = 0

\* The cache is closed, or being closed, only after Close has drained every
\* Replica; in particular no invocation is anywhere in its queues or a guest.
CacheClosesLast ==
  cacheClosing \/ closed =>
    /\ closing /\ AllDone
    /\ \A i \in Invocations : inv[i].pc \in {"idle", "looked"}

\* What every locked section of the Agent may rely on: types, counts, the
\* state graph, and the order in which Replicas and cache are taken down.
AgentInvariant ==
  /\ TypeOK /\ NoPanic /\ UsersAccounted /\ LeaseOutlivesUsers
  /\ PreparingIsCurrent /\ DoneIsFinal /\ CacheClosesLast

\* A call is accepted only while its Replica is Ready and the Agent is open,
\* and an accepted call is not taken away from its guest by what follows:
\* Cancel, a new session, disconnection and Close let it finish.
AcceptedRunsOn ==
  [][\A i \in Invocations :
       /\ inv[i].pc # "accepted" /\ inv'[i].pc = "accepted" =>
            ~closing /\ Ready(Of(i)) /\ gate'.clockHealthy
              /\ inv[i].fence.disc = gate.highest
              /\ inv[i].fence.assignment.session = gate.session
       /\ inv[i].pc = "accepted" =>
            inv'[i].pc \in {"accepted", "finishing"}
              /\ replicas'[Of(i)] # None /\ replicas'[Of(i)].lease]_vars

\* A call that is not accepted yet leaves once its Replica is no longer Ready or
\* the Agent closes, wherever it is queued, even if no guest ever ends and no
\* deadline passes.
QueuedLeavesOnStop ==
  \A i \in Invocations :
    (inv[i].pc \in Counted \ {"accepted"} /\ ~StillReady(i)) ~> (inv[i].pc = "idle")

\* If guests end, a stopped Replica is released completely and its done channel
\* closed, and a Close that does not give up ends with the cache closed or an
\* error.
StoppedIsReleased ==
  GuestsEnd =>
    /\ \A a \in AssignmentIds :
         (Known(a) /\ replicas[a].state \notin Live) ~> (~Known(a) \/ replicas[a].done)
    /\ \A k \in Closers : (closer[k] # "idle") ~> (closer[k] = "idle")

=============================================================================
