----------------------------- MODULE Convergence -----------------------------
(***************************************************************************)
(* The convergence pass of the local core (internal/localcore Converge)    *)
(* from the control plane's intent to the Gateway: placement commits or    *)
(* cancels Assignment intent, the reconciler (internal/localworker)        *)
(* prepares or stops replicas on the Worker Agent and keeps the registry   *)
(* of candidates, and the full sync (internal/localserving) has discovery  *)
(* (internal/discovery) build the view the Gateway serves from.  Each      *)
(* phase works from lists it read at its start, while operators publish    *)
(* routes and disable Functions and the Gateway sends calls.               *)
(*                                                                         *)
(* ControlPlane, WorkerAgent and ServingDiscovery model the three stores   *)
(* in detail; here a store call is one step on the state the others see.   *)
(* All Versions are admitted.                                              *)
(***************************************************************************)
EXTENDS Integers, Sequences, FiniteSets, FiniteSetsExt

CONSTANTS
    Functions, Versions,
    Calls,          \* concurrent Gateway calls
    NoVersion,      \* a Function without Route
    MaxChanges,     \* bound on publications, lifecycle changes, and passes and
                    \* preparations that are cut short
    MaxAssignments  \* bound on Assignments

ASSUME NoVersionAssumption == NoVersion \notin Versions
ASSUME BoundsAssumption == MaxChanges \in Nat /\ MaxAssignments \in Nat

VARIABLES
    lifecycle, route,  \* per Function, in the control plane
    changes,
    intent,            \* AssignmentStore: the records, in creation order
    replica,           \* Worker Agent: Assignment |-> replica state
    authorized,        \* Assignments whose authorization was installed
    candidates,        \* Reconciler.candidates
    view,              \* what the Gateway holds for each Function
    pass,              \* the convergence pass, under convergeMu
    call               \* the Gateway calls

control == <<lifecycle, route, changes>>
worker == <<replica, authorized>>
convergenceVars == <<control, intent, worker, candidates, view, pass, call>>

IDs == 1..MaxAssignments
AtRest == [at |-> "idle"]

ConvergenceInit ==
    /\ lifecycle = [f \in Functions |-> "Active"]
    /\ route = [f \in Functions |-> NoVersion]
    /\ changes = 0
    /\ intent = <<>>
    /\ replica = [a \in IDs |-> "none"] /\ authorized = {}
    /\ candidates = {}
    /\ view = [f \in Functions |-> [active |-> FALSE, version |-> NoVersion, endpoints |-> {}]]
    /\ pass = AtRest
    /\ call = [c \in Calls |-> AtRest]

(***************************************************************************)
(* Operators.  A Route is published for an Active Function only.           *)
(***************************************************************************)
Publish(f, v) ==
    /\ changes < MaxChanges /\ lifecycle[f] = "Active"
    /\ route' = [route EXCEPT ![f] = v]
    /\ changes' = changes + 1
    /\ UNCHANGED <<lifecycle, intent, worker, candidates, view, pass, call>>

SetLifecycle(f, l) ==
    /\ changes < MaxChanges /\ lifecycle[f] # l
    /\ lifecycle' = [lifecycle EXCEPT ![f] = l]
    /\ changes' = changes + 1
    /\ UNCHANGED <<route, intent, worker, candidates, view, pass, call>>

(***************************************************************************)
(* placeLocalAssignments                                                   *)
(***************************************************************************)
servableTarget(f) == IF lifecycle[f] = "Active" THEN route[f] ELSE NoVersion

Assigned(f) == {a \in DOMAIN intent : intent[a].function = f /\ intent[a].state = "Assigned"}

PlaceTargets ==
    /\ pass.at = "idle"
    /\ pass' = [at |-> "targets", target |-> [f \in Functions |-> servableTarget(f)]]
    /\ UNCHANGED <<control, intent, worker, candidates, view, call>>

PlaceLive ==
    /\ pass.at = "targets"
    /\ pass' = [at |-> "placing", target |-> pass.target,
                live |-> [f \in Functions |-> IF Assigned(f) = {} THEN 0 ELSE Max(Assigned(f))],
                todo |-> {f \in Functions : pass.target[f] # NoVersion}]
    /\ UNCHANGED <<control, intent, worker, candidates, view, call>>

Placed(f) == pass' = [pass EXCEPT !.todo = @ \ {f}]

\* The live placement matches the target, or the planner finds no room.
PlaceSkip(f) ==
    /\ pass.at = "placing" /\ f \in pass.todo
    /\ pass.live[f] # 0 => intent[pass.live[f]].version = pass.target[f]
    /\ Placed(f)
    /\ UNCHANGED <<control, intent, worker, candidates, view, call>>

PlaceCancel(f) ==
    /\ pass.at = "placing" /\ f \in pass.todo
    /\ pass.live[f] # 0 /\ intent[pass.live[f]].version # pass.target[f]
    /\ intent' = [intent EXCEPT ![pass.live[f]].state = "Cancelled"]
    /\ Placed(f)
    /\ UNCHANGED <<control, worker, candidates, view, call>>

\* Mutation: the replacement does not wait for the next pass.
PlaceCommitEagerly(f) ==
    /\ pass.at = "placing" /\ f \in pass.todo
    /\ pass.live[f] # 0 => intent[pass.live[f]].version # pass.target[f]
    /\ Len(intent) < MaxAssignments
    /\ intent' = IF servableTarget(f) = pass.target[f]
                 THEN Append(intent, [function |-> f, version |-> pass.target[f],
                                      state |-> "Assigned"])
                 ELSE intent
    /\ Placed(f)
    /\ UNCHANGED <<control, worker, candidates, view, call>>

\* placeTarget: the store checks the placement against the current Route.
PlaceCommit(f) ==
    /\ pass.at = "placing" /\ f \in pass.todo
    /\ pass.live[f] = 0
    /\ Len(intent) < MaxAssignments
    /\ intent' = IF servableTarget(f) = pass.target[f]
                 THEN Append(intent, [function |-> f, version |-> pass.target[f],
                                      state |-> "Assigned"])
                 ELSE intent
    /\ Placed(f)
    /\ UNCHANGED <<control, worker, candidates, view, call>>

(***************************************************************************)
(* Reconcile                                                               *)
(***************************************************************************)
ReconcileList ==
    /\ pass.at = "placing" /\ pass.todo = {}
    /\ pass' = [at |-> "listed", list |-> intent]
    /\ UNCHANGED <<control, intent, worker, candidates, view, call>>

\* The serving states are read second; candidates without intent go at once.
ReconcileStates ==
    /\ pass.at = "listed"
    /\ pass' = [at |-> "reconciling", list |-> pass.list, version |-> route, todo |-> DOMAIN pass.list]
    /\ candidates' = {a \in candidates :
                         a \in DOMAIN pass.list /\ pass.list[a].state = "Assigned"}
    /\ UNCHANGED <<control, intent, worker, view, call>>

\* Something ends a pass or a preparation early.
CutShort ==
    /\ changes < MaxChanges
    /\ changes' = changes + 1
    /\ UNCHANGED <<lifecycle, route>>

\* Reconcile returns at a WorkerSnapshot or an AcceptControl that fails, before
\* it touches a candidate; Converge goes on to the full sync.
ReconcileStops ==
    /\ pass.at = "listed"
    /\ pass' = [at |-> "reconciling", list |-> pass.list, version |-> route, todo |-> {}]
    /\ CutShort
    /\ UNCHANGED <<intent, worker, candidates, view, call>>

\* One record of the list.  The list is in the order of the Assignment IDs, which
\* are random: any record may be next.
Reconciling(a, state) ==
    /\ pass.at = "reconciling" /\ a \in pass.todo
    /\ pass.list[a].state = state
    /\ pass' = [pass EXCEPT !.todo = @ \ {a}]
    /\ UNCHANGED <<intent, view, call>>

terminal(state) == state \in {"Stopped", "Failed"}

Running(a) == {c \in Calls : call[c].at = "running" /\ call[c].assignment = a}

\* Agent.Cancel: accepted calls finish before the replica stops.
Drained(a) == IF Running(a) = {} THEN "Stopped" ELSE "Draining"

\* prepareRequest refuses a record that is not of the state's Version.
Prepares(a) == pass.list[a].version = pass.version[pass.list[a].function]

\* Mutation: a replica that is Ready already is left alone.
ReconcileNewOnly(a) ==
    /\ Reconciling(a, "Assigned") /\ UNCHANGED control
    /\ IF ~Prepares(a) \/ replica[a] \notin {"none", "Ready"}
       THEN candidates' = candidates \ {a} /\ UNCHANGED worker
       ELSE /\ replica' = [replica EXCEPT ![a] = "Ready"]
            /\ authorized' = authorized \cup {a}
            /\ candidates' = IF replica[a] = "Ready" THEN candidates ELSE candidates \cup {a}

\* reconcileAssigned, up to an installed authorization and a candidate, or to a
\* refusal that drops the candidate.
ReconcileAssigned(a) ==
    /\ Reconciling(a, "Assigned") /\ UNCHANGED control
    /\ IF ~Prepares(a) \/ replica[a] \notin {"none", "Ready"}
       THEN candidates' = candidates \ {a} /\ UNCHANGED worker
       ELSE /\ replica' = [replica EXCEPT ![a] = "Ready"]
            /\ authorized' = authorized \cup {a}
            /\ candidates' = candidates \cup {a}

\* reconcileAssigned when Prepare fails: the replica is cancelled, the intent stays.
PrepareFails(a) ==
    /\ Reconciling(a, "Assigned") /\ UNCHANGED control
    /\ Prepares(a) /\ replica[a] = "none"
    /\ replica' = [replica EXCEPT ![a] = "Failed"]
    /\ candidates' = candidates \ {a}
    /\ UNCHANGED authorized

\* reconcileAssigned when the Agent refuses the Prepare before it has a replica:
\* its table is full, or it is about to close.  The next pass tries again.
PrepareRefused(a) ==
    /\ Reconciling(a, "Assigned")
    /\ Prepares(a) /\ replica[a] = "none"
    /\ candidates' = candidates \ {a}
    /\ CutShort
    /\ UNCHANGED worker

\* reconcileAssigned when the authorization cannot be installed: the replica,
\* new or serving, is cancelled and the intent stays.
InstallFails(a) ==
    /\ Reconciling(a, "Assigned") /\ UNCHANGED control
    /\ Prepares(a) /\ replica[a] \in {"none", "Ready"}
    /\ replica' = [replica EXCEPT ![a] = Drained(a)]
    /\ authorized' = authorized \ {a}
    /\ candidates' = candidates \ {a}

\* Mutation: the replica is stopped under its calls.
ReconcileCancelledHard(a) ==
    /\ Reconciling(a, "Cancelled") /\ UNCHANGED control
    /\ candidates' = candidates \ {a}
    /\ authorized' = authorized \ {a}
    /\ replica' = [replica EXCEPT ![a] = "none"]

\* reconcileCancelled: stop the replica, acknowledge it once it is terminal.
ReconcileCancelled(a) ==
    LET s == IF replica[a] = "Ready" THEN Drained(a) ELSE replica[a] IN
    /\ Reconciling(a, "Cancelled") /\ UNCHANGED control
    /\ candidates' = candidates \ {a}
    /\ authorized' = authorized \ {a}
    /\ replica' = [replica EXCEPT ![a] = IF terminal(s) THEN "none" ELSE s]

(***************************************************************************)
(* FullSync: the states are read once, the candidates Function by          *)
(* Function, then one batch is built and applied.                          *)
(***************************************************************************)
SyncStates ==
    /\ pass.at = "reconciling" /\ pass.todo = {}
    /\ pass' = [at |-> "collecting", active |-> [f \in Functions |-> lifecycle[f] = "Active"],
                version |-> route, todo |-> Functions, found |-> [f \in Functions |-> {}]]
    /\ UNCHANGED <<control, intent, worker, candidates, view, call>>

SyncCandidates(f) ==
    /\ pass.at = "collecting" /\ f \in pass.todo
    /\ pass' = [pass EXCEPT !.todo = @ \ {f},
                            !.found[f] = {a \in candidates : intent[a].function = f
                                                             /\ replica[a] = "Ready"}]
    /\ UNCHANGED <<control, intent, worker, candidates, view, call>>

\* exclusionReasons: the Function is Active and its Route names the Version.
Included(f, a) == pass.active[f] /\ intent[a].version = pass.version[f]

SyncApply ==
    /\ pass.at = "collecting" /\ pass.todo = {}
    /\ view' = [f \in Functions |->
                   [active |-> pass.active[f], version |-> pass.version[f],
                    endpoints |-> {a \in pass.found[f] : Included(f, a)}]]
    /\ pass' = AtRest
    /\ UNCHANGED <<control, intent, worker, candidates, call>>

\* The context ends, or a phase cannot read what it needs: the pass stops where
\* it is, and what it has done so far stays.
PassStops ==
    /\ pass.at # "idle"
    /\ pass' = AtRest
    /\ CutShort
    /\ UNCHANGED <<intent, worker, candidates, view, call>>

(***************************************************************************)
(* The Gateway: one lookup, one Endpoint, one Worker call with its fence.  *)
(***************************************************************************)
Select(c, f, a) ==
    /\ call[c].at = "idle"
    /\ view[f].active /\ a \in view[f].endpoints
    /\ call' = [call EXCEPT ![c] = [at |-> "selected", function |-> f, assignment |-> a,
                                    version |-> view[f].version]]
    /\ UNCHANGED <<control, intent, worker, candidates, view, pass>>

Accept(c) ==
    /\ call[c].at = "selected"
    /\ LET a == call[c].assignment IN
       call' = [call EXCEPT ![c] = IF replica[a] = "Ready" /\ a \in authorized
                                   THEN [@ EXCEPT !.at = "running"] ELSE AtRest]
    /\ UNCHANGED <<control, intent, worker, candidates, view, pass>>

FinishCall(c) ==
    /\ call[c].at = "running"
    /\ LET a == call[c].assignment IN
       replica' = IF replica[a] = "Draining" /\ Running(a) = {c}
                  THEN [replica EXCEPT ![a] = "Stopped"] ELSE replica
    /\ call' = [call EXCEPT ![c] = AtRest]
    /\ UNCHANGED <<control, intent, authorized, candidates, view, pass>>

Operator == \E f \in Functions :
    \/ \E v \in Versions : Publish(f, v)
    \/ \E l \in {"Active", "Disabled"} : SetLifecycle(f, l)

Converge ==
    \/ PlaceTargets \/ PlaceLive
    \/ \E f \in Functions : PlaceSkip(f) \/ PlaceCancel(f) \/ PlaceCommit(f) \/ SyncCandidates(f)
    \/ ReconcileList \/ ReconcileStates \/ ReconcileStops
    \/ \E a \in IDs : \/ ReconcileAssigned(a) \/ PrepareFails(a) \/ PrepareRefused(a)
                      \/ InstallFails(a) \/ ReconcileCancelled(a)
    \/ SyncStates \/ SyncApply \/ PassStops

Gateway == \E c \in Calls :
    \/ \E f \in Functions, a \in IDs : Select(c, f, a)
    \/ Accept(c) \/ FinishCall(c)

ConvergenceNext == Operator \/ Converge \/ Gateway

ConvergenceSpec == ConvergenceInit /\ [][ConvergenceNext]_convergenceVars

(***************************************************************************)
(* The convergence loop keeps ticking, an accepted call ends at its        *)
(* deadline at the latest, and the planner does not refuse for ever.       *)
(***************************************************************************)
FairConvergenceSpec ==
    /\ ConvergenceSpec
    /\ WF_convergenceVars(Converge)
    /\ \A f \in Functions : SF_convergenceVars(PlaceCommit(f))
    /\ \A c \in Calls : WF_convergenceVars(Accept(c)) /\ WF_convergenceVars(FinishCall(c))

(***************************************************************************)
(* Properties                                                              *)
(***************************************************************************)
\* Every part of the state has its type, and only Assignments that were
\* committed have a replica, an authorization or a candidate: intent comes
\* before any Worker preparation.
ConvergenceTypeOK ==
    /\ lifecycle \in [Functions -> {"Active", "Disabled"}]
    /\ route \in [Functions -> Versions \cup {NoVersion}]
    /\ \A a \in DOMAIN intent : intent[a] \in
          [function : Functions, version : Versions, state : {"Assigned", "Cancelled"}]
    /\ replica \in [IDs -> {"none", "Ready", "Draining", "Stopped", "Failed"}]
    /\ authorized \cup candidates \cup {a \in IDs : replica[a] # "none"} \subseteq DOMAIN intent
    /\ \A f \in Functions : view[f] \in
          [active : BOOLEAN, version : Versions \cup {NoVersion}, endpoints : SUBSET DOMAIN intent]

\* A Function has at most one candidate, and so at most one Endpoint in the
\* Gateway's view, whichever way its Route moved between the reads of a pass and
\* although a pass that was cut short may have left the replica of a cancelled
\* placement Ready beside the new one (placeLocalAssignments, Reconcile).
OneEndpoint ==
    \A f \in Functions :
       /\ \A a, b \in candidates : intent[a].function = f /\ intent[b].function = f => a = b
       /\ \A a, b \in view[f].endpoints : a = b

\* A candidate is a Ready replica with an installed authorization, from the
\* moment it is registered until it is dropped (reconcileAssigned,
\* reconcileCancelled, removeUnpublishableCandidates).
CandidatesBacked ==
    \A a \in candidates : replica[a] = "Ready" /\ a \in authorized

\* What the Gateway holds is one consistent projection: the Endpoints of a
\* Function are placements of the Version its Route names in the same view, and
\* an inactive Function has none, although states and candidates are read at
\* different times (FullSync, exclusionReasons).
ViewIsWhole ==
    \A f \in Functions : \A a \in view[f].endpoints :
       /\ view[f].active
       /\ intent[a].function = f /\ intent[a].version = view[f].version

\* At every moment a Function has one Endpoint at most, candidates are backed,
\* and the Gateway's view is whole (Converge, FullSync).
ConvergenceInvariant ==
    ConvergenceTypeOK /\ OneEndpoint /\ CandidatesBacked /\ ViewIsWhole

\* An accepted call keeps its replica until it ends, and runs the Version of the
\* Route it was selected under, whatever is cancelled meanwhile (Agent.Cancel,
\* Gateway.Invoke).
CallsKeepTheirReplica ==
    \A c \in Calls : call[c].at = "running" =>
       /\ replica[call[c].assignment] \in {"Ready", "Draining"}
       /\ intent[call[c].assignment].version = call[c].version

\* The Gateway serves exactly what the control plane asks for f: the target's
\* Ready replica, or nothing when there is no target or its replica could not be
\* prepared or authorized: that is not repeated for the same placement.
Converged(f) ==
    LET v == servableTarget(f) live == Assigned(f) IN
    IF v = NoVersion THEN view[f].endpoints = {}
    ELSE /\ view[f].version = v
         /\ \E a \in live : /\ intent[a].version = v
                            /\ IF terminal(replica[a]) THEN view[f].endpoints = {}
                               ELSE /\ view[f].endpoints = {a}
                                    /\ replica[a] = "Ready" /\ a \in authorized

\* Once operators stop changing things and passes are no longer cut short, every
\* view converges for good and every superseded replica is gone, whatever was in
\* flight and although other placements failed: a failure costs its own target
\* its Endpoints until the Route names another Version, and nobody else's
\* (Converge, Reconcile).
ViewsConverge ==
    <>[](/\ \A f \in Functions : Converged(f)
         /\ \A a \in DOMAIN intent : intent[a].state = "Cancelled" => replica[a] = "none")
=============================================================================
