---------------------------- MODULE ControlPlane ----------------------------
(***************************************************************************)
(* The control-plane stores (internal/controlplane) as the local           *)
(* controller (internal/localcontroller) and the placement pass of the     *)
(* local core (internal/localcore) drive them.  Each store method runs     *)
(* under the store locks and is atomic; what interleaves is everything     *)
(* between two store calls: a management operation that has reserved its   *)
(* command but not applied it, an admission waiting for the validator, the *)
(* validation resume loop working through an old list, and a placement     *)
(* pass deciding from the two lists it read at its start.                  *)
(*                                                                         *)
(* A command's AppliedIndex and its At time both grow strictly with every  *)
(* reservation (nextCommand), so one number stands for the two.            *)
(***************************************************************************)
EXTENDS Integers, Sequences, FiniteSets, FiniteSetsExt

CONSTANTS
    Functions,    \* Function IDs the operators create
    Versions,     \* Version IDs the operators create
    Ordinal,      \* the order of the Function IDs and of the Version IDs
    ResumeLimit,  \* resumeValidationLimit: versions one resume pass admits
    MaxOps,       \* bound on management operations
    NoVersion     \* the absence of a Version

\* The driver that is not the creator of a Version.
Resume == "resume"

ASSUME ResumeLimitAssumption == ResumeLimit \in Nat \ {0}
ASSUME OrdinalAssumption ==
    /\ Ordinal \in [Functions \cup Versions -> Nat]
    /\ \A ids \in {Functions, Versions} : \A x, y \in ids : Ordinal[x] = Ordinal[y] => x = y
ASSUME NoVersionAssumption == NoVersion \notin Versions /\ Resume \notin Versions
ASSUME MaxOpsAssumption == MaxOps \in Nat

VARIABLES
    functions,    \* Catalog: created Function |-> record
    versions,     \* ReleaseStore: created Version |-> record
    deployments,  \* ReleaseStore: Versions that have a Deployment
    routes,       \* RouteStore: Function |-> its current Route
    assignments,  \* AssignmentStore: the records, in creation order
    activeCounts, \* AssignmentStore: <<Function, Version>> |-> Assigned records
    index,        \* the last command reserved
    op, ops,      \* the operation under operationMu; how many there were
    claims,       \* Controller.validating: Versions with a running admission
    driver,       \* the goroutines that drive admissions
    pending,      \* the resume pass: Versions still to look at
    processed,    \* the resume pass: Versions it has claimed
    place         \* the placement pass

controlPlaneVars == <<functions, versions, deployments, routes, assignments,
          activeCounts, index, op, ops, claims, driver, pending, processed, place>>

stores == <<functions, versions, deployments, routes, assignments, activeCounts>>
admission == <<claims, driver, pending, processed>>

Drivers == Versions \cup {Resume}
DesiredReplicas == 1
NoOp == [kind |-> "none"]
Idle == [at |-> "idle"]

NoAssignments ==
    /\ routes = <<>> /\ assignments = <<>>
    /\ activeCounts = [t \in Functions \X Versions |-> 0]
    /\ op = NoOp /\ ops = 0
    /\ claims = {} /\ driver = [d \in Drivers |-> Idle]
    /\ pending = {} /\ processed = 0
    /\ place = Idle

EmptyInit ==
    /\ functions = <<>> /\ versions = <<>>
    /\ deployments = {} /\ index = 0

\* What the creation of one Function and of one Version, and its admission,
\* leave behind: a start from which few operations reach a second target.
AdmittedInit ==
    \E f \in Functions, v \in Versions :
        /\ functions = [g \in {f} |->
               [lifecycle |-> "Active", activeRoute |-> 0, revision |-> 1, updatedAt |-> 1]]
        /\ versions = [w \in {v} |->
               [function |-> f, state |-> "Ready", revision |-> 3, updatedAt |-> 4,
                fenced |-> FALSE]]
        /\ deployments = {v} /\ index = 4

ControlPlaneInit == (EmptyInit \/ AdmittedInit) /\ NoAssignments

Put(f, k, x) == [j \in DOMAIN f \cup {k} |-> IF j = k THEN x ELSE f[j]]

(***************************************************************************)
(* Management operations, one at a time under operationMu: each reserves   *)
(* its commands, then applies to the store.                                *)
(***************************************************************************)
Begin(o, commands) ==
    /\ op = NoOp /\ ops < MaxOps
    /\ op' = o
    /\ ops' = ops + 1
    /\ index' = index + commands
    /\ UNCHANGED <<stores, admission, place>>

PrepareCreateFunction(f) ==
    /\ Begin([kind |-> "function", function |-> f, index |-> index + 1], 1)

PrepareSetLifecycle(f, lifecycle, expected) ==
    /\ Begin([kind |-> "lifecycle", function |-> f, lifecycle |-> lifecycle,
              expected |-> expected, index |-> index + 1], 1)

\* Both commands of a creation are reserved before anything changes.
PrepareCreateVersion(f, v) ==
    /\ v \notin DOMAIN versions
    /\ Begin([kind |-> "version", function |-> f, version |-> v,
              index |-> index + 1, start |-> index + 2], 2)

PreparePublishRoute(f, v, expected) ==
    /\ v \in DOMAIN versions
    /\ versions[v].function = f /\ versions[v].state = "Ready" /\ v \in deployments
    /\ Begin([kind |-> "publish", function |-> f, version |-> v,
              expected |-> expected, index |-> index + 1], 1)

ApplyCreateFunction ==
    /\ op.kind = "function"
    /\ functions' = Put(functions, op.function,
           [lifecycle |-> "Active", activeRoute |-> 0, revision |-> 1, updatedAt |-> op.index])
    /\ op' = NoOp
    /\ UNCHANGED <<versions, deployments, routes, assignments, activeCounts,
                   index, ops, admission, place>>

\* Mutation: a lifecycle change takes no revision.
ApplyLifecycleInPlace ==
    /\ op.kind = "lifecycle"
    /\ functions' = [functions EXCEPT ![op.function].lifecycle = op.lifecycle]
    /\ op' = NoOp
    /\ UNCHANGED <<versions, deployments, routes, assignments, activeCounts,
                   index, ops, admission, place>>

ApplySetLifecycle ==
    /\ op.kind = "lifecycle"
    /\ LET f == functions[op.function] IN
       functions' = IF f.revision = op.expected /\ f.lifecycle # op.lifecycle
                    THEN [functions EXCEPT ![op.function] =
                              [f EXCEPT !.lifecycle = op.lifecycle, !.revision = f.revision + 1,
                                        !.updatedAt = op.index]]
                    ELSE functions
    /\ op' = NoOp
    /\ UNCHANGED <<versions, deployments, routes, assignments, activeCounts,
                   index, ops, admission, place>>

\* The creator goes on to drive the first admission after operationMu is free.
ApplyCreateVersion ==
    /\ op.kind = "version"
    /\ versions' = Put(versions, op.version,
           [function |-> op.function, state |-> "Uploaded", revision |-> 1,
            updatedAt |-> op.index, fenced |-> FALSE])
    /\ driver' = [driver EXCEPT ![op.version] =
                      [at |-> "created", version |-> op.version, index |-> op.start]]
    /\ op' = NoOp
    /\ UNCHANGED <<functions, deployments, routes, assignments, activeCounts,
                   index, ops, claims, pending, processed, place>>

validateReadyTarget(f, v) ==
    /\ v \in DOMAIN versions
    /\ versions[v].function = f /\ versions[v].state = "Ready"
    /\ v \in deployments

\* RouteStore.Publish: the Route and the Function's pointer move together.
ApplyPublishRoute ==
    /\ op.kind = "publish"
    /\ LET f == functions[op.function] IN
       IF /\ op.expected = f.activeRoute /\ op.index >= f.updatedAt
          /\ f.lifecycle = "Active" /\ validateReadyTarget(op.function, op.version)
       THEN /\ routes' = Put(routes, op.function,
                   [revision |-> op.expected + 1, version |-> op.version, index |-> op.index])
            /\ functions' = [functions EXCEPT ![op.function] =
                   [f EXCEPT !.activeRoute = op.expected + 1, !.revision = f.revision + 1,
                             !.updatedAt = op.index]]
       ELSE UNCHANGED <<functions, routes>>
    /\ op' = NoOp
    /\ UNCHANGED <<versions, deployments, assignments, activeCounts,
                   index, ops, admission, place>>

(***************************************************************************)
(* Admission.  A driver claims its Version in the controller, drives it    *)
(* through the validator and completes it under the revision it read.      *)
(***************************************************************************)
Set(d, s) == driver' = [driver EXCEPT ![d] = s]
AfterAdmission(d) == IF d = Resume THEN [at |-> "looping"] ELSE Idle

\* driveAdmission, first half: claimValidation.
ClaimValidation(v) ==
    /\ driver[v].at = "created"
    /\ IF v \in claims THEN Set(v, Idle) /\ UNCHANGED claims
       ELSE Set(v, [driver[v] EXCEPT !.at = "claimed"]) /\ claims' = claims \cup {v}
    /\ UNCHANGED <<stores, index, op, ops, pending, processed, place>>

StartValidation(v) ==
    /\ driver[v].at = "claimed"
    /\ IF versions[v].state = "Uploaded" /\ versions[v].revision = 1
       THEN /\ versions' = [versions EXCEPT ![v] =
                   [versions[v] EXCEPT !.state = "Validating", !.revision = 2,
                                       !.updatedAt = driver[v].index, !.fenced = TRUE]]
            /\ Set(v, [at |-> "admitting", version |-> v, revision |-> 2])
            /\ UNCHANGED claims
       ELSE UNCHANGED versions /\ Set(v, Idle) /\ claims' = claims \ {v}
    /\ UNCHANGED <<functions, deployments, routes, assignments, activeCounts,
                   index, op, ops, pending, processed, place>>

\* The artifact or the validator fails for a reason that is not a verdict:
\* the fence stays for the resume loop.
ValidatorFails(d) ==
    /\ driver[d].at = "admitting"
    /\ Set(d, AfterAdmission(d))
    /\ claims' = claims \ {driver[d].version}
    /\ UNCHANGED <<stores, index, op, ops, pending, processed, place>>

\* The validator reports; completeAdmission reserves the command.
ValidatorReports(d, valid) ==
    /\ driver[d].at = "admitting"
    /\ index' = index + 1
    /\ Set(d, [at |-> "reported", version |-> driver[d].version,
               revision |-> driver[d].revision, valid |-> valid, index |-> index + 1])
    /\ UNCHANGED <<stores, op, ops, claims, pending, processed, place>>

\* CompleteValidation, then the deferred releaseValidation.
CompleteValidation(d) ==
    /\ driver[d].at = "reported"
    /\ LET r == driver[d] v == versions[r.version]
       IN  IF v.revision = r.revision /\ v.state = "Validating" /\ r.index >= v.updatedAt
           THEN /\ versions' = [versions EXCEPT ![r.version] =
                       [v EXCEPT !.state = IF r.valid THEN "Ready" ELSE "Failed",
                                 !.revision = v.revision + 1, !.updatedAt = r.index, !.fenced = FALSE]]
                /\ deployments' = IF r.valid THEN deployments \cup {r.version} ELSE deployments
           ELSE UNCHANGED <<versions, deployments>>
    /\ Set(d, AfterAdmission(d))
    /\ claims' = claims \ {driver[d].version}
    /\ UNCHANGED <<functions, routes, assignments, activeCounts,
                   index, op, ops, pending, processed, place>>

(***************************************************************************)
(* ResumePendingValidation, run by one loop.                               *)
(***************************************************************************)
\* The order of the list and so of a pass.  IDs are random: it is not the order
\* of creation.
compareVersion(v, w) ==
    LET f == Ordinal[versions[v].function] g == Ordinal[versions[w].function]
    IN  f < g \/ (f = g /\ Ordinal[v] < Ordinal[w])

PendingValidations == {v \in DOMAIN versions : versions[v].fenced}

ResumeSnapshot ==
    /\ driver[Resume].at = "idle"
    /\ pending' = PendingValidations
    /\ processed' = 0
    /\ Set(Resume, [at |-> "looping"])
    /\ UNCHANGED <<stores, index, op, ops, claims, place>>

\* Mutation: a pass gives up before its first Version.
ResumeNextSkipsAll ==
    /\ driver[Resume].at = "looping"
    /\ Set(Resume, Idle) /\ pending' = {} /\ processed' = 0
    /\ UNCHANGED <<stores, index, op, ops, claims, place>>

ResumeNext ==
    /\ driver[Resume].at = "looping"
    /\ \/ /\ pending = {} \/ processed >= ResumeLimit
          /\ Set(Resume, Idle) /\ pending' = {} /\ processed' = 0
          /\ UNCHANGED claims
       \/ \E v \in pending :
             /\ processed < ResumeLimit
             /\ \A w \in pending \ {v} : compareVersion(v, w)
             /\ pending' = pending \ {v}
             /\ IF v \in claims
                THEN UNCHANGED <<driver, claims, processed>>
                ELSE /\ claims' = claims \cup {v}
                     /\ processed' = processed + 1
                     /\ Set(Resume, [at |-> "taken", version |-> v])
    /\ UNCHANGED <<stores, index, op, ops, place>>

\* The Version is read again once it is claimed: the list may be old.
ResumeLoad ==
    /\ driver[Resume].at = "taken"
    /\ LET v == driver[Resume].version
       IN  IF versions[v].state = "Validating"
           THEN /\ Set(Resume, [at |-> "admitting", version |-> v,
                                revision |-> versions[v].revision])
                /\ UNCHANGED claims
           ELSE Set(Resume, [at |-> "looping"]) /\ claims' = claims \ {v}
    /\ UNCHANGED <<stores, index, op, ops, pending, processed, place>>

(***************************************************************************)
(* placeLocalAssignments: one pass at a time, under convergeMu.            *)
(***************************************************************************)
ServableTarget(f) ==
    IF f \in DOMAIN routes /\ functions[f].lifecycle = "Active"
    THEN routes[f].version ELSE NoVersion

Assigned(f) == {a \in DOMAIN assignments :
                   assignments[a].function = f /\ assignments[a].state = "Assigned"}

ListServingStates ==
    /\ place.at = "idle"
    /\ place' = [at |-> "listed", target |-> [f \in DOMAIN functions |-> ServableTarget(f)]]
    /\ UNCHANGED <<stores, index, op, ops, admission>>

ListAssignments ==
    /\ place.at = "listed"
    /\ place' = [at |-> "deciding", target |-> place.target,
                 live |-> [f \in DOMAIN place.target |->
                              IF Assigned(f) = {} THEN 0 ELSE Max(Assigned(f))],
                 todo |-> {f \in DOMAIN place.target : place.target[f] # NoVersion}]
    /\ UNCHANGED <<stores, index, op, ops, admission>>

\* The live placement matches the target, or the planner finds no Worker.
Skip(f) ==
    /\ place.at = "deciding" /\ f \in place.todo
    /\ LET a == place.live[f] IN
       a # 0 => assignments[a].version = place.target[f]
    /\ place' = [place EXCEPT !.todo = @ \ {f}]
    /\ UNCHANGED <<stores, index, op, ops, admission>>

\* CancelAssignment reserves its command for a superseded placement.
ReserveCancel(f) ==
    /\ place.at = "deciding" /\ f \in place.todo
    /\ LET a == place.live[f] IN
       /\ a # 0 /\ assignments[a].version # place.target[f]
       /\ index' = index + 1
       /\ place' = [at |-> "cancelling", target |-> place.target, live |-> place.live,
                    todo |-> place.todo \ {f}, assignment |-> a,
                    revision |-> assignments[a].revision, index |-> index + 1]
    /\ UNCHANGED <<stores, op, ops, admission>>

Installing(f) ==
    [at |-> "installing", target |-> place.target, live |-> place.live, todo |-> place.todo \ {f},
     function |-> f, version |-> place.target[f], index |-> index + 1]

\* Mutation: a superseded placement does not keep its replacement waiting.
ReserveCommitEagerly(f) ==
    /\ place.at = "deciding" /\ f \in place.todo
    /\ place.live[f] # 0 => assignments[place.live[f]].version # place.target[f]
    /\ index' = index + 1
    /\ place' = Installing(f)
    /\ UNCHANGED <<stores, op, ops, admission>>

\* Plan chose the Worker; CommitAssignment reserves its command.
ReserveCommit(f) ==
    /\ place.at = "deciding" /\ f \in place.todo
    /\ place.live[f] = 0
    /\ index' = index + 1
    /\ place' = Installing(f)
    /\ UNCHANGED <<stores, op, ops, admission>>

Deciding == [at |-> "deciding", target |-> place.target, live |-> place.live,
             todo |-> place.todo]

Cancel ==
    /\ place.at = "cancelling"
    /\ LET a == assignments[place.assignment] IN
       IF a.revision = place.revision /\ a.state = "Assigned" /\ place.index > a.lastIndex
          /\ activeCounts[<<a.function, a.version>>] > 0
       THEN /\ assignments' = [assignments EXCEPT ![place.assignment] =
                                   [a EXCEPT !.state = "Cancelled", !.revision = a.revision + 1,
                                             !.lastIndex = place.index]]
            /\ activeCounts' = [activeCounts EXCEPT ![<<a.function, a.version>>] = @ - 1]
       ELSE UNCHANGED <<assignments, activeCounts>>
    /\ place' = Deciding
    /\ UNCHANGED <<functions, versions, deployments, routes,
                   index, op, ops, admission>>

\* validatePlacementLocked: the placement is for the route as it is now.
validatePlacement(f, v, i) ==
    /\ f \in DOMAIN functions /\ functions[f].lifecycle = "Active"
    /\ f \in DOMAIN routes /\ routes[f].revision = functions[f].activeRoute
    /\ validateReadyTarget(f, routes[f].version)
    /\ i > routes[f].index
    /\ routes[f].version = v

Install ==
    /\ place.at = "installing"
    /\ IF /\ validatePlacement(place.function, place.version, place.index)
          /\ activeCounts[<<place.function, place.version>>] < DesiredReplicas
       THEN /\ assignments' = Append(assignments,
                   [function |-> place.function, version |-> place.version,
                    state |-> "Assigned", revision |-> 1, lastIndex |-> place.index])
            /\ activeCounts' = [activeCounts EXCEPT ![<<place.function, place.version>>] = @ + 1]
       ELSE UNCHANGED <<assignments, activeCounts>>
    /\ place' = Deciding
    /\ UNCHANGED <<functions, versions, deployments, routes,
                   index, op, ops, admission>>

EndPass ==
    /\ place.at = "deciding" /\ place.todo = {}
    /\ place' = Idle
    /\ UNCHANGED <<stores, index, op, ops, admission>>

\* What a client may believe the current revision to be: right, or wrong.
Expected(current) == {current, current + 1}

Operation ==
    \/ \E f \in Functions \ DOMAIN functions : PrepareCreateFunction(f)
    \/ \E f \in DOMAIN functions :
          \/ \E l \in {"Active", "Disabled"}, e \in Expected(functions[f].revision) :
                PrepareSetLifecycle(f, l, e)
          \/ \E v \in Versions : PrepareCreateVersion(f, v)
          \/ \E v \in Versions, e \in Expected(functions[f].activeRoute) :
                PreparePublishRoute(f, v, e)

Apply == ApplyCreateFunction \/ ApplySetLifecycle \/ ApplyCreateVersion \/ ApplyPublishRoute

Drive(v) == ClaimValidation(v) \/ StartValidation(v)
Validator(d) == ValidatorFails(d) \/ \E valid \in BOOLEAN : ValidatorReports(d, valid)
ResumeLoop == ResumeSnapshot \/ ResumeNext \/ ResumeLoad

Place ==
    \/ ListServingStates \/ ListAssignments \/ Cancel \/ Install \/ EndPass
    \/ \E f \in Functions : Skip(f) \/ ReserveCancel(f) \/ ReserveCommit(f)

ControlPlaneNext ==
    \/ Operation \/ Apply
    \/ \E v \in Versions : Drive(v)
    \/ \E d \in Drivers : Validator(d) \/ CompleteValidation(d)
    \/ ResumeLoop
    \/ Place

ControlPlaneSpec == ControlPlaneInit /\ [][ControlPlaneNext]_controlPlaneVars

(***************************************************************************)
(* The handler of an operation and the two loops of Runtime.Serve keep     *)
(* running, and the planner does not refuse a Function for ever.  The      *)
(* validator answers, but may fail on a Version for ever.                  *)
(***************************************************************************)
Fairness ==
    /\ WF_controlPlaneVars(Apply) /\ WF_controlPlaneVars(ResumeLoop) /\ WF_controlPlaneVars(Place)
    /\ \A v \in Versions : WF_controlPlaneVars(Drive(v))
    /\ \A d \in Drivers : WF_controlPlaneVars(Validator(d)) /\ WF_controlPlaneVars(CompleteValidation(d))
    /\ \A f \in Functions : SF_controlPlaneVars(ReserveCommit(f))

FairControlPlaneSpec == ControlPlaneSpec /\ Fairness

(***************************************************************************)
(* Properties                                                              *)
(***************************************************************************)
\* The stores and the goroutines hold values of their types; a resume pass
\* never admits more Versions than its limit (ResumePendingValidation).
ControlPlaneTypeOK ==
    /\ DOMAIN functions \subseteq Functions
    /\ \A f \in DOMAIN functions : functions[f] \in
          [lifecycle : {"Active", "Disabled"}, activeRoute : Nat, revision : Nat \ {0},
           updatedAt : 1..index]
    /\ DOMAIN versions \subseteq Versions
    /\ \A v \in DOMAIN versions : versions[v] \in
          [function : Functions, state : {"Uploaded", "Validating", "Ready", "Failed"},
           revision : 1..3, updatedAt : 1..index, fenced : BOOLEAN]
    /\ deployments \subseteq Versions
    /\ \A f \in DOMAIN routes : routes[f] \in
          [revision : Nat \ {0}, version : Versions, index : 1..index]
    /\ \A a \in DOMAIN assignments : assignments[a] \in
          [function : Functions, version : Versions, state : {"Assigned", "Cancelled"},
           revision : 1..2, lastIndex : 1..index]
    /\ activeCounts \in [Functions \X Versions -> Nat]
    /\ claims \subseteq Versions /\ processed \in 0..ResumeLimit

\* Every aggregate read succeeds: a Function points at a Route exactly when it
\* has one, at that Route's revision, and the Route's target is a Ready Version
\* of the Function with a Deployment.  These are the "route store invariant"
\* errors of RouteStore.ServingStates.
ServingStatesSound ==
    \A f \in DOMAIN functions :
       IF f \in DOMAIN routes
       THEN /\ routes[f].revision = functions[f].activeRoute
            /\ validateReadyTarget(f, routes[f].version)
       ELSE functions[f].activeRoute = 0

\* A Version is Ready exactly when it has its Deployment, and carries a
\* validation fence exactly while it is Validating, whichever goroutine
\* completed it (ReleaseStore.CompleteValidation).
ReleasesSound ==
    \A v \in Versions :
       /\ v \in deployments <=> v \in DOMAIN versions /\ versions[v].state = "Ready"
       /\ v \in DOMAIN versions => (versions[v].fenced <=> versions[v].state = "Validating")

\* The creator of a Version and the resume loop never admit it at the same
\* time, and an admission holds the claim on its Version (claimValidation).
SingleAdmission ==
    \A d \in Drivers : driver[d].at \in {"claimed", "taken", "admitting", "reported"} =>
       /\ driver[d].version \in claims
       /\ \A e \in Drivers \ {d} :
             driver[e].at \in {"claimed", "taken", "admitting", "reported"} =>
                driver[e].version # driver[d].version

\* No validator verdict is thrown away: when a driver has a report, its Version
\* is still Validating at the revision the driver read, and the command it
\* reserved is not older than the Version's last update, although any number of
\* other commands were reserved and applied meanwhile (completeAdmission).
VerdictFits ==
    \A d \in Drivers : driver[d].at = "reported" =>
       LET v == versions[driver[d].version] IN
       /\ v.state = "Validating" /\ v.revision = driver[d].revision
       /\ driver[d].index > v.updatedAt

\* A Function never has two live placements, although Install only counts the
\* placements of one target: a superseded placement is cancelled in one pass and
\* replaced in a later one (placeLocalAssignments).
OneLivePlacement ==
    \A f \in Functions : \A a, b \in Assigned(f) : a = b

\* The count Install relies on is the number of Assigned records of the target,
\* one or none, and within the Deployment's desired replicas
\* (AssignmentStore.activeCounts).
CountsAgree ==
    \A f \in Functions, v \in Versions :
       /\ activeCounts[<<f, v>>] = IF \E a \in Assigned(f) : assignments[a].version = v THEN 1 ELSE 0
       /\ activeCounts[<<f, v>>] <= DesiredReplicas

\* What every read and every command of the four stores may rely on.
StoresAgree ==
    /\ ControlPlaneTypeOK /\ ServingStatesSound /\ ReleasesSound /\ SingleAdmission
    /\ VerdictFits /\ OneLivePlacement /\ CountsAgree

Rank == [Uploaded |-> 0, Validating |-> 1, Ready |-> 2, Failed |-> 2]

\* A Version only moves forward, a verdict is final, and every change takes
\* exactly one revision and a later command (ReleaseStore).  A Function's
\* revision grows by one with each change and its changes are made in the order
\* their commands were reserved, whatever else took commands in between; its
\* route pointer never moves back (Catalog, RouteStore.Publish).
StoresMoveForward ==
    [][/\ \A v \in DOMAIN versions :
            /\ v \in DOMAIN versions'
            /\ versions'[v] # versions[v] =>
                  /\ Rank[versions'[v].state] = Rank[versions[v].state] + 1
                  /\ versions'[v].revision = versions[v].revision + 1
                  /\ versions'[v].updatedAt > versions[v].updatedAt
       /\ \A f \in DOMAIN functions :
            /\ f \in DOMAIN functions'
            /\ functions'[f] # functions[f] =>
                  /\ functions'[f].revision = functions[f].revision + 1
                  /\ functions'[f].updatedAt > functions[f].updatedAt
                  /\ functions'[f].activeRoute \in
                        {functions[f].activeRoute, functions[f].activeRoute + 1}]_controlPlaneVars

Undecided(v) == v \in DOMAIN versions /\ versions[v].state \in {"Uploaded", "Validating"}

\* As many pending Versions as a resume pass takes come before v.
Behind(v) ==
    v \in DOMAIN versions /\
       Cardinality({w \in PendingValidations : compareVersion(w, v)}) >= ResumeLimit

\* A Version goes to the validator again and again until it is Ready or Failed,
\* whatever earlier attempts met and although the Versions around it fail for
\* ever, unless as many pending ones as a resume pass takes come before it
\* (driveAdmission, ResumePendingValidation).  And the target of an Active
\* Function's Route eventually has the Function's live placement, unless the
\* target changes first, however often a placement lost a race with a
\* publication (placeLocalAssignments).
LoopsFinish ==
    /\ \A v \in Versions :
          (Undecided(v) /\ ~Behind(v)) ~>
             \/ ~Undecided(v) \/ Behind(v)
             \/ (\E d \in Drivers : driver[d].at = "admitting" /\ driver[d].version = v)
    /\ \A f \in Functions, v \in Versions :
          (f \in DOMAIN functions /\ ServableTarget(f) = v) ~>
             (ServableTarget(f) # v \/ \E a \in Assigned(f) : assignments[a].version = v)
=============================================================================
