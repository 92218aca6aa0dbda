----------------------------- MODULE Management -----------------------------
(***************************************************************************)
(* The management API: requests of internal/managementhttp/handler.go      *)
(* carried out by the operations of internal/localcontroller (operation,   *)
(* function, route and admission) on the Catalog, the ReleaseStore and the *)
(* RouteStore, and made idempotent by the OperationLedger.                 *)
(*                                                                         *)
(* A request takes a slot, waits for operationMu, looks its Operation ID   *)
(* up, and either answers from the retained record or prepares, applies    *)
(* and records its command.  A creation of a Version gives operationMu up  *)
(* before it drives the admission; everything else answers from what it    *)
(* reads under the lock.  Clients lose answers, repeat requests, reuse IDs *)
(* and guess revisions.  One Function stands for all.                      *)
(***************************************************************************)
EXTENDS OperationLedger

CONSTANTS
    Slots,         \* the request slots: MaxConcurrent of them
    Nobody,        \* operationMu is free
    MaxTime,       \* bound on the clock
    MaxCalls,      \* bound on requests that find a slot
    MaxVersion,    \* bound on the Versions clients publish
    MaxRevision    \* bound on the revisions clients expect

ASSUME NobodyAssumption == Nobody \notin Slots
ASSUME BoundAssumption == {MaxTime, MaxCalls, MaxVersion, MaxRevision} \subseteq Nat

VARIABLES
    function,      \* Catalog: the Function; revision 0 until it is created
    trigger,       \* Catalog: resource revision of its Trigger
    versions,      \* ReleaseStore: its Versions, in creation order
    route,         \* RouteStore: its Route; revision 0 until one is published
    operationMu,   \* the slot whose request holds operationMu
    request,       \* what is going on in each slot
    now, calls,
    effects        \* the commands applied to the stores, in order

vars == <<records, tombstones, function, trigger, versions, route, operationMu, request,
          now, calls, effects>>
stores == <<function, trigger, versions, route>>

Policies == {"token", "public"}
Lifecycles == {"Active", "Disabled"}

\* What the handlers parse out of a request: the digest of the ledger tells
\* two of these apart and nothing else.
Commands ==
    [kind : {"create"}, policy : Policies]
       \cup [kind : {"lifecycle"}, lifecycle : Lifecycles, expected : 1..MaxRevision]
       \cup [kind : {"rotate"}, expected : 1..MaxRevision]
       \cup [kind : {"version"}]
       \cup [kind : {"publish"}, version : 1..MaxVersion, expected : 0..MaxRevision]

NoCommand == [kind |-> "none"]
Outcome(n, f, v) == [revision |-> n, function |-> f, version |-> v]
NoOutcome == Outcome(0, 0, 0)
Idle == [at |-> "idle", id |-> Nobody, command |-> NoCommand, since |-> 0, time |-> 0,
         outcome |-> NoOutcome, made |-> 0, status |-> "none", etag |-> 0, active |-> 0]

NoFunction == [lifecycle |-> "Active", revision |-> 0, active |-> 0, policy |-> "public"]

\* No Function yet, or one with a Ready Version and no Route.
Init ==
    /\ LedgerInit
    /\ \/ function = NoFunction /\ trigger = 0 /\ versions = <<>>
       \/ /\ function = [NoFunction EXCEPT !.revision = 1, !.policy = "token"]
          /\ trigger = 1
          /\ versions = <<[state |-> "Ready", revision |-> 3]>>
    /\ route = [revision |-> 0, version |-> 0]
    /\ operationMu = Nobody /\ request = [s \in Slots |-> Idle]
    /\ now = 0 /\ calls = 0 /\ effects = <<>>

Tick ==
    /\ now < MaxTime
    /\ now' = now + 1
    /\ UNCHANGED <<ledger, stores, operationMu, request, calls, effects>>

(***************************************************************************)
(* Answers                                                                 *)
(***************************************************************************)
\* The revision that a write of this kind conditions on and answers with.
Current(command) ==
    CASE command.kind \in {"create", "lifecycle"} -> function.revision
      [] command.kind = "rotate" -> trigger
      [] command.kind = "publish" -> route.revision
      [] OTHER -> 0

\* The answer to request r, and what it is about.
Reply(r, status, etag, active) ==
    [Idle EXCEPT !.at = "answered", !.id = r.id, !.command = r.command, !.since = r.since,
                 !.made = r.made, !.outcome = r.outcome,
                 !.status = status, !.etag = etag, !.active = active]

Move(s, r) == request' = [request EXCEPT ![s] = r]

\* An answer made while operationMu is held gives the lock up.
Answer(s, status, etag, active) ==
    /\ Move(s, Reply(request[s], status, etag, active))
    /\ operationMu' = Nobody
    /\ UNCHANGED <<ledger, stores, now, calls, effects>>

(***************************************************************************)
(* ServeHTTP and the head of each handler                                  *)
(***************************************************************************)
\* A client repeats what it sent, or conditions a write on the revision it was
\* last told or on the first one.
Sendable(id, command) ==
    \/ id \in DOMAIN records /\ command = records[id].command
    \/ command.kind \in {"lifecycle", "rotate", "publish"} =>
          command.expected \in {Current(command), 1}

\* A well-formed request finds a slot and goes on to wait for operationMu.
Arrive(s, id, command) ==
    /\ request[s].at = "idle" /\ calls < MaxCalls
    /\ Sendable(id, command)
    /\ Move(s, [Idle EXCEPT !.at = "waiting", !.id = id, !.command = command,
                            !.since = Current(command)])
    /\ calls' = calls + 1
    /\ UNCHANGED <<ledger, stores, operationMu, now, effects>>

\* The deferred release of the slot.  A request that finds none, or whose token,
\* Operation ID, precondition or body is refused, never gets past this point.
ReleaseSlot(s) ==
    /\ request[s].at = "answered"
    /\ Move(s, Idle)
    /\ UNCHANGED <<ledger, stores, operationMu, now, calls, effects>>

(***************************************************************************)
(* applyOperation: the lookup                                              *)
(***************************************************************************)
Locks(s) == request[s].at = "waiting" /\ operationMu = Nobody

Retained(s) == request[s].id \in DOMAIN records
SameRequest(s) == Retained(s) /\ records[request[s].id].command = request[s].command

\* A tombstone, another request of the same ID, or a retained failure.
AnswerRefusal(s) ==
    /\ Locks(s)
    /\ \/ Expired(request[s].id) /\ Answer(s, "operation_expired", 0, 0)
       \/ Retained(s) /\ ~SameRequest(s) /\ Answer(s, "conflict", 0, 0)
       \/ SameRequest(s) /\ records[request[s].id].status = "Failed"
          /\ Answer(s, "failed", 0, 0)

Succeeded(s) == SameRequest(s) /\ records[request[s].id].status = "Succeeded"

CredentialIssued(command) ==
    command.kind = "rotate" \/ (command.kind = "create" /\ command.policy = "token")

\* functionOperationResult on a repetition: the Function as it is now.  The
\* plaintext of a token is not answered again.
ReplayFunction(s) ==
    /\ Locks(s) /\ Succeeded(s)
    /\ request[s].command.kind \in {"create", "lifecycle", "rotate"}
    /\ Answer(s, IF CredentialIssued(request[s].command) THEN "credential_not_replayable"
                 ELSE "replay", Current(request[s].command), function.active)

\* Mutation: a repeated publication reads its two stores after the lock.
ReplayRouteUnlocked(s) ==
    /\ Locks(s) /\ Succeeded(s) /\ request[s].command.kind = "publish"
    /\ Move(s, [request[s] EXCEPT !.at = "resolving", !.active = function.active])
    /\ UNCHANGED <<ledger, stores, operationMu, now, calls, effects>>

\* replayedRouteResult reads the Function and then, in the RouteStore, its Route.
ReplayRoute(s) ==
    /\ Locks(s) /\ Succeeded(s) /\ request[s].command.kind = "publish"
    /\ Move(s, [request[s] EXCEPT !.at = "resolving", !.active = function.active])
    /\ operationMu' = s
    /\ UNCHANGED <<ledger, stores, now, calls, effects>>

ResolveRoute(s) ==
    /\ request[s].at = "resolving"
    /\ Move(s, Reply(request[s], "replay", route.revision, request[s].active))
    /\ operationMu' = Nobody
    /\ UNCHANGED <<ledger, stores, now, calls, effects>>

\* A repeated creation of a Version answers after operationMu is free again.
ReplayVersion(s) ==
    /\ Locks(s) /\ Succeeded(s) /\ request[s].command.kind = "version"
    /\ Move(s, [request[s] EXCEPT !.at = "reading",
                                  !.outcome = records[request[s].id].outcome])
    /\ UNCHANGED <<ledger, stores, operationMu, now, calls, effects>>

replayedVersionResult(s) ==
    /\ request[s].at = "reading"
    /\ Move(s, Reply(request[s], "replay", versions[request[s].outcome.version].revision, 0))
    /\ UNCHANGED <<ledger, stores, operationMu, now, calls, effects>>

(***************************************************************************)
(* applyOperation: prepare, apply, record                                  *)
(***************************************************************************)
\* Mutation: the revision is the one after the expected one, changed or not.
NextRevisionAlways(command) == command.expected + 1

\* The revision a lifecycle change will produce; a no-op keeps the current one.
nextLifecycleRevision(command) ==
    IF function.lifecycle = command.lifecycle THEN function.revision ELSE command.expected + 1

\* The outcome to record, known before anything changes.
Prepared(command) ==
    CASE command.kind = "create" -> Outcome(1, 0, 0)
      [] command.kind = "lifecycle" -> Outcome(nextLifecycleRevision(command), 0, 0)
      [] command.kind = "rotate" -> Outcome(command.expected + 1, 0, 0)
      [] command.kind = "version" -> Outcome(1, 0, Len(versions) + 1)
      [] command.kind = "publish" -> Outcome(command.expected + 1, function.revision + 1, 0)

\* preparePublishRoute's check of the target; the Function must exist for every
\* command that names one except a creation of a Version, which finds out later.
Preparable(command) ==
    /\ command.kind \in {"lifecycle", "rotate", "publish"} => function.revision > 0
    /\ command.kind = "publish" =>
          command.version \in DOMAIN versions /\ versions[command.version].state = "Ready"

Prepare(s) ==
    /\ Locks(s) /\ Unknown(request[s].id)
    /\ Preparable(request[s].command)
    /\ Move(s, [request[s] EXCEPT !.at = "prepared", !.time = now,
                                  !.outcome = Prepared(request[s].command)])
    /\ operationMu' = s
    /\ UNCHANGED <<ledger, stores, now, calls, effects>>

\* The command cannot be prepared: its target is missing or not ready, or no
\* identifier, token, salt, artifact or command could be had.  Nothing is
\* recorded.
PrepareFails(s) ==
    /\ Locks(s) /\ Unknown(request[s].id)
    /\ Answer(s, IF Preparable(request[s].command) THEN "operation_unknown" ELSE "refused", 0, 0)

\* The checks of the store under its compare-and-swap.
Applicable(command) ==
    CASE command.kind = "create" -> function.revision = 0
      [] command.kind = "lifecycle" -> command.expected = function.revision
      [] command.kind = "rotate" -> command.expected = trigger /\ function.policy = "token"
      [] command.kind = "version" -> function.revision > 0
      [] command.kind = "publish" ->
            /\ command.expected = function.active /\ function.lifecycle = "Active"
            /\ versions[command.version].state = "Ready"

\* CompleteAfter finds the ledger full, or the store has no room for another
\* Function or Version, which is not a failure to record.
Overloaded(s) ==
    /\ request[s].at = "prepared"
    /\ Full \/ request[s].command.kind \in {"create", "version"}
    /\ Answer(s, "overloaded", 0, 0)

\* The store refuses the command: nothing is recorded yet.
ApplyFails(s) ==
    /\ request[s].at = "prepared" /\ ~Full
    /\ ~Applicable(request[s].command)
    /\ Move(s, [request[s] EXCEPT !.at = "refused"])
    /\ UNCHANGED <<ledger, stores, operationMu, now, calls, effects>>

\* recordOperationFailure: a terminal failure is the operation's outcome, unless
\* there is no room for it.
RecordFailure(s) ==
    /\ request[s].at = "refused"
    /\ IF Full THEN UNCHANGED ledger
       ELSE Insert(request[s].id, [command |-> request[s].command, status |-> "Failed",
                                   outcome |-> NoOutcome, completedAt |-> request[s].time])
    /\ Move(s, Reply(request[s], "failed", 0, 0))
    /\ operationMu' = Nobody
    /\ UNCHANGED <<stores, now, calls, effects>>

SetFunctionLifecycle(command) ==
    /\ function' = IF function.lifecycle = command.lifecycle THEN function
                   ELSE [function EXCEPT !.lifecycle = command.lifecycle, !.revision = @ + 1]
    /\ UNCHANGED <<trigger, versions, route>>

CreateFunction(command) ==
    /\ function' = [NoFunction EXCEPT !.revision = 1, !.policy = command.policy]
    /\ trigger' = 1
    /\ UNCHANGED <<versions, route>>

RotateInvocationToken == trigger' = trigger + 1 /\ UNCHANGED <<function, versions, route>>

CreateVersion ==
    /\ versions' = Append(versions, [state |-> "Uploaded", revision |-> 1])
    /\ UNCHANGED <<function, trigger, route>>

\* Publish moves the Route and the Function's pointer to it together.
Publish(command) ==
    /\ route' = [revision |-> command.expected + 1, version |-> command.version]
    /\ function' = [function EXCEPT !.active = command.expected + 1, !.revision = @ + 1]
    /\ UNCHANGED <<trigger, versions>>

\* The callback of CompleteAfter.
ApplyCommand(command) ==
    \/ command.kind = "create" /\ CreateFunction(command)
    \/ command.kind = "lifecycle" /\ SetFunctionLifecycle(command)
    \/ command.kind = "rotate" /\ RotateInvocationToken
    \/ command.kind = "version" /\ CreateVersion
    \/ command.kind = "publish" /\ Publish(command)

\* What the command made of the stores, seen after the fact.
Result(command) ==
    CASE command.kind \in {"create", "lifecycle"} -> Outcome(function'.revision, 0, 0)
      [] command.kind = "rotate" -> Outcome(trigger', 0, 0)
      [] command.kind = "version" ->
            Outcome(versions'[Len(versions')].revision, 0, Len(versions'))
      [] command.kind = "publish" -> Outcome(route'.revision, function'.revision, 0)

\* CompleteAfter: apply, then insert the record, under the ledger's lock.  The
\* answer is made before operationMu is released, except for a Version, whose
\* admission comes first.
CompleteAfter(s) ==
    LET r == [request[s] EXCEPT !.made = Len(effects) + 1] IN
    /\ r.at = "prepared" /\ ~Full /\ Applicable(r.command)
    /\ ApplyCommand(r.command)
    /\ Insert(r.id, [command |-> r.command, status |-> "Succeeded", outcome |-> r.outcome,
                     completedAt |-> r.time])
    /\ effects' = Append(effects, [id |-> r.id, command |-> r.command, at |-> r.time,
                                   outcome |-> Result(r.command)])
    /\ Move(s, IF r.command.kind = "version" THEN [r EXCEPT !.at = "starting"]
               ELSE Reply(r, "applied", Result(r.command).revision, function'.active))
    /\ operationMu' = Nobody
    /\ UNCHANGED <<tombstones, now, calls>>

(***************************************************************************)
(* driveAdmission, without operationMu                                     *)
(***************************************************************************)
SetVersion(v, state) ==
    /\ versions' = [versions EXCEPT ![v] = [state |-> state, revision |-> @.revision + 1]]
    /\ UNCHANGED <<function, trigger, route>>

StartValidation(s) ==
    /\ request[s].at = "starting"
    /\ SetVersion(request[s].outcome.version, "Validating")
    /\ Move(s, [request[s] EXCEPT !.at = "admitting"])
    /\ UNCHANGED <<ledger, operationMu, now, calls, effects>>

\* The validator decides the Version.
Admit(s, verdict) ==
    /\ request[s].at = "admitting"
    /\ SetVersion(request[s].outcome.version, verdict)
    /\ Move(s, Reply(request[s], "applied", versions'[request[s].outcome.version].revision, 0))
    /\ UNCHANGED <<ledger, operationMu, now, calls, effects>>

\* The validator, the artifact or the request's deadline fails: the Version is
\* committed, so the answer is still a success with the Version as it is.
AdmissionFails(s) ==
    /\ request[s].at = "admitting"
    /\ Move(s, Reply(request[s], "applied", versions[request[s].outcome.version].revision, 0))
    /\ UNCHANGED <<ledger, stores, operationMu, now, calls, effects>>

\* ResumePendingValidation decides a Version nobody is admitting.
Resume(v, verdict) ==
    /\ versions[v].state = "Validating"
    /\ \A s \in Slots : request[s].at = "admitting" => request[s].outcome.version # v
    /\ SetVersion(v, verdict)
    /\ UNCHANGED <<ledger, operationMu, request, now, calls, effects>>

GC(cutoff) ==
    /\ CollectLedger(cutoff)
    /\ UNCHANGED <<stores, operationMu, request, now, calls, effects>>

Lookup(s) ==
    \/ AnswerRefusal(s) \/ ReplayFunction(s) \/ ReplayRoute(s) \/ ReplayVersion(s)
    \/ Prepare(s) \/ PrepareFails(s)

Complete(s) == Overloaded(s) \/ ApplyFails(s) \/ RecordFailure(s) \/ CompleteAfter(s)

Verdicts == {"Ready", "Failed"}
Admission(s) ==
    StartValidation(s) \/ AdmissionFails(s) \/ \E verdict \in Verdicts : Admit(s, verdict)

Resolve(s) == ResolveRoute(s) \/ replayedVersionResult(s) \/ ReleaseSlot(s)

Next ==
    \/ Tick
    \/ \E s \in Slots :
          \/ \E id \in Operations, command \in Commands : Arrive(s, id, command)
          \/ Lookup(s) \/ Complete(s) \/ Admission(s) \/ Resolve(s)
    \/ \E v \in DOMAIN versions, verdict \in Verdicts : Resume(v, verdict)
    \/ \E cutoff \in 0..now : GC(cutoff)

Spec == Init /\ [][Next]_vars

(***************************************************************************)
(* Properties                                                              *)
(***************************************************************************)
\* The ledger, the stores and the requests hold values of their types; an
\* Operation ID is retained once, the ledger never exceeds its capacity,
\* tombstones included, and operationMu is held by the one request that is
\* between its lookup and its answer (Ledger.complete, applyOperation).
TypeOK ==
    /\ function \in [lifecycle : Lifecycles, revision : Nat, active : Nat, policy : Policies]
    /\ trigger \in Nat /\ now \in 0..MaxTime /\ calls \in 0..MaxCalls
    /\ \A v \in DOMAIN versions : versions[v] \in
          [state : {"Uploaded", "Validating", "Ready", "Failed"}, revision : 1..3]
    /\ route \in [revision : Nat, version : Nat] /\ route.revision = function.active
    /\ DOMAIN records \cup DOMAIN tombstones \subseteq Operations
    /\ DOMAIN records \cap DOMAIN tombstones = {}
    /\ Cardinality(DOMAIN records) + Cardinality(DOMAIN tombstones) <= MaxOperations
    /\ \A k \in DOMAIN records :
          /\ records[k].command \in Commands /\ records[k].status \in {"Succeeded", "Failed"}
          /\ records[k].completedAt \in 0..now
    /\ \A s \in Slots : operationMu = s <=> request[s].at \in {"prepared", "refused", "resolving"}

\* A retained record tells the truth: a success names the revisions the command
\* really produced, worked out before the command was applied, and a failure
\* stands for a command without effect (preparedOperation, recordOperationFailure).
RecordsAreTrue ==
    \A k \in DOMAIN records :
       LET made == {i \in DOMAIN effects :
                      effects[i].id = k /\ effects[i].at = records[k].completedAt} IN
       IF records[k].status = "Succeeded"
       THEN \E i \in made : /\ effects[i].command = records[k].command
                            /\ effects[i].outcome = records[k].outcome
       ELSE made = {}

\* At every moment the ledger keeps its bounds and what it retains is true of
\* the stores, for each of the five commands (Ledger.complete, applyOperation).
LedgerInvariant == TypeOK /\ RecordsAreTrue

\* However often a command is repeated, by concurrent requests too, it takes
\* effect once for as long as its Operation ID is retained: two effects of one ID
\* are apart by the retention of the record and that of its tombstone, and until
\* both have passed no lookup calls an ID unknown whose command took effect
\* (Ledger.complete, Ledger.Lookup, Ledger.GC).
AppliedOnceWhileRetained ==
    \A i \in DOMAIN effects :
       LET over == effects[i].at + OperationTTL + TombstoneTTL IN
       /\ \A j \in DOMAIN effects : i < j /\ effects[i].id = effects[j].id => over <= effects[j].at
       /\ Unknown(effects[i].id) => over <= now

\* The revision of the resource an answer is about.
AnsweredResource(r) ==
    IF r.command.kind = "version" THEN versions[r.outcome.version].revision ELSE Current(r.command)

\* What a client may conclude from an answer.  A success, at once or on a
\* repetition, is about an effect of that very request; its ETag includes that
\* effect, was current at some moment since the request arrived, and for a Route
\* belongs to the Function it is answered with.  Any other answer means that this
\* request changed nothing, even when the first admission of a Version failed
\* (applyOperation, functionOperationResult, replayedRouteResult,
\* handleCreateVersion).
AnswersAreTrue ==
    \A s \in Slots : request[s].at = "answered" =>
       LET r == request[s] IN
       IF r.status \in {"applied", "replay", "credential_not_replayable"}
       THEN /\ \E i \in DOMAIN effects :
                  /\ effects[i].id = r.id /\ effects[i].command = r.command
                  /\ r.status = "applied" <=> r.made = i
                  /\ effects[i].outcome.revision <= r.etag
            /\ r.since <= r.etag /\ r.etag <= AnsweredResource(r)
            /\ r.command.kind = "publish" => r.active = r.etag
       ELSE r.made = 0

=============================================================================
