-------------------------- MODULE ManagementProofs ---------------------------
(***************************************************************************)
(* TLAPS proofs about Management: the ledger keeps its bounds and tells    *)
(* the truth, a command takes effect once while its ID is retained, and    *)
(* clients are told the truth, for every set of slots and Operation IDs,   *)
(* every capacity and every retention time. First comes the inductive      *)
(* invariant Inv, then what a step does to the types, the ledger, the      *)
(* slots, the stores and the effects, then the requests under way, the     *)
(* answers and the theorems.                                               *)
(***************************************************************************)
EXTENDS Management, FiniteSetTheorems, TLAPS

\* A sequence is a function on its positions.
LEMMA SeqLen ==
  ASSUME NEW S, NEW q \in Seq(S)
  PROVE  Len(q) \in Nat /\ q \in [1..Len(q) -> S] /\ DOMAIN q = 1..Len(q)
OBVIOUS

\* Its elements are in its set.
LEMMA SeqElement ==
  ASSUME NEW S, NEW q \in Seq(S), NEW n \in 1..Len(q) PROVE q[n] \in S
OBVIOUS

\* Append adds one element behind the others.
LEMMA SeqAppend ==
  ASSUME NEW S, NEW q \in Seq(S), NEW e \in S
  PROVE  /\ Append(q, e) \in Seq(S) /\ Len(Append(q, e)) = Len(q) + 1
         /\ \A i \in 1..Len(q) : Append(q, e)[i] = q[i]
         /\ Append(q, e)[Len(q) + 1] = e
OBVIOUS

\* A sequence with one element replaced.
LEMMA SeqExcept ==
  ASSUME NEW S, NEW q \in Seq(S), NEW i \in 1..Len(q), NEW e \in S
  PROVE  /\ [q EXCEPT ![i] = e] \in Seq(S) /\ Len([q EXCEPT ![i] = e]) = Len(q)
         /\ \A j \in 1..Len(q) : [q EXCEPT ![i] = e][j] = IF j = i THEN e ELSE q[j]
<1>1. PICK n \in Nat : n = Len(q) OBVIOUS
<1>2. q \in [1..n -> S] BY <1>1
<1>3. [q EXCEPT ![i] = e] \in [1..n -> S] BY <1>1, <1>2, Zenon
<1> QED BY <1>1, <1>2, <1>3

Outcomes == [revision : Nat, function : Nat, version : Nat]
Effects == [id : Operations, command : Commands, at : Nat, outcome : Outcomes]
Records == [command : Commands, status : {"Succeeded", "Failed"}, outcome : Outcomes,
            completedAt : Nat]
VersionStates == {"Uploaded", "Validating", "Ready", "Failed"}
FunctionRecords == [lifecycle : Lifecycles, revision : Nat, active : Nat, policy : Policies]
Stages == {"idle", "waiting", "prepared", "refused", "resolving", "reading", "starting",
           "admitting", "answered"}
Statuses == {"none", "applied", "replay", "credential_not_replayable", "operation_expired",
             "conflict", "failed", "refused", "operation_unknown", "overloaded"}
Requests == [at : Stages, id : Operations \cup {Nobody}, command : Commands \cup {NoCommand},
             since : Nat, time : Nat, outcome : Outcomes, made : Nat, status : Statuses,
             etag : Nat, active : Nat]

\* The types of all variables.
Types ==
    /\ function \in FunctionRecords /\ trigger \in Nat
    /\ versions \in Seq([state : VersionStates, revision : Nat])
    /\ route \in [revision : Nat, version : Nat]
    /\ operationMu \in Slots \cup {Nobody}
    /\ request \in [Slots -> Requests]
    /\ now \in 0..MaxTime /\ calls \in 0..MaxCalls
    /\ effects \in Seq(Effects)
    /\ DOMAIN records \subseteq Operations /\ \A k \in DOMAIN records : records[k] \in Records
    /\ DOMAIN tombstones \subseteq Operations /\ \A k \in DOMAIN tombstones : tombstones[k] \in Nat

\* The capacity of the ledger.
Bounded ==
    /\ IsFiniteSet(DOMAIN records) /\ IsFiniteSet(DOMAIN tombstones)
    /\ DOMAIN records \cap DOMAIN tombstones = {}
    /\ Cardinality(DOMAIN records) + Cardinality(DOMAIN tombstones) <= MaxOperations

\* operationMu is held from the lookup to the answer.
Holding == {"prepared", "refused", "resolving"}
Locked == \A s \in Slots : operationMu = s <=> request[s].at \in Holding

\* Until its retention is over, every effect is covered by a record, or by a
\* tombstone that is young enough.
Over(i) == effects[i].at + OperationTTL + TombstoneTTL
Retention ==
    \A i \in DOMAIN effects :
       \/ effects[i].id \in DOMAIN records /\ effects[i].at <= records[effects[i].id].completedAt
       \/ /\ effects[i].id \in DOMAIN tombstones
          /\ effects[i].at + OperationTTL <= tombstones[effects[i].id]
       \/ Over(i) <= now

Spaced ==
    \A i, j \in DOMAIN effects : i < j /\ effects[i].id = effects[j].id => Over(i) <= effects[j].at

\* A request that was told its ID is unknown: the ID stays unknown while the
\* request holds operationMu, and all effects under it are past their retention.
Fresh(r) ==
    r.at \in {"prepared", "refused"} =>
       /\ r.id \in Operations /\ r.command \in Commands
       /\ Unknown(r.id) /\ r.time <= now
       /\ \A i \in DOMAIN effects : effects[i].id = r.id => Over(i) <= r.time

\* Records were completed in the past.
Completed == \A k \in DOMAIN records : records[k].completedAt <= now

\* What was prepared is still what the stores would make of the command.
Foreseen(r) ==
    r.at = "prepared" =>
       /\ r.outcome = Prepared(r.command)
       /\ r.command.kind = "publish" => r.command.version \in DOMAIN versions

\* A Version is admitted by the request that created it or by nobody, and its
\* revision counts the steps of its admission.
Step(v) == IF versions[v].state = "Uploaded" THEN 1
           ELSE IF versions[v].state = "Validating" THEN 2 ELSE 3
Counted == \A v \in DOMAIN versions : versions[v].revision = Step(v)

Admitting(r) ==
    r.at \in {"starting", "admitting"} =>
       /\ r.outcome.version \in DOMAIN versions
       /\ versions[r.outcome.version].state = IF r.at = "starting" THEN "Uploaded" ELSE "Validating"

Apart ==
    \A s, t \in Slots :
       s # t /\ {request[s].at, request[t].at} \subseteq {"starting", "admitting"} =>
          request[s].outcome.version # request[t].outcome.version

\* Before a Function is created, nothing else of it exists.
Blank == function.revision = 0 => function = NoFunction /\ trigger = 0

\* Effect i is what request r asked for.
Answers(i, r) == effects[i].id = r.id /\ effects[i].command = r.command

\* The revision of what command and outcome are about.
Reached(command, outcome) ==
    IF command.kind = "version" THEN versions[outcome.version].revision ELSE Current(command)

Sound(i) ==
    LET e == effects[i] IN
    /\ e.command.kind = "version" => e.outcome.version \in DOMAIN versions
    /\ e.outcome.revision <= Reached(e.command, e.outcome)

Truthful(r) ==
    /\ r.at # "idle" => r.id \in Operations /\ r.command \in Commands /\ r.since <= Current(r.command)
    /\ r.at \in {"waiting", "prepared", "refused", "resolving", "reading"} => r.made = 0
    /\ r.at \in {"starting", "admitting"} =>
          /\ r.made \in DOMAIN effects /\ Answers(r.made, r) /\ effects[r.made].outcome = r.outcome
          /\ r.command.kind = "version"
    /\ r.at = "reading" =>
          /\ \E i \in DOMAIN effects : Answers(i, r) /\ effects[i].outcome = r.outcome
          /\ r.command.kind = "version"
    /\ r.at = "resolving" =>
          /\ \E i \in DOMAIN effects : Answers(i, r)
          /\ r.command.kind = "publish" /\ r.active = function.active
    /\ r.at = "answered" =>
          IF r.status \in {"applied", "replay", "credential_not_replayable"}
          THEN /\ \E i \in DOMAIN effects :
                     /\ Answers(i, r)
                     /\ r.status = "applied" <=> r.made = i
                     /\ effects[i].outcome.revision <= r.etag
               /\ r.command.kind = "version" => r.outcome.version \in DOMAIN versions
               /\ r.since <= r.etag /\ r.etag <= Reached(r.command, r.outcome)
               /\ r.command.kind = "publish" => r.active = r.etag
          ELSE r.made = 0

LedgerInv ==
    /\ Types /\ Bounded /\ Locked /\ Retention /\ Spaced /\ Completed
    /\ \A s \in Slots : Fresh(request[s])

StoreInv ==
    /\ LedgerInv /\ RecordsAreTrue /\ Counted /\ Apart /\ Blank
    /\ route.revision = function.active
    /\ \A s \in Slots : Foreseen(request[s]) /\ Admitting(request[s])

AnswerInv ==
    /\ StoreInv
    /\ \A i \in DOMAIN effects : Sound(i)
    /\ \A s \in Slots : Truthful(request[s])

Inv == AnswerInv

-----------------------------------------------------------------------------
(* Commands, outcomes and answers.                                         *)

\* The fields a command of each kind has.
LEMMA CommandKinds ==
    ASSUME NEW c \in Commands
    PROVE  /\ c.kind \in {"create", "lifecycle", "rotate", "version", "publish"}
           /\ c.kind = "create" => c.policy \in Policies
           /\ c.kind = "lifecycle" => c.lifecycle \in Lifecycles
           /\ c.kind \in {"lifecycle", "rotate", "publish"} => c.expected \in Nat
           /\ c.kind = "publish" => c.version \in Nat
    BY BoundAssumption DEF Commands

\* The revision a command conditions on is a number.
LEMMA CurrentType ==
    ASSUME Types, NEW c PROVE Current(c) \in Nat
    BY Zenon DEF Types, Current, FunctionRecords

\* The answer keeps what it is about.
LEMMA ReplyFields ==
    ASSUME NEW r \in Requests, NEW status \in Statuses, NEW etag \in Nat, NEW active \in Nat
    PROVE  LET a == Reply(r, status, etag, active) IN
           /\ a \in Requests /\ a.at = "answered"
           /\ a.id = r.id /\ a.command = r.command /\ a.since = r.since
           /\ a.made = r.made /\ a.outcome = r.outcome
           /\ a.status = status /\ a.etag = etag /\ a.active = active
    BY Zenon DEF Reply, Idle, Requests, Stages

\* A prepared outcome is an outcome.
LEMMA PreparedType ==
    ASSUME Types, NEW c \in Commands PROVE Prepared(c) \in Outcomes
<1>1. Len(versions) \in Nat /\ function.revision \in Nat
  BY SeqLen, Zenon DEF Types, FunctionRecords
<1>2. nextLifecycleRevision(c) \in Nat \/ c.kind # "lifecycle"
  BY <1>1, CommandKinds DEF nextLifecycleRevision
<1> QED BY <1>1, <1>2, CommandKinds DEF Prepared, Outcome, Outcomes

\* Idle is a request.
LEMMA IdleType == Idle \in Requests
    BY Zenon DEF Idle, Requests, NoOutcome, Outcome, Outcomes, Stages, Statuses, NoCommand

-----------------------------------------------------------------------------
(* Types.                                                                  *)

USE BoundAssumption, LedgerAssumption

\* Answers made under operationMu keep the types.
LEMMA AnswerTypes ==
    ASSUME Types, NEW s \in Slots, NEW status \in Statuses, NEW etag \in Nat, NEW active \in Nat,
           Answer(s, status, etag, active)
    PROVE  Types'
<1>1. Reply(request[s], status, etag, active) \in Requests
  BY ReplyFields, Zenon DEF Types
<1> QED BY <1>1, Zenon DEF Types, Answer, Move, ledger, stores

\* The conjuncts of the invariant.
LEMMA Parts ==
    ASSUME Inv
    PROVE  /\ Types /\ Bounded /\ Locked /\ Retention /\ Spaced /\ Completed
           /\ RecordsAreTrue /\ Counted /\ Apart /\ Blank /\ route.revision = function.active
           /\ \A i \in DOMAIN effects : Sound(i)
           /\ \A s \in Slots : /\ Fresh(request[s]) /\ Foreseen(request[s]) /\ Admitting(request[s])
                              /\ Truthful(request[s]) /\ request[s] \in Requests
    BY Zenon DEF Inv, AnswerInv, StoreInv, LedgerInv, Types

\* The lookup keeps the types.
LEMMA LookupTypes ==
    ASSUME Inv, NEW s \in Slots, Lookup(s) PROVE Types'
<1>0. /\ Types /\ function.active \in Nat /\ Current(request[s].command) \in Nat
      /\ request[s] \in Requests
  BY Parts, CurrentType, Zenon DEF Types, FunctionRecords
<1>1. CASE AnswerRefusal(s) BY <1>0, <1>1, AnswerTypes, Zenon DEF AnswerRefusal, Statuses
<1>2. CASE ReplayFunction(s) BY <1>0, <1>2, AnswerTypes, Zenon DEF ReplayFunction, Statuses
<1>3. CASE ReplayRoute(s)
  <2>1. [request[s] EXCEPT !.at = "resolving", !.active = function.active] \in Requests
    BY <1>0, Zenon DEF Types, Requests, Stages
  <2> QED BY <1>0, <1>3, <2>1, Zenon DEF ReplayRoute, Move, Types, ledger, stores
<1>4. CASE ReplayVersion(s)
  <2>1. records[request[s].id].outcome \in Outcomes
    BY <1>0, <1>4, Zenon DEF ReplayVersion, Succeeded, SameRequest, Retained, Types, Records
  <2>2. [request[s] EXCEPT !.at = "reading", !.outcome = records[request[s].id].outcome] \in Requests
    BY <1>0, <2>1, Zenon DEF Types, Requests, Stages
  <2> QED BY <1>0, <1>4, <2>2, Zenon DEF ReplayVersion, Move, Types, ledger, stores
<1>5. CASE Prepare(s)
  <2>1. request[s].command \in Commands
    BY <1>5, Parts, Zenon DEF Prepare, Locks, Truthful
  <2>2. Prepared(request[s].command) \in Outcomes /\ now \in Nat
    BY <1>0, <2>1, PreparedType DEF Types
  <2>3. [request[s] EXCEPT !.at = "prepared", !.time = now,
                           !.outcome = Prepared(request[s].command)] \in Requests
    BY <1>0, <2>2, Zenon DEF Types, Requests, Stages
  <2> QED BY <1>0, <1>5, <2>3, Zenon DEF Prepare, Move, Types, ledger, stores
<1>6. CASE PrepareFails(s) BY <1>0, <1>6, AnswerTypes, Zenon DEF PrepareFails, Statuses
<1> QED BY <1>1, <1>2, <1>3, <1>4, <1>5, <1>6, Zenon DEF Lookup

\* The reads after operationMu, and the end of a request, keep the types.
LEMMA ResolveTypes ==
    ASSUME Inv, NEW s \in Slots, Resolve(s) PROVE Types'
<1>0. Types /\ route.revision \in Nat /\ request[s] \in Requests /\ request[s].active \in Nat
  BY Parts, Zenon DEF Types, Requests
<1>a. "replay" \in Statuses BY Zenon DEF Statuses
<1>1. CASE ResolveRoute(s)
  <2>1. Reply(request[s], "replay", route.revision, request[s].active) \in Requests
    BY <1>0, <1>a, ReplyFields, Zenon
  <2> QED BY <1>0, <1>1, <2>1, Zenon DEF ResolveRoute, Move, Types, ledger, stores
<1>2. CASE replayedVersionResult(s)
  <2>1. versions[request[s].outcome.version].revision \in Nat
    <3>1. PICK i \in DOMAIN effects : Answers(i, request[s]) /\ effects[i].outcome = request[s].outcome
      BY <1>2, Parts, Zenon DEF replayedVersionResult, Truthful
    <3>2. request[s].outcome.version \in DOMAIN versions
      BY <1>2, <3>1, Parts, Zenon DEF replayedVersionResult, Truthful, Sound, Answers
    <3>3. versions \in Seq([state : VersionStates, revision : Nat]) BY <1>0, Zenon DEF Types
    <3>4. versions[request[s].outcome.version] \in [state : VersionStates, revision : Nat]
      BY <3>2, <3>3, SeqElement, SeqLen, ZenonT(40)
    <3> QED BY <3>4, Zenon
  <2>2. Reply(request[s], "replay", versions[request[s].outcome.version].revision, 0) \in Requests
    BY <1>0, <1>a, <2>1, ReplyFields, Zenon
  <2> QED BY <1>0, <1>2, <2>2, Zenon DEF replayedVersionResult, Move, Types, ledger, stores
<1>3. CASE ReleaseSlot(s)
  BY <1>0, <1>3, IdleType, Zenon DEF ReleaseSlot, Move, Types, ledger, stores
<1> QED BY <1>1, <1>2, <1>3, Zenon DEF Resolve

\* Inserting a record keeps the types of the ledger.
LEMMA InsertTypes ==
    ASSUME Types, NEW id \in Operations, NEW record \in Records, Insert(id, record)
    PROVE  /\ DOMAIN records' \subseteq Operations
           /\ \A k \in DOMAIN records' : records'[k] \in Records
           /\ DOMAIN tombstones' \subseteq Operations
           /\ \A k \in DOMAIN tombstones' : tombstones'[k] \in Nat
    BY Zenon DEF Insert, Types

\* Applying a command that was prepared keeps the types of the stores.
LEMMA ApplyTypes ==
    ASSUME Types, NEW c \in Commands, ApplyCommand(c)
    PROVE  /\ function' \in FunctionRecords /\ trigger' \in Nat
           /\ versions' \in Seq([state : VersionStates, revision : Nat])
           /\ route' \in [revision : Nat, version : Nat]
<1>1. CASE c.kind = "create" /\ CreateFunction(c)
  <2>1. c.policy \in Policies /\ "Active" \in Lifecycles BY <1>1, CommandKinds, Zenon DEF Lifecycles
  <2>2. [NoFunction EXCEPT !.revision = 1, !.policy = c.policy] \in FunctionRecords
    BY <2>1, Zenon DEF FunctionRecords, NoFunction
  <2> QED BY <1>1, <2>2, Zenon DEF Types, CreateFunction
<1>2. CASE c.kind = "lifecycle" /\ SetFunctionLifecycle(c)
  <2>1. c.lifecycle \in Lifecycles BY <1>2, CommandKinds, Zenon
  <2>2. function \in FunctionRecords /\ function.revision + 1 \in Nat BY DEF Types, FunctionRecords
  <2>3. function' \in FunctionRecords
    BY <1>2, <2>1, <2>2, Zenon DEF SetFunctionLifecycle, FunctionRecords
  <2> QED BY <1>2, <2>3, Zenon DEF Types, SetFunctionLifecycle
<1>3. CASE c.kind = "rotate" /\ RotateInvocationToken
  BY <1>3 DEF Types, RotateInvocationToken
<1>4. CASE c.kind = "version" /\ CreateVersion
  <2>1. [state |-> "Uploaded", revision |-> 1] \in [state : VersionStates, revision : Nat]
    BY Zenon DEF VersionStates
  <2> QED BY <1>4, <2>1, SeqAppend, Zenon DEF Types, CreateVersion
<1>5. CASE c.kind = "publish" /\ Publish(c)
  <2>1. c.expected + 1 \in Nat /\ c.version \in Nat BY <1>5, CommandKinds
  <2>2. function \in FunctionRecords /\ function.revision + 1 \in Nat BY DEF Types, FunctionRecords
  <2>3. function' \in FunctionRecords BY <1>5, <2>1, <2>2, Zenon DEF Publish, FunctionRecords
  <2> QED BY <1>5, <2>1, <2>3, Zenon DEF Types, Publish
<1> QED BY <1>1, <1>2, <1>3, <1>4, <1>5, Zenon DEF ApplyCommand

\* Before the command is applied, its prepared outcome is its result: operationMu
\* kept the stores as they were.
LEMMA ResultForeseen ==
    ASSUME Types, NEW c \in Commands, Applicable(c), ApplyCommand(c),
           route.revision = function.active
    PROVE  Result(c) = Prepared(c)
<1>0. Len(versions) \in Nat /\ function \in FunctionRecords
  BY SeqLen, Zenon DEF Types
<1>1. CASE c.kind = "create" /\ CreateFunction(c)
  <2>1. function'.revision = 1 BY <1>1, Zenon DEF CreateFunction, NoFunction
  <2> QED BY <1>1, <2>1, Zenon DEF Result, Prepared
<1>2. CASE c.kind = "lifecycle" /\ SetFunctionLifecycle(c)
  <2>1. function'.revision = nextLifecycleRevision(c)
    BY <1>0, <1>2, Zenon DEF Applicable, SetFunctionLifecycle, nextLifecycleRevision, FunctionRecords
  <2> QED BY <1>2, <2>1, Zenon DEF Result, Prepared
<1>3. CASE c.kind = "rotate" /\ RotateInvocationToken
  BY <1>3, Zenon DEF Applicable, RotateInvocationToken, Result, Prepared
<1>4. CASE c.kind = "version" /\ CreateVersion
  <2>1. [state |-> "Uploaded", revision |-> 1] \in [state : VersionStates, revision : Nat]
    BY Zenon DEF VersionStates
  <2>2. Len(versions') = Len(versions) + 1 /\ versions'[Len(versions')].revision = 1
    BY <1>4, <2>1, SeqAppend DEF Types, CreateVersion
  <2> QED BY <1>4, <2>2, Zenon DEF Result, Prepared
<1>5. CASE c.kind = "publish" /\ Publish(c)
  <2>1. route'.revision = c.expected + 1 /\ function'.revision = function.revision + 1
    BY <1>0, <1>5, Zenon DEF Publish, FunctionRecords
  <2> QED BY <1>5, <2>1, Zenon DEF Result, Prepared
<1> QED BY <1>1, <1>2, <1>3, <1>4, <1>5, Zenon DEF ApplyCommand

\* Completing a command keeps the types.
LEMMA CompleteTypes ==
    ASSUME Inv, NEW s \in Slots, Complete(s) PROVE Types'
<1>0. Types /\ request[s] \in Requests /\ "failed" \in Statuses /\ "applied" \in Statuses
  BY Parts, Zenon DEF Types, Statuses
<1>a. request[s].at \in {"prepared", "refused"} => request[s].id \in Operations /\ request[s].command \in Commands
  BY Parts, Zenon DEF Fresh
<1>b. request[s].time \in Nat /\ request[s].outcome \in Outcomes BY <1>0, Zenon DEF Requests
<1>1. CASE Overloaded(s) BY <1>0, <1>1, AnswerTypes, Zenon DEF Overloaded, Statuses
<1>2. CASE ApplyFails(s)
  <2>1. [request[s] EXCEPT !.at = "refused"] \in Requests
    BY <1>0, Zenon DEF Requests, Stages
  <2> QED BY <1>0, <1>2, <2>1, Zenon DEF ApplyFails, Move, Types, ledger, stores
<1>3. CASE RecordFailure(s)
  <2>1. Reply(request[s], "failed", 0, 0) \in Requests BY <1>0, ReplyFields, Zenon
  <2>2. [command |-> request[s].command, status |-> "Failed",
         outcome |-> NoOutcome, completedAt |-> request[s].time] \in Records
    BY <1>3, <1>a, <1>b, Zenon DEF RecordFailure, Records, NoOutcome, Outcome, Outcomes
  <2>3. /\ DOMAIN records' \subseteq Operations
        /\ \A k \in DOMAIN records' : records'[k] \in Records
        /\ DOMAIN tombstones' \subseteq Operations
        /\ \A k \in DOMAIN tombstones' : tombstones'[k] \in Nat
    <3>1. CASE Full BY <1>0, <1>3, <3>1, Zenon DEF RecordFailure, ledger, Types
    <3>2. CASE ~Full BY <1>0, <1>3, <1>a, <2>2, <3>2, InsertTypes, Zenon DEF RecordFailure
    <3> QED BY <3>1, <3>2, Zenon
  <2> QED BY <1>0, <1>3, <2>1, <2>3, Zenon DEF RecordFailure, Move, Types, stores
<1>4. CASE CompleteAfter(s)
  <2> DEFINE r == [request[s] EXCEPT !.made = Len(effects) + 1]
             c == request[s].command
  <2>1. r \in Requests /\ r.command = c /\ r.id = request[s].id /\ r.at = request[s].at
        /\ r.time = request[s].time /\ r.outcome = request[s].outcome
    <3>1. Len(effects) + 1 \in Nat BY <1>0, SeqLen DEF Types
    <3> QED BY <1>0, <3>1, Zenon DEF Requests
  <2>2. c \in Commands /\ r.id \in Operations /\ r.time \in Nat /\ r.outcome \in Outcomes
    BY <1>4, <1>a, <1>b, <2>1, Zenon DEF CompleteAfter
  <2>3. ApplyCommand(c) /\ Applicable(c) BY <1>4, <2>1, Zenon DEF CompleteAfter
  <2>4. Result(c) \in Outcomes BY <1>0, <2>2, <2>3, Parts, ResultForeseen, PreparedType, Zenon
  <2>5. [command |-> c, status |-> "Succeeded", outcome |-> r.outcome, completedAt |-> r.time] \in Records
    BY <2>2, Zenon DEF Records
  <2>6. [id |-> r.id, command |-> c, at |-> r.time, outcome |-> Result(c)] \in Effects
    BY <2>2, <2>4, Zenon DEF Effects
  <2>7. effects' \in Seq(Effects)
    BY <1>0, <1>4, <2>1, <2>6, SeqAppend, Zenon DEF CompleteAfter, Types
  <2>8. function' \in FunctionRecords /\ trigger' \in Nat
        /\ versions' \in Seq([state : VersionStates, revision : Nat])
        /\ route' \in [revision : Nat, version : Nat]
    BY <1>0, <2>2, <2>3, ApplyTypes, Zenon
  <2>9. Reply(r, "applied", Result(c).revision, function'.active) \in Requests
    BY <1>0, <2>1, <2>4, <2>8, ReplyFields, Zenon DEF Outcomes, FunctionRecords
  <2>10. [r EXCEPT !.at = "starting"] \in Requests BY <2>1, Zenon DEF Requests, Stages
  <2>11. request' \in [Slots -> Requests]
    BY <1>0, <1>4, <2>1, <2>9, <2>10, Zenon DEF CompleteAfter, Move, Types
  <2>12. /\ DOMAIN records' \subseteq Operations
         /\ \A k \in DOMAIN records' : records'[k] \in Records
         /\ DOMAIN tombstones' \subseteq Operations
         /\ \A k \in DOMAIN tombstones' : tombstones'[k] \in Nat
    BY <1>0, <1>4, <2>1, <2>2, <2>5, InsertTypes, Zenon DEF CompleteAfter
  <2> QED BY <1>0, <1>4, <2>7, <2>8, <2>11, <2>12, Zenon DEF CompleteAfter, Types
<1> QED BY <1>1, <1>2, <1>3, <1>4, Zenon DEF Complete

\* Replacing one element of a sequence.
LEMMA Replaced ==
    ASSUME NEW S, NEW q \in Seq(S), NEW p, NEW n \in 1..Len(q), NEW x \in S, p = [q EXCEPT ![n] = x]
    PROVE  /\ p \in Seq(S) /\ Len(p) = Len(q)
           /\ \A j \in 1..Len(q) : p[j] = IF j = n THEN x ELSE q[j]
    BY SeqExcept

\* One step of a Version's admission keeps the types of the stores.
LEMMA SetVersionTypes ==
    ASSUME Types, NEW v \in DOMAIN versions, NEW state \in VersionStates, SetVersion(v, state)
    PROVE  /\ versions' \in Seq([state : VersionStates, revision : Nat])
           /\ Len(versions') = Len(versions) /\ DOMAIN versions' = DOMAIN versions
           /\ versions'[v] = [state |-> state, revision |-> versions[v].revision + 1]
           /\ \A w \in DOMAIN versions \ {v} : versions'[w] = versions[w]
           /\ UNCHANGED <<function, trigger, route>>
<1> DEFINE e == [state |-> state, revision |-> versions[v].revision + 1]
<1>1. v \in 1..Len(versions) BY SeqLen, Zenon DEF Types
<1>2. versions[v] \in [state : VersionStates, revision : Nat]
  BY <1>1, SeqElement, Zenon DEF Types
<1>3. e \in [state : VersionStates, revision : Nat] BY <1>2
<1>4. versions' = [versions EXCEPT ![v] = e] BY Zenon DEF SetVersion
<1> DEFINE S == [state : VersionStates, revision : Nat]
<1>a. versions \in Seq(S) /\ e \in S BY <1>3, Zenon DEF Types
<1> HIDE DEF e, S
<1>b. /\ versions' \in Seq(S) /\ Len(versions') = Len(versions)
      /\ \A j \in 1..Len(versions) : versions'[j] = IF j = v THEN e ELSE versions[j]
  BY <1>1, <1>4, <1>a, Replaced
<1>5. /\ versions' \in Seq([state : VersionStates, revision : Nat])
      /\ Len(versions') = Len(versions)
      /\ \A j \in 1..Len(versions) : versions'[j] = IF j = v THEN e ELSE versions[j]
  BY <1>b, Zenon DEF S
<1>6. DOMAIN versions' = 1..Len(versions) /\ DOMAIN versions = 1..Len(versions)
  BY <1>5, SeqLen, Zenon DEF Types
<1> QED BY <1>1, <1>5, <1>6, Zenon DEF SetVersion, e

\* Admission keeps the types.
LEMMA AdmissionTypes ==
    ASSUME Inv, NEW s \in Slots, Admission(s) PROVE Types'
<1> DEFINE v == request[s].outcome.version
<1>0. Types /\ request[s] \in Requests /\ "applied" \in Statuses
  BY Parts, Zenon DEF Types, Statuses
<1>a. request[s].at \in {"starting", "admitting"} /\ v \in DOMAIN versions
  BY Parts, Zenon DEF Admission, StartValidation, AdmissionFails, Admit, Admitting
<1>b. versions[v] \in [state : VersionStates, revision : Nat]
  <2>1. versions \in Seq([state : VersionStates, revision : Nat]) BY <1>0, Zenon DEF Types
  <2> QED BY <1>a, <2>1, SeqElement, SeqLen, ZenonT(40)
<1>1. CASE StartValidation(s)
  <2>1. [request[s] EXCEPT !.at = "admitting"] \in Requests BY <1>0, Zenon DEF Requests, Stages
  <2>2. versions' \in Seq([state : VersionStates, revision : Nat]) /\ UNCHANGED <<function, trigger, route>>
    BY <1>0, <1>1, <1>a, SetVersionTypes, Zenon DEF StartValidation, VersionStates
  <2> QED BY <1>0, <1>1, <2>1, <2>2, Zenon DEF StartValidation, Move, Types, ledger
<1>2. CASE AdmissionFails(s)
  <2>1. Reply(request[s], "applied", versions[v].revision, 0) \in Requests
    BY <1>0, <1>b, ReplyFields, Zenon
  <2> QED BY <1>0, <1>2, <2>1, Zenon DEF AdmissionFails, Move, Types, ledger, stores
<1>3. ASSUME NEW verdict \in Verdicts, Admit(s, verdict) PROVE Types'
  <2>1. /\ versions' \in Seq([state : VersionStates, revision : Nat])
        /\ versions'[v] = [state |-> verdict, revision |-> versions[v].revision + 1]
        /\ UNCHANGED <<function, trigger, route>>
    BY <1>0, <1>3, <1>a, SetVersionTypes, Zenon DEF Admit, VersionStates, Verdicts
  <2>2. versions'[v].revision \in Nat BY <1>b, <2>1, SMTT(30)
  <2>3. Reply(request[s], "applied", versions'[v].revision, 0) \in Requests
    BY <1>0, <2>2, ReplyFields, Zenon
  <2> QED BY <1>0, <1>3, <2>1, <2>3, Zenon DEF Admit, Move, Types, ledger
<1> QED BY <1>1, <1>2, <1>3, Zenon DEF Admission

\* Garbage collection keeps the types.
LEMMA CollectTypes ==
    ASSUME Types, NEW cutoff \in 0..now, GC(cutoff) PROVE Types'
<1>1. cutoff \in Nat BY DEF Types
<1>2. Elapsed(cutoff) \subseteq DOMAIN records BY Zenon DEF Elapsed
<1>3. /\ DOMAIN records' \subseteq DOMAIN records /\ \A k \in DOMAIN records' : records'[k] = records[k]
      /\ DOMAIN tombstones' \subseteq DOMAIN tombstones \cup Elapsed(cutoff)
      /\ \A k \in DOMAIN tombstones' :
            tombstones'[k] = IF k \in Elapsed(cutoff) THEN cutoff ELSE tombstones[k]
  BY Zenon DEF GC, CollectLedger
<1> QED BY <1>1, <1>2, <1>3, Zenon DEF Types, GC, stores

\* Every step keeps the types.
LEMMA TypesStep ==
    ASSUME Inv, [Next]_vars PROVE Types'
<1>0. Types BY Parts, Zenon
<1>1. CASE Tick BY <1>0, <1>1 DEF Tick, Types, ledger, stores
<1>2. ASSUME NEW s \in Slots, NEW id \in Operations, NEW command \in Commands, Arrive(s, id, command)
      PROVE  Types'
  <2>1. [Idle EXCEPT !.at = "waiting", !.id = id, !.command = command,
                     !.since = Current(command)] \in Requests
    <3>1. Current(command) \in Nat BY <1>0, CurrentType, Zenon
    <3> QED BY <3>1, Zenon DEF Idle, Requests, NoOutcome, Outcome, Outcomes, Stages, Statuses
  <2> QED BY <1>0, <1>2, <2>1 DEF Arrive, Move, Types, ledger, stores
<1>3. ASSUME NEW s \in Slots, Lookup(s) \/ Complete(s) \/ Admission(s) \/ Resolve(s) PROVE Types'
  BY <1>3, LookupTypes, CompleteTypes, AdmissionTypes, ResolveTypes, Zenon
<1>4. ASSUME NEW v \in DOMAIN versions, NEW verdict \in Verdicts, Resume(v, verdict) PROVE Types'
  <2>1. versions' \in Seq([state : VersionStates, revision : Nat]) /\ UNCHANGED <<function, trigger, route>>
    BY <1>0, <1>4, SetVersionTypes, Zenon DEF Resume, VersionStates, Verdicts
  <2> QED BY <1>0, <1>4, <2>1, Zenon DEF Resume, Types, ledger
<1>5. ASSUME NEW cutoff \in 0..now, GC(cutoff) PROVE Types' BY <1>0, <1>5, CollectTypes, Zenon
<1>6. CASE UNCHANGED vars BY <1>0, <1>6, Zenon DEF vars, Types
<1> QED BY <1>1, <1>2, <1>3, <1>4, <1>5, <1>6, Zenon DEF Next

-----------------------------------------------------------------------------
(* What a step may do to the ledger, the stores and the effects.           *)

\* Only requests, operationMu or the clock change.
Quiet ==
    /\ UNCHANGED <<records, tombstones, function, trigger, versions, route, effects>>
    /\ now <= now'

\* The admission of one Version moves on.
Advances(v, state) ==
    /\ SetVersion(v, state)
    /\ \/ versions[v].state = "Uploaded" /\ state = "Validating"
       \/ versions[v].state = "Validating" /\ state \in Verdicts
    /\ UNCHANGED <<records, tombstones, effects, now>>

\* What a step can do to the ledger and to the stores.
LEMMA Steps ==
    ASSUME Inv, [Next]_vars
    PROVE  \/ Quiet
           \/ \E s \in Slots : RecordFailure(s) \/ CompleteAfter(s)
           \/ \E v \in DOMAIN versions, state \in VersionStates : Advances(v, state)
           \/ \E cutoff \in 0..now : GC(cutoff)
<1>0. Types /\ now \in Nat BY Parts DEF Types
<1>1. CASE Tick BY <1>0, <1>1 DEF Tick, Quiet, ledger, stores
<1>2. ASSUME NEW s \in Slots, NEW id \in Operations, NEW command \in Commands, Arrive(s, id, command)
      PROVE  Quiet
  BY <1>0, <1>2 DEF Arrive, Quiet, ledger, stores
<1>3. ASSUME NEW s \in Slots, Lookup(s) PROVE Quiet
  BY <1>0, <1>3 DEF Lookup, AnswerRefusal, ReplayFunction, ReplayRoute, ReplayVersion, Prepare,
     PrepareFails, Answer, Quiet, ledger, stores
<1>4. ASSUME NEW s \in Slots, Resolve(s) PROVE Quiet
  BY <1>0, <1>4 DEF Resolve, ResolveRoute, replayedVersionResult, ReleaseSlot, Quiet, ledger, stores
<1>5. ASSUME NEW s \in Slots, Overloaded(s) \/ ApplyFails(s) \/ AdmissionFails(s) PROVE Quiet
  BY <1>0, <1>5 DEF Overloaded, ApplyFails, AdmissionFails, Answer, Quiet, ledger, stores
<1>6. ASSUME NEW s \in Slots, StartValidation(s)
      PROVE  /\ request[s].outcome.version \in DOMAIN versions
             /\ Advances(request[s].outcome.version, "Validating")
  BY <1>6, Parts, Zenon DEF StartValidation, Admitting, Advances, ledger
<1>7. ASSUME NEW s \in Slots, NEW verdict \in Verdicts, Admit(s, verdict)
      PROVE  /\ request[s].outcome.version \in DOMAIN versions
             /\ Advances(request[s].outcome.version, verdict)
  BY <1>7, Parts, Zenon DEF Admit, Admitting, Advances, ledger
<1>8. ASSUME NEW v \in DOMAIN versions, NEW verdict \in Verdicts, Resume(v, verdict)
      PROVE  Advances(v, verdict)
  BY <1>8, Zenon DEF Resume, Advances, ledger
<1>9. CASE UNCHANGED vars BY <1>0, <1>9 DEF vars, Quiet
<1>10. Verdicts \subseteq VersionStates /\ "Validating" \in VersionStates
  BY Zenon DEF Verdicts, VersionStates
<1> QED BY <1>1, <1>2, <1>3, <1>4, <1>5, <1>6, <1>7, <1>8, <1>9, <1>10, Zenon DEF Next, Complete, Admission

\* What an inserted record leaves in the ledger.
LEMMA Inserted ==
    ASSUME NEW id, NEW record, Insert(id, record)
    PROVE  /\ DOMAIN records' = DOMAIN records \cup {id} /\ records'[id] = record
           /\ \A k \in DOMAIN records \ {id} : records'[k] = records[k]
           /\ tombstones' = tombstones
    BY Zenon DEF Insert

\* What garbage collection leaves in the ledger.
LEMMA Collected ==
    ASSUME Types, NEW cutoff \in 0..now, GC(cutoff)
    PROVE  /\ cutoff \in Nat /\ Elapsed(cutoff) \subseteq DOMAIN records
           /\ DOMAIN records' = DOMAIN records \ Elapsed(cutoff)
           /\ \A k \in DOMAIN records' : records'[k] = records[k]
           /\ \A k \in DOMAIN tombstones :
                 k \in DOMAIN tombstones' \/ tombstones[k] + TombstoneTTL <= cutoff \/ k \in Elapsed(cutoff)
           /\ \A k \in Elapsed(cutoff) : k \in DOMAIN tombstones' /\ tombstones'[k] = cutoff
           /\ DOMAIN tombstones' \subseteq DOMAIN tombstones \cup Elapsed(cutoff)
           /\ \A k \in DOMAIN tombstones' \ Elapsed(cutoff) : tombstones'[k] = tombstones[k]
           /\ UNCHANGED <<function, trigger, versions, route, effects, request, now>>
<1> DEFINE buried == [k \in DOMAIN tombstones \cup Elapsed(cutoff) |->
                         IF k \in Elapsed(cutoff) THEN cutoff ELSE tombstones[k]]
<1>1. cutoff \in Nat BY DEF Types
<1>2. Elapsed(cutoff) \subseteq DOMAIN records BY Zenon DEF Elapsed
<1>3. /\ records' = [k \in DOMAIN records \ Elapsed(cutoff) |-> records[k]]
      /\ tombstones' = [k \in {j \in DOMAIN buried : buried[j] + TombstoneTTL > cutoff} |-> buried[k]]
      /\ UNCHANGED <<function, trigger, versions, route, effects, request, now>>
  BY Zenon DEF GC, CollectLedger, stores
<1>4. \A k \in Elapsed(cutoff) : buried[k] + TombstoneTTL > cutoff BY <1>1
<1>5. \A k \in DOMAIN tombstones : tombstones[k] \in Nat BY Zenon DEF Types
<1> QED BY <1>1, <1>2, <1>3, <1>4, <1>5

\* What completing a command leaves behind.
LEMMA Applied ==
    ASSUME Inv, NEW s \in Slots, CompleteAfter(s)
    PROVE  LET r == request[s] n == Len(effects) + 1 IN
           /\ r.at = "prepared" /\ ~Full /\ Applicable(r.command) /\ ApplyCommand(r.command)
           /\ r.command \in Commands /\ r.id \in Operations
           /\ Insert(r.id, [command |-> r.command, status |-> "Succeeded", outcome |-> r.outcome,
                            completedAt |-> r.time])
           /\ DOMAIN effects = 1..Len(effects) /\ Len(effects) \in Nat
           /\ DOMAIN effects' = DOMAIN effects \cup {n}
           /\ \A i \in DOMAIN effects : effects'[i] = effects[i]
           /\ effects'[n] = [id |-> r.id, command |-> r.command, at |-> r.time, outcome |-> r.outcome]
           /\ Result(r.command) = r.outcome
           /\ operationMu' = Nobody /\ now' = now
<1> DEFINE r == request[s]
           q == [request[s] EXCEPT !.made = Len(effects) + 1]
           e == [id |-> r.id, command |-> r.command, at |-> r.time, outcome |-> Result(r.command)]
<1>0. Types /\ r \in Requests BY Parts, Zenon
<1>1. q.at = r.at /\ q.command = r.command /\ q.id = r.id /\ q.time = r.time /\ q.outcome = r.outcome
  BY <1>0, Zenon DEF Requests
<1>2. /\ r.at = "prepared" /\ ~Full /\ Applicable(r.command) /\ ApplyCommand(r.command)
      /\ Insert(r.id, [command |-> r.command, status |-> "Succeeded", outcome |-> r.outcome,
                       completedAt |-> r.time])
      /\ effects' = Append(effects, e)
      /\ operationMu' = Nobody /\ now' = now
  BY <1>1, Zenon DEF CompleteAfter
<1>3. r.command \in Commands /\ r.id \in Operations /\ r.time \in Nat /\ r.outcome = Prepared(r.command)
  BY <1>0, <1>2, Parts, Zenon DEF Fresh, Foreseen, Requests
<1>4. Result(r.command) = r.outcome BY <1>2, <1>3, Parts, ResultForeseen, Zenon
<1>5. e \in Effects BY <1>0, <1>3, <1>4, PreparedType, Zenon DEF Effects
<1>6. DOMAIN effects = 1..Len(effects) /\ Len(effects) \in Nat BY <1>0, SeqLen, Zenon DEF Types
<1> HIDE DEF e
<1>7. /\ effects' \in Seq(Effects) /\ Len(effects') = Len(effects) + 1
      /\ \A i \in 1..Len(effects) : effects'[i] = effects[i]
      /\ effects'[Len(effects) + 1] = e
  BY <1>0, <1>2, <1>5, SeqAppend DEF Types
<1>8. DOMAIN effects' = 1..(Len(effects) + 1) BY <1>7, SeqLen, Zenon
<1> QED BY <1>2, <1>3, <1>4, <1>6, <1>7, <1>8 DEF e

-----------------------------------------------------------------------------
(* The ledger.                                                             *)

\* What a failure that finds room leaves behind.
LEMMA Failed ==
    ASSUME Inv, NEW s \in Slots, RecordFailure(s)
    PROVE  /\ request[s].at = "refused" /\ Unknown(request[s].id) /\ request[s].time <= now
           /\ \A i \in DOMAIN effects : effects[i].id = request[s].id => Over(i) <= request[s].time
           /\ UNCHANGED <<function, trigger, versions, route, effects, now>>
           /\ \/ records' = records /\ tombstones' = tombstones
              \/ ~Full /\ Insert(request[s].id, [command |-> request[s].command, status |-> "Failed",
                                                 outcome |-> NoOutcome, completedAt |-> request[s].time])
    BY Parts, Zenon DEF RecordFailure, Fresh, ledger, stores

\* An insertion where there is room keeps the ledger within its capacity.
LEMMA InsertBounded ==
    ASSUME Bounded, NEW id, NEW record, Unknown(id), ~Full, Insert(id, record) PROVE Bounded'
<1>1. DOMAIN records' = DOMAIN records \cup {id} /\ tombstones' = tombstones BY Inserted, Zenon
<1>2. IsFiniteSet(DOMAIN records') /\ Cardinality(DOMAIN records') = Cardinality(DOMAIN records) + 1
  BY <1>1, FS_AddElement, Zenon DEF Bounded, Unknown
<1>3. Cardinality(DOMAIN records) \in Nat /\ Cardinality(DOMAIN tombstones) \in Nat
  BY FS_CardinalityType, Zenon DEF Bounded
<1>4. Cardinality(DOMAIN records) + Cardinality(DOMAIN tombstones) < MaxOperations
  BY <1>3 DEF Full
<1> QED BY <1>1, <1>2, <1>3, <1>4 DEF Bounded, Unknown

\* Collection turns at most as many records into tombstones as it removes.
LEMMA CollectBounded ==
    ASSUME Types, Bounded, NEW cutoff \in 0..now, GC(cutoff) PROVE Bounded'
<1> DEFINE R == DOMAIN records  T == DOMAIN tombstones  E == Elapsed(cutoff)
<1>1. E \subseteq R /\ DOMAIN records' = R \ E /\ DOMAIN tombstones' \subseteq T \cup E
  BY Collected, Zenon
<1>2. IsFiniteSet(R) /\ IsFiniteSet(T) /\ R \cap T = {} BY Zenon DEF Bounded
<1>3. IsFiniteSet(E) /\ IsFiniteSet(R \ E) BY <1>1, <1>2, FS_Subset, Zenon
<1>4. IsFiniteSet(T \cup E) /\ Cardinality(T \cup E) = Cardinality(T) + Cardinality(E) - Cardinality(T \cap E)
  BY <1>2, <1>3, FS_Union, Zenon
<1>5. T \cap E = {} /\ Cardinality({}) = 0 BY <1>1, <1>2, FS_EmptySet, Zenon
<1>6. Cardinality(R) = Cardinality(R \ E) + Cardinality(E)
  <2>1. R = (R \ E) \cup E /\ (R \ E) \cap E = {} BY <1>1, Zenon
  <2>2. Cardinality((R \ E) \cup E) = Cardinality(R \ E) + Cardinality(E) - Cardinality((R \ E) \cap E)
    BY <1>3, FS_Union, Zenon
  <2>3. Cardinality((R \ E) \cap E) = 0 BY <1>5, <2>1, Zenon
  <2>4. Cardinality(R) = Cardinality((R \ E) \cup E) BY <2>1, Zenon
  <2>5. Cardinality(R \ E) \in Nat /\ Cardinality(E) \in Nat BY <1>3, FS_CardinalityType, Zenon
  <2> QED BY <2>2, <2>3, <2>4, <2>5
<1>7. IsFiniteSet(DOMAIN tombstones') /\ Cardinality(DOMAIN tombstones') <= Cardinality(T \cup E)
  BY <1>1, <1>4, FS_Subset, Zenon
<1>8. /\ Cardinality(R \ E) \in Nat /\ Cardinality(E) \in Nat /\ Cardinality(T) \in Nat
      /\ Cardinality(DOMAIN tombstones') \in Nat /\ Cardinality(R) \in Nat
  BY <1>2, <1>3, <1>7, FS_CardinalityType, Zenon
<1>9. Cardinality(DOMAIN records') = Cardinality(R \ E) BY <1>1, Zenon
<1>10. Cardinality(R) + Cardinality(T) <= MaxOperations BY Zenon DEF Bounded
<1>11. Cardinality(DOMAIN records') + Cardinality(DOMAIN tombstones') <= MaxOperations
  <2>0. Cardinality(T \cap E) = 0 BY <1>5, Zenon
  <2>1. Cardinality(T \cup E) = Cardinality(T) + Cardinality(E) BY <1>4, <1>8, <2>0
  <2> DEFINE r == Cardinality(R)  t == Cardinality(T)  e == Cardinality(E)  q == Cardinality(R \ E)
             u == Cardinality(T \cup E)  w == Cardinality(DOMAIN tombstones')
             p == Cardinality(DOMAIN records')
  <2>2. /\ {r, t, e, q, w} \subseteq Nat /\ p = q /\ r = q + e /\ u = t + e /\ w <= u
        /\ r + t <= MaxOperations
    BY <1>6, <1>7, <1>8, <1>9, <1>10, <2>1, Zenon
  <2> HIDE DEF r, t, e, q, u, w, p
  <2>3. p + w <= MaxOperations BY <2>2
  <2> QED BY <2>3, Zenon DEF p, w
<1>12. IsFiniteSet(DOMAIN records') BY <1>1, <1>3, Zenon
<1>13. DOMAIN records' \cap DOMAIN tombstones' = {} BY <1>1, <1>2, Zenon
<1> QED BY <1>7, <1>11, <1>12, <1>13, Zenon DEF Bounded

\* Every step keeps the ledger within its capacity.
LEMMA BoundedStep ==
    ASSUME Inv, [Next]_vars PROVE Bounded'
<1>0. Types /\ Bounded /\ \A s \in Slots : Fresh(request[s])
  BY Parts, Zenon
<1>1. CASE Quiet BY <1>0, <1>1, Zenon DEF Quiet, Bounded
<1>2. ASSUME NEW s \in Slots, RecordFailure(s) PROVE Bounded'
  <2>1. CASE records' = records /\ tombstones' = tombstones BY <1>0, <2>1, Zenon DEF Bounded
  <2> QED BY <1>0, <1>2, <2>1, Failed, InsertBounded, Zenon
<1>3. ASSUME NEW s \in Slots, CompleteAfter(s) PROVE Bounded'
  <2>1. request[s].at = "prepared" /\ ~Full BY <1>3, Applied, Zenon
  <2>2. Unknown(request[s].id) BY <1>0, <2>1, Zenon DEF Fresh
  <2> QED BY <1>0, <1>3, <2>1, <2>2, Applied, InsertBounded, Zenon
<1>4. ASSUME NEW v \in DOMAIN versions, NEW state \in VersionStates, Advances(v, state) PROVE Bounded'
  BY <1>0, <1>4, Zenon DEF Advances, Bounded
<1>5. ASSUME NEW cutoff \in 0..now, GC(cutoff) PROVE Bounded'
  BY <1>0, <1>5, CollectBounded, Zenon
<1> QED BY <1>1, <1>2, <1>3, <1>4, <1>5, Steps, Zenon

\* Every step keeps effects covered, spaced and recorded in the past.
LEMMA RetentionStep ==
    ASSUME Inv, [Next]_vars PROVE Retention' /\ Spaced' /\ Completed'
<1>0. Types /\ Retention /\ Spaced /\ Completed /\ \A s \in Slots : Fresh(request[s])
  BY Parts, Zenon
<1>a. now \in Nat /\ \A i \in DOMAIN effects : effects[i].at \in Nat /\ Over(i) \in Nat
  <2>1. \A i \in DOMAIN effects : effects[i] \in Effects
    BY <1>0, SeqElement, SeqLen, Zenon DEF Types
  <2> QED BY <1>0, <2>1, SMTT(30) DEF Types, Effects, Over
<1>b. /\ \A k \in DOMAIN records : records[k].completedAt \in Nat
      /\ \A k \in DOMAIN tombstones : tombstones[k] \in Nat
      /\ \A s \in Slots : request[s].time \in Nat
  BY <1>0, Zenon DEF Types, Records, Requests
<1>c. now' \in Nat BY TypesStep DEF Types
<1>1. CASE Quiet BY <1>0, <1>1, <1>a, <1>b, <1>c DEF Quiet, Retention, Spaced, Completed, Over
<1>2. ASSUME NEW s \in Slots, RecordFailure(s) PROVE Retention' /\ Spaced' /\ Completed'
  <2>0. /\ Unknown(request[s].id) /\ request[s].time <= now /\ effects' = effects /\ now' = now
        /\ \A i \in DOMAIN effects : effects[i].id = request[s].id => Over(i) <= request[s].time
    BY <1>2, Failed, Zenon
  <2>1. CASE records' = records /\ tombstones' = tombstones
    BY <1>0, <2>0, <2>1, Zenon DEF Retention, Spaced, Completed, Over
  <2>2. CASE Insert(request[s].id, [command |-> request[s].command, status |-> "Failed",
                                    outcome |-> NoOutcome, completedAt |-> request[s].time])
    <3>1. /\ DOMAIN records' = DOMAIN records \cup {request[s].id} /\ tombstones' = tombstones
          /\ records'[request[s].id].completedAt = request[s].time
          /\ \A k \in DOMAIN records \ {request[s].id} : records'[k] = records[k]
      BY <2>2, Zenon DEF Insert
    <3>2. Spaced' BY <1>0, <2>0, Zenon DEF Spaced, Over
    <3>3. Completed' BY <1>0, <2>0, <3>1, Zenon DEF Completed
    <3>4. Retention' BY <1>0, <1>a, <1>b, <2>0, <3>1, Zenon DEF Retention, Over, Unknown
    <3> QED BY <3>2, <3>3, <3>4, Zenon
  <2> QED BY <1>2, <2>1, <2>2, Failed, Zenon
<1>3. ASSUME NEW s \in Slots, CompleteAfter(s) PROVE Retention' /\ Spaced' /\ Completed'
  <2> DEFINE r == request[s]  n == Len(effects) + 1
  <2>1. /\ r.at = "prepared" /\ DOMAIN effects = 1..Len(effects) /\ Len(effects) \in Nat
        /\ DOMAIN effects' = DOMAIN effects \cup {n} /\ now' = now
        /\ \A i \in DOMAIN effects : effects'[i] = effects[i]
        /\ effects'[n].id = r.id /\ effects'[n].at = r.time
    <3>1. /\ r.at = "prepared" /\ DOMAIN effects = 1..Len(effects) /\ Len(effects) \in Nat
          /\ DOMAIN effects' = DOMAIN effects \cup {n} /\ now' = now
          /\ \A i \in DOMAIN effects : effects'[i] = effects[i]
          /\ effects'[n] = [id |-> r.id, command |-> r.command, at |-> r.time, outcome |-> r.outcome]
      BY <1>3, Applied, Zenon
    <3> QED BY <3>1, SMTT(40)
  <2>a. /\ DOMAIN records' = DOMAIN records \cup {r.id} /\ tombstones' = tombstones
        /\ records'[r.id].completedAt = r.time
        /\ \A k \in DOMAIN records \ {r.id} : records'[k] = records[k]
    <3>1. Insert(r.id, [command |-> r.command, status |-> "Succeeded", outcome |-> r.outcome,
                        completedAt |-> r.time])
      BY <1>3, Applied, Zenon
    <3> QED BY <3>1, Zenon DEF Insert
  <2>2. /\ Unknown(r.id) /\ r.time <= now /\ r.time \in Nat
        /\ \A i \in DOMAIN effects : effects[i].id = r.id => Over(i) <= r.time
    BY <1>0, <1>b, <2>1, Zenon DEF Fresh
  <2>3. \A i \in DOMAIN effects : Over(i)' = Over(i) BY <2>1, Zenon DEF Over
  <2> HIDE DEF r, n
  <2>4. Completed' BY <1>0, <2>1, <2>2, <2>a, Zenon DEF Completed
  <2>5. Spaced'
    <3> SUFFICES ASSUME NEW i \in DOMAIN effects', NEW j \in DOMAIN effects', i < j,
                        effects'[i].id = effects'[j].id
                 PROVE  Over(i)' <= effects'[j].at
      BY Zenon DEF Spaced
    <3>1. i \in DOMAIN effects BY <2>1 DEF n
    <3> QED BY <1>0, <2>1, <2>2, <2>3, <3>1, Zenon DEF Spaced
  <2>6. Retention'
    <3> SUFFICES ASSUME NEW i \in DOMAIN effects'
                 PROVE  \/ /\ effects'[i].id \in DOMAIN records'
                           /\ effects'[i].at <= records'[effects'[i].id].completedAt
                        \/ /\ effects'[i].id \in DOMAIN tombstones'
                           /\ effects'[i].at + OperationTTL <= tombstones'[effects'[i].id]
                        \/ Over(i)' <= now'
      BY Zenon DEF Retention
    <3>1. CASE i = n BY <2>1, <2>2, <2>a, <3>1
    <3>2. CASE i \in DOMAIN effects /\ effects[i].id = r.id
      BY <1>a, <2>1, <2>2, <2>3, <2>a, <3>2
    <3>3. CASE i \in DOMAIN effects /\ effects[i].id # r.id
      BY <1>0, <2>1, <2>3, <2>a, <3>3 DEF Retention
    <3> QED BY <2>1, <3>1, <3>2, <3>3, Zenon
  <2> QED BY <2>4, <2>5, <2>6, Zenon
<1>4. ASSUME NEW v \in DOMAIN versions, NEW state \in VersionStates, Advances(v, state)
      PROVE  Retention' /\ Spaced' /\ Completed'
  BY <1>0, <1>4, Zenon DEF Advances, Retention, Spaced, Completed, Over
<1>5. ASSUME NEW cutoff \in 0..now, GC(cutoff) PROVE Retention' /\ Spaced' /\ Completed'
  <2>1. effects' = effects /\ now' = now BY <1>0, <1>5, Collected, Zenon
  <2>2. Spaced' BY <1>0, <2>1, Zenon DEF Spaced, Over
  <2>3. Completed' BY <1>0, <1>5, <2>1, Collected, Zenon DEF Completed
  <2>4. Retention'
    <3> SUFFICES ASSUME NEW i \in DOMAIN effects
                 PROVE  \/ /\ effects[i].id \in DOMAIN records'
                           /\ effects[i].at <= records'[effects[i].id].completedAt
                        \/ /\ effects[i].id \in DOMAIN tombstones'
                           /\ effects[i].at + OperationTTL <= tombstones'[effects[i].id]
                        \/ Over(i) <= now
      BY <2>1, Zenon DEF Retention, Over
    <3> DEFINE k == effects[i].id
    <3>1. CASE k \in DOMAIN records /\ effects[i].at <= records[k].completedAt
      <4>1. CASE k \in Elapsed(cutoff)
        <5>1. records[k].completedAt + OperationTTL <= cutoff BY <4>1, Zenon DEF Elapsed
        <5>2. k \in DOMAIN tombstones' /\ tombstones'[k] = cutoff BY <1>0, <1>5, <4>1, Collected, Zenon
        <5> QED BY <1>a, <1>b, <3>1, <5>1, <5>2
      <4>2. CASE k \notin Elapsed(cutoff) BY <1>0, <1>5, <3>1, <4>2, Collected, Zenon
      <4> QED BY <4>1, <4>2, Zenon
    <3>2. CASE k \in DOMAIN tombstones /\ effects[i].at + OperationTTL <= tombstones[k]
      <4>0. cutoff \in Nat /\ cutoff <= now BY <1>0, <1>5, <1>a DEF Types
      <4>1. CASE k \in Elapsed(cutoff)
        <5>1. records[k].completedAt + OperationTTL <= cutoff /\ k \in DOMAIN records
          BY <4>1, Zenon DEF Elapsed
        <5>2. FALSE BY <3>2, <5>1, Parts, Zenon DEF Bounded
        <5> QED BY <5>2, Zenon
      <4>2. CASE k \notin Elapsed(cutoff) /\ k \in DOMAIN tombstones'
        BY <1>0, <1>5, <3>2, <4>2, Collected, Zenon
      <4>3. CASE tombstones[k] + TombstoneTTL <= cutoff
        BY <1>a, <1>b, <3>2, <4>0, <4>3 DEF Over
      <4> QED BY <1>0, <1>5, <3>2, <4>1, <4>2, <4>3, Collected, Zenon
    <3>3. CASE Over(i) <= now BY <3>3, Zenon
    <3> QED BY <1>0, <3>1, <3>2, <3>3, Zenon DEF Retention
  <2> QED BY <2>2, <2>3, <2>4, Zenon
<1> QED BY <1>1, <1>2, <1>3, <1>4, <1>5, Steps, Zenon

-----------------------------------------------------------------------------
(* The slots.                                                              *)

SlotNext(s) ==
    \/ \E id \in Operations, command \in Commands : Arrive(s, id, command)
    \/ Lookup(s) \/ Complete(s) \/ Admission(s) \/ Resolve(s)

\* A step of one slot leaves the others alone.
LEMMA OnlyOne ==
    ASSUME Types, NEW s \in Slots, SlotNext(s), NEW t \in Slots \ {s}
    PROVE  request'[t] = request[t]
<1> USE DEF Move, Types
<1>1. CASE \E id \in Operations, command \in Commands : Arrive(s, id, command) BY <1>1, Zenon DEF Arrive
<1>2. CASE Lookup(s)
  BY <1>2, Zenon DEF Lookup, AnswerRefusal, ReplayFunction, ReplayRoute, ReplayVersion, Prepare, PrepareFails, Answer
<1>3. CASE Complete(s)
  BY <1>3, Zenon DEF Complete, Overloaded, ApplyFails, RecordFailure, CompleteAfter, Answer
<1>4. CASE Admission(s) BY <1>4, Zenon DEF Admission, StartValidation, AdmissionFails, Admit
<1>5. CASE Resolve(s) BY <1>5, Zenon DEF Resolve, ResolveRoute, replayedVersionResult, ReleaseSlot
<1> QED BY <1>1, <1>2, <1>3, <1>4, <1>5, Zenon DEF SlotNext

\* A step is a step of one slot, or leaves the slots and operationMu alone.
LEMMA WhoseStep ==
    ASSUME [Next]_vars
    PROVE  (\E s \in Slots : SlotNext(s)) \/ UNCHANGED <<request, operationMu>>
    BY Zenon DEF Next, SlotNext, Tick, Resume, GC, vars

\* A reply is an answer.
LEMMA ReplyAnswers ==
    ASSUME NEW r, NEW status, NEW etag, NEW active
    PROVE  Reply(r, status, etag, active).at = "answered"
    BY Zenon DEF Reply, Idle

\* What an answer given under operationMu leaves in its slot.
LEMMA Answered ==
    ASSUME Types, NEW s \in Slots, NEW status, NEW etag, NEW active,
           Answer(s, status, etag, active)
    PROVE  /\ request'[s] = Reply(request[s], status, etag, active)
           /\ request'[s].at = "answered" /\ operationMu' = Nobody
<1>1. request'[s] = Reply(request[s], status, etag, active) BY Zenon DEF Answer, Move, Types
<1>2. Reply(request[s], status, etag, active).at = "answered" BY ReplyAnswers, Zenon
<1> QED BY <1>1, <1>2, Zenon DEF Answer

\* How far the step of a slot takes its request, and who holds operationMu then.
LEMMA SlotMoves ==
    ASSUME Inv, NEW s \in Slots, SlotNext(s)
    PROVE  LET from == request[s].at  to == request'[s].at IN
           \/ /\ operationMu' = operationMu /\ from \notin Holding /\ to \notin Holding
           \/ /\ operationMu = Nobody /\ operationMu' = Nobody /\ to = "answered"
           \/ /\ operationMu = Nobody /\ operationMu' = s
              /\ Lookup(s) /\ to \in {"prepared", "resolving"}
           \/ /\ from \in Holding /\ operationMu' = Nobody /\ to \in {"answered", "starting"}
           \/ /\ from = "prepared" /\ operationMu' = operationMu /\ to = "refused" /\ ApplyFails(s)
<1>0. /\ Types /\ request[s] \in Requests /\ function.active \in Nat /\ Current(request[s].command) \in Nat
      /\ request' \in [Slots -> Requests]
  BY Parts, CurrentType, TypesStep, Zenon DEF Types, FunctionRecords, SlotNext, Next
<1>1. CASE \E id \in Operations, command \in Commands : Arrive(s, id, command)
  BY <1>0, <1>1 DEF Arrive, Move, Holding, Idle, Types
<1>2. CASE AnswerRefusal(s)
  BY <1>0, <1>2, Answered, Zenon DEF AnswerRefusal, Locks
<1>3. CASE ReplayFunction(s)
  BY <1>0, <1>3, Answered, Zenon DEF ReplayFunction, Locks
<1>4. CASE PrepareFails(s)
  BY <1>0, <1>4, Answered, Zenon DEF PrepareFails, Locks
<1>5. CASE ReplayRoute(s)
  BY <1>0, <1>5, Zenon DEF ReplayRoute, Locks, Move, Requests, Types, Lookup
<1>6. CASE Prepare(s)
  BY <1>0, <1>6, Zenon DEF Prepare, Locks, Move, Requests, Types, Lookup
<1>7. CASE ReplayVersion(s)
  BY <1>0, <1>7, Zenon DEF ReplayVersion, Locks, Move, Requests, Types, Holding
<1>8. CASE Overloaded(s)
  BY <1>0, <1>8, Answered, Zenon DEF Overloaded, Holding
<1>9. CASE ApplyFails(s)
  BY <1>0, <1>9, Zenon DEF ApplyFails, Move, Requests, Types
<1>10. CASE RecordFailure(s)
  <2>1. Reply(request[s], "failed", 0, 0).at = "answered" BY ReplyAnswers, Zenon
  <2> QED BY <1>0, <1>10, <2>1, Zenon DEF RecordFailure, Move, Types, Holding
<1>11. CASE CompleteAfter(s)
  <2>1. operationMu' = Nobody /\ request[s].at = "prepared" BY <1>11, Applied, Zenon
  <2> DEFINE r == [request[s] EXCEPT !.made = Len(effects) + 1]
             a == Reply(r, "applied", Result(r.command).revision, function'.active)
  <2>2. request'[s] = IF r.command.kind = "version" THEN [r EXCEPT !.at = "starting"] ELSE a
    BY <1>0, <1>11, Zenon DEF CompleteAfter, Move, Types
  <2>3. a.at = "answered" BY ReplyAnswers, Zenon
  <2>4. [r EXCEPT !.at = "starting"].at = "starting" BY <1>0, Zenon DEF Requests
  <2> HIDE DEF r, a
  <2> QED BY <2>1, <2>2, <2>3, <2>4, Zenon DEF Holding
<1>12. CASE StartValidation(s)
  BY <1>0, <1>12, Zenon DEF StartValidation, Move, Requests, Types, Holding
<1>13. CASE AdmissionFails(s)
  <2>1. \A e : Reply(request[s], "applied", e, 0).at = "answered" BY ReplyAnswers, Zenon
  <2> QED BY <1>0, <1>13, <2>1, Zenon DEF AdmissionFails, Move, Types, Holding
<1>14. CASE \E verdict \in Verdicts : Admit(s, verdict)
  <2>1. \A e : Reply(request[s], "applied", e, 0).at = "answered" BY ReplyAnswers, Zenon
  <2> QED BY <1>0, <1>14, <2>1, Zenon DEF Admit, Move, Types, Holding
<1>15. CASE ResolveRoute(s)
  <2>1. \A e, f : Reply(request[s], "replay", e, f).at = "answered" BY ReplyAnswers, Zenon
  <2> QED BY <1>0, <1>15, <2>1, Zenon DEF ResolveRoute, Move, Types, Holding
<1>16. CASE replayedVersionResult(s)
  <2>1. \A e, f : Reply(request[s], "replay", e, f).at = "answered" BY ReplyAnswers, Zenon
  <2> QED BY <1>0, <1>16, <2>1, Zenon DEF replayedVersionResult, Move, Types, Holding
<1>17. CASE ReleaseSlot(s)
  BY <1>0, <1>17, Zenon DEF ReleaseSlot, Move, Types, Holding, Idle
<1> QED BY <1>1, <1>2, <1>3, <1>4, <1>5, <1>6, <1>7, <1>8, <1>9, <1>10, <1>11, <1>12, <1>13, <1>14, Zenon,
           <1>15, <1>16, <1>17 DEF SlotNext, Lookup, Complete, Admission, Resolve

\* operationMu is held by the one request between its lookup and its answer.
LEMMA LockedStep ==
    ASSUME Inv, [Next]_vars PROVE Locked'
<1>0. Types /\ Locked BY Parts, Zenon
<1>1. ASSUME NEW s \in Slots, SlotNext(s) PROVE Locked'
  <2>1. \A t \in Slots \ {s} : request'[t] = request[t] BY <1>0, <1>1, OnlyOne, Zenon
  <2>2. Nobody \notin Slots BY NobodyAssumption, Zenon
  <2> DEFINE from == request[s].at  to == request'[s].at
  <2>3. CASE operationMu' = operationMu /\ from \notin Holding /\ to \notin Holding
    BY <1>0, <2>1, <2>3, Zenon DEF Locked
  <2>4. CASE operationMu = Nobody /\ operationMu' = Nobody /\ to = "answered"
    BY <1>0, <2>1, <2>2, <2>4, Zenon DEF Locked, Holding
  <2>5. CASE operationMu = Nobody /\ operationMu' = s /\ to \in {"prepared", "resolving"}
    BY <1>0, <2>1, <2>2, <2>5, Zenon DEF Locked, Holding
  <2>6. CASE from \in Holding /\ operationMu' = Nobody /\ to \in {"answered", "starting"}
    BY <1>0, <2>1, <2>2, <2>6, Zenon DEF Locked, Holding
  <2>7. CASE from = "prepared" /\ operationMu' = operationMu /\ to = "refused"
    BY <1>0, <2>1, <2>7, Zenon DEF Locked, Holding
  <2> QED BY <1>1, <2>3, <2>4, <2>5, <2>6, <2>7, SlotMoves, Zenon
<1>2. CASE UNCHANGED <<request, operationMu>> BY <1>0, <1>2, Zenon DEF Locked
<1> QED BY <1>1, <1>2, WhoseStep, Zenon

-----------------------------------------------------------------------------
(* The stores and the effects.                                             *)

\* Nothing is lost: effects stay what they are, Versions stay, and no revision
\* goes back.
Forward ==
    /\ \A i \in DOMAIN effects : i \in DOMAIN effects' /\ effects'[i] = effects[i]
    /\ function.revision <= function'.revision /\ trigger <= trigger'
    /\ route.revision <= route'.revision
    /\ \A v \in DOMAIN versions :
          v \in DOMAIN versions' /\ versions[v].revision <= versions'[v].revision

\* A sequence after an element is added to it.
LEMMA Appended ==
    ASSUME NEW S, NEW q \in Seq(S), NEW x \in S
    PROVE  LET p == Append(q, x) IN
           /\ Len(q) \in Nat /\ DOMAIN q = 1..Len(q) /\ DOMAIN p = DOMAIN q \cup {Len(q) + 1}
           /\ p[Len(q) + 1] = x /\ \A i \in DOMAIN q : p[i] = q[i]
<1>1. Len(q) \in Nat /\ DOMAIN q = 1..Len(q) BY SeqLen, Zenon
<1>2. Append(q, x) \in Seq(S) /\ Len(Append(q, x)) = Len(q) + 1 BY SeqAppend, Zenon
<1>3. DOMAIN Append(q, x) = 1..(Len(q) + 1) BY <1>2, SeqLen, Zenon
<1>4. Append(q, x)[Len(q) + 1] = x /\ \A i \in 1..Len(q) : Append(q, x)[i] = q[i]
  BY SeqAppend
<1> QED BY <1>1, <1>3, <1>4

\* What applying a command does to the stores.
LEMMA ApplyStores ==
    ASSUME Types, Counted, Blank, route.revision = function.active,
           NEW c \in Commands, Applicable(c), ApplyCommand(c)
    PROVE  /\ function.revision <= function'.revision /\ trigger <= trigger'
           /\ route.revision <= route'.revision /\ route'.revision = function'.active
           /\ Counted' /\ Blank'
           /\ \A v \in DOMAIN versions : v \in DOMAIN versions' /\ versions'[v] = versions[v]
           /\ c.kind # "version" => versions' = versions
           /\ c.kind = "version" =>
                 LET n == Len(versions) + 1 IN
                 /\ n \notin DOMAIN versions /\ DOMAIN versions' = DOMAIN versions \cup {n}
                 /\ versions'[n].state = "Uploaded"
<1>0. /\ function \in FunctionRecords /\ trigger \in Nat /\ route \in [revision : Nat, version : Nat]
      /\ function.revision \in Nat /\ function.active \in Nat
  BY Zenon DEF Types, FunctionRecords
<1>k. /\ c.kind \in {"lifecycle", "rotate", "publish"} => c.expected \in Nat
      /\ c.kind \in {"lifecycle", "rotate"} => c.expected > 0
  BY DEF Commands
<1>1. CASE c.kind = "create" /\ CreateFunction(c)
  <2>1. function.revision = 0 BY <1>1, Zenon DEF Applicable
  <2>2. function'.revision = 1 /\ function'.active = 0 BY <1>1, Zenon DEF CreateFunction, NoFunction
  <2>3. function.active = 0 /\ trigger = 0 BY <2>1 DEF Blank, NoFunction
  <2> QED BY <1>0, <1>1, <2>1, <2>2, <2>3 DEF CreateFunction, Counted, Step, Blank
<1>2. CASE c.kind = "lifecycle" /\ SetFunctionLifecycle(c)
  <2>1. function.revision > 0 BY <1>0, <1>2, <1>k, Zenon DEF Applicable
  <2>2. function.revision <= function'.revision /\ function'.active = function.active
    BY <1>0, <1>2 DEF SetFunctionLifecycle, FunctionRecords
  <2>3. function'.revision # 0 BY <1>0, <1>2, <2>1 DEF SetFunctionLifecycle, FunctionRecords
  <2> QED BY <1>0, <1>2, <2>1, <2>2, <2>3 DEF SetFunctionLifecycle, Counted, Step, Blank
<1>3. CASE c.kind = "rotate" /\ RotateInvocationToken
  <2>1. function.revision # 0 BY <1>3 DEF Applicable, Blank, NoFunction
  <2> QED BY <1>0, <1>3, <2>1 DEF RotateInvocationToken, Counted, Step, Blank
<1>4. CASE c.kind = "version" /\ CreateVersion
  <2> DEFINE x == [state |-> "Uploaded", revision |-> 1]
  <2>1. x \in [state : VersionStates, revision : Nat] BY Zenon DEF VersionStates
  <2>2. versions \in Seq([state : VersionStates, revision : Nat]) /\ versions' = Append(versions, x)
    BY <1>4, Zenon DEF Types, CreateVersion
  <2>3. x.state = "Uploaded" /\ x.revision = 1 BY Zenon
  <2> HIDE DEF x
  <2>4. /\ Len(versions) \in Nat /\ DOMAIN versions = 1..Len(versions)
        /\ DOMAIN versions' = DOMAIN versions \cup {Len(versions) + 1}
        /\ versions'[Len(versions) + 1] = x /\ \A i \in DOMAIN versions : versions'[i] = versions[i]
    BY <2>1, <2>2, Appended
  <2>5. Counted' BY <2>3, <2>4, Zenon DEF Counted, Step
  <2>6. Len(versions) + 1 \notin DOMAIN versions BY <2>4
  <2> QED BY <1>0, <1>4, <2>3, <2>4, <2>5, <2>6 DEF CreateVersion, Blank
<1>5. CASE c.kind = "publish" /\ Publish(c)
  <2>1. c.expected = function.active BY <1>5, Zenon DEF Applicable
  <2>2. function'.revision = function.revision + 1 /\ function'.active = c.expected + 1
    BY <1>0, <1>5, Zenon DEF Publish, FunctionRecords
  <2>3. route'.revision = c.expected + 1 BY <1>5, Zenon DEF Publish
  <2> QED BY <1>0, <1>5, <1>k, <2>1, <2>2, <2>3 DEF Publish, Counted, Step, Blank
<1> QED BY <1>1, <1>2, <1>3, <1>4, <1>5, Zenon DEF ApplyCommand

\* What a step of an admission does to the Versions.
LEMMA AdvanceStores ==
    ASSUME Types, Counted, NEW v \in DOMAIN versions, NEW state \in VersionStates, Advances(v, state)
    PROVE  /\ DOMAIN versions' = DOMAIN versions /\ Len(versions') = Len(versions) /\ Counted'
           /\ versions'[v].state = state /\ versions[v].revision <= versions'[v].revision
           /\ \A w \in DOMAIN versions \ {v} : versions'[w] = versions[w]
           /\ UNCHANGED <<function, trigger, route, effects, records, tombstones, now>>
<1>1. /\ versions \in Seq([state : VersionStates, revision : Nat])
      /\ versions' = [versions EXCEPT ![v] = [state |-> state, revision |-> versions[v].revision + 1]]
      /\ UNCHANGED <<function, trigger, route, effects, records, tombstones, now>>
  BY Zenon DEF Types, Advances, SetVersion
<1>2. versions[v] \in [state : VersionStates, revision : Nat] BY <1>1, SeqElement, SeqLen, Zenon
<1>3. [state |-> state, revision |-> versions[v].revision + 1] \in [state : VersionStates, revision : Nat]
  BY <1>2
<1>4. Len(versions') = Len(versions) /\ DOMAIN versions' = DOMAIN versions
  BY <1>1, <1>3, SeqExcept, SeqLen
<1>5. versions'[v].state = state /\ versions'[v].revision = versions[v].revision + 1 BY <1>1, Zenon
<1>6. \A w \in DOMAIN versions \ {v} : versions'[w] = versions[w] BY <1>1, Zenon
<1>7. Counted' BY <1>4, <1>5, <1>6 DEF Counted, Step, Advances, Verdicts
<1> QED BY <1>1, <1>2, <1>4, <1>5, <1>6, <1>7

\* Every step moves the stores forward and keeps what relates them.
LEMMA StoresStep ==
    ASSUME Inv, [Next]_vars
    PROVE  Forward /\ Counted' /\ Blank' /\ route'.revision = function'.active
<1>0. /\ Types /\ Counted /\ Blank /\ route.revision = function.active
      /\ function.revision \in Nat /\ trigger \in Nat /\ route.revision \in Nat
  BY Parts, Zenon DEF Types, FunctionRecords
<1>v. \A v \in DOMAIN versions : versions[v].revision \in Nat BY <1>0 DEF Counted, Step
<1>1. CASE Quiet BY <1>0, <1>1, <1>v DEF Quiet, Forward, Counted, Step, Blank
<1>2. ASSUME NEW s \in Slots, RecordFailure(s)
      PROVE  Forward /\ Counted' /\ Blank' /\ route'.revision = function'.active
  <2>1. UNCHANGED <<function, trigger, versions, route, effects, now>> BY <1>2, Failed, Zenon
  <2> QED BY <1>0, <1>v, <2>1 DEF Forward, Counted, Step, Blank
<1>3. ASSUME NEW s \in Slots, CompleteAfter(s)
      PROVE  Forward /\ Counted' /\ Blank' /\ route'.revision = function'.active
  <2> DEFINE c == request[s].command
  <2>1. /\ c \in Commands /\ Applicable(c) /\ ApplyCommand(c)
        /\ \A i \in DOMAIN effects : i \in DOMAIN effects' /\ effects'[i] = effects[i]
    BY <1>3, Applied, Zenon
  <2>2. /\ function.revision <= function'.revision /\ trigger <= trigger'
        /\ route.revision <= route'.revision /\ route'.revision = function'.active
        /\ Counted' /\ Blank'
        /\ \A v \in DOMAIN versions : v \in DOMAIN versions' /\ versions'[v] = versions[v]
    BY <1>0, <2>1, ApplyStores, Zenon
  <2> QED BY <1>v, <2>1, <2>2 DEF Forward
<1>4. ASSUME NEW v \in DOMAIN versions, NEW state \in VersionStates, Advances(v, state)
      PROVE  Forward /\ Counted' /\ Blank' /\ route'.revision = function'.active
  <2>1. /\ DOMAIN versions' = DOMAIN versions /\ Counted'
        /\ versions[v].revision <= versions'[v].revision
        /\ \A w \in DOMAIN versions \ {v} : versions'[w] = versions[w]
        /\ UNCHANGED <<function, trigger, route, effects>>
    BY <1>0, <1>4, AdvanceStores, Zenon
  <2>2. \A w \in DOMAIN versions : versions[w].revision <= versions'[w].revision
    BY <1>v, <2>1
  <2> QED BY <1>0, <2>1, <2>2 DEF Forward, Blank
<1>5. ASSUME NEW cutoff \in 0..now, GC(cutoff)
      PROVE  Forward /\ Counted' /\ Blank' /\ route'.revision = function'.active
  <2>1. UNCHANGED <<function, trigger, versions, route, effects>> BY <1>0, <1>5, Collected, Zenon
  <2> QED BY <1>0, <1>v, <2>1 DEF Forward, Counted, Step, Blank
<1> QED BY <1>1, <1>2, <1>3, <1>4, <1>5, Steps, Zenon

\* What commands are about moves forward with the stores.
LEMMA ReachedForward ==
    ASSUME Types, Types', Counted, Counted', Forward, NEW c \in Commands
    PROVE  /\ Current(c) \in Nat /\ Current(c)' \in Nat /\ Current(c) <= Current(c)'
           /\ \A o \in Outcomes : (c.kind = "version" => o.version \in DOMAIN versions) =>
                 /\ Reached(c, o) \in Nat /\ Reached(c, o)' \in Nat
                 /\ Reached(c, o) <= Reached(c, o)'
<1>1. Current(c) \in Nat /\ Current(c)' \in Nat BY CurrentType, Zenon DEF Types, Current, FunctionRecords
<1>2. Current(c) <= Current(c)' BY <1>1, CommandKinds DEF Current, Forward
<1>3. ASSUME NEW o \in Outcomes, c.kind = "version" => o.version \in DOMAIN versions
      PROVE  /\ Reached(c, o) \in Nat /\ Reached(c, o)' \in Nat
             /\ Reached(c, o) <= Reached(c, o)'
  <2>1. CASE c.kind = "version"
    <3>1. versions[o.version].revision \in Nat /\ versions'[o.version].revision \in Nat
      BY <1>3, <2>1 DEF Counted, Step, Forward
    <3> QED BY <1>3, <2>1, <3>1, Zenon DEF Reached, Forward
  <2>2. CASE c.kind # "version" BY <1>1, <1>2, <2>2, Zenon DEF Reached
  <2> QED BY <2>1, <2>2, Zenon
<1> QED BY <1>1, <1>2, <1>3, Zenon

\* What a command made of the stores is where they are after it.
LEMMA ResultReached ==
    ASSUME NEW c \in Commands, NEW o, o = Result(c)
    PROVE  /\ o.revision = Reached(c, o)'
           /\ c.kind # "version" => o.revision = Current(c)'
           /\ c.kind = "version" => o.version = Len(versions')
    BY CommandKinds, Zenon DEF Result, Outcome, Reached, Current

\* Every effect stays within what the stores have reached.
LEMMA SoundStep ==
    ASSUME Inv, [Next]_vars PROVE \A i \in DOMAIN effects' : Sound(i)'
<1>0. /\ Types /\ Types' /\ Counted /\ Counted' /\ Forward /\ \A i \in DOMAIN effects : Sound(i)
  BY Parts, TypesStep, StoresStep, Zenon
<1>1. ASSUME NEW i \in DOMAIN effects PROVE Sound(i)'
  <2>1. effects[i] \in Effects /\ effects'[i] = effects[i]
    BY <1>0, SeqElement, SeqLen, Zenon DEF Types, Forward
  <2>2. PICK c, o : c = effects[i].command /\ o = effects[i].outcome BY Zenon
  <2>3. c \in Commands /\ o \in Outcomes /\ o.revision \in Nat
    BY <2>1, <2>2, Zenon DEF Effects, Outcomes
  <2>4. /\ c.kind = "version" => o.version \in DOMAIN versions
        /\ o.revision <= Reached(c, o)
    BY <1>0, <2>2, Zenon DEF Sound
  <2>5. Reached(c, o) \in Nat /\ Reached(c, o)' \in Nat /\ Reached(c, o) <= Reached(c, o)'
    BY <1>0, <2>3, <2>4, ReachedForward, Zenon
  <2>6. c.kind = "version" => o.version \in DOMAIN versions'
    BY <1>0, <2>4, Zenon DEF Forward
  <2>7. o.revision <= Reached(c, o)' BY <2>3, <2>4, <2>5
  <2> QED BY <2>1, <2>2, <2>6, <2>7, Zenon DEF Sound
<1>2. ASSUME NEW s \in Slots, CompleteAfter(s) PROVE \A i \in DOMAIN effects' : Sound(i)'
  <2>1. PICK c, o, n : c = request[s].command /\ o = request[s].outcome /\ n = Len(effects) + 1
    BY Zenon
  <2>2. /\ c \in Commands /\ Applicable(c) /\ ApplyCommand(c) /\ o = Result(c)
        /\ DOMAIN effects' = DOMAIN effects \cup {n}
        /\ effects'[n] = [id |-> request[s].id, command |-> c, at |-> request[s].time, outcome |-> o]
    BY <1>2, <2>1, Applied, Zenon
  <2>3. /\ o.revision = Reached(c, o)'
        /\ c.kind = "version" => o.version = Len(versions')
    BY <2>2, ResultReached, Zenon
  <2>4. o \in Outcomes /\ o.revision \in Nat BY <2>1, Parts, Zenon DEF Requests, Outcomes
  <2>5. c.kind = "version" => o.version \in DOMAIN versions'
    <3> SUFFICES ASSUME c.kind = "version" PROVE o.version \in DOMAIN versions' BY Zenon
    <3>1. versions' \in Seq([state : VersionStates, revision : Nat]) BY <1>0, Zenon DEF Types
    <3>2. DOMAIN versions' = DOMAIN versions \cup {Len(versions) + 1}
      BY <1>0, <2>2, Parts, ApplyStores, Zenon
    <3>3. Len(versions') \in Nat /\ DOMAIN versions' = 1..Len(versions') BY <3>1, SeqLen, Zenon
    <3>4. Len(versions') # 0 BY <3>2, <3>3
    <3> QED BY <2>3, <3>3, <3>4
  <2>6. effects'[n].command = c /\ effects'[n].outcome = o BY <2>2
  <2>7. Sound(n)' BY <2>3, <2>4, <2>5, <2>6 DEF Sound
  <2> QED BY <1>1, <2>2, <2>7, Zenon
<1>3. CASE effects' = effects BY <1>1, <1>3, Zenon
<1>4. effects' = effects \/ \E s \in Slots : CompleteAfter(s)
  BY <1>0, Steps, Failed, Collected, Zenon DEF Quiet, Advances
<1> QED BY <1>2, <1>3, <1>4, Zenon

\* The record of ID k tells the truth.
Genuine(k) ==
    IF records[k].status = "Succeeded"
    THEN \E i \in DOMAIN effects :
            /\ effects[i].id = k /\ effects[i].at = records[k].completedAt
            /\ effects[i].command = records[k].command /\ effects[i].outcome = records[k].outcome
    ELSE \A i \in DOMAIN effects : effects[i].id = k => effects[i].at # records[k].completedAt

\* Records stay true: an insertion is about the effect just made, or about a
\* command without one, and no later effect has the ID of a retained record.
LEMMA RecordsStep ==
    ASSUME Inv, [Next]_vars PROVE RecordsAreTrue'
<1>0. Types /\ \A k \in DOMAIN records : Genuine(k) BY Parts, Zenon DEF RecordsAreTrue, Genuine
<1> SUFFICES \A k \in DOMAIN records' : Genuine(k)' BY Zenon DEF RecordsAreTrue, Genuine
<1>a. \A i \in DOMAIN effects : effects[i].at \in Nat /\ effects[i].at < Over(i) /\ Over(i) \in Nat
  <2>1. \A i \in DOMAIN effects : effects[i] \in Effects
    BY <1>0, SeqElement, SeqLen, Zenon DEF Types
  <2> QED BY <2>1 DEF Effects, Over
<1>1. ASSUME effects' = effects, NEW k \in DOMAIN records, records'[k] = records[k]
      PROVE  Genuine(k)'
  BY <1>0, <1>1, Zenon DEF Genuine
<1>2. CASE Quiet BY <1>1, <1>2, Zenon DEF Quiet
<1>3. ASSUME NEW s \in Slots, RecordFailure(s), NEW k \in DOMAIN records' PROVE Genuine(k)'
  <2>0. PICK id, time : id = request[s].id /\ time = request[s].time BY Zenon
  <2>1. /\ effects' = effects /\ time \in Nat
        /\ \A i \in DOMAIN effects : effects[i].id = id => Over(i) <= time
    BY <1>3, <2>0, Failed, Parts, Zenon DEF Requests
  <2>2. CASE records' = records BY <1>1, <2>1, <2>2, Zenon
  <2>3. CASE Insert(id, [command |-> request[s].command, status |-> "Failed",
                         outcome |-> NoOutcome, completedAt |-> time])
    <3>1. CASE k = id
      <4>1. records'[k].status = "Failed" /\ records'[k].completedAt = time
        BY <2>3, <3>1, Zenon DEF Insert
      <4> QED BY <1>a, <2>1, <3>1, <4>1 DEF Genuine
    <3>2. CASE k # id
      <4>1. k \in DOMAIN records /\ records'[k] = records[k] BY <1>3, <2>3, <3>2, Zenon DEF Insert
      <4> QED BY <1>1, <2>1, <4>1, Zenon
    <3> QED BY <3>1, <3>2, Zenon
  <2> QED BY <1>3, <2>0, <2>2, <2>3, Failed, Zenon
<1>4. ASSUME NEW s \in Slots, CompleteAfter(s), NEW k \in DOMAIN records' PROVE Genuine(k)'
  <2>0. PICK r, n : r = request[s] /\ n = Len(effects) + 1 BY Zenon
  <2>1. /\ Insert(r.id, [command |-> r.command, status |-> "Succeeded", outcome |-> r.outcome,
                         completedAt |-> r.time])
        /\ DOMAIN effects' = DOMAIN effects \cup {n}
        /\ \A i \in DOMAIN effects : effects'[i] = effects[i]
        /\ effects'[n] = [id |-> r.id, command |-> r.command, at |-> r.time, outcome |-> r.outcome]
    BY <1>4, <2>0, Applied, Zenon
  <2>2. CASE k = r.id
    <3>1. records'[k] = [command |-> r.command, status |-> "Succeeded", outcome |-> r.outcome,
                         completedAt |-> r.time]
      BY <2>1, <2>2, Zenon DEF Insert
    <3> QED BY <2>1, <2>2, <3>1 DEF Genuine
  <2>3. CASE k # r.id
    <3>1. k \in DOMAIN records /\ records'[k] = records[k] BY <1>4, <2>1, <2>3, Zenon DEF Insert
    <3>2. effects'[n].id # k BY <2>1, <2>3
    <3>3. Genuine(k) BY <1>0, <3>1, Zenon
    <3> QED BY <2>1, <3>1, <3>2, <3>3, Zenon DEF Genuine
  <2> QED BY <2>2, <2>3, Zenon
<1>5. ASSUME NEW v \in DOMAIN versions, NEW state \in VersionStates, Advances(v, state),
             NEW k \in DOMAIN records'
      PROVE  Genuine(k)'
  BY <1>1, <1>5, Zenon DEF Advances
<1>6. ASSUME NEW cutoff \in 0..now, GC(cutoff), NEW k \in DOMAIN records' PROVE Genuine(k)'
  <2>1. effects' = effects /\ k \in DOMAIN records /\ records'[k] = records[k]
    BY <1>0, <1>6, Collected, Zenon
  <2> QED BY <1>1, <2>1, Zenon
<1> QED BY <1>2, <1>3, <1>4, <1>5, <1>6, Steps, Zenon

-----------------------------------------------------------------------------
(* The requests under way.                                                 *)

\* A slot changes by its own step only.
LEMMA Mover ==
    ASSUME Inv, [Next]_vars, NEW t \in Slots PROVE request'[t] = request[t] \/ SlotNext(t)
    BY Parts, WhoseStep, OnlyOne, Zenon

\* The end of a completion.
LEMMA Finished ==
    ASSUME Inv, NEW s \in Slots, RecordFailure(s) \/ CompleteAfter(s)
    PROVE  request[s].at \in {"prepared", "refused"} /\ request'[s].at \in {"answered", "starting"}
<1>0. SlotNext(s) /\ request[s].at \in {"prepared", "refused"} /\ operationMu' = Nobody
  BY Parts, Applied, Zenon DEF SlotNext, Complete, RecordFailure
<1>1. Nobody # s /\ operationMu = s BY <1>0, Parts, NobodyAssumption, Zenon DEF Locked, Holding
<1> QED BY <1>0, <1>1, SlotMoves, Zenon DEF Holding

\* Where a request got to tells which step took it there.
LEMMA Lands ==
    ASSUME Inv, NEW s \in Slots, SlotNext(s)
    PROVE  LET to == request'[s].at IN
           /\ to = "prepared" => Prepare(s)
           /\ to = "refused" => ApplyFails(s)
           /\ to = "resolving" => ReplayRoute(s)
           /\ to = "starting" => CompleteAfter(s)
           /\ to = "admitting" => StartValidation(s)
<1>0. Types /\ request[s] \in Requests BY Parts, Zenon
<1>1. CASE \E id \in Operations, command \in Commands : Arrive(s, id, command)
  BY <1>0, <1>1 DEF Arrive, Move, Idle, Types
<1>2. CASE AnswerRefusal(s) \/ ReplayFunction(s) \/ PrepareFails(s) \/ Overloaded(s)
  <2>1. \A status, etag, active : Answer(s, status, etag, active) => request'[s].at = "answered"
    BY <1>0, Answered, Zenon
  <2> QED BY <1>2, <2>1, Zenon DEF AnswerRefusal, ReplayFunction, PrepareFails, Overloaded
<1>3. CASE ReplayRoute(s) \/ Prepare(s) \/ ReplayVersion(s) \/ ApplyFails(s) \/ StartValidation(s)
  <2>1. CASE ReplayRoute(s)
    <3>1. request'[s].at = "resolving" BY <1>0, <2>1, Zenon DEF ReplayRoute, Move, Types, Requests
    <3> QED BY <2>1, <3>1, Zenon
  <2>2. CASE Prepare(s)
    <3>1. request'[s].at = "prepared" BY <1>0, <2>2, Zenon DEF Prepare, Move, Types, Requests
    <3> QED BY <2>2, <3>1, Zenon
  <2>3. CASE ReplayVersion(s)
    <3>1. request'[s].at = "reading" BY <1>0, <2>3, Zenon DEF ReplayVersion, Move, Types, Requests
    <3> QED BY <3>1, Zenon
  <2>4. CASE ApplyFails(s)
    <3>1. request'[s].at = "refused" BY <1>0, <2>4, Zenon DEF ApplyFails, Move, Types, Requests
    <3> QED BY <2>4, <3>1, Zenon
  <2>5. CASE StartValidation(s)
    <3>1. request'[s].at = "admitting" BY <1>0, <2>5, Zenon DEF StartValidation, Move, Types, Requests
    <3> QED BY <2>5, <3>1, Zenon
  <2> QED BY <1>3, <2>1, <2>2, <2>3, <2>4, <2>5, Zenon
<1>4. CASE RecordFailure(s)
  <2>1. request'[s].at = "answered"
    BY <1>0, <1>4, ReplyAnswers DEF RecordFailure, Move, Types
  <2> QED BY <2>1, Zenon
<1>5. CASE CompleteAfter(s)
  <2>1. request'[s].at \in {"answered", "starting"} BY <1>5, Finished, Zenon
  <2> QED BY <1>5, <2>1, Zenon
<1>6. CASE AdmissionFails(s) \/ ResolveRoute(s) \/ replayedVersionResult(s) \/ \E verdict \in Verdicts : Admit(s, verdict)
  <2>1. request'[s].at = "answered"
    BY <1>0, <1>6, ReplyAnswers DEF AdmissionFails, ResolveRoute, replayedVersionResult, Admit, Move, Types
  <2> QED BY <2>1, Zenon
<1>7. CASE ReleaseSlot(s) BY <1>0, <1>7, ZenonT(40) DEF ReleaseSlot, Move, Types, Idle
<1> QED BY <1>1, <1>2, <1>3, <1>4, <1>5, <1>6, <1>7, Zenon
        DEF SlotNext, Lookup, Complete, Admission, Resolve

\* While a request holds operationMu nobody else completes a command.
LEMMA Undisturbed ==
    ASSUME Inv, [Next]_vars, NEW t \in Slots,
           request[t].at \in Holding, request'[t].at \in Holding
    PROVE  /\ UNCHANGED <<function, trigger, route, effects>> /\ now <= now'
           /\ DOMAIN versions' = DOMAIN versions /\ Len(versions') = Len(versions)
           /\ \A id : Unknown(id) => Unknown(id)'
<1>0. Types /\ Counted /\ Locked /\ now \in Nat BY Parts DEF Types
<1>1. CASE Quiet BY <1>1, Zenon DEF Quiet, Unknown
<1>2. ASSUME NEW s \in Slots, RecordFailure(s) \/ CompleteAfter(s) PROVE FALSE
  <2>1. request[s].at \in Holding /\ request'[s].at \notin Holding BY <1>2, Finished, Zenon DEF Holding
  <2> QED BY <1>0, <2>1, Zenon DEF Locked
<1>3. ASSUME NEW v \in DOMAIN versions, NEW state \in VersionStates, Advances(v, state)
      PROVE  /\ UNCHANGED <<function, trigger, route, effects, records, tombstones, now>>
             /\ DOMAIN versions' = DOMAIN versions /\ Len(versions') = Len(versions)
  BY <1>0, <1>3, AdvanceStores, Zenon
<1>4. ASSUME NEW cutoff \in 0..now, GC(cutoff)
      PROVE  /\ UNCHANGED <<function, trigger, route, versions, effects, now>>
             /\ \A id : Unknown(id) => Unknown(id)'
  BY <1>0, <1>4, Collected, ZenonT(40) DEF Unknown
<1> QED BY <1>0, <1>1, <1>2, <1>3, <1>4, Steps DEF Unknown

\* A request that was told its ID is unknown finds it unknown until it is done.
LEMMA FreshStep ==
    ASSUME Inv, [Next]_vars, NEW t \in Slots PROVE Fresh(request[t])'
<1> SUFFICES ASSUME request'[t].at \in {"prepared", "refused"} PROVE Fresh(request[t])' BY Zenon DEF Fresh
<1>0. /\ Types /\ Retention /\ Fresh(request[t]) /\ Truthful(request[t]) /\ request[t] \in Requests
      /\ now \in Nat /\ now' \in Nat
  BY Parts, TypesStep, SMTT(30) DEF Types
<1>1. CASE request'[t] = request[t]
  <2>1. /\ effects' = effects /\ now <= now' /\ \A id : Unknown(id) => Unknown(id)'
    BY <1>1, Undisturbed, Zenon DEF Holding
  <2>2. request[t].time \in Nat BY <1>0, Zenon DEF Requests
  <2> QED BY <1>0, <1>1, <2>1, <2>2 DEF Fresh, Over
<1>2. CASE Prepare(t)
  <2>1. /\ request[t].at = "waiting" /\ Unknown(request[t].id)
        /\ request'[t].id = request[t].id /\ request'[t].command = request[t].command
        /\ request'[t].time = now /\ now' = now /\ effects' = effects
        /\ records' = records /\ tombstones' = tombstones
    BY <1>0, <1>2, Zenon DEF Prepare, Locks, Move, Types, Requests, ledger
  <2>2. request[t].id \in Operations /\ request[t].command \in Commands
    BY <1>0, <2>1, Zenon DEF Truthful
  <2>3. \A i \in DOMAIN effects : effects[i].id = request[t].id => Over(i) <= now
    BY <1>0, <2>1, ZenonT(40) DEF Retention, Unknown
  <2> QED BY <1>0, <2>1, <2>2, <2>3 DEF Fresh, Over, Unknown
<1>3. CASE ApplyFails(t)
  <2>1. /\ request[t].at = "prepared"
        /\ request'[t].id = request[t].id /\ request'[t].command = request[t].command
        /\ request'[t].time = request[t].time /\ now' = now /\ effects' = effects
        /\ records' = records /\ tombstones' = tombstones
    BY <1>0, <1>3, Zenon DEF ApplyFails, Move, Types, Requests, ledger
  <2> QED BY <1>0, <2>1, Zenon DEF Fresh, Over, Unknown
<1> QED BY <1>1, <1>2, <1>3, Mover, Lands, Zenon

\* What was prepared stays what the stores would make of the command.
LEMMA ForeseenStep ==
    ASSUME Inv, [Next]_vars, NEW t \in Slots PROVE Foreseen(request[t])'
<1> SUFFICES ASSUME request'[t].at = "prepared" PROVE Foreseen(request[t])' BY Zenon DEF Foreseen
<1>0. Types /\ Foreseen(request[t]) /\ request[t] \in Requests BY Parts, Zenon
<1>1. CASE request'[t] = request[t]
  <2>1. function' = function /\ DOMAIN versions' = DOMAIN versions /\ Len(versions') = Len(versions)
    BY <1>1, Undisturbed, Zenon DEF Holding
  <2>2. Prepared(request[t].command)' = Prepared(request[t].command)
    BY <1>1, <2>1, Zenon DEF Prepared, nextLifecycleRevision, Outcome
  <2> QED BY <1>0, <1>1, <2>1, <2>2, Zenon DEF Foreseen
<1>2. CASE Prepare(t)
  <2>1. /\ request'[t].command = request[t].command
        /\ request'[t].outcome = Prepared(request[t].command)
        /\ Preparable(request[t].command)
        /\ function' = function /\ versions' = versions
    BY <1>0, <1>2, Zenon DEF Prepare, Move, Types, Requests, stores
  <2>2. Prepared(request[t].command)' = Prepared(request[t].command)
    BY <2>1, Zenon DEF Prepared, nextLifecycleRevision, Outcome
  <2> QED BY <2>1, <2>2, Zenon DEF Foreseen, Preparable
<1> QED BY <1>1, <1>2, Mover, Lands, Zenon

\* What the creation of a Version leaves in its slot and in the ReleaseStore.
LEMMA Created ==
    ASSUME Inv, NEW s \in Slots, CompleteAfter(s), request'[s].at = "starting"
    PROVE  LET n == Len(versions) + 1 IN
           /\ request'[s].outcome = request[s].outcome /\ request'[s].outcome.version = n
           /\ n \notin DOMAIN versions /\ n \in DOMAIN versions' /\ versions'[n].state = "Uploaded"
           /\ request'[s].made = Len(effects) + 1 /\ request[s].command.kind = "version"
           /\ request'[s].id = request[s].id /\ request'[s].command = request[s].command
           /\ request'[s].since = request[s].since
<1> DEFINE r == request[s]
           q == [r EXCEPT !.made = Len(effects) + 1]
           a == Reply(q, "applied", Result(q.command).revision, function'.active)
<1>0. Types /\ r \in Requests BY Parts, Zenon
<1>1. request'[s] = IF q.command.kind = "version" THEN [q EXCEPT !.at = "starting"] ELSE a
  BY <1>0, Zenon DEF CompleteAfter, Move, Types
<1>2. a.at = "answered" BY ReplyAnswers
<1>3. q.command = r.command BY <1>0, Zenon DEF Requests
<1> HIDE DEF a
<1>4. r.command.kind = "version" /\ request'[s] = [q EXCEPT !.at = "starting"] BY <1>1, <1>2, <1>3, Zenon
<1>5. /\ request'[s].outcome = r.outcome /\ request'[s].made = Len(effects) + 1
      /\ request'[s].id = r.id /\ request'[s].command = r.command /\ request'[s].since = r.since
  BY <1>0, <1>4, Zenon DEF Requests
<1>6. /\ r.at = "prepared" /\ r.command \in Commands /\ Applicable(r.command) /\ ApplyCommand(r.command)
  BY Applied, Zenon
<1>7. r.outcome = Prepared(r.command) BY <1>6, Parts, Zenon DEF Foreseen
<1>8. r.outcome.version = Len(versions) + 1 BY <1>4, <1>7 DEF Prepared, Outcome
<1>9. LET n == Len(versions) + 1 IN
      /\ n \notin DOMAIN versions /\ DOMAIN versions' = DOMAIN versions \cup {n}
      /\ versions'[n].state = "Uploaded"
  BY <1>4, <1>6, Parts, ApplyStores, Zenon
<1> QED BY <1>4, <1>5, <1>8, <1>9, Zenon

Admissions == {"starting", "admitting"}

\* The Version of a request that is in its admission is left to that request.
LEMMA LeftAlone ==
    ASSUME Inv, [Next]_vars, NEW t \in Slots, request[t].at \in Admissions, request'[t] = request[t]
    PROVE  LET w == request[t].outcome.version IN
           w \in DOMAIN versions' /\ versions'[w] = versions[w]
<1> DEFINE w == request[t].outcome.version
<1>0. /\ Types /\ Counted /\ Blank /\ route.revision = function.active /\ Apart
      /\ \A s \in Slots : Admitting(request[s])
      /\ w \in DOMAIN versions
      /\ versions[w].state = IF request[t].at = "starting" THEN "Uploaded" ELSE "Validating"
  BY Parts, Zenon DEF Admitting, Admissions
<1> SUFFICES w \in DOMAIN versions' /\ versions'[w] = versions[w] BY Zenon
<1>1. CASE versions' = versions BY <1>0, <1>1, Zenon
<1>2. ASSUME NEW s \in Slots, CompleteAfter(s) PROVE w \in DOMAIN versions' /\ versions'[w] = versions[w]
  <2> DEFINE c == request[s].command
  <2>1. c \in Commands /\ Applicable(c) /\ ApplyCommand(c) BY <1>2, Applied, Zenon
  <2> QED BY <1>0, <2>1, ApplyStores, Zenon
<1>3. ASSUME NEW v \in DOMAIN versions, v # w, NEW state, SetVersion(v, state)
      PROVE  w \in DOMAIN versions' /\ versions'[w] = versions[w]
  BY <1>0, <1>3, Zenon DEF SetVersion
<1>4. ASSUME NEW s \in Slots, StartValidation(s) \/ \E verdict \in Verdicts : Admit(s, verdict)
      PROVE  w \in DOMAIN versions' /\ versions'[w] = versions[w]
  <2> DEFINE v == request[s].outcome.version
  <2>1. request[s].at \in Admissions /\ \E state : SetVersion(v, state)
    BY <1>4, Zenon DEF StartValidation, Admit, Admissions
  <2>2. v \in DOMAIN versions BY <1>0, <2>1, Zenon DEF Admitting, Admissions
  <2>3. s # t
    <3>1. SlotNext(s) /\ request[s] \in Requests /\ Types BY <1>4, Parts, Zenon DEF SlotNext, Admission
    <3>2. CASE StartValidation(s)
      <4>1. request[s].at = "starting" /\ request'[s].at = "admitting"
        BY <3>1, <3>2, Zenon DEF StartValidation, Move, Types, Requests
      <4> QED BY <4>1, Zenon
    <3>3. CASE \E verdict \in Verdicts : Admit(s, verdict)
      <4>1. request'[s].at = "answered" BY <3>1, <3>3, ReplyAnswers DEF Admit, Move, Types
      <4> QED BY <4>1, Zenon DEF Admissions
    <3> QED BY <1>4, <3>2, <3>3, Zenon
  <2>4. v # w BY <1>0, <2>1, <2>3, Zenon DEF Apart, Admissions
  <2> QED BY <1>3, <2>1, <2>2, <2>4, Zenon
<1>5. ASSUME NEW v \in DOMAIN versions, NEW verdict \in Verdicts, Resume(v, verdict)
      PROVE  w \in DOMAIN versions' /\ versions'[w] = versions[w]
  <2>1. versions[v].state = "Validating" /\ SetVersion(v, verdict)
    BY <1>5, Zenon DEF Resume
  <2>2. request[t].at = "admitting" => v # w BY <1>5, Zenon DEF Resume
  <2>3. v # w BY <1>0, <2>1, <2>2, Zenon DEF Admissions
  <2> QED BY <1>3, <2>1, <2>3, Zenon
<1>6. \/ versions' = versions
      \/ \E s \in Slots : CompleteAfter(s) \/ StartValidation(s) \/ \E verdict \in Verdicts : Admit(s, verdict)
      \/ \E v \in DOMAIN versions, verdict \in Verdicts : Resume(v, verdict)
  BY Zenon DEF Next, Tick, Arrive, Lookup, AnswerRefusal, ReplayFunction, ReplayRoute, ReplayVersion,
         Prepare, PrepareFails, Answer, Complete, Overloaded, ApplyFails, RecordFailure, Admission,
         AdmissionFails, Resolve, ResolveRoute, replayedVersionResult, ReleaseSlot, GC, vars, stores
<1> QED BY <1>1, <1>2, <1>4, <1>5, <1>6, Zenon

\* Each Version is in the state its admission has brought it to, and is in one
\* admission at a time.
LEMMA AdmittingStep ==
    ASSUME Inv, [Next]_vars PROVE Apart' /\ \A t \in Slots : Admitting(request[t])'
<1>0. Types /\ Counted /\ Apart /\ \A t \in Slots : Admitting(request[t]) /\ request[t] \in Requests
  BY Parts, Zenon
<1>1. ASSUME NEW t \in Slots, request'[t].at \in Admissions
      PROVE  \/ request'[t] = request[t] /\ request[t].at \in Admissions
             \/ CompleteAfter(t) /\ request'[t].at = "starting"
             \/ StartValidation(t) /\ request'[t].at = "admitting"
  BY <1>1, Mover, Lands, Zenon DEF Admissions
<1>2. ASSUME NEW t \in Slots, StartValidation(t)
      PROVE  /\ request'[t].outcome = request[t].outcome /\ request[t].at \in Admissions
             /\ request[t].outcome.version \in DOMAIN versions'
             /\ versions'[request[t].outcome.version].state = "Validating"
  <2>1. request[t].at = "starting" /\ request'[t].outcome = request[t].outcome
    BY <1>0, <1>2, Zenon DEF StartValidation, Move, Types, Requests
  <2>2. request[t].outcome.version \in DOMAIN versions BY <1>0, <2>1, Zenon DEF Admitting
  <2> QED BY <1>2, <2>1, <2>2, Zenon DEF StartValidation, SetVersion, Admissions
<1>3. ASSUME NEW t \in Slots PROVE Admitting(request[t])'
  <2> SUFFICES ASSUME request'[t].at \in Admissions PROVE Admitting(request[t])'
    BY Zenon DEF Admitting, Admissions
  <2>1. CASE request'[t] = request[t] /\ request[t].at \in Admissions
    BY <1>0, <2>1, LeftAlone, Zenon DEF Admitting
  <2>2. CASE CompleteAfter(t) /\ request'[t].at = "starting" BY <2>2, Created, Zenon DEF Admitting
  <2>3. CASE StartValidation(t) /\ request'[t].at = "admitting" BY <1>2, <2>3, Zenon DEF Admitting
  <2> QED BY <1>1, <2>1, <2>2, <2>3, Zenon
<1>4. ASSUME NEW s \in Slots, NEW t \in Slots, s # t, request'[s].at \in Admissions,
             request'[t].at \in Admissions
      PROVE  request'[s].outcome.version # request'[t].outcome.version
  <2>1. ASSUME NEW u \in Slots, request'[u].at \in Admissions,
               ~(CompleteAfter(u) /\ request'[u].at = "starting")
        PROVE  /\ request[u].at \in Admissions /\ request'[u].outcome = request[u].outcome
               /\ request[u].outcome.version \in DOMAIN versions
    BY <1>0, <1>1, <1>2, <2>1, Zenon DEF Admitting, Admissions
  <2>2. ASSUME NEW u \in Slots, CompleteAfter(u), request'[u].at = "starting",
               NEW w \in Slots \ {u}
        PROVE  ~(CompleteAfter(w) /\ request'[w].at = "starting")
               /\ request'[u].outcome.version \notin DOMAIN versions
    BY <1>0, <2>2, Created, OnlyOne, Applied, Zenon DEF SlotNext, Complete
  <2>3. CASE CompleteAfter(s) /\ request'[s].at = "starting" BY <1>4, <2>1, <2>2, <2>3
  <2>4. CASE CompleteAfter(t) /\ request'[t].at = "starting" BY <1>4, <2>1, <2>2, <2>4, Zenon
  <2>5. CASE ~(CompleteAfter(s) /\ request'[s].at = "starting") /\ ~(CompleteAfter(t) /\ request'[t].at = "starting")
    BY <1>0, <1>4, <2>1, <2>5, Zenon DEF Apart, Admissions
  <2> QED BY <2>3, <2>4, <2>5, Zenon
<1> QED BY <1>3, <1>4, Zenon DEF Apart, Admissions

-----------------------------------------------------------------------------
(* The answers.                                                            *)

\* What is true of a request stays true while the stores move forward.
LEMMA TruthfulKeeps ==
    ASSUME Types, Types', Counted, Counted', Forward, NEW r \in Requests, Truthful(r),
           r.at = "resolving" => function'.active = function.active
    PROVE  Truthful(r)'
<1>1. \A i \in DOMAIN effects : i \in DOMAIN effects' /\ effects'[i] = effects[i] BY Zenon DEF Forward
<1>2. r.since \in Nat /\ r.etag \in Nat /\ r.outcome \in Outcomes BY Zenon DEF Requests
<1>3. r.command \in Commands => /\ Current(r.command) \in Nat /\ Current(r.command)' \in Nat
                                /\ Current(r.command) <= Current(r.command)'
  BY ReachedForward, Zenon
<1>4. ASSUME r.at # "idle"
      PROVE  r.id \in Operations /\ r.command \in Commands /\ r.since <= Current(r.command)'
  BY <1>2, <1>3, <1>4 DEF Truthful
<1>5. ASSUME r.at \in {"starting", "admitting"}
      PROVE  /\ r.made \in DOMAIN effects' /\ Answers(r.made, r)' /\ effects'[r.made].outcome = r.outcome
             /\ r.command.kind = "version"
  BY <1>1, <1>5, Zenon DEF Truthful, Answers
<1>6. ASSUME r.at = "reading"
      PROVE  /\ \E i \in DOMAIN effects' : Answers(i, r)' /\ effects'[i].outcome = r.outcome
             /\ r.command.kind = "version"
  BY <1>1, <1>6, Zenon DEF Truthful, Answers
<1>7. ASSUME r.at = "resolving"
      PROVE  /\ \E i \in DOMAIN effects' : Answers(i, r)'
             /\ r.command.kind = "publish" /\ r.active = function'.active
  BY <1>1, <1>7, Zenon DEF Truthful, Answers
<1>8. ASSUME r.at = "answered", r.status \in {"applied", "replay", "credential_not_replayable"}
      PROVE  /\ \E i \in DOMAIN effects' :
                   /\ Answers(i, r)'
                   /\ r.status = "applied" <=> r.made = i
                   /\ effects'[i].outcome.revision <= r.etag
             /\ r.command.kind = "version" => r.outcome.version \in DOMAIN versions'
             /\ r.since <= r.etag /\ r.etag <= Reached(r.command, r.outcome)'
             /\ r.command.kind = "publish" => r.active = r.etag
  <2>1. \E i \in DOMAIN effects' :
           /\ Answers(i, r)'
           /\ r.status = "applied" <=> r.made = i
           /\ effects'[i].outcome.revision <= r.etag
    BY <1>1, <1>8, Zenon DEF Truthful, Answers
  <2>2. /\ r.command.kind = "version" => r.outcome.version \in DOMAIN versions
        /\ r.since <= r.etag /\ r.etag <= Reached(r.command, r.outcome)
        /\ r.command.kind = "publish" => r.active = r.etag
        /\ r.command \in Commands
    BY <1>8, Zenon DEF Truthful
  <2>3. /\ Reached(r.command, r.outcome) \in Nat /\ Reached(r.command, r.outcome)' \in Nat
        /\ Reached(r.command, r.outcome) <= Reached(r.command, r.outcome)'
    BY <1>2, <2>2, ReachedForward, Zenon
  <2>4. r.etag <= Reached(r.command, r.outcome)' BY <1>2, <2>2, <2>3
  <2>5. r.command.kind = "version" => r.outcome.version \in DOMAIN versions' BY <2>2, Zenon DEF Forward
  <2> QED BY <2>1, <2>2, <2>4, <2>5, Zenon
<1>9. /\ r.at \in {"waiting", "prepared", "refused", "resolving", "reading"} => r.made = 0
      /\ r.at = "answered" /\ r.status \notin {"applied", "replay", "credential_not_replayable"} => r.made = 0
  BY Zenon DEF Truthful
<1> QED BY <1>4, <1>5, <1>6, <1>7, <1>8, <1>9, Zenon DEF Truthful

\* The record of a success stands for an effect of that very request.
LEMMA Remembered ==
    ASSUME Inv, NEW s \in Slots, Succeeded(s)
    PROVE  \E i \in DOMAIN effects :
              /\ Answers(i, request[s]) /\ effects[i].outcome = records[request[s].id].outcome
              /\ effects[i].outcome \in Outcomes /\ effects[i].outcome.revision \in Nat /\ i # 0
<1> DEFINE k == request[s].id
<1>1. k \in DOMAIN records /\ records[k].command = request[s].command /\ records[k].status = "Succeeded"
  BY Zenon DEF Succeeded, SameRequest, Retained
<1>2. PICK i \in DOMAIN effects : /\ effects[i].id = k /\ effects[i].command = records[k].command
                                  /\ effects[i].outcome = records[k].outcome
  BY <1>1, Parts, Zenon DEF RecordsAreTrue
<1>3. effects[i] \in Effects /\ i # 0
  BY Parts, SeqElement, SeqLen DEF Types
<1>4. effects[i].outcome \in Outcomes /\ effects[i].outcome.revision \in Nat
  BY <1>3, Zenon DEF Effects, Outcomes
<1> QED BY <1>1, <1>2, <1>3, <1>4, Zenon DEF Answers

\* The fields of a reply.
LEMMA ReplyKeeps ==
    ASSUME NEW r, NEW status, NEW etag, NEW active
    PROVE  LET a == Reply(r, status, etag, active) IN
           /\ a.at = "answered" /\ a.id = r.id /\ a.command = r.command /\ a.since = r.since
           /\ a.made = r.made /\ a.outcome = r.outcome
           /\ a.status = status /\ a.etag = etag /\ a.active = active
    BY Zenon DEF Reply, Idle

\* An answer that claims nothing is true of a request without an effect.
LEMMA RefusalTruthful ==
    ASSUME NEW r, Truthful(r), r.at \in {"waiting", "prepared", "refused"},
           NEW status \in Statuses \ {"applied", "replay", "credential_not_replayable"}
    PROVE  Truthful(Reply(r, status, 0, 0))
<1> DEFINE a == Reply(r, status, 0, 0)
<1>1. /\ a.at = "answered" /\ a.id = r.id /\ a.command = r.command /\ a.since = r.since
      /\ a.made = r.made /\ a.status = status
  BY ReplyKeeps
<1> HIDE DEF a
<1>2. r.id \in Operations /\ r.command \in Commands /\ r.since <= Current(r.command) /\ r.made = 0
  BY Zenon DEF Truthful
<1>3. Truthful(a) BY <1>1, <1>2, ZenonT(40) DEF Truthful
<1> QED BY <1>3, Zenon DEF a

\* The success of a repetition: the effect it is about, and a current ETag.
LEMMA ReplayTruthful ==
    ASSUME NEW r, NEW a, NEW i \in DOMAIN effects, Types, Sound(i),
           r.id \in Operations, r.command \in Commands, r.since <= Current(r.command), r.made = 0,
           i # 0, Answers(i, r), effects[i].outcome.revision \in Nat,
           r.command.kind = "version" => r.outcome = effects[i].outcome,
           a.at = "answered", a.id = r.id, a.command = r.command, a.since = r.since,
           a.made = r.made, a.outcome = r.outcome,
           a.status \in {"replay", "credential_not_replayable"},
           a.etag = Reached(r.command, r.outcome), a.etag \in Nat, r.since \in Nat,
           r.command.kind = "publish" => a.active = a.etag
    PROVE  Truthful(a)
<1>1. effects[i].outcome.revision <= Reached(r.command, effects[i].outcome)
  BY Zenon DEF Sound, Answers
<1>2. Reached(r.command, effects[i].outcome) = a.etag
  BY Zenon DEF Reached
<1>3. Answers(i, a) BY Zenon DEF Answers
<1>4. r.command.kind = "version" => a.outcome.version \in DOMAIN versions
  BY Zenon DEF Sound, Answers
<1>5. r.since <= a.etag
  <2>1. CASE r.command.kind = "version"
    <3>1. Current(r.command) = 0 BY <2>1, Zenon DEF Current
    <3> QED BY <3>1
  <2>2. CASE r.command.kind # "version" BY <2>2, Zenon DEF Reached
  <2> QED BY <2>1, <2>2, Zenon
<1> QED BY <1>1, <1>2, <1>3, <1>4, <1>5 DEF Truthful

\* The success of a creation of a Version, with the Version as it is.
LEMMA AdmittedTruthful ==
    ASSUME Types, Counted, NEW r \in Requests, NEW a, Truthful(r), r.at = "admitting",
           \A i \in DOMAIN effects : Sound(i),
           a.at = "answered", a.id = r.id, a.command = r.command, a.since = r.since,
           a.made = r.made, a.outcome = r.outcome, a.status = "applied",
           a.etag = versions[r.outcome.version].revision
    PROVE  Truthful(a)
<1>1. /\ r.made \in DOMAIN effects /\ Answers(r.made, r) /\ effects[r.made].outcome = r.outcome
      /\ r.command.kind = "version" /\ r.since <= Current(r.command)
      /\ r.id \in Operations /\ r.command \in Commands
  BY ZenonT(40) DEF Truthful
<1>2. /\ r.outcome.version \in DOMAIN versions
      /\ r.outcome.revision <= Reached(r.command, r.outcome)
  BY <1>1, ZenonT(40) DEF Sound, Answers
<1>3. Reached(r.command, r.outcome) = a.etag /\ a.etag \in Nat
  BY <1>1, <1>2 DEF Reached, Counted, Step
<1>4. Current(r.command) = 0 /\ r.since \in Nat BY <1>1, Zenon DEF Current, Requests
<1>5. Answers(r.made, a) /\ effects[r.made].outcome.revision <= a.etag BY <1>1, <1>2, <1>3, Zenon DEF Answers
<1> QED BY <1>1, <1>2, <1>3, <1>4, <1>5 DEF Truthful

\* A request that has not completed its command in this step is truthful about
\* the stores before it.
LEMMA SlotTruthful ==
    ASSUME Inv, NEW s \in Slots, SlotNext(s), NEW q, request'[s] = q,
           ~CompleteAfter(s), \A verdict \in Verdicts : ~Admit(s, verdict)
    PROVE  Truthful(q)
<1>0. /\ Types /\ request[s] \in Requests /\ Truthful(request[s]) /\ request[s].since \in Nat
      /\ request[s].made \in Nat /\ function.active \in Nat /\ route.revision = function.active
      /\ Current(request[s].command) \in Nat /\ \A i \in DOMAIN effects : Sound(i)
  BY Parts, CurrentType, ZenonT(40) DEF Types, Requests, FunctionRecords
<1> DEFINE r == request[s]
<1>1. ASSUME NEW id \in Operations, NEW command \in Commands, Arrive(s, id, command) PROVE Truthful(q)
  <2>1. q = [Idle EXCEPT !.at = "waiting", !.id = id, !.command = command, !.since = Current(command)]
    BY <1>0, <1>1, Zenon DEF Arrive, Move, Types
  <2>2. /\ q.at = "waiting" /\ q.id = id /\ q.command = command /\ q.since = Current(command)
        /\ q.made = 0
    BY <2>1, Zenon DEF Idle
  <2>3. Current(command) \in Nat BY <1>0, CurrentType, Zenon
  <2> QED BY <2>2, <2>3 DEF Truthful
<1>2. CASE AnswerRefusal(s) \/ PrepareFails(s) \/ Overloaded(s)
  <2>1. \E status \in Statuses \ {"applied", "replay", "credential_not_replayable"} :
           Answer(s, status, 0, 0)
    BY <1>2, Zenon DEF AnswerRefusal, PrepareFails, Overloaded, Statuses
  <2>2. r.at \in {"waiting", "prepared"} BY <1>2, Zenon DEF AnswerRefusal, PrepareFails, Overloaded, Locks
  <2> QED BY <1>0, <2>1, <2>2, Answered, RefusalTruthful
<1>3. CASE RecordFailure(s)
  <2>1. q = Reply(r, "failed", 0, 0) /\ r.at = "refused"
    BY <1>0, <1>3, Zenon DEF RecordFailure, Move, Types
  <2> QED BY <1>0, <2>1, RefusalTruthful, Zenon DEF Statuses
<1>4. CASE ReplayFunction(s)
  <2>1. PICK status \in {"replay", "credential_not_replayable"} :
           Answer(s, status, Current(r.command), function.active)
    BY <1>4, ZenonT(40) DEF ReplayFunction
  <2>2. q = Reply(r, status, Current(r.command), function.active) BY <1>0, <2>1, Answered, SMTT(30)
  <2>3. /\ q.at = "answered" /\ q.id = r.id /\ q.command = r.command /\ q.since = r.since
        /\ q.made = r.made /\ q.outcome = r.outcome
        /\ q.status = status /\ q.etag = Current(r.command)
    BY <2>2, ReplyKeeps
  <2>4. r.at = "waiting" /\ Succeeded(s) /\ r.command.kind \in {"create", "lifecycle", "rotate"}
    BY <1>4, Zenon DEF ReplayFunction, Locks
  <2>5. PICK i \in DOMAIN effects : /\ Answers(i, r) /\ effects[i].outcome.revision \in Nat /\ i # 0
    BY <2>4, Remembered, Zenon
  <2>6. r.id \in Operations /\ r.command \in Commands /\ r.since <= Current(r.command) /\ r.made = 0
    BY <1>0, <2>4, Zenon DEF Truthful
  <2>7. Reached(r.command, r.outcome) = Current(r.command) BY <2>4, Zenon DEF Reached
  <2> QED BY <1>0, <2>3, <2>4, <2>5, <2>6, <2>7, ReplayTruthful, Zenon
<1>5. CASE ReplayRoute(s)
  <2>1. q = [r EXCEPT !.at = "resolving", !.active = function.active]
    BY <1>0, <1>5, Zenon DEF ReplayRoute, Move, Types
  <2>2. /\ q.at = "resolving" /\ q.active = function.active /\ q.id = r.id /\ q.command = r.command
        /\ q.since = r.since /\ q.made = r.made
    BY <1>0, <2>1, Zenon DEF Requests
  <2>3. r.at = "waiting" /\ Succeeded(s) /\ r.command.kind = "publish" BY <1>5, Zenon DEF ReplayRoute, Locks
  <2>4. PICK i \in DOMAIN effects : Answers(i, r) BY <2>3, Remembered, Zenon
  <2>5. Answers(i, q) BY <2>2, <2>4, Zenon DEF Answers
  <2> QED BY <1>0, <2>2, <2>3, <2>5, Zenon DEF Truthful
<1>6. CASE ReplayVersion(s)
  <2>1. q = [r EXCEPT !.at = "reading", !.outcome = records[r.id].outcome]
    BY <1>0, <1>6, Zenon DEF ReplayVersion, Move, Types
  <2>2. /\ q.at = "reading" /\ q.outcome = records[r.id].outcome /\ q.id = r.id
        /\ q.command = r.command /\ q.since = r.since /\ q.made = r.made
    BY <1>0, <2>1, Zenon DEF Requests
  <2>3. r.at = "waiting" /\ Succeeded(s) /\ r.command.kind = "version" BY <1>6, Zenon DEF ReplayVersion, Locks
  <2>4. PICK i \in DOMAIN effects : Answers(i, r) /\ effects[i].outcome = records[r.id].outcome
    BY <2>3, Remembered, Zenon
  <2>5. Answers(i, q) BY <2>2, <2>4, Zenon DEF Answers
  <2> QED BY <1>0, <2>2, <2>3, <2>4, <2>5, Zenon DEF Truthful
<1>7. CASE Prepare(s) \/ ApplyFails(s)
  <2>1. /\ r.at \in {"waiting", "prepared"} /\ q.at \in {"prepared", "refused"}
        /\ q.id = r.id /\ q.command = r.command /\ q.since = r.since /\ q.made = r.made
    <3>1. CASE Prepare(s) BY <1>0, <3>1, Zenon DEF Prepare, Locks, Move, Types, Requests
    <3>2. CASE ApplyFails(s) BY <1>0, <3>2, Zenon DEF ApplyFails, Move, Types, Requests
    <3> QED BY <1>7, <3>1, <3>2, Zenon
  <2> QED BY <1>0, <2>1, Zenon DEF Truthful

<1>8. CASE ResolveRoute(s)
  <2>1. q = Reply(r, "replay", route.revision, r.active) /\ r.at = "resolving"
    BY <1>0, <1>8, ZenonT(40) DEF ResolveRoute, Move, Types
  <2>2. /\ q.at = "answered" /\ q.id = r.id /\ q.command = r.command /\ q.since = r.since
        /\ q.made = r.made /\ q.outcome = r.outcome
        /\ q.status = "replay" /\ q.etag = route.revision /\ q.active = r.active
    BY <2>1, ReplyKeeps
  <2>3. /\ r.command.kind = "publish" /\ r.active = function.active
        /\ r.id \in Operations /\ r.command \in Commands /\ r.since <= Current(r.command) /\ r.made = 0
        /\ \E i \in DOMAIN effects : Answers(i, r)
    BY <1>0, <2>1, Zenon DEF Truthful
  <2>4. PICK i \in DOMAIN effects : Answers(i, r) BY <2>3, Zenon
  <2>5. effects[i] \in Effects /\ i # 0 BY <1>0, SeqElement, SeqLen DEF Types
  <2>6. effects[i].outcome.revision \in Nat BY <2>5, Zenon DEF Effects, Outcomes
  <2>7. Reached(r.command, r.outcome) = route.revision BY <2>3, Zenon DEF Reached, Current
  <2> QED BY <1>0, <2>2, <2>3, <2>4, <2>5, <2>6, <2>7, ReplayTruthful, Zenon
<1>9. CASE replayedVersionResult(s)
  <2>1. q = Reply(r, "replay", versions[r.outcome.version].revision, 0) /\ r.at = "reading"
    BY <1>0, <1>9, Zenon DEF replayedVersionResult, Move, Types
  <2>2. /\ q.at = "answered" /\ q.id = r.id /\ q.command = r.command /\ q.since = r.since
        /\ q.made = r.made /\ q.outcome = r.outcome
        /\ q.status = "replay" /\ q.etag = versions[r.outcome.version].revision
    BY <2>1 DEF Reply, Idle
  <2>3. /\ r.command.kind = "version"
        /\ r.id \in Operations /\ r.command \in Commands /\ r.since <= Current(r.command) /\ r.made = 0
        /\ \E i \in DOMAIN effects : Answers(i, r) /\ effects[i].outcome = r.outcome
    BY <1>0, <2>1, Zenon DEF Truthful
  <2>4. PICK i \in DOMAIN effects : Answers(i, r) /\ effects[i].outcome = r.outcome BY <2>3, ZenonT(40)
  <2>5. effects[i] \in Effects /\ i # 0 BY <1>0, SeqElement, SeqLen DEF Types
  <2>6. effects[i].outcome.revision \in Nat BY <2>5, Zenon DEF Effects, Outcomes
  <2>7. r.outcome.version \in DOMAIN versions BY <1>0, <2>3, <2>4, Zenon DEF Sound, Answers
  <2>8. versions[r.outcome.version].revision \in Nat BY <2>7, Parts DEF Counted, Step
  <2>9. Reached(r.command, r.outcome) = q.etag BY <2>2, <2>3, Zenon DEF Reached
  <2> QED BY <1>0, <2>2, <2>3, <2>4, <2>5, <2>6, <2>8, <2>9, ReplayTruthful, Zenon
<1>10. CASE StartValidation(s)
  <2>1. /\ r.at = "starting" /\ q.at = "admitting" /\ q.outcome = r.outcome
        /\ q.id = r.id /\ q.command = r.command /\ q.since = r.since /\ q.made = r.made
    BY <1>0, <1>10, Zenon DEF StartValidation, Move, Types, Requests
  <2> QED BY <1>0, <2>1, Zenon DEF Truthful, Answers
<1>11. CASE AdmissionFails(s)
  <2>1. q = Reply(r, "applied", versions[r.outcome.version].revision, 0) /\ r.at = "admitting"
    BY <1>0, <1>11, Zenon DEF AdmissionFails, Move, Types
  <2>2. /\ q.at = "answered" /\ q.id = r.id /\ q.command = r.command /\ q.since = r.since
        /\ q.made = r.made /\ q.outcome = r.outcome
        /\ q.status = "applied" /\ q.etag = versions[r.outcome.version].revision
    BY <2>1, Zenon DEF Reply, Idle
  <2>3. Counted BY Parts, ZenonT(40)
  <2> QED BY <1>0, <2>1, <2>2, <2>3, AdmittedTruthful, Zenon
<1>12. CASE ReleaseSlot(s)
  <2>1. q.at = "idle" BY <1>0, <1>12, Zenon DEF ReleaseSlot, Move, Types, Idle
  <2> QED BY <2>1, Zenon DEF Truthful
<1> QED BY <1>1, <1>2, <1>3, <1>4, <1>5, <1>6, <1>7, <1>8, <1>9, <1>10, <1>11, <1>12, Zenon
        DEF SlotNext, Lookup, Complete, Admission, Resolve

\* Requests stay truthful: a completion and a decided admission are measured
\* against the stores they made, everything else against the stores it found.
LEMMA TruthfulStep ==
    ASSUME Inv, [Next]_vars, NEW t \in Slots PROVE Truthful(request[t])'
<1>0. /\ Types /\ Types' /\ Counted /\ Counted' /\ Forward /\ Truthful(request[t])
      /\ request[t] \in Requests /\ route'.revision = function'.active
      /\ \A i \in DOMAIN effects : Sound(i)
  BY Parts, TypesStep, StoresStep, Zenon
<1>a. PICK r, q : r = request[t] /\ q = request'[t] BY Zenon
<1>b. q \in Requests /\ r \in Requests BY <1>0, <1>a, Zenon DEF Types
<1> SUFFICES Truthful(q)' BY <1>a, Zenon
<1>1. CASE request'[t] = request[t]
  <2>1. q.at = "resolving" => function'.active = function.active
    BY <1>1, <1>a, Undisturbed, Zenon DEF Holding
  <2>2. Truthful(q) BY <1>0, <1>1, <1>a, Zenon
  <2> QED BY <1>0, <1>b, <2>1, <2>2, TruthfulKeeps, ZenonT(40)
<1>2. CASE SlotNext(t) /\ ~CompleteAfter(t) /\ \A verdict \in Verdicts : ~Admit(t, verdict)
  <2>1. Truthful(q) BY <1>2, <1>a, SlotTruthful, Zenon
  <2>2. q.at = "resolving" => function'.active = function.active
    BY <1>2, <1>a, Lands, ZenonT(40) DEF ReplayRoute, stores
  <2> QED BY <1>0, <1>b, <2>1, <2>2, TruthfulKeeps, Zenon
<1>3. ASSUME NEW verdict \in Verdicts, Admit(t, verdict) PROVE Truthful(q)'
  <2>1. /\ q = Reply(r, "applied", versions'[r.outcome.version].revision, 0) /\ r.at = "admitting"
        /\ effects' = effects
    BY <1>0, <1>3, <1>a, Zenon DEF Admit, Move, Types
  <2>2. /\ q.at = "answered" /\ q.id = r.id /\ q.command = r.command /\ q.since = r.since
        /\ q.made = r.made /\ q.outcome = r.outcome
        /\ q.status = "applied" /\ q.etag = versions'[r.outcome.version].revision
    BY <2>1, ReplyKeeps
  <2>3. Truthful(r)' BY <1>0, <1>a, <1>b, <2>1, TruthfulKeeps, Zenon
  <2>4. \A i \in DOMAIN effects' : Sound(i)' BY SoundStep, Zenon
  <2>5. /\ r.made \in DOMAIN effects' /\ Answers(r.made, r)' /\ effects'[r.made].outcome = r.outcome
        /\ r.command.kind = "version" /\ r.since <= Current(r.command)'
        /\ r.id \in Operations /\ r.command \in Commands
    BY <2>1, <2>3, Zenon DEF Truthful
  <2>6. /\ r.outcome.version \in DOMAIN versions'
        /\ r.outcome.revision <= Reached(r.command, r.outcome)'
    BY <2>4, <2>5, Zenon DEF Sound, Answers
  <2>7. Reached(r.command, r.outcome)' = q.etag BY <2>2, <2>5, Zenon DEF Reached
  <2>8. Current(r.command)' = 0 BY <2>5, Zenon DEF Current
  <2>9. q.etag \in Nat /\ r.since \in Nat BY <1>b, Zenon DEF Requests
  <2>10. Answers(r.made, q)' /\ effects'[r.made].outcome.revision <= q.etag
    BY <2>2, <2>5, <2>6, <2>7, Zenon DEF Answers
  <2> QED BY <2>2, <2>5, <2>6, <2>7, <2>8, <2>9, <2>10, SMTT(30) DEF Truthful
<1>4. CASE CompleteAfter(t)
  <2>0. PICK n, c, o, f : n = Len(effects) + 1 /\ c = r.command /\ o = r.outcome /\ f = function'.active
    BY Zenon
  <2>1. /\ r.at = "prepared" /\ c \in Commands /\ r.id \in Operations /\ o = Result(c)
        /\ DOMAIN effects' = DOMAIN effects \cup {n}
        /\ effects'[n] = [id |-> r.id, command |-> c, at |-> r.time, outcome |-> o]
    BY <1>4, <1>a, <2>0, Applied, Zenon
  <2>2. effects'[n].id = r.id /\ effects'[n].command = c /\ effects'[n].outcome = o BY <2>1
  <2>3. r.since <= Current(c)' /\ r.since \in Nat
    <3>1. r.since <= Current(c) /\ r.since \in Nat BY <1>0, <1>a, <1>b, <2>0, <2>1, Zenon
      DEF Truthful, Requests
    <3>2. Current(c) \in Nat /\ Current(c)' \in Nat /\ Current(c) <= Current(c)'
      BY <1>0, <2>1, ReachedForward, Zenon
    <3> QED BY <3>1, <3>2
  <2>4. CASE q.at = "starting"
    <3>1. /\ q.made = n /\ q.outcome = o /\ c.kind = "version"
          /\ q.id = r.id /\ q.command = c /\ q.since = r.since
      BY <1>4, <1>a, <2>0, <2>4, Created, Zenon
    <3>2. Answers(n, q)' BY <2>2, <3>1, Zenon DEF Answers
    <3> QED BY <2>1, <2>2, <2>3, <2>4, <3>1, <3>2, Zenon DEF Truthful
  <2>5. CASE q.at # "starting"
    <3> DEFINE p == [r EXCEPT !.made = n]
    <3>1. p.command = c /\ p.id = r.id /\ p.since = r.since /\ p.outcome = o /\ p.made = n
      BY <1>b, <2>0, Zenon DEF Requests
    <3>2. q = IF c.kind = "version" THEN [p EXCEPT !.at = "starting"]
              ELSE Reply(p, "applied", Result(c).revision, f)
      BY <1>0, <1>4, <1>a, <2>0, <3>1 DEF CompleteAfter, Move, Types
    <3>3. [p EXCEPT !.at = "starting"].at = "starting" BY <1>b, Zenon DEF Requests
    <3>4. c.kind # "version" /\ q = Reply(p, "applied", o.revision, f) BY <2>1, <2>5, <3>2, <3>3, Zenon
    <3> HIDE DEF p
    <3>5. /\ q.at = "answered" /\ q.id = r.id /\ q.command = c /\ q.since = r.since
          /\ q.made = n /\ q.outcome = o /\ q.status = "applied" /\ q.etag = o.revision /\ q.active = f
      BY <3>1, <3>4, ReplyKeeps
    <3>6. o.revision = Reached(c, o)' /\ o.revision = Current(c)'
      BY <2>1, <3>4, ResultReached, Zenon
    <3>7. o.revision \in Nat BY <1>b, <2>0, Zenon DEF Requests, Outcomes
    <3>8. c.kind = "publish" => q.active = q.etag
      BY <1>0, <2>0, <3>5, <3>6, Zenon DEF Current
    <3>9. Answers(n, q)' BY <2>2, <3>5, Zenon DEF Answers
    <3>10. /\ n \in DOMAIN effects' /\ effects'[n].outcome.revision <= q.etag
           /\ q.since <= q.etag /\ q.since <= Current(q.command)'
           /\ q.etag <= Reached(q.command, q.outcome)'
      BY <2>1, <2>2, <2>3, <3>5, <3>6, <3>7
    <3>11. q.id \in Operations /\ q.command \in Commands /\ q.command.kind # "version"
      BY <2>1, <3>4, <3>5, Zenon
    <3>12. q.status = "applied" <=> q.made = n BY <3>5, Zenon
    <3> QED BY <3>5, <3>8, <3>9, <3>10, <3>11, <3>12, Zenon DEF Truthful
  <2> QED BY <2>4, <2>5, Zenon
<1> QED BY <1>1, <1>2, <1>3, <1>4, Mover, ZenonT(40)

-----------------------------------------------------------------------------
(* The theorems.                                                           *)

\* The initial states satisfy the invariant.
LEMMA InitInv ==
    ASSUME Init PROVE Inv
<1>0. \A s \in Slots : request[s] = Idle BY Zenon DEF Init
<1>a. Idle \in Requests /\ Idle.at = "idle" BY IdleType, Zenon DEF Idle
<1>b. request = [s \in Slots |-> Idle] /\ effects = <<>> /\ records = <<>> /\ tombstones = <<>>
  BY Zenon DEF Init, LedgerInit
<1>c. DOMAIN effects = {} /\ DOMAIN records = {} /\ DOMAIN tombstones = {} BY <1>b
<1>d. \/ function = NoFunction /\ trigger = 0
      \/ function \in FunctionRecords /\ function.revision = 1 /\ function.active = 0 /\ trigger = 1
  <2> DEFINE f == [NoFunction EXCEPT !.revision = 1, !.policy = "token"]
  <2>1. f \in FunctionRecords /\ f.revision = 1 /\ f.active = 0
    BY Zenon DEF NoFunction, FunctionRecords, Lifecycles, Policies
  <2> HIDE DEF f
  <2>2. (function = NoFunction /\ trigger = 0) \/ (function = f /\ trigger = 1) BY Zenon DEF Init, f
  <2> QED BY <2>1, <2>2, Zenon
<1>1. Types
  <2>1. function \in FunctionRecords /\ trigger \in Nat
    BY <1>d DEF NoFunction, FunctionRecords, Lifecycles, Policies
  <2>2. versions \in Seq([state : VersionStates, revision : Nat])
    <3>1. CASE versions = <<>> BY <3>1
    <3>2. CASE versions = <<[state |-> "Ready", revision |-> 3]>> BY <3>2 DEF VersionStates
    <3> QED BY <3>1, <3>2, Zenon DEF Init
  <2>3. route \in [revision : Nat, version : Nat] /\ operationMu = Nobody /\ now = 0 /\ calls = 0
    BY Zenon DEF Init
  <2>4. request \in [Slots -> Requests] BY <1>a, <1>b, Zenon
  <2>5. effects \in Seq(Effects) BY <1>b
  <2>6. 0 \in 0..MaxTime /\ 0 \in 0..MaxCalls BY BoundAssumption
  <2> QED BY <1>c, <2>1, <2>2, <2>3, <2>4, <2>5, <2>6, Zenon DEF Types
<1>2. Bounded
  <2>1. IsFiniteSet({}) /\ Cardinality({}) = 0 BY FS_EmptySet, Zenon
  <2> QED BY <1>c, <2>1, LedgerAssumption DEF Bounded
<1>3. Locked BY <1>0, <1>a, NobodyAssumption, Zenon DEF Locked, Holding, Init
<1>4. Retention /\ Spaced /\ Completed /\ RecordsAreTrue /\ \A i \in DOMAIN effects : Sound(i)
  BY <1>c, Zenon DEF Retention, Spaced, Completed, RecordsAreTrue
<1>5. \A s \in Slots : /\ Fresh(request[s]) /\ Foreseen(request[s]) /\ Admitting(request[s])
                       /\ Truthful(request[s])
  BY <1>0, <1>a, Zenon DEF Fresh, Foreseen, Admitting, Truthful
<1>6. Apart BY <1>0, <1>a, Zenon DEF Apart
<1>7. Counted
  <2>1. CASE versions = <<>> BY <2>1 DEF Counted
  <2>2. CASE versions = <<[state |-> "Ready", revision |-> 3]>> BY <2>2 DEF Counted, Step
  <2> QED BY <2>1, <2>2, Zenon DEF Init
<1>8. Blank /\ route.revision = function.active
  <2>1. route.revision = 0 BY Zenon DEF Init
  <2> QED BY <1>d, <2>1 DEF Blank, NoFunction
<1> QED BY <1>1, <1>2, <1>3, <1>4, <1>5, <1>6, <1>7, <1>8, Zenon DEF Inv, AnswerInv, StoreInv, LedgerInv

\* Every step keeps the invariant.
LEMMA InvStep ==
    ASSUME Inv, [Next]_vars PROVE Inv'
<1>1. Types' /\ Bounded' /\ Locked' /\ Retention' /\ Spaced' /\ Completed'
  BY TypesStep, BoundedStep, LockedStep, RetentionStep, Zenon
<1>2. RecordsAreTrue' /\ Counted' /\ Blank' /\ route'.revision = function'.active
  BY RecordsStep, StoresStep, Zenon
<1>3. Apart' /\ \A t \in Slots : Admitting(request[t])' BY AdmittingStep, Zenon
<1>4. \A i \in DOMAIN effects' : Sound(i)' BY SoundStep, Zenon
<1>5. \A t \in Slots : Fresh(request[t])' /\ Foreseen(request[t])' /\ Truthful(request[t])'
  BY FreshStep, ForeseenStep, TruthfulStep, Zenon
<1> QED BY <1>1, <1>2, <1>3, <1>4, <1>5, Zenon DEF Inv, AnswerInv, StoreInv, LedgerInv

\* The invariant holds throughout.
LEMMA Invariant == Spec => []Inv
<1>1. Init => Inv BY InitInv, Zenon
<1>2. Inv /\ [Next]_vars => Inv' BY InvStep, Zenon
<1> QED BY <1>1, <1>2, PTL DEF Spec

\* At every moment the ledger is within its capacity, an Operation ID is either
\* retained or reserved, operationMu is held by the one request between its
\* lookup and its answer, and every retained record is true of the stores
\* (Ledger.complete, applyOperation, recordOperationFailure).
THEOREM LedgerHolds == Spec => []LedgerInvariant
<1>1. Inv => LedgerInvariant
  <2> SUFFICES ASSUME Inv PROVE TypeOK /\ RecordsAreTrue BY Zenon DEF LedgerInvariant
  <2>1. /\ Types /\ Bounded /\ Locked /\ Completed /\ Counted /\ RecordsAreTrue
        /\ route.revision = function.active
    BY Parts, Zenon
  <2>2. \A v \in DOMAIN versions : versions[v] \in
           [state : {"Uploaded", "Validating", "Ready", "Failed"}, revision : 1..3]
    <3> TAKE v \in DOMAIN versions
    <3>1. versions[v] \in [state : VersionStates, revision : Nat]
      BY <2>1, SeqElement, SeqLen, Zenon DEF Types
    <3>2. versions[v].revision \in 1..3 BY <2>1 DEF Counted, Step
    <3> QED BY <3>1, <3>2, Zenon DEF VersionStates
  <2>3. \A k \in DOMAIN records :
           /\ records[k].command \in Commands /\ records[k].status \in {"Succeeded", "Failed"}
           /\ records[k].completedAt \in 0..now
    BY <2>1 DEF Types, Records, Completed
  <2>4. /\ function \in [lifecycle : Lifecycles, revision : Nat, active : Nat, policy : Policies]
        /\ trigger \in Nat /\ now \in 0..MaxTime /\ calls \in 0..MaxCalls
        /\ route \in [revision : Nat, version : Nat]
        /\ DOMAIN records \cup DOMAIN tombstones \subseteq Operations
    BY <2>1, Zenon DEF Types, FunctionRecords
  <2>5. \A s \in Slots : operationMu = s <=> request[s].at \in {"prepared", "refused", "resolving"}
    BY <2>1, Zenon DEF Locked, Holding
  <2> QED BY <2>1, <2>2, <2>3, <2>4, <2>5, Zenon DEF TypeOK, Bounded
<1> QED BY <1>1, Invariant, PTL

\* However often and however concurrently a command is repeated, it takes effect
\* once for as long as its Operation ID is retained, and a lookup calls an ID
\* unknown only when the retention of all its effects is over (Ledger.complete,
\* Ledger.Lookup, Ledger.GC).
THEOREM AppliedOnce == Spec => []AppliedOnceWhileRetained
<1>1. Inv => AppliedOnceWhileRetained
  <2> SUFFICES ASSUME Inv PROVE AppliedOnceWhileRetained BY Zenon
  <2>1. Retention /\ Spaced BY Parts, Zenon
  <2> QED BY <2>1, Zenon DEF AppliedOnceWhileRetained, Retention, Spaced, Over, Unknown
<1> QED BY <1>1, Invariant, PTL

\* An answer that claims success is about an effect of that very request and
\* carries a revision that includes it and was current while the request was
\* served; any other answer means the request changed nothing (applyOperation,
\* functionOperationResult, replayedRouteResult, handleCreateVersion).
THEOREM AnswersHold == Spec => []AnswersAreTrue
<1>1. Inv => AnswersAreTrue
  <2> SUFFICES ASSUME Inv PROVE AnswersAreTrue BY Zenon
  <2>1. \A s \in Slots : Truthful(request[s]) BY Parts, Zenon
  <2> QED BY <2>1, Zenon DEF AnswersAreTrue, AnsweredResource, Truthful, Answers, Reached
<1> QED BY <1>1, Invariant, PTL
=============================================================================
