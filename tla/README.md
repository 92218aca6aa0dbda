# MiniCloud Local Core: TLA+ specifications

MiniCloud runs WebAssembly functions.  The repository contains the Local Core:
one process that stores artifacts, admits Versions through a disposable
validator process, decides where replicas run, prepares them on a Worker, tells
the Gateway about them and serves HTTP calls from what the Gateway was told.
Nothing but the artifact store survives a restart.  The specifications here are
written from the Go code under `src/`; `PROJECT.json` names, for every
definition, the lines it stands for.

Contents: [inventory](#inventory), [modules](#modules-and-how-they-correspond-to-the-code),
[runs](#runs-bounds-and-what-they-show), [fairness](#fairness),
[proofs](#proofs), [observations](#where-code-and-documents-differ),
[not modelled](#what-is-not-modelled), [plan](#plan).

## Inventory

Who does what, in the order a deployment travels:

| part | state | operations | hard behaviour |
|---|---|---|---|
| artifact store (`internal/artifact`) | files, stripe locks, open calls | Put, OpenVerified, Close | corruption repair racing uploads, crash between link and sync |
| validator (`internal/validator`, `cmd/minicloud-validator`) | slots, process, directory, feeding goroutine | Validate | two deadlines, cancellation, processes that hang or lie |
| controller and stores (`internal/localcontroller`, `internal/controlplane`) | Catalog, releases, routes, assignments, claims, command numbers | the five management commands, admission, resume | commands numbered outside the store locks, two admitters |
| management API and operation ledger (`internal/managementhttp`, `controlplane/operation.go`) | requests under way, operationMu, records, tombstones | the five writes: lookup, prepare, apply, complete, admit, answer; GC | retries, ID reuse, GC and other requests between any two steps, capacity |
| planner (`internal/scheduler`) | barrier, decisions | InstallBarrier, Plan, Acknowledge | repeated and competing commands under a changed fleet |
| worker registry (`internal/workerregistry`) | sessions, leases in time, intents, revision | CommitSession, Register, ReportInventory, Heartbeat, SetIntent, UpdateDrain, Evaluate | late calls of fenced sessions, clock going back |
| worker agent (`internal/workeragent`) | replicas, users, queues | Prepare, Install, Invoke, Cancel, Ack, control connections, Close | everything between two sections of one mutex |
| authorization gate (`internal/servingauth`) | epochs, session, permissions with a TTL | AcceptAuthoritativeControl, DisconnectControl, Install, AuthorizeSync, Revoke | stale authority, lazy expiry |
| program cache (`internal/workercache`) | flights, LRU entries, pins | Acquire, Release, Close | single flight, waiters that give up, failed closes |
| engine lifecycle (`internal/wasmexec`) | operations inside, release in progress | begin, end, close | concurrent closers, failing release |
| placement and reconciliation (`internal/localcore`, `internal/localworker`) | lists read by a pass, candidates | Converge | each phase decides from old lists |
| discovery (`internal/localserving`, `internal/discovery`, `internal/gatewaydiscovery`) | numbered events, the Gateway's snapshots | FullSync, Apply, SuppressEndpoint | loss, duplication, reordering, gaps, staleness |
| gateway (`internal/gatewayhttp`, `gatewayinvoke`, `gatewayroute`, `routing`) | slots, rate limiter, in-flight counts, cursors | one HTTP request | two lookups of one request, changing views |
| runtime (`internal/localcore/runtime.go`) | resources, loops, servers, two mutexes | New, Serve, Converge, Close | unwinding, staged retryable Close |

How they interact: a management command changes the stores; the convergence
pass turns the stores into Assignments (planner, assignment store), Assignments
into replicas (agent, cache, engine, gate), replicas into candidates and
candidates into a view (discovery); a request is authenticated and routed by the
view and accepted by the gate and the agent.  `PROJECT.json` lists for every
part the hazards found in the code and the properties that would catch them
going wrong.

## Modules, and how they correspond to the code

One module per component.  A section of code under one mutex is one step; what
a goroutine does after it unlocks is a step of its own.  Calls that are refused
and change nothing are left out.  The operators marked "Mutation" next to a
definition are plausible defects of the code: with one of them in place of the
definition, a property of the module fails, which shows that the property speaks
about the code.

* `ServingAuth` holds the gate as a record and its methods as operators on it.
  `ServingGate` is the gate alone with a clock; `ServingPermission` is the
  abstract promise: a fence that was accepted and no longer is becomes
  acceptable only by a new Install.
* `WorkerAgent` extends `ServingGate` and calls the gate's operators from its own
  handlers: Replicas, preparation, invocations through the four limiters, Close.
  The compiled cache is external to it: acquire returns a lease or an error,
  close succeeds or fails.  Slots held are derived from where a call is; a call
  that waited keeps its place in the queue until acquire returns; the deferred
  releases at the end of a call are one step.  `ImplementsPermission` maps the
  Agent's gate to `ServingPermission`.
* `WorkerCache`: a load stands for the flight, the Program and the entry.
  Compiling is an outcome of the load.  `lru` gives each cached load its place in
  the list; `currentWeight` is the running total the code keeps, which
  `WithinCapacity` compares with what the entries weigh.
* `WorkerRegistry`: boot and epoch stand for the three fields CommitSession
  assigns together; the revision wraps at `RevisionSize`, which stands for 2^64.
* `Planner`: retained decisions and the choice of a Worker.  The fleet is the
  list handed to Plan.  The history variable `told` records the answers given.
* `ControlPlane`: the four stores, the controller's operations, the two
  admission drivers and the placement pass. One number stands for AppliedIndex
  and At, which grow together. A client expects the current revision or
  another one. The planner refuses or answers. A resume pass takes pending
  Versions, kept as a set, in the order of their IDs, `Ordinal`, and
  `ResumeLimit` of them. A
  behaviour begins with empty stores, or with the state that creating one
  Function and one admitted Version leaves.
* `OperationLedger` holds the ledger's methods as operators.  `Management` calls
  them from the handlers of the five writes: a request arrives in a slot, looks
  its Operation ID up under `operationMu`, prepares its outcome, applies the
  command and records it, or answers from the record.  A Version is admitted and
  read for the answer after the mutex is released, so that other requests, the
  resume loop and garbage collection step in between.  A store that has no room
  for another Function or Version refuses without a record, at any time.
  `effects` is the history of commands that changed a store, and `since` the
  revision a request could have seen when it arrived.
* `ValidatorClient`: calls, their processes and feeding goroutines, with one
  clock that both deadlines read.  `others` is the number of slots that calls
  outside the instance hold.  What a compilation finds is chosen at the
  call; a compilation that the process's own deadline interrupts reports an
  invalid module, as `engine.Validate` does with any compile error.  A process
  may exit at any moment, its input read or not; after a clean exit the call
  waits for the feeding goroutine without asking its context again.
* `ArtifactStore`: the directory the process sees and the one a power failure
  leaves; syncDirectory copies the first to the second for one shard directory.
  Put creates that directory and never syncs its parent, so that a power failure
  may take any shard directory with all it holds.  `unsynced` is the set of
  digests whose blob was published by a call that failed or died before its
  sync; `tmp` keeps the file of a Put whose Remove failed.
* `ServingDiscovery`: catalog, numbered events per epoch, the Store that
  receives them late, twice, out of order or never.  One revision stands for
  those of Function, Trigger and Route.  `syncs` is the set of FullSyncs between
  reading the stores and numbering what they read.  Of the clock the age of each
  snapshot is kept, up to the staleness window, and its failure: a reading below
  the last one makes the Store fail closed for good.  A Store without a window
  goes by the connection flag.
* `Convergence`: the composition.  Placement, reconciliation, candidate
  registration and full sync of one pass, each on the lists it read, while
  operators publish and disable and the Gateway sends calls.  A store call is
  one step here; the modules above have its detail.  A preparation or an
  installation may fail: the replica is then Failed or cancelled, and its
  Assignment is not prepared again.  A full Agent refuses a preparation without
  making a replica, and the next pass tries again.  A pass may be cut short at
  any step, with what it has done so far left as it is; `Reconcile` goes through
  its list in any order, since Assignment IDs are random.
* `RouteSelect`: bucket and weighted choice as functions of a hash; `Routes` are
  the lists of Targets an operator may write.
  `Gateway` extends it with a request from the rate limiter to the lease and
  back: it authenticates by one view, is routed by a later one and leases an
  Endpoint of that one when it may be out of date again.  An Endpoint belongs to
  a Target by Version and generation, which stand for the admission epoch and the
  policy digest too; the generation is part of the cursor's key.  The hash of a
  key is a constant of the Route revision.
* `CoreRuntime`: New with its unwinding, Serve with two servers and two loops,
  direct Converge calls and the staged Close.  Invocations enter through a
  server or through `Handler` until the Agent is closing, and may outlive the
  bounded Shutdown.  `stop` is the set of servers that Serve has still to shut
  down; `draining` an Agent that is closing, and stays so when Close fails.

Each `...Proofs` module extends one or more components and has their theorems
([proofs](#proofs)).  Each `MC...` module instantiates a module for TLC: constant
functions, symmetry sets and, in `MCGateway`, the Routes over which the choice of
a Target is enumerated.

## Runs, bounds and what they show

Run one with `tlc -config <module>.cfg <module>`; each ends within five minutes
on two cores and fires every action of its module.

| run | instance | shows |
|---|---|---|
| `agent` | 1 Assignment, 2 calls, 1 closer, 2 sessions, 2 discovery epochs, TTL 1, limiters of 1 or 2 slots with 1 queued | `AgentInvariant`: no panic, users counted, leases outlive users, preparation and done are final, the cache is closed last; permissions need a Ready Replica and belong to the current authority; accepted calls run on; the gate implements `ServingPermission`; queued calls leave on stop although guests never end; stopped Replicas are released and Close returns when guests end |
| `cache` | 3 keys, room for 2, 2 callers, 2 loads, 2 closers | `CacheInvariant`: pins, capacity, single flight; nothing lost when a close fails; calls return |
| `registry` | 2 Workers, room for 1, 2 boots, 3 epochs, clock to 4 that may regress | `RegistryInvariant`: who may be Ready, failing closed, drain follows intent; sessions, removal and activation only move forward; a silent Worker leaves |
| `discovery` | 2 Functions, 2 epochs, 4 events, staleness window of nothing or 1 | the Gateway holds a published prefix and never goes back; a later complete batch always fits; it fails closed with its clock; without news it goes stale, and with a settled serving state it catches up |
| `control_plane` | 1 Function, 2 Versions, 3 operations from either initial state | `StoresAgree`: the stores are consistent with each other, one admission and one placement at a time; revisions and states move forward; Versions reach the validator again until decided although others fail for ever, unless a resume pass is full before them; targets are placed |
| `management` | 3 IDs, room for 2, 2 requests at a time, 3 in all, retentions of 1, clock to 2 | `LedgerInvariant`: capacity, one holder of operationMu, records that are true of the stores; a command takes effect once while its ID is retained; every answer is true |
| `convergence` | 2 Functions, 2 Versions, 3 changes or interruptions, 2 calls, failing preparations | `ConvergenceInvariant`: one Endpoint per Function, backed candidates, whole views; calls keep their replica; views end at the target, and a failed preparation costs only its own |
| `planner` | 3 commands, 3 Assignments, 2 Workers, room for 2 decisions | `PlannerInvariant`: the two indexes agree, bounded, authorised; answers for an Assignment agree until acknowledged; the choice is best among those with room |
| `gateway` | 3 requests, 2 slots, 4 Endpoints, 2 of 4 views, 2 generations of a Version; Routes of up to 3 Targets, 8 hash values | `GatewayInvariant`: slots and counts conserved, Target kept, token current; every hash routed, shares exact to one value, listing order irrelevant; round-robin moves |
| `validator` | 1 call beside others, 2 slots, deadline 2 | `ValidatorInvariant`: bounded work, nothing left behind, limits have their cause; verdicts are true; calls return and feeding stops, but where the process exits cleanly with its input unread and the artifact stalls |
| `artifact_store` | 2 calls, 2 digests, 1 stripe, 3 faults | `StoreInvariant`: created blobs survive a power failure that leaves their shard directory, other successes too unless the blob was never synced, a temporary file is left only by a Put that reports an error, Close waits; what succeeded stays; calls end once they have their upload |
| `core_runtime` | 3 callers, 2 calls, management on | `RuntimeInvariant`: unwinding, closing order, users have their resources, one Serve; Serve and Close return |

Why the bounds are enough.  Each hazard is a race of two or three actors around
one resource, so two of everything that competes and a limit of one (or two
against three) make every queue, table and pool both full and empty.  Two epochs,
sessions or boots make an old one and a new one.  An Assignment ID is prepared
once in `agent`: that IDs are not reused is the Controller's rule, as the comment
on `AcknowledgeTerminal` says; `MaxIncarnations` can be raised.  Clocks run a step
past the delays that are compared.  The counters that are capped (`MaxOps`,
`MaxChanges`, `MaxAssignments`, `MaxLoads`, `MaxViews`, `MaxEvents`, `MaxFaults`,
`MaxTime`, `MaxClock`, `MaxCalls`) appear in the guards of the actions that
advance them and only cut behaviours short.  `CursorSize` in `Gateway` stands for
2^64: where the cursor returns to zero and the number of tied Endpoints does not
divide it, two choices in a row may coincide, which `RoundRobinMoves` excepts.
`StartDelay` in
`ValidatorClient` says that a process needs longer to start than a timer of the
supervisor may be late; without it the process's deadline could overtake the
supervisor's.

Deadlock is checked where the system always has something to do or has a
defined idle state; elsewhere the bounded instances, and systems that may be
closed for good, come to a stop.

## Fairness

* Goroutines run: weak fairness of the steps a call, a closer or a loop takes by
  itself.  `sync.Mutex` starves no waiter: strong fairness of taking it
  (`ArtifactStore`, `CoreRuntime`).  An upload takes as long as its source does:
  nothing is assumed of it.
* The convergence loop and the resume loop tick for as long as Serve runs, and
  from some time on the passes are not cut short (`ViewsConverge`).
* Timers fire and a kill takes effect (`ValidatorClient`).  Nothing is assumed
  of the process, nor of the reader of the artifact.
* Loads end because the loader has a deadline; guests end, where that is
  assumed (`GuestsEnd`, a hypothesis of `StoppedIsReleased`), because wazero
  stops them at theirs.  `QueuedLeavesOnStop` does without.
* Of the environment: a validation ends, one way or another, and the planner
  does not refuse a Function for ever (`LoopsFinish`, `ViewsConverge`).  A
  validator that fails for ever is allowed: `LoopsFinish` says that every Version
  is tried again, not that it is decided.
* Time passes for the Store of the Gateway, and the deployment pass goes on
  calling FullSync, whose reader waits on a mutex (`ServingDiscovery`).
  `SilentWorkerLeaves` and `CatchesUp` are about behaviours whose clock is sound
  from some time on; a clock that regressed fails closed.  Callers are never
  obliged to call, wait or give up.

## Proofs

TLAPS (with Z3, Zenon and LS4) proves the following for every value of the
constants: all sets of identities, limits, capacities and times.

| module | about | theorems |
|---|---|---|
| `ServingGateProofs` | `ServingGate` | `GateTypeCorrect`; `StoredAlwaysCurrent`: `GateSpec => []StoredIsCurrent`; `TrackedAlwaysWithinLimit`; `AuthorityAlwaysMovesForward`; `GateImplementsPermission` (with a clock that does not move back) |
| `WorkerAgentProofs` | `WorkerAgent` | `AgentHolds`: `Spec => []AgentInvariant`; `PermissionAlwaysNeedsReadyReplica`: `Spec => []PermissionNeedsReadyReplica`; `AgentStoresCurrent`: `Spec => []StoredIsCurrent`; `AgentAcceptedRunsOn`: `Spec => AcceptedRunsOn`; `AgentImplementsPermission`: `Spec => ImplementsPermission` |
| `ManagementProofs` | `Management` | `LedgerHolds`: `Spec => []LedgerInvariant`; `AppliedOnce`: `Spec => []AppliedOnceWhileRetained`; `AnswersHold`: `Spec => []AnswersAreTrue` |
| `WorkerCacheProofs` | `WorkerCache` | `CacheHolds`: `CacheSpec => []CacheInvariant`; `NothingEverLeaked`: `CacheSpec => []NothingLeaked` |
| `AdmissionProofs` | `Planner` | `PlannerHolds`: `PlannerSpec => []PlannerInvariant`; `OneWorkerPerAssignment`: `PlannerSpec => []AnswersAgree`; `BestWorkerChosen`: `PlannerSpec => []DecisionsBest` |
| | `WorkerRegistry` | `RegistryHolds`: `Spec => []RegistryInvariant`; `SessionsForward`: `Spec => SessionsMoveForward` |
| | `ValidatorClient` | `ValidatorHolds`: `ValidatorSpec => []ValidatorInvariant`; `VerdictsHold`: `ValidatorSpec => []VerdictsAreTrue` |
| `DeploymentProofs` | `ArtifactStore` | `StoreHolds`: `Spec => []StoreInvariant`; `SuccessStays`: `Spec => []SucceededStays` |
| | `Convergence` | `ConvergenceHolds`: `ConvergenceSpec => []ConvergenceInvariant`; `CallsAlwaysKeepTheirReplica`: `ConvergenceSpec => []CallsKeepTheirReplica` |
| `LocalCoreProofs` | `CoreRuntime` | `RuntimeHolds`: `Spec => []RuntimeInvariant` |
| | `ControlPlane` | `StoresAlwaysAgree`: `ControlPlaneSpec => []StoresAgree`; `StoresAlwaysMoveForward`: `ControlPlaneSpec => StoresMoveForward` |
| `RoutingProofs` | `ServingDiscovery` | `PrefixHolds`: `Spec => []HoldsPublishedPrefix`; `BatchesFit`: `Spec => []LaterBatchFits`; `DiscoveryHolds`: `Spec => []DiscoveryInvariant`; `StoreForward`: `Spec => NeverBack` |
| | `Gateway`, `RouteSelect` | `GatewayHolds`: `GatewaySpec => []GatewayInvariant`; `RoundRobinAlwaysMoves`: `GatewaySpec => RoundRobinMoves`; `EveryRouteAlwaysExact`: `GatewaySpec => []EveryRouteExact` |

The assumptions are the named `ASSUME`s of the modules (natural numbers for
epochs, times, limits and capacities, finitely many Assignment and Worker IDs,
names like `Nobody` that are no identity); TLC evaluates them on the runs.

Each argument is an inductive invariant, checked with TLC before it was proved,
and a step proof with one case per action:

* Gate: the types, the bound on tracked identities and `StoredIsCurrent`, which
  the others need because the gate decides on stored records without looking at
  the epoch again.  Each operator of `ServingAuth` has a lemma.  For the
  refinement the mapping sends the state to the set of fences AuthorizeSync would
  accept now; time, disconnection, revocation and lazy removal only shrink it and
  Install adds one fence of the current epoch and session.
* Agent: whatever the Agent does to the gate is one of the gate's operators, so
  that the lemmas on those carry over to the gate inside it.  Beside them the
  invariant says what each phase of a Replica and of an invocation implies: who is
  counted as a user is where the code has incremented the count and not yet
  decremented it; an authorization is installed only for a Replica that is Ready
  under the same identity, and every step that ends Ready revokes first, under
  the same lock; a Replica that is done has no users left, and the cache is closed
  only after all of them are done.
* Management (first the effect of a step on ledger and stores, then the requests
  and their answers): until its retention is over an effect is covered by a
  record, or by a tombstone that is young enough; the request that holds
  `operationMu` finds its ID as unknown as its lookup did, and the stores as it
  prepared for, so that the outcome recorded is the one that happens; a Version
  is admitted by its creator or by nobody, with a revision that counts its
  steps; and what a request under way has read is backed by an effect, at every
  stage on the way to the answer.
* Registry: what is true of one Worker, with the addition that a removed one is
  not registered, which is what keeps late heartbeats from reviving it; and that
  fewer Workers than the size of the revision counter change in one step, so that
  its wrap-around hides no change.
* Planner: the properties themselves, with the types they need.  That the best
  Worker exists rests on the order by which candidates are compared being
  transitive, ratios compared by cross-multiplication included; then any finite
  set of candidates has a first one.
* Convergence: a pass that is placing knows the live placement of every Function
  it has still to decide, since only a pass changes placements, so that a
  Function has one Assigned placement at most; what it listed for reconciliation
  is intent until the pass ends; and from the moment Reconcile has dropped the
  candidates without intent every candidate is Assigned, until the next pass
  cancels.  From that follows that there is one candidate at most, and what
  FullSync collects is such candidates.  A pass that is cut short may leave two
  Ready replicas; they are never both candidates.
* Runtime: who holds which mutex is where the code holds it; `running` stands for
  the one caller inside Serve; loops and servers run inside Serve only, and every
  server is on `stop` or has returned when Serve joins its loops; what is open is
  determined by the stage of New or of Close, and while a call runs the Agent has
  not been closed, because it waits for those it admitted and admits no more.
* Control plane: the command numbers an operation has reserved are newer than any
  change of a Function, and what its preparation found still holds, because
  `operationMu` is held; a driver that took a Version for validation still has it
  in the state and revision it saw, because claims exclude each other; and the
  placement pass knows the live placements it has still to decide.
* Artifact store: the call inside a stripe is its holder, so that two calls inside
  are in two shard directories; what a call has learned about its blob (that it
  is bad, or synced) stays true until it has acted on it; a blob is in a shard
  directory that exists, and a good one is synced, about to be, or known not to
  be.
* Discovery: what was published is in the catalog in the same or a later
  revision; what a FullSync has read is not older than anything numbered, since
  FullSync is under one lock; so a complete batch is not older than what was
  numbered before it, in its own epoch and in earlier ones.  The bound on events
  is a cardinality, of the pairs of epoch and sequence.
* Validator: the slot of a call covers its directory and its process, the
  supervisor's deadline is the earlier one until the context has been asked, and
  an answer that was read is one its own process gave after compiling.
* Cache: each load says who is to close its Program, and the invariant says of
  each owner when it may own (the cache while the load is in the list, the load
  goroutine while it evicts, a Close while it releases, nobody's but the next
  Close's once closing failed); reference counts, waiters and `active` are the
  cardinalities of the callers and loads they stand for; the running total of
  bytes is what the entries weigh, which the choice of victims needs.
* Gateway: slots and in-flight counts are cardinalities of sets of requests; the
  choice made last for a Target is the one before the cursor.  That a rank in a
  finite set is taken by exactly one member, and that consecutive remainders
  differ, are lemmas.
* Route selection: a Route whose Targets have different names has one sorted
  order, since a Target's place is the number of Targets before it; so the
  listing does not matter.  Sorting keeps the total, which counts the basis points
  of all Targets one by one.  The running sums rise from 0 to `Total`, so each
  bucket is one Target's; the hashes of the buckets from `a` on start at
  `a * HashSize / Total` rounded up, and a share is the difference of two such
  starts.

Facts about all finite sets or all numbers that need an induction (every finite
set of candidates has a first one, every rank is taken, every list of weights has
its running sums, any number of bytes is the sum of its parts) are proved through a least counterexample or with the
library's facts on cardinalities.

Only model-checked: the liveness properties (`CallsReturn`, `CatchesUp`,
`LoopsFinish`, `ViewsConverge` and the others; fairness is beyond the prover).
Every invariant and every action property of the runs is proved.

## Where code and documents differ

Met while modelling; the models follow the code.

* Of two closers of an Engine or Program that wait for its last operation the
  second releases again after the first succeeded
  (`internal/wasmexec/lifecycle.go`); if that fails, the lifecycle is closed and
  reports the error for ever.  ADR 0005 says a failed release stays retryable.
* A heartbeat makes a Suspect Worker Ready.  ADR 0012 leaves that to
  ReportInventory alone.
* A superseded replica is stopped before the view without it is published.  The
  note on assignment intent gives the opposite order.  Calls that were accepted
  keep their replica all the same (`CallsKeepTheirReplica`).
* The comment on `Client.Validate` has the artifact closed on every return path
  so that cancellation can interrupt the feeding goroutine.  After a clean exit
  of the process the call waits for that goroutine without a context, before it
  closes the artifact; a process that did not read its input and a reader that
  stalls would keep it there (`Stuck`, which `ValidateReturns` excepts).  The
  artifacts of the program are files, which do not stall.
* Put documents no limit of its durability.  The entry of a new shard directory is
  never synced: a power failure may take the directory with a blob that was
  reported as created.
* The HTTP handler prefers the Idempotency-Key whatever the Route's affinity
  source says.
* Nothing in the program calls `Ledger.GC`, only its tests do: once
  `MaxOperations` IDs are retained, every new management write is refused as
  overloaded, where the specification of MiniCloud has what is eligible collected
  first.  The model has GC as a step that may happen, as ADR 0014 describes it.
* A comment in the Version handler says that the convergence loop retries a
  Version left Validating.  As many pending Versions that fail for ever as a
  resume pass takes, earlier in the order of IDs, keep it from being retried;
  `LoopsFinish` says exactly that.

## What is not modelled

The begin, end and close counting of `wasmexec/lifecycle.go`: the cache closes a
Program once, after its last lease, and the closers of the Engine hold `runMu`,
so that the concurrent closers it is written for do not occur in this program.
The RPC contract: no component uses it.  Parsing and the read-only endpoints of
the management API, field validation, canonical encodings and checksums, the
guest ABI and its SDK, strict JSON, the command line and the coverage tool: pure
functions, or no state that anybody shares.  Inside modelled parts: the contents
of artifacts, modules, inventories and HTTP messages; identifier and token
generation; logging; resource limits of the operating system.  `Publisher.Build`
takes only the publisher's own mutex; nothing in the program calls it, and the
model has it with no FullSync under way: a caller that used it while one is would
number its event before older readings, and had to see to that itself.

## Plan

1. Done: gate, agent, cache, registry, discovery, control plane, management,
   convergence, planner, artifact store, gateway, route selection, runtime and
   validator; theorems about each of them.
2. More of the system, once it is used: `PeerLimiter` and the deadline budget of
   `internal/rpc`, a restart that finds the artifacts of an earlier process.
3. Abstract specifications: the cache as a map with pins, the management API as
   at-most-once execution, discovery as a register that only moves forward, each
   with a refinement mapping.
4. More theorems: the abstract specifications of 3.
