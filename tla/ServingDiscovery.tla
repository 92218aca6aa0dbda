-------------------------- MODULE ServingDiscovery ---------------------------
(***************************************************************************)
(* How serving state reaches a Gateway: the synchroniser of                *)
(* internal/localserving reads it, the Publisher of internal/discovery     *)
(* numbers it, and the Store of internal/gatewaydiscovery applies it.      *)
(*                                                                         *)
(* FullSync hands its batch to the Store itself.  The Store is also the    *)
(* receiving end of a Watch: everything published may reach it late, twice,*)
(* out of order or never, which is Watch.                                  *)
(*                                                                         *)
(* The revisions of Function, Trigger and Route are one number: they are   *)
(* read together and each only grows.  An Endpoint is its complete         *)
(* Assignment identity, the fence that suppression compares.               *)
(***************************************************************************)
EXTENDS Naturals, Sequences, FiniteSets, FiniteSetsExt

CONSTANTS
  FunctionIDs,
  AssignmentsOf,       \* the Assignments that may serve each Function
  MaxFunctions,        \* Config of the Store
  MaxStales,           \* the staleness windows a Store may be configured with
  ClockMayRegress,     \* whether the Store's clock may go backwards
  MaxEpoch, MaxEvents,  \* bounds
  MaxRevision           \* bound on the revisions of each Function

ASSUME DiscoveryAssumption ==
  /\ MaxFunctions \in Nat \ {0} /\ MaxStales \subseteq Nat /\ ClockMayRegress \in BOOLEAN
  /\ MaxEpoch \in Nat \ {0} /\ MaxEvents \in Nat
  /\ MaxRevision \in [FunctionIDs -> Nat]

VARIABLES
  catalog,      \* what the control plane and the Worker would answer now
  published,    \* per Discovery Epoch, the events by Serving Sequence
  epoch,        \* the epoch of the current Publisher
  syncs,        \* the FullSyncs in progress: how far each is and what it has read
  functions, position, fullSynced, needsFullSync,  \* Store
  maxStale, watchConnected, clockHealthy

source == <<catalog, epoch, published>>
store == <<functions, position, fullSynced, needsFullSync, maxStale, watchConnected>>
vars == <<source, syncs, store, clockHealthy>>

NoDraft == [f \in {} |-> {}]

Snapshot(f) == [revision : 1..MaxRevision[f], endpoints : SUBSET AssignmentsOf[f]]

Sequence(e) == Len(published[e])

\* How many events all epochs have; MaxEvents bounds them.
Events == Cardinality(UNION {{e} \X (1..Sequence(e)) : e \in 1..MaxEpoch})

Init ==
  /\ catalog = NoDraft
  /\ published = [e \in 1..MaxEpoch |-> <<>>]
  /\ epoch = 1
  /\ syncs = {}
  /\ functions = [f \in {} |-> {}] /\ position = [epoch |-> 0, sequence |-> 0]
  /\ fullSynced = FALSE /\ needsFullSync = TRUE
  /\ maxStale \in MaxStales /\ watchConnected = FALSE
  /\ clockHealthy = TRUE

-----------------------------------------------------------------------------
(* The state to be served: Functions are created and changed, never        *)
(* deleted; Endpoints come and go under the same revision.                 *)

\* Bound: the catalog changes, and single Functions are published, only while
\* two more events may be published.
MayChange == Events + 1 < MaxEvents

Change(f) ==
  /\ MayChange
  /\ \E r \in 1..MaxRevision[f], es \in SUBSET AssignmentsOf[f] :
       /\ r \in IF f \in DOMAIN catalog THEN {catalog[f].revision, catalog[f].revision + 1} ELSE {1}
       /\ catalog' = [g \in DOMAIN catalog \cup {f} |->
                        IF g = f THEN [revision |-> r, endpoints |-> es] ELSE catalog[g]]
       /\ catalog' # catalog
  /\ UNCHANGED <<epoch, published, syncs, store, clockHealthy>>

\* A new Leader creates a Publisher with the next epoch.
NewPublisher ==
  /\ epoch < MaxEpoch /\ syncs = {}
  /\ epoch' = epoch + 1
  /\ UNCHANGED <<catalog, published, syncs, store, clockHealthy>>

-----------------------------------------------------------------------------
(* The Store.                                                              *)

Later(e, n) == e > position.epoch \/ (e = position.epoch /\ n > position.sequence)

\* revisionsDoNotRegress, for every Function the Store has.
RevisionsDoNotRegress(snaps) ==
  \A f \in DOMAIN snaps \cap DOMAIN functions : snaps[f].revision >= functions[f].snapshot.revision

RetainedSuppressions(f, endpoints) ==
  IF f \in DOMAIN functions THEN functions[f].suppressed \cap endpoints ELSE {}

Received(f, snapshot) ==
  [snapshot |-> snapshot, suppressed |-> RetainedSuppressions(f, snapshot.endpoints), age |-> 0]

\* The flag is read only by a Store without a staleness window; it is kept where
\* it is read.
Connected(connected) == connected /\ maxStale = 0

\* elapsedLocked: a reading of the clock that is behind the one before it.
FailClosed ==
  /\ ~clockHealthy \/ ClockMayRegress
  /\ clockHealthy' = FALSE /\ needsFullSync' = TRUE
  /\ UNCHANGED <<functions, position, fullSynced, maxStale, watchConnected>>

\* Mutation: a batch that is not later than the position is taken as well.
FullNotOlder(e, n) == e >= position.epoch

FullIsLater(e, n) == Later(e, n)

\* Mutation: the batch does not end the need for a batch.
ApplyFullStillNeeding(e, n, snaps) ==
  /\ FullIsLater(e, n) /\ RevisionsDoNotRegress(snaps)
  /\ clockHealthy
  /\ functions' = [f \in DOMAIN snaps |-> Received(f, snaps[f])]
  /\ position' = [epoch |-> e, sequence |-> n]
  /\ fullSynced' = TRUE /\ watchConnected' = Connected(TRUE)
  /\ UNCHANGED <<needsFullSync, maxStale, clockHealthy>>

ApplyFull(e, n, snaps) ==
  /\ FullIsLater(e, n) /\ RevisionsDoNotRegress(snaps)
  /\ \/ FailClosed
     \/ /\ clockHealthy
        /\ functions' = [f \in DOMAIN snaps |-> Received(f, snaps[f])]
        /\ position' = [epoch |-> e, sequence |-> n]
        /\ fullSynced' = TRUE /\ needsFullSync' = FALSE
        /\ watchConnected' = Connected(TRUE)
        /\ UNCHANGED <<maxStale, clockHealthy>>

\* Mutation: an event beyond a gap is applied like the next one.
NextInOrderOrGap(e, n) == e = position.epoch /\ n > position.sequence

NextInOrder(e, n) == e = position.epoch /\ n = position.sequence + 1

\* A later event that is not the next one: a higher epoch, or a gap.
ApplyGap(e, n) ==
  /\ fullSynced /\ ~needsFullSync
  /\ Later(e, n) /\ ~NextInOrder(e, n)
  /\ needsFullSync' = TRUE
  /\ UNCHANGED <<functions, position, fullSynced, maxStale, watchConnected, clockHealthy>>

ApplyNext(e, n, f, snapshot) ==
  /\ fullSynced /\ ~needsFullSync
  /\ NextInOrder(e, n)
  /\ RevisionsDoNotRegress([g \in {f} |-> snapshot])
  /\ f \in DOMAIN functions \/ Cardinality(DOMAIN functions) < MaxFunctions
  /\ \/ FailClosed
     \/ /\ clockHealthy
        /\ functions' = [g \in DOMAIN functions \cup {f} |->
                           IF g = f THEN Received(f, snapshot) ELSE functions[g]]
        /\ position' = [epoch |-> e, sequence |-> n]
        /\ watchConnected' = Connected(TRUE)
        /\ UNCHANGED <<fullSynced, needsFullSync, maxStale, clockHealthy>>

\* normalizeEvent, and the clock that has already failed.
Readable(event) == Cardinality(DOMAIN event.snapshots) <= MaxFunctions /\ clockHealthy

\* Store.Apply of event n of epoch e, when it changes the Store.
Apply(e, n) ==
  LET event == published[e][n] IN
    /\ Readable(event)
    /\ \/ event.full /\ ApplyFull(e, n, event.snapshots)
       \/ ~event.full /\ ApplyGap(e, n)
       \/ ~event.full /\ \E f \in DOMAIN event.snapshots : ApplyNext(e, n, f, event.snapshots[f])

\* An event of the Watch arrives.
Watch(e, n) == Apply(e, n) /\ UNCHANGED <<source, syncs>>

Synced == fullSynced /\ ~needsFullSync

\* usableLocked: the snapshot was received less than maxStale ago or, without a
\* window, the Watch is connected.
Usable(f) == IF maxStale = 0 THEN watchConnected ELSE functions[f].age < maxStale

\* What Lookup may answer with a view.
Serves(f) == clockHealthy /\ Synced /\ f \in DOMAIN functions /\ Usable(f)

VisibleEndpoints(f) == functions[f].snapshot.endpoints \ functions[f].suppressed

\* Lookup and LookupAll change nothing but what the Store thinks of the clock.
Lookup == FailClosed /\ UNCHANGED <<source, syncs>>

SuppressEndpoint(f, a) ==
  /\ f \in DOMAIN functions /\ a \in functions[f].snapshot.endpoints
  /\ functions' = [functions EXCEPT ![f].suppressed = @ \cup {a}]
  /\ UNCHANGED <<source, syncs, position, fullSynced, needsFullSync, maxStale, watchConnected,
                 clockHealthy>>

\* The transport of the Watch is lost, or is back.
SetWatchConnected(connected) ==
  /\ watchConnected' = Connected(connected) /\ watchConnected' # watchConnected
  /\ UNCHANGED <<source, syncs, functions, position, fullSynced, needsFullSync, maxStale,
                 clockHealthy>>

\* Time since receivedAt; past the window it no longer matters how much.
Tick ==
  /\ \E f \in DOMAIN functions : functions[f].age < maxStale
  /\ functions' = [f \in DOMAIN functions |-> [functions[f] EXCEPT !.age = Min({@ + 1, maxStale})]]
  /\ UNCHANGED <<source, syncs, position, fullSynced, needsFullSync, maxStale, watchConnected,
                 clockHealthy>>

-----------------------------------------------------------------------------
(* The Publisher and the FullSync that drives it.                          *)

Publish(full, snaps) ==
  published' = [published EXCEPT ![epoch] = Append(@, [full |-> full, snapshots |-> snaps])]

\* Mutation: FullSync reads before it has the lock.
MaySyncAnyTime == \A x \in syncs : x.at # "built"

\* Synchronizer.mu is free.
MaySync == syncs = {}

\* FullSync: Lock, ListServingStates and the candidates of every Function.
ReadStates ==
  /\ MaySync
  /\ syncs' = syncs \cup {[at |-> "read", draft |-> catalog]}
  /\ UNCHANGED <<source, store, clockHealthy>>

\* A listing or a Build fails, or the context ends: no sequence is used up.
SyncFails(x) ==
  /\ x.at = "read"
  /\ syncs' = syncs \ {x}
  /\ UNCHANGED <<source, store, clockHealthy>>

BuildFull(x) ==
  /\ x.at = "read" /\ Events < MaxEvents
  /\ Publish(TRUE, x.draft)
  /\ syncs' = (syncs \ {x}) \cup {[at |-> "built", draft |-> NoDraft]}
  /\ UNCHANGED <<catalog, epoch, store, clockHealthy>>

\* The batch just built is applied, or refused, and FullSync returns.
ApplyOwn(x) ==
  /\ x.at = "built"
  /\ LET n == Sequence(epoch) IN
       \/ Apply(epoch, n)
       \/ /\ ~(Readable(published[epoch][n]) /\ FullIsLater(epoch, n)
                 /\ RevisionsDoNotRegress(published[epoch][n].snapshots))
          /\ UNCHANGED <<store, clockHealthy>>
  /\ syncs' = syncs \ {x}
  /\ UNCHANGED source

\* Publisher.Build of one Function.  Build itself only takes the Publisher's lock;
\* it has no caller in the program yet.  A caller has to read the Function and
\* have it numbered while no FullSync is between its reading and its numbering,
\* and that is assumed of it here.
Build(f) ==
  /\ MaySync /\ MayChange /\ f \in DOMAIN catalog
  /\ Publish(FALSE, [g \in {f} |-> catalog[f]])
  /\ UNCHANGED <<catalog, epoch, syncs, store, clockHealthy>>

-----------------------------------------------------------------------------
Next ==
  \/ NewPublisher \/ Lookup \/ Tick
  \/ \E connected \in BOOLEAN : SetWatchConnected(connected)
  \/ \E f \in FunctionIDs : Change(f) \/ Build(f)
  \/ \E f \in FunctionIDs : \E a \in AssignmentsOf[f] : SuppressEndpoint(f, a)
  \/ ReadStates \/ \E x \in syncs : SyncFails(x) \/ BuildFull(x) \/ ApplyOwn(x)
  \/ \E e \in 1..MaxEpoch : \E n \in 1..Sequence(e) : Watch(e, n)

Spec == Init /\ [][Next]_vars

\* The convergence loop calls FullSync on every interval; reading and building
\* do not fail for ever.  Time passes.
FairSpec ==
  /\ Spec
  /\ WF_vars(Tick)
  /\ WF_vars(ReadStates)
  /\ SF_vars(\E x \in syncs : BuildFull(x)) /\ WF_vars(\E x \in syncs : ApplyOwn(x))

-----------------------------------------------------------------------------
(* Properties.                                                             *)

\* Every variable keeps its type, and the Store (Store.Apply) suppresses only
\* Endpoints its snapshots name.
TypeOK ==
  /\ DOMAIN catalog \subseteq FunctionIDs /\ \A f \in DOMAIN catalog : catalog[f] \in Snapshot(f)
  /\ epoch \in 1..MaxEpoch /\ Events <= MaxEvents
  /\ \A x \in syncs : x.at \in {"read", "built"}
  /\ \A f \in DOMAIN functions :
       /\ f \in FunctionIDs /\ functions[f].snapshot \in Snapshot(f)
       /\ functions[f].suppressed \subseteq functions[f].snapshot.endpoints
       /\ functions[f].age \in 0..maxStale
  /\ fullSynced \in BOOLEAN /\ needsFullSync \in BOOLEAN
  /\ maxStale \in MaxStales /\ watchConnected \in BOOLEAN /\ clockHealthy \in BOOLEAN

\* The batch that a Gateway at position (e, n) builds on, and the events of it
\* that speak of Function f.
LastFull(e, n) == Max({k \in 1..n : published[e][k].full})
Mentions(e, n, f) == {k \in LastFull(e, n)..n : f \in DOMAIN published[e][k].snapshots}

\* Whatever was lost, repeated or reordered on the way, the Store holds exactly
\* what the Publisher said up to the Store's position: every Function of the
\* last complete batch or of a later event, each in its latest version, and
\* nothing else.
HoldsPublishedPrefix ==
  fullSynced =>
    LET e == position.epoch n == position.sequence IN
      /\ DOMAIN functions = {f \in FunctionIDs : Mentions(e, n, f) # {}}
      /\ \A f \in DOMAIN functions :
           functions[f].snapshot = published[e][Max(Mentions(e, n, f))].snapshots[f]

\* The numbering agrees with the revisions: a complete batch that is later than
\* the Store's position is never refused for taking a revision back, so a
\* Gateway can always be brought up to date.  FullSync reads and numbers under
\* one lock for this.
LaterBatchFits ==
  \A e \in 1..MaxEpoch : \A n \in 1..Sequence(e) :
    published[e][n].full /\ Later(e, n) => RevisionsDoNotRegress(published[e][n].snapshots)

\* Once the clock has been seen to regress the Store serves nothing any more,
\* whatever is published, delivered or reconnected later.
FailsClosed ==
  ~clockHealthy => needsFullSync /\ \A f \in FunctionIDs : ~Serves(f)

\* What every call of the Store and the Publisher may rely on.
DiscoveryInvariant == TypeOK /\ LaterBatchFits /\ FailsClosed

\* A Gateway never goes back: not to an earlier position, and at any position
\* not to an earlier revision of a Function; and an Endpoint that the Gateway
\* found unhealthy stays out of every view until the control plane itself takes
\* it out or replaces its fence.
NeverBack ==
  [][/\ position' = position \/ position'.epoch > position.epoch
           \/ (position'.epoch = position.epoch /\ position'.sequence > position.sequence)
     /\ \A f \in DOMAIN functions \cap DOMAIN functions' :
          /\ functions'[f].snapshot.revision >= functions[f].snapshot.revision
          /\ \A a \in functions[f].suppressed \cap functions'[f].snapshot.endpoints :
               a \notin VisibleEndpoints(f)']_vars

\* A Store with a staleness window that is told nothing new stops serving, for
\* good, whatever is repeated to it, suppressed or reconnected meanwhile: only a
\* later event makes a snapshot fresh (receivedAt, usableLocked).
GoesStale ==
  maxStale > 0 /\ <>[][FALSE]_position => <>[](\A f \in FunctionIDs : ~Serves(f))

\* Once the serving state no longer changes and FullSync goes on, the Gateway
\* ends up with exactly that state, unless it has failed closed for its clock;
\* and once FullSync has nothing more to say the Gateway goes stale.
CatchesUp ==
  /\ []clockHealthy =>
       <>[](/\ Synced /\ DOMAIN functions = DOMAIN catalog
            /\ \A f \in DOMAIN catalog : functions[f].snapshot = catalog[f])
  /\ GoesStale

=============================================================================
