---------------------------- MODULE WorkerCache ------------------------------
(***************************************************************************)
(* internal/workercache: the bounded cache of compiled Programs.  Acquire  *)
(* pins a cached Program, joins the load under way for its key, or starts  *)
(* one; the load makes room by evicting unpinned Programs from the back of *)
(* the LRU list; Close waits for everyone inside and releases what is left.*)
(*                                                                         *)
(* A load stands for the flight, the Program it compiles and the cache     *)
(* entry it leaves behind: they are created together and an entry is found *)
(* through the flight while anyone still waits.  Sections under Cache.mu   *)
(* are one step each.  What the artifact store and the compiler do is an   *)
(* outcome of the load.                                                    *)
(***************************************************************************)
EXTENDS Naturals, Sequences, FiniteSets

CONSTANTS
  Keys, WeightOf,                       \* compilation keys and their artifact sizes
  MaxWeightBytes, MaxEntries,           \* Config
  MaxConcurrentLoads, MaxQueuedLoads,   \* Config, the capacities of the load gate
  Callers,                              \* goroutines that Acquire, use and Release
  Closes,                               \* calls of Cache.Close
  MaxLoads                              \* bound: loads started in one behaviour

ASSUME CacheAssumption ==
  /\ MaxWeightBytes \in Nat \ {0} /\ MaxEntries \in Nat \ {0}
  /\ MaxConcurrentLoads \in Nat \ {0} /\ MaxQueuedLoads \in Nat \ {0}
  /\ MaxLoads \in Nat
  /\ WeightOf \in [Keys -> 1..MaxWeightBytes]
  /\ IsFiniteSet(Callers)

VARIABLES loads, lru, currentWeight, active, closing, releasing, released, caller, closer
(* loads    - every load so far, in the order they started                 *)
(* lru      - the cached loads, each with its place in the list, 1 in front *)
(* active   - Acquires, leases and load goroutines inside the cache        *)

cacheVars == <<loads, lru, currentWeight, active, closing, releasing, released, caller, closer>>

Loads == 1..Len(loads)

\* Who is to close the Program of a load: nobody yet, the cache, the load
\* goroutine or Close call that has taken it out, the next Close; or nobody
\* any more.
Owner == {<<"none", 0>>, <<"cache", 0>>, <<"pending", 0>>, <<"closed", 0>>}
           \cup ({"load"} \X (1..MaxLoads)) \cup ({"close"} \X Closes)

Load == [key : Keys, stage : {"queued", "loading", "evicting", "gone"}, waiters : Nat,
         refs : Nat, cancelled : BOOLEAN, entry : BOOLEAN, program : Owner]

Finished(f) == loads[f].stage \in {"evicting", "gone"}

Flights == {f \in Loads : ~Finished(f)}

Cached == DOMAIN lru

\* The bytes the loads fs weigh together.
Weight(fs) ==
  Cardinality({b \in fs \X (1..MaxWeightBytes) : b[2] <= WeightOf[loads[b[1]].key]})

\* The list of the loads fs in the order they have, with f in front of them.
InFront(f, fs) ==
  [e \in fs \cup {f} |->
     IF e = f THEN 1 ELSE 1 + Cardinality({g \in fs \ {f} : lru[g] <= lru[e]})]

\* The loads ls with the Programs that "from" owns handed on: the ones that
\* fail to close become pending, the others are closed.
Closed(ls, from, failed) ==
  [f \in DOMAIN ls |-> IF ls[f].program # from THEN ls[f]
                       ELSE [ls[f] EXCEPT !.program = IF f \in failed THEN <<"pending", 0>>
                                                       ELSE <<"closed", 0>>]]

OwnedBy(o) == {f \in Loads : loads[f].program = o}

\* cancelFlightsLocked.
CancelFlights(ls) ==
  [f \in DOMAIN ls |-> IF f \in Flights THEN [ls[f] EXCEPT !.cancelled = TRUE] ELSE ls[f]]

\* The key of a caller that is not looking one up.
NoKey == "none"

CacheInit ==
  /\ loads = <<>> /\ lru = <<>> /\ currentWeight = 0 /\ active = 0
  /\ closing = FALSE /\ releasing = FALSE /\ released = FALSE
  /\ caller = [a \in Callers |-> [pc |-> "idle", key |-> NoKey, load |-> 0]]
  /\ closer = [k \in Closes |-> "idle"]

-----------------------------------------------------------------------------
(* Acquire and Release.                                                    *)

Woken(from, to) == [k \in Closes |-> IF closer[k] = from THEN to ELSE closer[k]]

\* endLocked: the last one out closes the drained channel.
End ==
  /\ active' = active - 1
  /\ closer' = IF active = 1 THEN Woken("awaitDrain", "drained") ELSE closer

CallerTo(a, pc, f) == caller' = [caller EXCEPT ![a] = [pc |-> pc, key |-> NoKey, load |-> f]]

\* A load holds its slot until its goroutine is gone.
Gate(stage) == {f \in Loads : loads[f].stage \in stage}

LoadSlotFree == Cardinality(Gate({"loading", "evicting"})) < MaxConcurrentLoads

\* reserve fails when neither a slot nor a place in the queue is free.
Reservable == LoadSlotFree \/ Cardinality(Gate({"queued"})) < MaxQueuedLoads

Absent(k) == \A f \in Cached \cup Flights : loads[f].key # k

\* Bound: after MaxLoads loads an Acquire begins only to find the queue full.
WithinBound(k) ==
  \/ Len(loads) + Cardinality({b \in Callers : caller[b].pc = "begun"}) < MaxLoads
  \/ ~Reservable /\ Absent(k)

\* begin, before the key is looked up.
BeginAcquire(a, k) ==
  /\ caller[a].pc = "idle" /\ ~closing
  /\ WithinBound(k)
  /\ active' = active + 1
  /\ caller' = [caller EXCEPT ![a] = [pc |-> "begun", key |-> k, load |-> 0]]
  /\ UNCHANGED <<loads, lru, currentWeight, closing, releasing, released, closer>>

AcquireRefused(a) ==
  /\ caller[a].pc = "begun" /\ closing
  /\ CallerTo(a, "ending", 0)
  /\ UNCHANGED <<loads, lru, currentWeight, active, closing, releasing, released, closer>>

Hit(a) ==
  \E f \in Cached :
    /\ caller[a].pc = "begun" /\ ~closing
    /\ loads[f].key = caller[a].key
    /\ loads' = [loads EXCEPT ![f].refs = @ + 1]
    /\ lru' = InFront(f, Cached)
    /\ CallerTo(a, "leased", f)
    /\ UNCHANGED <<currentWeight, active, closing, releasing, released, closer>>

Join(a) ==
  \E f \in Flights :
    /\ caller[a].pc = "begun" /\ ~closing
    /\ loads[f].key = caller[a].key
    /\ loads' = [loads EXCEPT ![f].waiters = @ + 1]
    /\ CallerTo(a, "await", f)
    /\ UNCHANGED <<lru, currentWeight, active, closing, releasing, released, closer>>

MayLoad(a) ==
  /\ caller[a].pc = "begun" /\ ~closing /\ Absent(caller[a].key)
  /\ Reservable

StartLoad(a) ==
  /\ MayLoad(a) /\ Len(loads) < MaxLoads
  /\ loads' = Append(loads, [key |-> caller[a].key, waiters |-> 1, refs |-> 0,
                             stage |-> IF LoadSlotFree THEN "loading" ELSE "queued",
                             cancelled |-> FALSE, entry |-> FALSE, program |-> <<"none", 0>>])
  /\ active' = active + 1
  /\ CallerTo(a, "await", Len(loads) + 1)
  /\ UNCHANGED <<lru, currentWeight, closing, releasing, released, closer>>

LoadQueueFull(a) ==
  /\ caller[a].pc = "begun" /\ ~closing /\ Absent(caller[a].key)
  /\ ~Reservable
  /\ CallerTo(a, "ending", 0)
  /\ UNCHANGED <<loads, lru, currentWeight, active, closing, releasing, released, closer>>

\* awaitFlight, once done is closed.
Collect(a) ==
  /\ caller[a].pc = "await" /\ Finished(caller[a].load)
  /\ CallerTo(a, IF loads[caller[a].load].entry THEN "leased" ELSE "ending", caller[a].load)
  /\ UNCHANGED <<loads, lru, currentWeight, active, closing, releasing, released, closer>>

\* abandonFlight: the caller's context ended, before or after the load did.
Abandon(a) ==
  LET f == caller[a].load
      l == loads[f]
  IN  /\ caller[a].pc = "await"
      /\ loads' = IF l.waiters = 0 THEN loads
                  ELSE [loads EXCEPT ![f] =
                         [l EXCEPT !.waiters = @ - 1,
                                   !.refs = IF Finished(f) /\ l.entry THEN @ - 1 ELSE @,
                                   !.cancelled = @ \/ (~Finished(f) /\ l.waiters = 1)]]
      /\ CallerTo(a, "ending", 0)
      /\ UNCHANGED <<lru, currentWeight, active, closing, releasing, released, closer>>

EndAcquire(a) ==
  /\ caller[a].pc = "ending"
  /\ End
  /\ CallerTo(a, "idle", 0)
  /\ UNCHANGED <<loads, lru, currentWeight, closing, releasing, released>>

\* Lease.Release.
Release(a) ==
  /\ caller[a].pc = "leased"
  /\ loads' = [loads EXCEPT ![caller[a].load].refs = @ - 1]
  /\ End
  /\ CallerTo(a, "idle", 0)
  /\ UNCHANGED <<lru, currentWeight, closing, releasing, released>>

-----------------------------------------------------------------------------
(* Loads.                                                                  *)

LoadGetsSlot(f) ==
  /\ loads[f].stage = "queued" /\ LoadSlotFree
  /\ loads' = [loads EXCEPT ![f].stage = "loading"]
  /\ UNCHANGED <<lru, currentWeight, active, closing, releasing, released, caller, closer>>

\* Mutation: pinned entries are evicted like any other.
Unpinned == Cached

\* The candidates of selectVictimsLocked.
Evictable == {f \in Cached : loads[f].refs = 0}

\* The loop over the list from the back has come past just these candidates.
FromTheBack(fs) == \A f \in fs, e \in Evictable \ fs : lru[f] > lru[e]

\* There is room for "weight" once fs are gone.
HasRoom(fs, weight) ==
  /\ currentWeight + weight <= MaxWeightBytes + Weight(fs)
  /\ Cardinality(Cached \ fs) + 1 <= MaxEntries

\* selectVictimsLocked takes no more candidates than it must; ErrFull is the
\* empty set of choices.
Victims(weight) ==
  {fs \in SUBSET Evictable :
     /\ FromTheBack(fs) /\ HasRoom(fs, weight)
     /\ \A gs \in SUBSET fs : gs # fs /\ FromTheBack(gs) => ~HasRoom(gs, weight)}

\* completeFlight, up to Unlock: nothing is cached, and a compiled Program is
\* left to be closed by the load goroutine.
CompleteUncached(f, compiled) ==
  /\ loads[f].stage = "loading" \/ (loads[f].stage = "queued" /\ loads[f].cancelled /\ ~compiled)
  /\ \/ closing \/ ~compiled \/ loads[f].waiters = 0
     \/ Victims(WeightOf[loads[f].key]) = {}
  /\ loads' = [loads EXCEPT ![f] =
       [loads[f] EXCEPT !.stage = IF @ = "queued" THEN "gone" ELSE "evicting", !.cancelled = TRUE,
                        !.program = IF compiled THEN <<"load", f>> ELSE @]]
  /\ IF loads[f].stage = "queued" THEN End ELSE UNCHANGED <<active, closer>>
  /\ UNCHANGED <<lru, currentWeight, closing, releasing, released, caller>>

\* completeFlight, up to Unlock: room is made and the Program cached, pinned
\* once for every waiter.
CompleteCached(f) ==
  \E victims \in Victims(WeightOf[loads[f].key]) :
    /\ loads[f].stage = "loading" /\ ~closing /\ loads[f].waiters > 0
    /\ loads' = [e \in Loads |->
         IF e = f THEN [loads[f] EXCEPT !.stage = "evicting", !.cancelled = TRUE, !.entry = TRUE,
                                        !.refs = loads[f].waiters, !.program = <<"cache", 0>>]
         ELSE IF e \in victims THEN [loads[e] EXCEPT !.program = <<"load", f>>]
         ELSE loads[e]]
    /\ lru' = InFront(f, Cached \ victims)
    /\ currentWeight' = currentWeight - Weight(victims) + WeightOf[loads[f].key]
    /\ UNCHANGED <<active, closing, releasing, released, caller, closer>>

\* closeEvicted and the deferred releases of runFlight: one failed close closes
\* the whole cache.
CloseEvicted(f) ==
  \E failed \in SUBSET OwnedBy(<<"load", f>>) :
    /\ loads[f].stage = "evicting"
    /\ loads' = [Closed(IF failed # {} THEN CancelFlights(loads) ELSE loads,
                        <<"load", f>>, failed) EXCEPT ![f].stage = "gone"]
    /\ closing' = (closing \/ failed # {})
    /\ End
    /\ UNCHANGED <<lru, currentWeight, releasing, released, caller>>

-----------------------------------------------------------------------------
(* Close.                                                                  *)

Look(k) ==
  /\ closer[k] \in {"idle", "look"}
  /\ closing' = (closing \/ ~released)
  /\ loads' = IF closing \/ released THEN loads ELSE CancelFlights(loads)
  /\ closer' = [closer EXCEPT ![k] =
       IF released THEN "done" ELSE IF releasing THEN "awaitRelease"
       ELSE IF active > 0 THEN "awaitDrain" ELSE "drained"]
  /\ UNCHANGED <<lru, currentWeight, active, releasing, released, caller>>

\* Mutation: what earlier closes failed on is forgotten.
DetachCachedOnly(k) ==
  /\ closer[k] = "drained"
  /\ IF releasing THEN closer' = [closer EXCEPT ![k] = "look"] /\ UNCHANGED <<loads, lru, currentWeight, releasing>>
     ELSE /\ loads' = [f \in Loads |-> IF loads[f].program = <<"cache", 0>>
                         THEN [loads[f] EXCEPT !.program = <<"close", k>>] ELSE loads[f]]
          /\ lru' = <<>> /\ currentWeight' = 0
          /\ releasing' = TRUE
          /\ closer' = [closer EXCEPT ![k] = "releasing"]
  /\ UNCHANGED <<active, closing, released, caller>>

\* detachProgramsLocked and closePending, under the second lock of the loop.
Detach(k) ==
  /\ closer[k] = "drained"
  /\ IF releasing THEN closer' = [closer EXCEPT ![k] = "look"] /\ UNCHANGED <<loads, lru, currentWeight, releasing>>
     ELSE /\ loads' = [f \in Loads |->
               IF loads[f].program \in {<<"cache", 0>>, <<"pending", 0>>}
                 THEN [loads[f] EXCEPT !.program = <<"close", k>>] ELSE loads[f]]
          /\ lru' = <<>> /\ currentWeight' = 0
          /\ releasing' = TRUE
          /\ closer' = [closer EXCEPT ![k] = "releasing"]
  /\ UNCHANGED <<active, closing, released, caller>>

\* Mutation: waiting closers are not told of a failure.
ReleaseEndsQuietly(k) ==
  \E failed \in SUBSET OwnedBy(<<"close", k>>) :
    /\ closer[k] = "releasing"
    /\ loads' = Closed(loads, <<"close", k>>, failed)
    /\ releasing' = FALSE
    /\ released' = (released \/ failed = {})
    /\ closer' = [IF failed = {} THEN Woken("awaitRelease", "look") ELSE closer
                    EXCEPT ![k] = "done"]
    /\ UNCHANGED <<lru, currentWeight, active, closing, caller>>

\* closePrograms has returned; what failed is kept for the next Close.
ReleaseEnds(k) ==
  \E failed \in SUBSET OwnedBy(<<"close", k>>) :
    /\ closer[k] = "releasing"
    /\ loads' = Closed(loads, <<"close", k>>, failed)
    /\ releasing' = FALSE
    /\ released' = (released \/ failed = {})
    /\ closer' = [Woken("awaitRelease", "look") EXCEPT ![k] = "done"]
    /\ UNCHANGED <<lru, currentWeight, active, closing, caller>>

GiveUp(k) ==
  /\ closer[k] \in {"awaitRelease", "awaitDrain"}
  /\ closer' = [closer EXCEPT ![k] = "done"]
  /\ UNCHANGED <<loads, lru, currentWeight, active, closing, releasing, released, caller>>

-----------------------------------------------------------------------------
CallerNext(a) ==
  \/ \E k \in Keys : BeginAcquire(a, k)
  \/ AcquireRefused(a) \/ Hit(a) \/ Join(a) \/ StartLoad(a) \/ LoadQueueFull(a)
  \/ Collect(a) \/ Abandon(a) \/ EndAcquire(a) \/ Release(a)

Complete(f) == CompleteCached(f) \/ \E compiled \in BOOLEAN : CompleteUncached(f, compiled)

LoadNext(f) == LoadGetsSlot(f) \/ Complete(f) \/ CloseEvicted(f)

CloseNext(k) == Look(k) \/ Detach(k) \/ ReleaseEnds(k) \/ GiveUp(k)

CacheNext ==
  \/ \E a \in Callers : CallerNext(a)
  \/ \E f \in Loads : LoadNext(f)
  \/ \E k \in Closes : CloseNext(k)

CacheSpec == CacheInit /\ [][CacheNext]_cacheVars

\* Loads end and so do the steps a caller or a closer takes on its own; leases
\* are released.  Nobody has to call Acquire or Close or to give up.
CacheFairness ==
  /\ \A f \in 1..MaxLoads :
       /\ WF_cacheVars(f \in Loads /\ (LoadGetsSlot(f) \/ Complete(f)))
       /\ WF_cacheVars(f \in Loads /\ CloseEvicted(f))
  /\ \A a \in Callers :
       /\ WF_cacheVars(AcquireRefused(a) \/ Hit(a) \/ Join(a) \/ StartLoad(a) \/ LoadQueueFull(a))
       /\ WF_cacheVars(Collect(a)) /\ WF_cacheVars(EndAcquire(a)) /\ WF_cacheVars(Release(a))
  /\ \A k \in Closes :
       WF_cacheVars(closer[k] # "idle" /\ (Look(k) \/ Detach(k) \/ ReleaseEnds(k)))

FairCacheSpec == CacheSpec /\ CacheFairness

-----------------------------------------------------------------------------
(* Properties.                                                             *)

\* Counts stay natural numbers and every variable keeps its type.
CacheTypeOK ==
  /\ loads \in Seq(Load) /\ Len(loads) <= MaxLoads
  /\ Cached \subseteq Loads /\ \A f \in Cached : lru[f] \in Nat
  /\ active \in Nat
  /\ closing \in BOOLEAN /\ releasing \in BOOLEAN /\ released \in BOOLEAN
  /\ caller \in [Callers -> [pc : {"idle", "begun", "await", "leased", "ending"},
                             key : Keys \cup {NoKey}, load : 0..MaxLoads]]
  /\ closer \in [Closes -> {"idle", "look", "awaitRelease", "awaitDrain", "drained",
                            "releasing", "done"}]

Users(f) == {a \in Callers : caller[a].pc \in {"await", "leased"} /\ caller[a].load = f}

\* The pins of a cached Program are exactly its leases and the waiters that have
\* not collected theirs yet, and active counts everyone inside, whatever races
\* between a load that finishes and waiters that give up.
Accounted ==
  /\ \A f \in Loads : loads[f].entry => loads[f].refs = Cardinality(Users(f))
  /\ \A f \in Flights : loads[f].waiters = Cardinality(Users(f))
  /\ active = Cardinality({a \in Callers : caller[a].pc # "idle"})
                + Cardinality({f \in Loads : loads[f].stage # "gone"})

\* The Program of a lease is in the cache, open, and stays there: neither
\* eviction nor Close takes it away before Release.
LeasePinsProgram ==
  \A a \in Callers : caller[a].pc = "leased" =>
    caller[a].load \in Cached /\ loads[caller[a].load].program = <<"cache", 0>>

\* The cache never holds more entries or bytes than configured, its running total
\* is what the entries weigh, and each of them has a place of its own in the list.
WithinCapacity ==
  /\ currentWeight = Weight(Cached) /\ currentWeight <= MaxWeightBytes
  /\ Cardinality(Cached) <= MaxEntries
  /\ \A f, g \in Cached : lru[f] = lru[g] => f = g

\* A key is compiled by one load at a time and not at all while it is cached.
SingleFlight ==
  \A f, g \in Cached \cup Flights : loads[f].key = loads[g].key => f = g

\* What every locked section of the Cache may rely on: types, counts, pins,
\* capacity and single flight.
CacheInvariant ==
  CacheTypeOK /\ Accounted /\ LeasePinsProgram /\ WithinCapacity /\ SingleFlight

\* No compiled Program is lost: once the cache has been released every Program
\* it ever compiled has been closed, and before that a Program that failed to
\* close is kept and has put the cache into closing.
NothingLeaked ==
  /\ released => \A f \in Loads : loads[f].program \in {<<"none", 0>>, <<"closed", 0>>}
  /\ OwnedBy(<<"pending", 0>>) # {} => closing
  /\ releasing \/ released => active = 0

\* An Acquire gets an answer, a lease or an error, whatever the queue of loads
\* looks like, unless it would start more loads than the bound allows; and a
\* Close that has begun returns.
CallsReturn ==
  /\ \A a \in Callers :
       (caller[a].pc = "begun") ~>
         (caller[a].pc \in {"leased", "idle"} \/ (MayLoad(a) /\ Len(loads) = MaxLoads))
  /\ \A k \in Closes : (closer[k] # "idle") ~> (closer[k] = "done")

=============================================================================
