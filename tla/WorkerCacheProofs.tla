------------------------- MODULE WorkerCacheProofs ---------------------------
(*************************************************************************)
(* TLAPS proofs about the cache of compiled Programs: for any callers,   *)
(* keys and capacities, and whatever the order of loads, cancellations,  *)
(* releases and Close, its counts, its capacity and its pins are sound,  *)
(* and no Program is lost or closed in use.                              *)
(*************************************************************************)
EXTENDS WorkerCache, FiniteSetTheorems, TLAPS

USE CacheAssumption

\* The callers that wait for a load.
Awaiting(f) == {a \in Callers : caller[a].pc = "await" /\ caller[a].load = f}

\* Who owns the Program of a load, at each stage of the load.
LoadSound(f) ==
  /\ f \in Cached <=> loads[f].program = <<"cache", 0>>
  /\ f \in Cached => loads[f].entry
  /\ loads[f].entry => Finished(f)
  /\ ~Finished(f) => loads[f].program = <<"none", 0>>
  /\ loads[f].program = <<"pending", 0>> => closing
  /\ \A g \in 1..MaxLoads : loads[f].program = <<"load", g>> => g \in Loads /\ loads[g].stage = "evicting"
  /\ \A k \in Closes : loads[f].program = <<"close", k>> => closer[k] = "releasing"

\* Every load is.
LoadsSound == \A f \in Loads : LoadSound(f)

\* What a caller inside the cache refers to.
CallerSound(a) ==
  /\ caller[a].pc = "begun" => caller[a].key \in Keys
  /\ caller[a].pc \in {"await", "leased"} =>
       /\ caller[a].load \in Loads
       /\ loads[caller[a].load].entry => caller[a].load \in Cached
  /\ caller[a].pc = "leased" => loads[caller[a].load].entry

\* Every caller is.
CallersSound == \A a \in Callers : CallerSound(a)

\* A load has no more callers awaiting it than it counts waiters.
WaitersCounted == \A f \in Loads : Cardinality(Awaiting(f)) <= loads[f].waiters

\* Close takes the Programs when nobody is left inside, one call at a time.
CloseSound ==
  /\ releasing => \E k \in Closes : closer[k] = "releasing"
  /\ \A k \in Closes : closer[k] = "releasing" => releasing
  /\ \A j, k \in Closes : closer[j] = "releasing" /\ closer[k] = "releasing" => j = k
  /\ released => \A f \in Loads : loads[f].program \in {<<"none", 0>>, <<"closed", 0>>}
  /\ releasing => \A f \in Loads : loads[f].program \notin {<<"cache", 0>>, <<"pending", 0>>}
  /\ releasing \/ released => closing /\ active = 0
  /\ \A k \in Closes : closer[k] \in {"awaitDrain", "drained"} => closing
  /\ \A k \in Closes : closer[k] = "drained" => active = 0

\* The inductive invariant.
CacheInv ==
  /\ CacheTypeOK /\ Accounted /\ WithinCapacity /\ SingleFlight
  /\ LoadsSound /\ CallersSound /\ WaitersCounted /\ CloseSound

-----------------------------------------------------------------------------
(* Loads as a sequence.                                                    *)

\* A function on an initial segment of the naturals is a sequence.
LEMMA SequenceOf ==
  ASSUME NEW S, NEW n \in Nat, NEW s \in [1..n -> S]
  PROVE  s \in Seq(S) /\ Len(s) = n
BY SMT

\* The fields of a load, as completeFlight and its callers find them.
LEMMA LoadIs ==
  ASSUME CacheTypeOK, NEW f \in Loads
  PROVE  /\ loads[f] \in Load /\ f \in 1..MaxLoads
         /\ loads[f].key \in Keys /\ loads[f].waiters \in Nat /\ loads[f].refs \in Nat
         /\ loads[f].stage \in {"queued", "loading", "evicting", "gone"}
         /\ loads[f].cancelled \in BOOLEAN /\ loads[f].entry \in BOOLEAN
         /\ loads[f].program \in Owner
<1>1. loads[f] \in Load /\ f \in 1..MaxLoads
  BY SMT DEF CacheTypeOK, Loads
<1> HIDE DEF CacheTypeOK, Loads, Owner
<1>2. QED
  BY <1>1, SMT DEF Load

\* The types of the variables other than the loads and the list.
OtherTypes ==
  /\ active \in Nat
  /\ closing \in BOOLEAN /\ releasing \in BOOLEAN /\ released \in BOOLEAN
  /\ caller \in [Callers -> [pc : {"idle", "begun", "await", "leased", "ending"},
                             key : Keys \cup {NoKey}, load : 0..MaxLoads]]
  /\ closer \in [Closes -> {"idle", "look", "awaitRelease", "awaitDrain", "drained",
                            "releasing", "done"}]

\* The types of the loads, and of the list of entries.
LoadTypes == loads \in Seq(Load) /\ Len(loads) <= MaxLoads

ListTypes == Cached \subseteq Loads /\ \A f \in Cached : lru[f] \in Nat

\* The type invariant by parts.
LEMMA TypesAre == CacheTypeOK <=> LoadTypes /\ ListTypes /\ OtherTypes
BY Zenon DEF CacheTypeOK, LoadTypes, ListTypes, OtherTypes

\* One load changes and the others do not.
LEMMA OneLoad ==
  ASSUME CacheTypeOK, NEW f \in Loads, NEW r \in Load, loads' = [loads EXCEPT ![f] = r]
  PROVE  /\ LoadTypes' /\ Len(loads') = Len(loads) /\ Loads' = Loads
         /\ loads'[f] = r /\ \A e \in Loads : e # f => loads'[e] = loads[e]
<1> HIDE DEF Load
<1>1. QED
  BY SMT DEF CacheTypeOK, LoadTypes, Loads

\* Every load changes by itself.
LEMMA EveryLoad ==
  ASSUME CacheTypeOK, NEW g \in [Loads -> Load], loads' = g
  PROVE  /\ LoadTypes' /\ Len(loads') = Len(loads) /\ Loads' = Loads
<1> HIDE DEF Load
<1>1. Len(loads) \in Nat /\ g \in [1..Len(loads) -> Load]
  BY SMT DEF CacheTypeOK, Loads
<1>2. g \in Seq(Load) /\ Len(g) = Len(loads)
  BY <1>1, SequenceOf, SMT
<1>3. QED
  BY <1>2, SMT DEF CacheTypeOK, LoadTypes, Loads

-----------------------------------------------------------------------------
(* Counting.                                                               *)

\* The callers inside the cache, and the loads that have not ended: the two
\* things that active counts.
Inside == {a \in Callers : caller[a].pc # "idle"}

Live == {f \in Loads : loads[f].stage # "gone"}

\* The sets that are counted are finite.
LEMMA CountedFinite ==
  ASSUME CacheTypeOK
  PROVE  /\ IsFiniteSet(Inside) /\ Cardinality(Inside) \in Nat
         /\ IsFiniteSet(Live) /\ Cardinality(Live) \in Nat
         /\ \A f : IsFiniteSet(Users(f)) /\ Cardinality(Users(f)) \in Nat
         /\ \A f : IsFiniteSet(Awaiting(f)) /\ Cardinality(Awaiting(f)) \in Nat
         /\ IsFiniteSet(Loads) /\ IsFiniteSet(Cached) /\ Cardinality(Cached) \in Nat
<1>1. Inside \in SUBSET Callers /\ \A f : Users(f) \in SUBSET Callers /\ Awaiting(f) \in SUBSET Callers
  BY Zenon DEF Inside, Users, Awaiting
<1>2. Len(loads) \in Nat /\ Loads = 1..Len(loads) /\ Live \in SUBSET Loads /\ Cached \in SUBSET Loads
  BY SMT DEF CacheTypeOK, Loads, Live
<1>3. IsFiniteSet(Loads)
  BY <1>2, FS_Interval, SMT
<1>4. IsFiniteSet(Callers)
  BY SMT
<1>5. \A S : IsFiniteSet(S) => Cardinality(S) \in Nat
  BY FS_CardinalityType, Zenon
<1>6. \A S, T : IsFiniteSet(S) /\ T \in SUBSET S => IsFiniteSet(T)
  BY FS_Subset, Zenon
<1>7. QED
  BY <1>1, <1>2, <1>3, <1>4, <1>5, <1>6, ZenonT(40)

\* How much an element adds to the size of a set.
Occurs(x, S) == IF x \in S THEN 1 ELSE 0

\* Two finite sets that differ in one element at most differ in size by it.
LEMMA OneElement ==
  ASSUME NEW S, NEW T, NEW x, IsFiniteSet(S), S \ {x} = T \ {x}
  PROVE  /\ IsFiniteSet(T) /\ Cardinality(S) \in Nat /\ Cardinality(T) \in Nat
         /\ Cardinality(T) = Cardinality(S) - Occurs(x, S) + Occurs(x, T)
<1>1. Cardinality(S) \in Nat
  BY FS_CardinalityType, Zenon
<1>2. IsFiniteSet(S \ {x}) /\ Cardinality(S \ {x}) = IF x \in S THEN Cardinality(S) - 1 ELSE Cardinality(S)
  BY FS_RemoveElement, Zenon
<1>3. Cardinality(S \ {x}) \in Nat
  BY <1>2, FS_CardinalityType, Zenon
<1>4. T = IF x \in T THEN (S \ {x}) \cup {x} ELSE S \ {x}
  BY Zenon
<1>5. IsFiniteSet((S \ {x}) \cup {x}) /\ Cardinality((S \ {x}) \cup {x}) = Cardinality(S \ {x}) + 1
  BY <1>2, FS_AddElement, Zenon
<1> DEFINE R == S \ {x}
           Q == R \cup {x}
<1>6. Cardinality(T) = IF x \in T THEN Cardinality(R) + 1 ELSE Cardinality(R)
  BY <1>4, <1>5, Zenon
<1>7. IsFiniteSet(T)
  BY <1>2, <1>4, <1>5, Zenon
<1> HIDE DEF R
<1>8. Cardinality(R) \in Nat /\ Cardinality(R) = IF x \in S THEN Cardinality(S) - 1 ELSE Cardinality(S)
  BY <1>2, <1>3, Zenon DEF R
<1>9. QED
  BY <1>1, <1>6, <1>7, <1>8, SMT DEF Occurs

\* One caller moves: the sets it is counted in change by it alone.
LEMMA CallerMoves ==
  ASSUME CacheTypeOK, NEW a \in Callers, NEW r,
         caller' = [caller EXCEPT ![a] = r]
  PROVE  /\ \A f : Cardinality(Users(f)') = Cardinality(Users(f)) - Occurs(a, Users(f))
                                              + Occurs(a, Users(f)')
         /\ \A f : Cardinality(Awaiting(f)') = Cardinality(Awaiting(f)) - Occurs(a, Awaiting(f))
                                                 + Occurs(a, Awaiting(f)')
         /\ Cardinality(Inside') = Cardinality(Inside) - Occurs(a, Inside) + Occurs(a, Inside')
         /\ caller'[a] = r /\ \A b \in Callers : b # a => caller'[b] = caller[b]
<1>1. caller'[a] = r /\ \A b \in Callers : b # a => caller'[b] = caller[b]
  BY SMT DEF CacheTypeOK
<1>2. Inside \ {a} = Inside' \ {a}
  BY <1>1, Zenon DEF Inside
<1>3. ASSUME NEW f PROVE Users(f) \ {a} = Users(f)' \ {a} /\ Awaiting(f) \ {a} = Awaiting(f)' \ {a}
  BY <1>1, Zenon DEF Users, Awaiting
<1>4. QED
  BY <1>1, <1>2, <1>3, CountedFinite, OneElement, Zenon

-----------------------------------------------------------------------------
(* Weights.                                                                *)

\* Loads as bytes: as many pairs as the loads weigh.
Bytes(fs) == {b \in fs \X (1..MaxWeightBytes) : b[2] <= WeightOf[loads[b[1]].key]}

\* Every load weighs what its key says; weights add up.
LEMMA WeightIs ==
  ASSUME CacheTypeOK
  PROVE  /\ \A S \in SUBSET Loads : IsFiniteSet(Bytes(S)) /\ Weight(S) \in Nat
         /\ \A f \in Loads : Weight({f}) = WeightOf[loads[f].key] /\ WeightOf[loads[f].key] \in Nat
                               /\ WeightOf[loads[f].key] <= MaxWeightBytes
         /\ \A S, T \in SUBSET Loads : S \cap T = {} => Weight(S \cup T) = Weight(S) + Weight(T)
         /\ Weight({}) = 0
<1>1. ASSUME NEW S \in SUBSET Loads PROVE IsFiniteSet(Bytes(S)) /\ Weight(S) \in Nat /\ Weight(S) = Cardinality(Bytes(S))
  <2>1. IsFiniteSet(S)
    BY CountedFinite, FS_Subset, Zenon
  <2>2. IsFiniteSet(1..MaxWeightBytes)
    BY FS_Interval, SMT
  <2>3. IsFiniteSet(S \X (1..MaxWeightBytes))
    BY <2>1, <2>2, FS_Product, Zenon
  <2>4. Bytes(S) \in SUBSET (S \X (1..MaxWeightBytes))
    BY Zenon DEF Bytes
  <2>5. IsFiniteSet(Bytes(S))
    BY <2>3, <2>4, FS_Subset, Zenon
  <2>6. QED
    BY <2>5, FS_CardinalityType, Zenon DEF Weight, Bytes
<1>2. ASSUME NEW f \in Loads PROVE /\ Weight({f}) = WeightOf[loads[f].key] /\ WeightOf[loads[f].key] \in Nat
                                   /\ WeightOf[loads[f].key] <= MaxWeightBytes
  <2>1. PICK w : w = WeightOf[loads[f].key]
    BY Zenon
  <2>2. w \in 1..MaxWeightBytes
    BY <2>1, LoadIs, SMT
  <2>3. Bytes({f}) = {f} \X (1..w)
    BY <2>1, <2>2, SMT DEF Bytes
  <2>4. IsFiniteSet({f}) /\ Cardinality({f}) = 1
    BY FS_Singleton, Zenon
  <2>5. IsFiniteSet(1..w) /\ Cardinality(1..w) = w
    BY <2>2, FS_Interval, SMT
  <2>6. Cardinality({f} \X (1..w)) = Cardinality({f}) * Cardinality(1..w)
    BY <2>4, <2>5, FS_Product, Zenon
  <2>7. Cardinality({f} \X (1..w)) = w
    BY <2>2, <2>4, <2>5, <2>6, SMT
  <2>8. QED
    BY <1>1, <2>1, <2>2, <2>3, <2>7, SMTT(30)
<1>3. ASSUME NEW S \in SUBSET Loads, NEW T \in SUBSET Loads, S \cap T = {}
      PROVE  Weight(S \cup T) = Weight(S) + Weight(T)
  <2>1. Bytes(S \cup T) = Bytes(S) \cup Bytes(T) /\ Bytes(S) \cap Bytes(T) = {}
    BY <1>3, SMT DEF Bytes
  <2>2. S \cup T \in SUBSET Loads
    BY Zenon
  <2>3. Cardinality({}) = 0
    BY FS_EmptySet, Zenon
  <2>4. Cardinality(Bytes(S) \cup Bytes(T)) = Cardinality(Bytes(S)) + Cardinality(Bytes(T)) - Cardinality({})
    BY <1>1, <2>1, FS_Union, Zenon
  <2>5. Weight(S \cup T) = Cardinality(Bytes(S) \cup Bytes(T))
    BY <1>1, <2>1, <2>2, Zenon
  <2>6. QED
    BY <1>1, <2>3, <2>4, <2>5, SMT
<1>4. Weight({}) = 0
  <2>1. Bytes({}) = {}
    BY Zenon DEF Bytes
  <2>2. QED
    BY <1>1, <2>1, FS_EmptySet, Zenon
<1>5. QED
  BY <1>1, <1>2, <1>3, <1>4, Zenon

\* Every load so far keeps its key.
KeysKept == \A f \in Loads : f \in Loads' /\ loads'[f].key = loads[f].key

\* What loads weigh together does not change while they keep their keys.
LEMMA WeightKept ==
  ASSUME KeysKept, NEW S \in SUBSET Loads
  PROVE  Weight(S)' = Weight(S)
BY Zenon DEF KeysKept, Weight

\* A step that leaves the list alone keeps the cache within its limits.
LEMMA CapacityFrame ==
  ASSUME CacheTypeOK, WithinCapacity, KeysKept, lru' = lru, currentWeight' = currentWeight
  PROVE  WithinCapacity' /\ ListTypes'
<1>1. PICK S : S = Cached
  BY Zenon
<1>2. S \in SUBSET Loads /\ Cached' = S
  BY <1>1, Zenon DEF CacheTypeOK, Cached
<1>3. Weight(S)' = Weight(S)
  BY <1>2, WeightKept, Zenon
<1>4. Weight(Cached)' = Weight(Cached)
  BY <1>1, <1>2, <1>3, Zenon
<1>5. ListTypes'
  BY <1>1, <1>2, Zenon DEF KeysKept, CacheTypeOK, ListTypes, Cached
<1>6. QED
  BY <1>1, <1>2, <1>4, <1>5, Zenon DEF WithinCapacity

-----------------------------------------------------------------------------
(* The list.                                                               *)

\* MoveToFront and PushFront: the list holds the loads S and f, and each of
\* them has a place of its own.
LEMMA FrontOfList ==
  ASSUME CacheTypeOK, WithinCapacity, NEW S, S \subseteq Cached, NEW f, lru' = InFront(f, S)
  PROVE  /\ Cached' = S \cup {f}
         /\ \A e \in Cached' : lru'[e] \in Nat
         /\ \A e, g \in Cached' : lru'[e] = lru'[g] => e = g
<1> DEFINE Upto(e) == {g \in S \ {f} : lru[g] <= lru[e]}
<1>1. Cached' = S \cup {f}
  BY Zenon DEF Cached, InFront
<1>2. ASSUME NEW e \in Cached' PROVE lru'[e] = IF e = f THEN 1 ELSE 1 + Cardinality(Upto(e))
  BY <1>1, <1>2, Zenon DEF InFront
<1>3. ASSUME NEW e \in S \ {f}
      PROVE  /\ IsFiniteSet(Upto(e)) /\ Cardinality(Upto(e)) \in Nat /\ Cardinality(Upto(e)) # 0
             /\ e \in Upto(e)
  <2>1. Upto(e) \in SUBSET Cached /\ IsFiniteSet(Cached)
    BY CountedFinite, Zenon
  <2>2. IsFiniteSet(Upto(e))
    BY <2>1, FS_Subset, Zenon
  <2>3. lru[e] \in Nat
    BY Zenon DEF CacheTypeOK
  <2>4. e \in Upto(e)
    BY <2>3, SMT
  <2>5. Upto(e) # {}
    BY <2>4, Zenon
  <2> HIDE DEF Upto
  <2>6. QED
    BY <2>2, <2>4, <2>5, FS_CardinalityType, FS_EmptySet, Zenon
<1>4. ASSUME NEW e \in S \ {f}, NEW g \in S \ {f}, lru[e] < lru[g]
      PROVE  Cardinality(Upto(e)) # Cardinality(Upto(g))
  <2>1. \A h \in S : lru[h] \in Nat
    BY Zenon DEF CacheTypeOK
  <2>2. Upto(e) \in SUBSET Upto(g) /\ g \notin Upto(e)
    BY <1>4, <2>1, SMT
  <2> HIDE DEF Upto
  <2>3. QED
    BY <1>3, <2>2, FS_Subset, Zenon
<1>5. ASSUME NEW e \in Cached', NEW g \in Cached', lru'[e] = lru'[g] PROVE e = g
  <2>1. CASE e = f \/ g = f
    <3> HIDE DEF Upto
    <3>1. QED
      BY <1>1, <1>2, <1>3, <1>5, <2>1, SMT
  <2>2. CASE e # f /\ g # f
    <3>1. e \in S \ {f} /\ g \in S \ {f} /\ lru[e] \in Nat /\ lru[g] \in Nat
      BY <1>1, <2>2, Zenon DEF CacheTypeOK
    <3>2. Cardinality(Upto(e)) = Cardinality(Upto(g))
      <4> HIDE DEF Upto
      <4>1. QED
        BY <1>2, <1>3, <1>5, <2>2, <3>1, SMT
    <3>3. ~(lru[e] < lru[g]) /\ ~(lru[g] < lru[e])
      BY <1>4, <3>1, <3>2, Zenon
    <3>4. lru[e] = lru[g]
      BY <3>1, <3>3, SMT
    <3>5. QED
      BY <3>1, <3>4, Zenon DEF WithinCapacity
  <2>3. QED
    BY <2>1, <2>2, Zenon
<1>6. ASSUME NEW e \in Cached' PROVE lru'[e] \in Nat
  <2> HIDE DEF Upto
  <2>1. QED
    BY <1>1, <1>2, <1>3, SMT
<1>7. QED
  BY <1>1, <1>5, <1>6, Zenon

-----------------------------------------------------------------------------
(* Steps of callers: what they leave alone.                                *)

\* Every load keeps its key, its stage, its entry and the owner of its Program.
SameShape ==
  /\ Loads' = Loads
  /\ \A f \in Loads : /\ loads'[f].key = loads[f].key /\ loads'[f].stage = loads[f].stage
                      /\ loads'[f].entry = loads[f].entry /\ loads'[f].program = loads[f].program

\* What the loads say of each other survives a change of counts.
LEMMA ShapeKeeps ==
  ASSUME SameShape, Cached' = Cached, CacheTypeOK, LoadsSound, SingleFlight,
         closing => closing', \A k \in Closes : closer[k] = "releasing" => closer'[k] = "releasing"
  PROVE  LoadsSound' /\ SingleFlight' /\ KeysKept /\ Live' = Live /\ Flights' = Flights
<1>1. Live' = Live /\ Flights' = Flights /\ \A f \in Loads : Finished(f)' <=> Finished(f)
  BY Zenon DEF SameShape, Live, Flights, Finished
<1>2. KeysKept
  BY Zenon DEF SameShape, KeysKept
<1>3. SingleFlight'
  <2>1. Cached \cup Flights \subseteq Loads
    BY Zenon DEF CacheTypeOK, Flights
  <2>2. QED
    BY <1>1, <2>1 DEF SingleFlight, SameShape
<1>4. ASSUME NEW f \in Loads PROVE LoadSound(f)'
  <2>1. LoadSound(f)
    BY Zenon DEF LoadsSound
  <2>2. Finished(f)' <=> Finished(f)
    BY <1>1, Zenon
  <2>3. QED
    BY <2>1, <2>2, Zenon DEF LoadSound, SameShape
<1>5. QED
  BY <1>1, <1>2, <1>3, <1>4, Zenon DEF LoadsSound, SameShape

\* A caller that moves refers to what it may; the others are as they were.
LEMMA CallerKeeps ==
  ASSUME SameShape, Cached' = Cached, CacheTypeOK, CallersSound,
         NEW a \in Callers, NEW r, caller' = [caller EXCEPT ![a] = r],
         r.pc = "begun" => r.key \in Keys,
         r.pc \in {"await", "leased"} =>
           r.load \in Loads /\ (loads[r.load].entry => r.load \in Cached),
         r.pc = "leased" => loads[r.load].entry
  PROVE  CallersSound'
<1>1. caller'[a] = r /\ \A b \in Callers : b # a => caller'[b] = caller[b]
  BY SMT DEF CacheTypeOK
<1>2. CallerSound(a)'
  BY <1>1 DEF CallerSound, SameShape
<1>3. ASSUME NEW b \in Callers, b # a PROVE CallerSound(b)'
  <2>1. CallerSound(b) /\ caller'[b] = caller[b]
    BY <1>1, <1>3, Zenon DEF CallersSound
  <2>2. QED
    BY <2>1 DEF CallerSound, SameShape
<1>4. QED
  BY <1>2, <1>3, Zenon DEF CallersSound

\* While someone is inside, or before Close has begun, no Close holds Programs.
LEMMA Unreleased ==
  ASSUME CacheTypeOK, CloseSound, active # 0 \/ ~closing
  PROVE  /\ ~releasing /\ ~released
         /\ \A k \in Closes : closer[k] # "releasing" /\ closer[k] # "drained"
BY Zenon DEF CloseSound, CacheTypeOK

\* Close has nothing to say of a step that leaves its own state alone.
LEMMA CloseFrame ==
  ASSUME CacheTypeOK, CloseSound, active # 0 \/ ~closing, releasing' = releasing, released' = released,
         closing => closing', closer' = closer
  PROVE  CloseSound'
<1>1. /\ ~releasing /\ ~released
      /\ \A k \in Closes : closer[k] # "releasing" /\ closer[k] # "drained"
  BY Unreleased, Zenon
<1>2. \A k \in Closes : closer[k] = "awaitDrain" => closing
  BY Zenon DEF CloseSound
<1>3. QED
  BY <1>1, <1>2, Zenon DEF CloseSound

\* endLocked: a Close that awaits the drain wakes when nobody is left.
LEMMA EndFrame ==
  ASSUME CacheTypeOK, CloseSound, active # 0, End, releasing' = releasing, released' = released,
         closing => closing'
  PROVE  /\ CloseSound' /\ active' \in Nat /\ active' = active - 1
         /\ closer' \in [Closes -> {"idle", "look", "awaitRelease", "awaitDrain", "drained",
                                    "releasing", "done"}]
         /\ \A k \in Closes : closer[k] = "releasing" => closer'[k] = "releasing"
<1>1. /\ ~releasing /\ ~released
      /\ \A k \in Closes : closer[k] # "releasing" /\ closer[k] # "drained"
  BY Unreleased, Zenon
<1>2. \A k \in Closes : closer[k] = "awaitDrain" => closing
  BY Zenon DEF CloseSound
<1>3. active \in Nat /\ active' = active - 1 /\ active' \in Nat
  BY SMT DEF CacheTypeOK, End
<1>4. closer \in [Closes -> {"idle", "look", "awaitRelease", "awaitDrain", "drained",
                             "releasing", "done"}]
  BY Zenon DEF CacheTypeOK
<1>5. CASE active = 1
  <2>1. closer' = [k \in Closes |-> IF closer[k] = "awaitDrain" THEN "drained" ELSE closer[k]]
    BY <1>5, Zenon DEF End, Woken
  <2>2. \A k \in Closes : closer'[k] = IF closer[k] = "awaitDrain" THEN "drained" ELSE closer[k]
    BY <2>1, Zenon
  <2>3. active' = 0
    BY <1>3, <1>5, SMT
  <2>4. \A k \in Closes : closer'[k] # "releasing" /\ closer'[k] # "awaitDrain"
                            /\ (closer'[k] = "drained" => closing')
    BY <1>1, <1>2, <2>2, Zenon
  <2>5. CloseSound'
    BY <1>1, <2>3, <2>4, Zenon DEF CloseSound
  <2>6. QED
    BY <1>1, <1>3, <1>4, <2>1, <2>5, Zenon
<1>6. CASE active # 1
  <2>1. closer' = closer
    BY <1>6, Zenon DEF End
  <2>2. CloseSound'
    BY <2>1, CloseFrame, Zenon
  <2>3. QED
    BY <1>3, <1>4, <2>1, <2>2, Zenon
<1>7. QED
  BY <1>5, <1>6, Zenon

\* What a caller in state c contributes to the counts.
UsesAs(c, f) == IF c.pc \in {"await", "leased"} /\ c.load = f THEN 1 ELSE 0

AwaitsAs(c, f) == IF c.pc = "await" /\ c.load = f THEN 1 ELSE 0

InsideAs(c) == IF c.pc # "idle" THEN 1 ELSE 0

\* The counts of the sets a caller is in, before and after it moves.
LEMMA CallerCounts ==
  ASSUME CacheTypeOK, NEW a \in Callers, NEW r, caller' = [caller EXCEPT ![a] = r]
  PROVE  /\ \A f : Cardinality(Users(f)') = Cardinality(Users(f)) - UsesAs(caller[a], f) + UsesAs(r, f)
         /\ \A f : Cardinality(Awaiting(f)') = Cardinality(Awaiting(f)) - AwaitsAs(caller[a], f)
                                                 + AwaitsAs(r, f)
         /\ Cardinality(Inside') = Cardinality(Inside) - InsideAs(caller[a]) + InsideAs(r)
<1>1. caller'[a] = r
  BY CallerMoves, Zenon
<1>2. \A f : Occurs(a, Users(f)) = UsesAs(caller[a], f) /\ Occurs(a, Awaiting(f)) = AwaitsAs(caller[a], f)
  BY Zenon DEF Occurs, Users, Awaiting, UsesAs, AwaitsAs
<1>3. \A f : Occurs(a, Users(f)') = UsesAs(r, f) /\ Occurs(a, Awaiting(f)') = AwaitsAs(r, f)
  BY <1>1, Zenon DEF Occurs, Users, Awaiting, UsesAs, AwaitsAs
<1>4. Occurs(a, Inside) = InsideAs(caller[a]) /\ Occurs(a, Inside') = InsideAs(r)
  BY <1>1, Zenon DEF Occurs, Inside, InsideAs
<1>5. QED
  BY <1>2, <1>3, <1>4, CallerMoves, Zenon

\* A caller that moves and adjusts the counts by what it contributes keeps them
\* right.
LEMMA CountsKeep ==
  ASSUME CacheTypeOK, Accounted, WaitersCounted, SameShape,
         NEW a \in Callers, NEW r, caller' = [caller EXCEPT ![a] = r],
         \A f \in Loads : loads[f].entry =>
           loads'[f].refs = loads[f].refs - UsesAs(caller[a], f) + UsesAs(r, f),
         \A f \in Flights :
           loads'[f].waiters = loads[f].waiters - UsesAs(caller[a], f) + UsesAs(r, f),
         \A f \in Loads : /\ loads'[f].waiters \in Nat
           /\ loads'[f].waiters >= loads[f].waiters - AwaitsAs(caller[a], f) + AwaitsAs(r, f),
         active' = active - InsideAs(caller[a]) + InsideAs(r)
  PROVE  Accounted' /\ WaitersCounted' /\ active' \in Nat
<1>1. /\ \A f : Cardinality(Users(f)') = Cardinality(Users(f)) - UsesAs(caller[a], f) + UsesAs(r, f)
      /\ \A f : Cardinality(Awaiting(f)') = Cardinality(Awaiting(f)) - AwaitsAs(caller[a], f)
                                              + AwaitsAs(r, f)
      /\ Cardinality(Inside') = Cardinality(Inside) - InsideAs(caller[a]) + InsideAs(r)
  BY CallerCounts, Zenon
<1>2. /\ Cardinality(Inside) \in Nat /\ Cardinality(Live) \in Nat
      /\ \A f : Cardinality(Users(f)) \in Nat /\ Cardinality(Awaiting(f)) \in Nat
  BY CountedFinite, Zenon
<1>3. Loads' = Loads /\ Flights' = Flights /\ Live' = Live
  BY Zenon DEF SameShape, Flights, Live, Finished
<1>4. \A f \in Loads : loads[f].waiters \in Nat /\ loads[f].refs \in Nat
  BY LoadIs, Zenon
<1>5. ASSUME NEW f \in Loads, loads'[f].entry PROVE loads'[f].refs = Cardinality(Users(f)')
  <2>1. loads[f].refs = Cardinality(Users(f)) /\ loads[f].entry
    BY <1>5, Zenon DEF Accounted, SameShape
  <2>2. QED
    BY <1>1, <2>1, Zenon
<1>6. ASSUME NEW f \in Flights PROVE loads'[f].waiters = Cardinality(Users(f)')
  <2>1. loads[f].waiters = Cardinality(Users(f))
    BY Zenon DEF Accounted
  <2>2. QED
    BY <1>1, <2>1, Zenon
<1>7. ASSUME NEW f \in Loads PROVE Cardinality(Awaiting(f)') <= loads'[f].waiters
  <2>1. Cardinality(Awaiting(f)) <= loads[f].waiters
    BY Zenon DEF WaitersCounted
  <2>2. loads[f].waiters \in Nat /\ loads'[f].waiters \in Nat
    BY <1>4, Zenon
  <2>3. AwaitsAs(caller[a], f) \in {0, 1} /\ AwaitsAs(r, f) \in {0, 1}
    BY Zenon DEF AwaitsAs
  <2>4. QED
    BY <1>1, <1>2, <2>1, <2>2, <2>3, SMT
<1>8. active = Cardinality(Inside) + Cardinality(Live)
  BY Zenon DEF Accounted, Inside, Live
<1>9. active' = Cardinality(Inside') + Cardinality(Live)
  <2>1. InsideAs(caller[a]) \in {0, 1} /\ InsideAs(r) \in {0, 1}
    BY Zenon DEF InsideAs
  <2>2. QED
    BY <1>1, <1>2, <1>8, <2>1, SMT
<1>10. Cardinality(Inside') \in Nat
  <2>1. IsFiniteSet(Callers) /\ Inside' \in SUBSET Callers
    BY SMT DEF Inside
  <2>2. QED
    BY <2>1, FS_Subset, FS_CardinalityType, Zenon
<1>11. active' \in Nat
  BY <1>2, <1>9, <1>10, SMT
<1>12. Accounted'
  BY <1>3, <1>5, <1>6, <1>9, Zenon DEF Accounted, Inside, Live
<1>13. QED
  BY <1>3, <1>7, <1>11, <1>12, Zenon DEF WaitersCounted

\* Someone is inside, and active counts them.
LEMMA Busy ==
  ASSUME CacheTypeOK, Accounted, Inside # {} \/ Live # {}
  PROVE  active # 0
<1>1. /\ IsFiniteSet(Inside) /\ Cardinality(Inside) \in Nat
      /\ IsFiniteSet(Live) /\ Cardinality(Live) \in Nat
  BY CountedFinite, Zenon
<1>2. active = Cardinality(Inside) + Cardinality(Live)
  BY Zenon DEF Accounted, Inside, Live
<1>3. Cardinality(Inside) # 0 \/ Cardinality(Live) # 0
  BY <1>1, FS_EmptySet, Zenon
<1>4. QED
  BY <1>1, <1>2, <1>3, SMT

\* The states of a caller, and of a Close.
CallerStates == {"idle", "begun", "await", "leased", "ending"}

CloserStates == {"idle", "look", "awaitRelease", "awaitDrain", "drained", "releasing", "done"}

\* A step of one caller that changes counts only.
LEMMA CallerStep ==
  ASSUME CacheInv, SameShape, LoadTypes', Cached' = Cached, WithinCapacity', ListTypes',
         NEW a \in Callers, NEW p \in CallerStates, NEW k \in Keys \cup {NoKey}, NEW g \in 0..MaxLoads,
         caller' = [caller EXCEPT ![a] = [pc |-> p, key |-> k, load |-> g]],
         p = "begun" => k \in Keys,
         p \in {"await", "leased"} => g \in Loads /\ (loads[g].entry => g \in Cached),
         p = "leased" => loads[g].entry,
         \A f \in Loads : loads[f].entry =>
           loads'[f].refs = loads[f].refs - UsesAs(caller[a], f)
                              + UsesAs([pc |-> p, key |-> k, load |-> g], f),
         \A f \in Flights :
           loads'[f].waiters = loads[f].waiters - UsesAs(caller[a], f)
                                 + UsesAs([pc |-> p, key |-> k, load |-> g], f),
         \A f \in Loads : loads'[f].waiters >= loads[f].waiters - AwaitsAs(caller[a], f)
                                 + AwaitsAs([pc |-> p, key |-> k, load |-> g], f),
         active' = active - InsideAs(caller[a]) + InsideAs([pc |-> p, key |-> k, load |-> g]),
         CloseSound', closing' = closing, releasing' = releasing, released' = released,
         closer' \in [Closes -> CloserStates],
         \A j \in Closes : closer[j] = "releasing" => closer'[j] = "releasing"
  PROVE  CacheInv'
<1> DEFINE r == [pc |-> p, key |-> k, load |-> g]
<1>1. /\ CacheTypeOK /\ Accounted /\ WithinCapacity /\ SingleFlight
      /\ LoadsSound /\ CallersSound /\ WaitersCounted /\ CloseSound
  BY Zenon DEF CacheInv
<1>2. r.pc = p /\ r.key = k /\ r.load = g
  BY Zenon
<1>3. LoadsSound' /\ SingleFlight'
  BY <1>1, ShapeKeeps, Zenon
<1>4. \A f \in Loads : loads'[f].waiters \in Nat
  <2>1. \A f \in Loads' : loads'[f] \in Load
    BY SMT DEF LoadTypes, Loads
  <2>2. \A l \in Load : l.waiters \in Nat
    BY SMT DEF Load
  <2>3. QED
    BY <2>1, <2>2, Zenon DEF SameShape
<1>5. r \in [pc : CallerStates, key : Keys \cup {NoKey}, load : 0..MaxLoads]
  BY SMT
<1>6. caller' \in [Callers -> [pc : CallerStates, key : Keys \cup {NoKey}, load : 0..MaxLoads]]
  <2> HIDE DEF r
  <2>1. caller' = [caller EXCEPT ![a] = r]
    BY Zenon DEF r
  <2>2. QED
    BY <1>1, <1>5, <2>1, Zenon DEF CacheTypeOK, CallerStates
<1> HIDE DEF r
<1>7. caller' = [caller EXCEPT ![a] = r]
  BY Zenon DEF r
<1>8. CallersSound'
  BY <1>1, <1>2, <1>7, CallerKeeps, Zenon
<1>9. Accounted' /\ WaitersCounted' /\ active' \in Nat
  BY <1>1, <1>4, <1>7, CountsKeep, Zenon DEF r
<1>10. OtherTypes'
  BY <1>1, <1>6, <1>9, Zenon DEF CacheTypeOK, OtherTypes, CallerStates, CloserStates
<1>11. CacheTypeOK'
  BY <1>10, Zenon DEF CacheTypeOK, LoadTypes, ListTypes, OtherTypes
<1>12. QED
  BY <1>3, <1>8, <1>9, <1>11, Zenon DEF CacheInv

\* Nothing changes but the caller and perhaps the count.
LEMMA NothingMoves ==
  ASSUME CacheInv, loads' = loads, lru' = lru, currentWeight' = currentWeight
  PROVE  SameShape /\ LoadTypes' /\ Cached' = Cached /\ WithinCapacity' /\ ListTypes'
<1>1. SameShape /\ Cached' = Cached /\ KeysKept
  BY Zenon DEF SameShape, Cached, Loads, KeysKept
<1>2. LoadTypes'
  BY TypesAre, Zenon DEF CacheInv, LoadTypes
<1>3. QED
  BY <1>1, <1>2, CapacityFrame, Zenon DEF CacheInv

\* begin.
LEMMA BeginKeeps ==
  ASSUME CacheInv, NEW a \in Callers, NEW k \in Keys, BeginAcquire(a, k)
  PROVE  CacheInv'
<1>1. SameShape /\ LoadTypes' /\ Cached' = Cached /\ WithinCapacity' /\ ListTypes'
  BY NothingMoves, Zenon DEF BeginAcquire
<1>2. CloseSound'
  BY CloseFrame, Zenon DEF BeginAcquire, CacheInv
<1>3. closer \in [Closes -> CloserStates]
  BY Zenon DEF CacheInv, CacheTypeOK, CloserStates
<1> DEFINE r == [pc |-> "begun", key |-> k, load |-> 0]
<1>4. \A f : /\ UsesAs(caller[a], f) = 0 /\ UsesAs(r, f) = 0
             /\ AwaitsAs(caller[a], f) = 0 /\ AwaitsAs(r, f) = 0
  BY Zenon DEF UsesAs, AwaitsAs, BeginAcquire
<1>5. InsideAs(caller[a]) = 0 /\ InsideAs(r) = 1
  BY Zenon DEF InsideAs, BeginAcquire
<1>6. \A f \in Loads : loads[f].refs \in Nat /\ loads[f].waiters \in Nat
  BY LoadIs, Zenon DEF CacheInv
<1>7. Flights \subseteq Loads /\ active \in Nat /\ loads' = loads /\ active' = active + 1
  BY Zenon DEF Flights, CacheInv, CacheTypeOK, BeginAcquire
<1>8. /\ \A f \in Loads : loads[f].entry =>
           loads'[f].refs = loads[f].refs - UsesAs(caller[a], f) + UsesAs(r, f)
      /\ \A f \in Flights :
           loads'[f].waiters = loads[f].waiters - UsesAs(caller[a], f) + UsesAs(r, f)
      /\ \A f \in Loads : loads'[f].waiters >= loads[f].waiters - AwaitsAs(caller[a], f) + AwaitsAs(r, f)
      /\ active' = active - InsideAs(caller[a]) + InsideAs(r)
  <2> HIDE DEF r
  <2>1. QED
    BY <1>4, <1>5, <1>6, <1>7, SMT
<1>9. caller' = [caller EXCEPT ![a] = r]
  BY Zenon DEF BeginAcquire
<1>10. /\ "begun" \in CallerStates /\ k \in Keys \cup {NoKey} /\ 0 \in 0..MaxLoads
       /\ "begun" \notin {"await", "leased"} /\ "begun" # "leased"
  BY SMT DEF CallerStates
<1>11. QED
  BY <1>1, <1>2, <1>3, <1>8, <1>9, <1>10, CallerStep, Zenon DEF BeginAcquire

\* A caller moves on its own: it leaves every load it no longer awaits to the
\* others, and keeps the entry it has a pin on.
LEMMA QuietStep ==
  ASSUME CacheInv, loads' = loads, lru' = lru, currentWeight' = currentWeight,
         NEW a \in Callers, NEW p \in {"idle", "leased", "ending"}, NEW g \in 0..MaxLoads,
         CallerTo(a, p, g),
         p = "leased" => g \in Loads /\ g \in Cached /\ loads[g].entry,
         \A f \in Loads : loads[f].entry \/ ~Finished(f) =>
           UsesAs(caller[a], f) = UsesAs([pc |-> p, key |-> NoKey, load |-> g], f),
         active' = active - InsideAs(caller[a]) + InsideAs([pc |-> p, key |-> NoKey, load |-> g]),
         CloseSound', closing' = closing, releasing' = releasing, released' = released,
         closer' \in [Closes -> CloserStates],
         \A j \in Closes : closer[j] = "releasing" => closer'[j] = "releasing"
  PROVE  CacheInv'
<1> DEFINE r == [pc |-> p, key |-> NoKey, load |-> g]
<1>1. SameShape /\ LoadTypes' /\ Cached' = Cached /\ WithinCapacity' /\ ListTypes'
  BY NothingMoves, Zenon
<1>2. r.pc = p
  BY Zenon
<1>3. \A f : AwaitsAs(r, f) = 0
  <2> HIDE DEF r
  <2>1. QED
    BY <1>2, Zenon DEF AwaitsAs
<1>4. \A f : AwaitsAs(caller[a], f) \in {0, 1} /\ UsesAs(caller[a], f) \in {0, 1}
  BY Zenon DEF AwaitsAs, UsesAs
<1>5. \A f \in Loads : loads[f].refs \in Nat /\ loads[f].waiters \in Nat
  BY LoadIs, Zenon DEF CacheInv
<1>6. \A f \in Flights : f \in Loads /\ ~Finished(f)
  BY Zenon DEF Flights
<1>7. /\ \A f \in Loads : loads[f].entry =>
           loads'[f].refs = loads[f].refs - UsesAs(caller[a], f) + UsesAs(r, f)
      /\ \A f \in Flights :
           loads'[f].waiters = loads[f].waiters - UsesAs(caller[a], f) + UsesAs(r, f)
      /\ \A f \in Loads : loads'[f].waiters >= loads[f].waiters - AwaitsAs(caller[a], f) + AwaitsAs(r, f)
  <2>0. \A f \in Loads : loads[f].entry \/ ~Finished(f) => UsesAs(caller[a], f) = UsesAs(r, f)
    BY Zenon
  <2> HIDE DEF r
  <2>1. QED
    BY <1>3, <1>4, <1>5, <1>6, <2>0, SMT
<1>8. caller' = [caller EXCEPT ![a] = r]
  BY Zenon DEF CallerTo
<1>9. /\ p \in CallerStates /\ NoKey \in Keys \cup {NoKey} /\ p # "begun" /\ p # "await"
  BY SMT DEF CallerStates
<1>10. QED
  BY <1>1, <1>7, <1>8, <1>9, CallerStep, Zenon

\* A caller inside keeps Close waiting.
LEMMA CallerBusy ==
  ASSUME CacheInv, NEW a \in Callers, caller[a].pc # "idle"
  PROVE  active # 0
<1>1. a \in Inside
  BY Zenon DEF Inside
<1>2. QED
  BY <1>1, Busy, Zenon DEF CacheInv

\* Acquire after Close has begun, and Acquire when the queue is full.
LEMMA RefusedKeeps ==
  ASSUME CacheInv, NEW a \in Callers, AcquireRefused(a) \/ LoadQueueFull(a)
  PROVE  CacheInv'
<1>1. /\ caller[a].pc = "begun" /\ CallerTo(a, "ending", 0)
      /\ UNCHANGED <<loads, lru, currentWeight, active, closing, releasing, released, closer>>
  BY Zenon DEF AcquireRefused, LoadQueueFull
<1>2. CloseSound'
  BY <1>1, CallerBusy, CloseFrame, Zenon DEF CacheInv
<1>3. closer \in [Closes -> CloserStates] /\ active \in Nat
  BY Zenon DEF CacheInv, CacheTypeOK, CloserStates
<1> DEFINE r == [pc |-> "ending", key |-> NoKey, load |-> 0]
<1>4. \A f : UsesAs(caller[a], f) = UsesAs(r, f)
  BY <1>1, Zenon DEF UsesAs
<1>5. active' = active - InsideAs(caller[a]) + InsideAs(r)
  BY <1>1, <1>3, SMT DEF InsideAs
<1>6. 0 \in 0..MaxLoads
  OBVIOUS
<1>7. QED
  BY <1>1, <1>2, <1>3, <1>4, <1>5, <1>6, QuietStep

\* awaitFlight returns what the load left.
LEMMA CollectKeeps ==
  ASSUME CacheInv, NEW a \in Callers, Collect(a)
  PROVE  CacheInv'
<1> DEFINE g == caller[a].load
           p == IF loads[g].entry THEN "leased" ELSE "ending"
           r == [pc |-> p, key |-> NoKey, load |-> g]
<1>1. /\ caller[a].pc = "await" /\ Finished(g) /\ CallerTo(a, p, g)
      /\ UNCHANGED <<loads, lru, currentWeight, active, closing, releasing, released, closer>>
  BY Zenon DEF Collect
<1>2. CloseSound'
  BY <1>1, CallerBusy, CloseFrame, Zenon DEF CacheInv
<1>3. closer \in [Closes -> CloserStates] /\ active \in Nat
  BY Zenon DEF CacheInv, CacheTypeOK, CloserStates
<1>4. g \in Loads /\ (loads[g].entry => g \in Cached)
  BY <1>1, Zenon DEF CacheInv, CallersSound, CallerSound
<1>5. g \in 0..MaxLoads
  BY <1>4, LoadIs, SMT DEF CacheInv
<1>6. p \in {"idle", "leased", "ending"} /\ p # "idle" /\ (p = "leased" => loads[g].entry)
      /\ (loads[g].entry => p = "leased")
  BY Zenon
<1> HIDE DEF g, p
<1>7. r.pc = p /\ r.load = g
  BY Zenon
<1>8. ASSUME NEW f \in Loads, loads[f].entry \/ ~Finished(f)
      PROVE  UsesAs(caller[a], f) = UsesAs(r, f)
  <2> HIDE DEF r
  <2>1. g = caller[a].load
    BY Zenon DEF g
  <2>2. QED
    BY <1>1, <1>6, <1>7, <1>8, <2>1, SMT DEF UsesAs
<1>9. active' = active - InsideAs(caller[a]) + InsideAs(r)
  <2> HIDE DEF r
  <2>1. p # "idle"
    BY <1>6, Zenon
  <2>2. InsideAs(caller[a]) = 1 /\ InsideAs(r) = 1
    BY <1>1, <1>7, <2>1, Zenon DEF InsideAs
  <2>3. QED
    BY <1>1, <1>3, <2>2, SMT
<1>10. QED
  BY <1>1, <1>2, <1>3, <1>4, <1>5, <1>6, <1>8, <1>9, QuietStep

\* An Acquire without a lease leaves.
LEMMA EndAcquireKeeps ==
  ASSUME CacheInv, NEW a \in Callers, EndAcquire(a)
  PROVE  CacheInv'
<1>1. /\ caller[a].pc = "ending" /\ CallerTo(a, "idle", 0) /\ End
      /\ UNCHANGED <<loads, lru, currentWeight, closing, releasing, released>>
  BY Zenon DEF EndAcquire
<1>2. /\ CloseSound' /\ active' = active - 1 /\ closer' \in [Closes -> CloserStates]
      /\ \A k \in Closes : closer[k] = "releasing" => closer'[k] = "releasing"
  BY <1>1, CallerBusy, EndFrame, Zenon DEF CacheInv, CloserStates
<1>3. active \in Nat
  BY Zenon DEF CacheInv, CacheTypeOK
<1> DEFINE r == [pc |-> "idle", key |-> NoKey, load |-> 0]
<1>4. \A f : UsesAs(caller[a], f) = UsesAs(r, f)
  BY <1>1, Zenon DEF UsesAs
<1>5. active' = active - InsideAs(caller[a]) + InsideAs(r)
  BY <1>1, <1>2, <1>3, SMT DEF InsideAs
<1>6. 0 \in 0..MaxLoads
  BY SMT
<1>7. QED
  BY <1>1, <1>2, <1>4, <1>5, <1>6, QuietStep

-----------------------------------------------------------------------------
(* Steps of callers that change the counts of a load.                      *)

\* A load with other counts.
WithCounts(l, w, n, c) == [l EXCEPT !.waiters = w, !.refs = n, !.cancelled = c]

\* Other counts are no change of shape.
LEMMA CountsOnly ==
  ASSUME NEW l \in Load, NEW w \in Nat, NEW n \in Nat, NEW c \in BOOLEAN
  PROVE  LET m == WithCounts(l, w, n, c)
         IN  /\ m \in Load /\ m.key = l.key /\ m.stage = l.stage /\ m.entry = l.entry
             /\ m.program = l.program /\ m.waiters = w /\ m.refs = n
<1> DEFINE l1 == [l EXCEPT !.waiters = w]
           l2 == [l1 EXCEPT !.refs = n]
           m == [l2 EXCEPT !.cancelled = c]
<1> HIDE DEF Owner
<1>1. /\ l1 \in Load /\ l1.key = l.key /\ l1.stage = l.stage /\ l1.entry = l.entry
      /\ l1.program = l.program /\ l1.waiters = w
  BY SMT DEF Load
<1>2. l2 \in Load /\ l2.key = l1.key /\ l2.stage = l1.stage /\ l2.entry = l1.entry
      /\ l2.program = l1.program /\ l2.waiters = l1.waiters /\ l2.refs = n
  <2> HIDE DEF l1
  <2>1. QED
    BY <1>1, SMT DEF Load
<1>3. m \in Load /\ m.key = l2.key /\ m.stage = l2.stage /\ m.entry = l2.entry
      /\ m.program = l2.program /\ m.waiters = l2.waiters /\ m.refs = l2.refs
  <2> HIDE DEF l2
  <2>1. QED
    BY <1>2, SMT DEF Load
<1>4. WithCounts(l, w, n, c) = m
  BY Zenon DEF WithCounts
<1> HIDE DEF l1, l2, m
<1>5. QED
  BY <1>1, <1>2, <1>3, <1>4, Zenon

\* A field that is set to what it is.
LEMMA SameField ==
  ASSUME NEW l \in Load
  PROVE  /\ [l EXCEPT !.waiters = l.waiters] = l /\ [l EXCEPT !.refs = l.refs] = l
         /\ [l EXCEPT !.cancelled = l.cancelled] = l
<1> HIDE DEF Owner
<1>1. QED
  BY SMT DEF Load

\* One count changes.
LEMMA CountOnly ==
  ASSUME NEW l \in Load, NEW n \in Nat
  PROVE  /\ [l EXCEPT !.refs = n] = WithCounts(l, l.waiters, n, l.cancelled)
         /\ [l EXCEPT !.waiters = n] = WithCounts(l, n, l.refs, l.cancelled)
<1> HIDE DEF Owner
<1>1. [l EXCEPT !.waiters = l.waiters] = l /\ [l EXCEPT !.refs = l.refs] = l
      /\ [l EXCEPT !.cancelled = l.cancelled] = l
  BY SameField, Zenon
<1> DEFINE l1 == [l EXCEPT !.refs = n]
           l2 == [l EXCEPT !.waiters = n]
<1>2. /\ l1.cancelled = l.cancelled /\ [l1 EXCEPT !.cancelled = l1.cancelled] = l1
      /\ l2.cancelled = l.cancelled /\ [l2 EXCEPT !.cancelled = l2.cancelled] = l2
      /\ l2.refs = l.refs /\ [l2 EXCEPT !.refs = l2.refs] = l2
  <2>1. l1 \in Load /\ l2 \in Load
    BY SMT DEF Load
  <2>2. l1.cancelled = l.cancelled /\ l2.cancelled = l.cancelled /\ l2.refs = l.refs
    BY SMT DEF Load
  <2> HIDE DEF l1, l2
  <2>3. QED
    BY <2>1, <2>2, SameField, Zenon
<1>3. WithCounts(l, l.waiters, n, l.cancelled)
        = [[[l EXCEPT !.waiters = l.waiters] EXCEPT !.refs = n] EXCEPT !.cancelled = l.cancelled]
  BY Zenon DEF WithCounts
<1>4. WithCounts(l, n, l.refs, l.cancelled)
        = [[[l EXCEPT !.waiters = n] EXCEPT !.refs = l.refs] EXCEPT !.cancelled = l.cancelled]
  BY Zenon DEF WithCounts
<1>5. WithCounts(l, l.waiters, n, l.cancelled) = l1
  BY <1>1, <1>2, <1>3, Zenon
<1>6. WithCounts(l, n, l.refs, l.cancelled) = [[l2 EXCEPT !.refs = l.refs] EXCEPT !.cancelled = l.cancelled]
  BY <1>4, Zenon
<1> HIDE DEF l1, l2
<1>7. WithCounts(l, n, l.refs, l.cancelled) = l2
  BY <1>2, <1>6, Zenon
<1>8. QED
  BY <1>5, <1>7, Zenon DEF l1, l2

\* A step that gives one load other counts.
LEMMA CountsChange ==
  ASSUME CacheInv, NEW f \in Loads, NEW w \in Nat, NEW n \in Nat, NEW c \in BOOLEAN,
         loads' = [loads EXCEPT ![f] = WithCounts(loads[f], w, n, c)]
  PROVE  /\ SameShape /\ LoadTypes' /\ KeysKept
         /\ loads'[f].waiters = w /\ loads'[f].refs = n
         /\ \A e \in Loads : e # f => loads'[e] = loads[e]
<1> DEFINE r == WithCounts(loads[f], w, n, c)
<1>1. loads[f] \in Load /\ CacheTypeOK
  BY LoadIs, Zenon DEF CacheInv
<1>2. /\ r \in Load /\ r.key = loads[f].key /\ r.stage = loads[f].stage /\ r.entry = loads[f].entry
      /\ r.program = loads[f].program /\ r.waiters = w /\ r.refs = n
  BY <1>1, CountsOnly
<1> HIDE DEF r
<1>3. /\ LoadTypes' /\ Loads' = Loads /\ loads'[f] = r
      /\ \A e \in Loads : e # f => loads'[e] = loads[e]
  BY <1>1, <1>2, OneLoad, Zenon DEF r
<1>4. SameShape
  BY <1>2, <1>3, Zenon DEF SameShape
<1>5. QED
  BY <1>2, <1>3, <1>4, Zenon DEF SameShape, KeysKept

\* Acquire finds its key in the cache.
LEMMA HitKeeps ==
  ASSUME CacheInv, NEW a \in Callers, Hit(a)
  PROVE  CacheInv'
<1>1. PICK f \in Cached :
        /\ caller[a].pc = "begun" /\ loads' = [loads EXCEPT ![f].refs = @ + 1]
        /\ lru' = InFront(f, Cached) /\ CallerTo(a, "leased", f)
        /\ UNCHANGED <<currentWeight, active, closing, releasing, released, closer>>
  BY Zenon DEF Hit
<1>2. f \in Loads /\ loads[f].entry /\ f \in 0..MaxLoads /\ Finished(f)
  <2>1. f \in Loads
    BY Zenon DEF CacheInv, CacheTypeOK
  <2>2. QED
    BY <2>1, LoadIs, SMT DEF CacheInv, LoadsSound, LoadSound
<1>3. \A e \in Loads : loads[e] \in Load /\ loads[e].refs \in Nat /\ loads[e].waiters \in Nat
                         /\ loads[e].cancelled \in BOOLEAN
  BY LoadIs, Zenon DEF CacheInv
<1> DEFINE w == loads[f].waiters
           n == loads[f].refs + 1
           c == loads[f].cancelled
<1>4. w \in Nat /\ n \in Nat /\ c \in BOOLEAN
  BY <1>2, <1>3, SMT
<1>5. loads' = [loads EXCEPT ![f] = WithCounts(loads[f], w, n, c)]
  <2>1. [loads[f] EXCEPT !.refs = @ + 1] = WithCounts(loads[f], w, n, c)
    BY <1>2, <1>3, <1>4, CountOnly, Zenon
  <2>2. loads' = [loads EXCEPT ![f] = [loads[f] EXCEPT !.refs = @ + 1]]
    BY <1>1, Zenon
  <2>3. QED
    BY <2>1, <2>2, Zenon
<1>6. /\ SameShape /\ LoadTypes' /\ KeysKept /\ loads'[f].waiters = w /\ loads'[f].refs = n
      /\ \A e \in Loads : e # f => loads'[e] = loads[e]
  <2> HIDE DEF w, n, c
  <2>1. QED
    BY <1>2, <1>4, <1>5, CountsChange, ZenonT(40)
<1>7. /\ Cached' = Cached /\ \A e \in Cached' : lru'[e] \in Nat
      /\ \A e, g \in Cached' : lru'[e] = lru'[g] => e = g
  <2>1. PICK S : S = Cached
    BY Zenon
  <2>2. f \in S /\ S \subseteq Cached /\ lru' = InFront(f, S)
    BY <1>1, <2>1, Zenon
  <2>3. /\ Cached' = S \cup {f} /\ \A e \in Cached' : lru'[e] \in Nat
        /\ \A e, g \in Cached' : lru'[e] = lru'[g] => e = g
    BY <2>2, FrontOfList, Zenon DEF CacheInv
  <2>4. QED
    BY <2>1, <2>2, <2>3, Zenon
<1>8. ListTypes' /\ WithinCapacity'
  <2>1. PICK S : S = Cached
    BY Zenon
  <2>2. Cached \subseteq Loads /\ Loads' = Loads
    BY <1>6, Zenon DEF CacheInv, CacheTypeOK, SameShape
  <2>3. Weight(S)' = Weight(S)
    BY <1>6, <2>1, <2>2, WeightKept, Zenon
  <2>4. Weight(Cached)' = Weight(Cached)
    BY <1>7, <2>1, <2>3, Zenon
  <2>5. currentWeight' = currentWeight
    BY <1>1, Zenon
  <2>6. QED
    BY <1>7, <2>2, <2>4, <2>5, Zenon DEF CacheInv, WithinCapacity, ListTypes
<1> DEFINE r == [pc |-> "leased", key |-> NoKey, load |-> f]
<1>9. /\ \A e : UsesAs(caller[a], e) = 0 /\ AwaitsAs(caller[a], e) = 0 /\ AwaitsAs(r, e) = 0
      /\ UsesAs(r, f) = 1 /\ \A e : e # f => UsesAs(r, e) = 0
      /\ InsideAs(caller[a]) = 1 /\ InsideAs(r) = 1
  BY <1>1, Zenon DEF UsesAs, AwaitsAs, InsideAs
<1>10. active \in Nat /\ active' = active /\ \A e \in Flights : e \in Loads /\ e # f
  BY <1>1, <1>2, Zenon DEF CacheInv, CacheTypeOK, Flights
<1>11. /\ \A e \in Loads : loads[e].entry =>
            loads'[e].refs = loads[e].refs - UsesAs(caller[a], e) + UsesAs(r, e)
       /\ \A e \in Flights :
            loads'[e].waiters = loads[e].waiters - UsesAs(caller[a], e) + UsesAs(r, e)
       /\ \A e \in Loads : loads'[e].waiters >= loads[e].waiters - AwaitsAs(caller[a], e) + AwaitsAs(r, e)
       /\ active' = active - InsideAs(caller[a]) + InsideAs(r)
  <2> HIDE DEF r
  <2>1. QED
    BY <1>3, <1>6, <1>9, <1>10, SMT
<1>12. CloseSound'
  BY <1>1, CallerBusy, CloseFrame, Zenon DEF CacheInv
<1>13. closer \in [Closes -> CloserStates] /\ "leased" \in CallerStates /\ NoKey \in Keys \cup {NoKey}
  BY Zenon DEF CacheInv, CacheTypeOK, CloserStates, CallerStates
<1>14. caller' = [caller EXCEPT ![a] = r]
  BY <1>1, Zenon DEF CallerTo
<1>15. UNCHANGED <<closing, releasing, released, closer>>
  BY <1>1, Zenon
<1> HIDE DEF w, n, c
<1>16. QED
  <2>1. "leased" # "begun"
    BY Zenon
  <2>2. \A j \in Closes : closer[j] = "releasing" => closer'[j] = "releasing"
    BY <1>15, Zenon
  <2>3. closer' \in [Closes -> CloserStates]
    BY <1>13, <1>15, Zenon
  <2> HIDE DEF r
  <2>4. caller' = [caller EXCEPT ![a] = [pc |-> "leased", key |-> NoKey, load |-> f]]
    BY <1>14, Zenon DEF r
  <2>5. QED
    BY <1>2, <1>6, <1>7, <1>8, <1>11, <1>12, <1>13, <1>15, <2>1, <2>2, <2>3, <2>4, CallerStep, Zenon DEF r

\* Acquire joins the load under way for its key.
LEMMA JoinKeeps ==
  ASSUME CacheInv, NEW a \in Callers, Join(a)
  PROVE  CacheInv'
<1>1. PICK f \in Flights :
        /\ caller[a].pc = "begun" /\ loads' = [loads EXCEPT ![f].waiters = @ + 1]
        /\ CallerTo(a, "await", f)
        /\ UNCHANGED <<lru, currentWeight, active, closing, releasing, released, closer>>
  BY Zenon DEF Join
<1>2. f \in Loads /\ ~loads[f].entry /\ f \in 0..MaxLoads
  <2>1. f \in Loads /\ ~Finished(f)
    BY Zenon DEF Flights
  <2>2. QED
    BY <2>1, LoadIs, SMT DEF CacheInv, LoadsSound, LoadSound
<1>3. \A e \in Loads : loads[e] \in Load /\ loads[e].refs \in Nat /\ loads[e].waiters \in Nat
                         /\ loads[e].cancelled \in BOOLEAN
  BY LoadIs, Zenon DEF CacheInv
<1> DEFINE w == loads[f].waiters + 1
           n == loads[f].refs
           c == loads[f].cancelled
<1>4. w \in Nat /\ n \in Nat /\ c \in BOOLEAN
  BY <1>2, <1>3, SMT
<1>5. loads' = [loads EXCEPT ![f] = WithCounts(loads[f], w, n, c)]
  <2>1. [loads[f] EXCEPT !.waiters = w] = WithCounts(loads[f], w, n, c)
    BY <1>2, <1>3, <1>4, CountOnly, Zenon
  <2>2. loads' = [loads EXCEPT ![f] = [loads[f] EXCEPT !.waiters = w]]
    BY <1>1, Zenon
  <2>3. QED
    BY <2>1, <2>2, Zenon
<1>6. /\ SameShape /\ LoadTypes' /\ KeysKept /\ loads'[f].waiters = w /\ loads'[f].refs = n
      /\ \A e \in Loads : e # f => loads'[e] = loads[e]
  <2> HIDE DEF w, n, c
  <2>1. f \in Loads
    BY <1>1, Zenon DEF Flights
  <2>2. QED
    BY <1>4, <1>5, <2>1, CountsChange, Zenon
<1>7. Cached' = Cached /\ ListTypes' /\ WithinCapacity'
  BY <1>1, <1>6, CapacityFrame, Zenon DEF CacheInv, Cached
<1> DEFINE r == [pc |-> "await", key |-> NoKey, load |-> f]
<1>8. /\ \A e : UsesAs(caller[a], e) = 0 /\ AwaitsAs(caller[a], e) = 0
      /\ UsesAs(r, f) = 1 /\ AwaitsAs(r, f) = 1
      /\ \A e : e # f => UsesAs(r, e) = 0 /\ AwaitsAs(r, e) = 0
      /\ InsideAs(caller[a]) = 1 /\ InsideAs(r) = 1
  BY <1>1, Zenon DEF UsesAs, AwaitsAs, InsideAs
<1>9. active \in Nat /\ active' = active /\ \A e \in Flights : e \in Loads
  BY <1>1, Zenon DEF CacheInv, CacheTypeOK, Flights
<1>10. /\ \A e \in Loads : loads[e].entry =>
            loads'[e].refs = loads[e].refs - UsesAs(caller[a], e) + UsesAs(r, e)
       /\ \A e \in Flights :
            loads'[e].waiters = loads[e].waiters - UsesAs(caller[a], e) + UsesAs(r, e)
       /\ \A e \in Loads : loads'[e].waiters >= loads[e].waiters - AwaitsAs(caller[a], e) + AwaitsAs(r, e)
       /\ active' = active - InsideAs(caller[a]) + InsideAs(r)
  <2> HIDE DEF r
  <2>1. ASSUME NEW e \in Loads PROVE loads'[e].waiters = loads[e].waiters + UsesAs(r, e) /\ AwaitsAs(r, e) = UsesAs(r, e)
    <3>1. CASE e = f
      BY <1>3, <1>6, <1>8, <3>1, Zenon
    <3>2. CASE e # f
      BY <1>3, <1>6, <1>8, <3>2, SMT
    <3>3. QED
      BY <3>1, <3>2, Zenon
  <2>2. ASSUME NEW e \in Loads, loads[e].entry PROVE loads'[e].refs = loads[e].refs /\ UsesAs(r, e) = 0
    BY <1>2, <1>6, <1>8, <2>2, Zenon
  <2>3. \A e \in Loads : UsesAs(r, e) \in {0, 1}
    BY Zenon DEF UsesAs
  <2>4. QED
    BY <1>3, <1>8, <1>9, <2>1, <2>2, <2>3
<1>11. CloseSound'
  BY <1>1, CallerBusy, CloseFrame, Zenon DEF CacheInv
<1>12. UNCHANGED <<closing, releasing, released, closer>>
  BY <1>1, Zenon
<1>13. /\ closer' \in [Closes -> CloserStates] /\ "await" \in CallerStates /\ NoKey \in Keys \cup {NoKey}
       /\ "await" # "begun" /\ "await" # "leased"
       /\ \A j \in Closes : closer[j] = "releasing" => closer'[j] = "releasing"
  BY <1>12, Zenon DEF CacheInv, CacheTypeOK, CloserStates, CallerStates
<1> HIDE DEF w, n, c, r
<1>14. caller' = [caller EXCEPT ![a] = [pc |-> "await", key |-> NoKey, load |-> f]]
  BY <1>1, Zenon DEF CallerTo
<1>15. QED
  BY <1>2, <1>6, <1>7, <1>10, <1>11, <1>12, <1>13, <1>14, CallerStep, Zenon DEF r

\* Lease.Release.
LEMMA ReleaseKeeps ==
  ASSUME CacheInv, NEW a \in Callers, Release(a)
  PROVE  CacheInv'
<1>1. PICK f : f = caller[a].load
  BY Zenon
<1>2. /\ caller[a].pc = "leased" /\ loads' = [loads EXCEPT ![f].refs = @ - 1]
      /\ CallerTo(a, "idle", 0) /\ End
      /\ UNCHANGED <<lru, currentWeight, closing, releasing, released>>
  BY <1>1, Zenon DEF Release
<1>3. f \in Loads /\ loads[f].entry /\ f \in 0..MaxLoads /\ Finished(f)
  <2>1. f \in Loads /\ loads[f].entry
    BY <1>1, <1>2, Zenon DEF CacheInv, CallersSound, CallerSound
  <2>2. QED
    BY <2>1, LoadIs, SMT DEF CacheInv, LoadsSound, LoadSound
<1>4. \A e \in Loads : loads[e] \in Load /\ loads[e].refs \in Nat /\ loads[e].waiters \in Nat
                         /\ loads[e].cancelled \in BOOLEAN
  BY LoadIs, Zenon DEF CacheInv
<1>5. loads[f].refs # 0
  <2>1. loads[f].refs = Cardinality(Users(f)) /\ a \in Users(f) /\ IsFiniteSet(Users(f))
    BY <1>1, <1>2, <1>3, CountedFinite, Zenon DEF CacheInv, Accounted, Users
  <2>2. QED
    BY <2>1, FS_EmptySet, Zenon
<1> DEFINE w == loads[f].waiters
           n == loads[f].refs - 1
           c == loads[f].cancelled
<1>6. w \in Nat /\ n \in Nat /\ c \in BOOLEAN
  BY <1>3, <1>4, <1>5, SMT
<1>7. loads' = [loads EXCEPT ![f] = WithCounts(loads[f], w, n, c)]
  <2>1. [loads[f] EXCEPT !.refs = n] = WithCounts(loads[f], w, n, c)
    BY <1>3, <1>4, <1>6, CountOnly, Zenon
  <2>2. loads' = [loads EXCEPT ![f] = [loads[f] EXCEPT !.refs = n]]
    BY <1>2, Zenon
  <2>3. QED
    BY <2>1, <2>2, Zenon
<1>8. /\ SameShape /\ LoadTypes' /\ KeysKept /\ loads'[f].waiters = w /\ loads'[f].refs = n
      /\ \A e \in Loads : e # f => loads'[e] = loads[e]
  <2> HIDE DEF w, n, c
  <2>1. QED
    BY <1>3, <1>6, <1>7, CountsChange, ZenonT(40)
<1>9. Cached' = Cached /\ ListTypes' /\ WithinCapacity'
  BY <1>2, <1>8, CapacityFrame, Zenon DEF CacheInv, Cached
<1>10. /\ CloseSound' /\ active' = active - 1 /\ closer' \in [Closes -> CloserStates]
       /\ \A k \in Closes : closer[k] = "releasing" => closer'[k] = "releasing"
  BY <1>2, CallerBusy, EndFrame, Zenon DEF CacheInv, CloserStates
<1> DEFINE r == [pc |-> "idle", key |-> NoKey, load |-> 0]
<1>11. /\ \A e : UsesAs(r, e) = 0 /\ AwaitsAs(r, e) = 0 /\ AwaitsAs(caller[a], e) = 0
       /\ UsesAs(caller[a], f) = 1 /\ \A e : e # f => UsesAs(caller[a], e) = 0
       /\ InsideAs(caller[a]) = 1 /\ InsideAs(r) = 0
  BY <1>1, <1>2, Zenon DEF UsesAs, AwaitsAs, InsideAs
<1>12. active \in Nat /\ \A e \in Flights : e \in Loads /\ e # f
  BY <1>3, Zenon DEF CacheInv, CacheTypeOK, Flights
<1>13. /\ \A e \in Loads : loads[e].entry =>
            loads'[e].refs = loads[e].refs - UsesAs(caller[a], e) + UsesAs(r, e)
       /\ \A e \in Flights :
            loads'[e].waiters = loads[e].waiters - UsesAs(caller[a], e) + UsesAs(r, e)
       /\ \A e \in Loads : loads'[e].waiters >= loads[e].waiters - AwaitsAs(caller[a], e) + AwaitsAs(r, e)
       /\ active' = active - InsideAs(caller[a]) + InsideAs(r)
  <2> HIDE DEF r
  <2>1. ASSUME NEW e \in Loads PROVE /\ loads'[e].refs = loads[e].refs - UsesAs(caller[a], e)
                                     /\ loads'[e].waiters = loads[e].waiters
    <3>1. CASE e = f
      BY <1>4, <1>8, <1>11, <3>1, Zenon
    <3>2. CASE e # f
      BY <1>4, <1>8, <1>11, <3>2, SMT
    <3>3. QED
      BY <3>1, <3>2, Zenon
  <2>2. \A e \in Loads : UsesAs(caller[a], e) \in {0, 1}
    BY Zenon DEF UsesAs
  <2>3. QED
    BY <1>4, <1>10, <1>11, <1>12, <2>1, <2>2
<1>14. /\ "idle" \in CallerStates /\ NoKey \in Keys \cup {NoKey} /\ 0 \in 0..MaxLoads
       /\ "idle" # "begun" /\ "idle" # "leased" /\ "idle" # "await"
  BY SMT DEF CallerStates
<1>15. closing' = closing /\ releasing' = releasing /\ released' = released
  BY <1>2, Zenon
<1> HIDE DEF w, n, c, r
<1>16. caller' = [caller EXCEPT ![a] = [pc |-> "idle", key |-> NoKey, load |-> 0]]
  BY <1>2, Zenon DEF CallerTo
<1>17. QED
  BY <1>8, <1>9, <1>10, <1>13, <1>14, <1>15, <1>16, CallerStep, Zenon DEF r

\* abandonFlight: a waiter gives up, before or after the load has finished.
LEMMA AbandonKeeps ==
  ASSUME CacheInv, NEW a \in Callers, Abandon(a)
  PROVE  CacheInv'
<1>1. PICK f : f = caller[a].load
  BY Zenon
<1> DEFINE w == loads[f].waiters - 1
           n == IF Finished(f) /\ loads[f].entry THEN loads[f].refs - 1 ELSE loads[f].refs
           c == (loads[f].cancelled \/ (~Finished(f) /\ loads[f].waiters = 1))
<1>2. /\ caller[a].pc = "await" /\ CallerTo(a, "ending", 0)
      /\ UNCHANGED <<lru, currentWeight, active, closing, releasing, released, closer>>
  BY Zenon DEF Abandon
<1>3. loads[f].waiters # 0 => loads' = [loads EXCEPT ![f] = WithCounts(loads[f], w, n, c)]
  BY <1>1, Zenon DEF Abandon, WithCounts
<1>4. f \in Loads
  BY <1>1, <1>2, Zenon DEF CacheInv, CallersSound, CallerSound
<1>5. \A e \in Loads : loads[e] \in Load /\ loads[e].refs \in Nat /\ loads[e].waiters \in Nat
                         /\ loads[e].cancelled \in BOOLEAN
  BY LoadIs, Zenon DEF CacheInv
<1>6. loads[f].waiters # 0 /\ (loads[f].entry => loads[f].refs # 0 /\ Finished(f))
  <2>1. a \in Users(f) /\ a \in Awaiting(f) /\ IsFiniteSet(Users(f)) /\ IsFiniteSet(Awaiting(f))
    BY <1>1, <1>2, CountedFinite, Zenon DEF CacheInv, Users, Awaiting
  <2>2. Cardinality(Users(f)) # 0 /\ Cardinality(Awaiting(f)) # 0 /\ Cardinality(Awaiting(f)) \in Nat
    BY <2>1, FS_EmptySet, FS_CardinalityType, Zenon
  <2>3. /\ loads[f].entry => loads[f].refs = Cardinality(Users(f)) /\ Finished(f)
        /\ Cardinality(Awaiting(f)) <= loads[f].waiters
    BY <1>4, Zenon DEF CacheInv, Accounted, WaitersCounted, LoadsSound, LoadSound
  <2>4. loads[f].waiters \in Nat
    BY <1>4, <1>5, Zenon
  <2>5. loads[f].waiters # 0
    BY <2>2, <2>3, <2>4, SMT
  <2>6. QED
    BY <2>2, <2>3, <2>5, Zenon
<1>7. w \in Nat /\ n \in Nat /\ c \in BOOLEAN
  <2>1. loads[f].waiters \in Nat /\ loads[f].refs \in Nat
    BY <1>4, <1>5, Zenon
  <2>2. w \in Nat
    BY <1>6, <2>1, SMT
  <2>3. n \in Nat
    <3>1. CASE Finished(f) /\ loads[f].entry
      <4>1. loads[f].refs # 0 /\ n = loads[f].refs - 1
        BY <1>6, <3>1, Zenon
      <4> HIDE DEF n
      <4>2. QED
        BY <2>1, <4>1, SMT
    <3>2. CASE ~(Finished(f) /\ loads[f].entry)
      BY <2>1, <3>2, Zenon
    <3>3. QED
      BY <3>1, <3>2, Zenon
  <2>4. c \in BOOLEAN
    BY Zenon DEF Finished
  <2>5. QED
    BY <2>2, <2>3, <2>4, Zenon
<1>8. loads' = [loads EXCEPT ![f] = WithCounts(loads[f], w, n, c)]
  BY <1>3, <1>6, Zenon
<1>9. /\ SameShape /\ LoadTypes' /\ KeysKept /\ loads'[f].waiters = w /\ loads'[f].refs = n
      /\ \A e \in Loads : e # f => loads'[e] = loads[e]
  <2> HIDE DEF w, n, c
  <2>1. QED
    BY <1>4, <1>7, <1>8, CountsChange, Zenon
<1>10. Cached' = Cached /\ ListTypes' /\ WithinCapacity'
  BY <1>2, <1>9, CapacityFrame, Zenon DEF CacheInv, Cached
<1>11. CloseSound'
  BY <1>2, CallerBusy, CloseFrame, Zenon DEF CacheInv
<1> DEFINE r == [pc |-> "ending", key |-> NoKey, load |-> 0]
<1>12. /\ \A e : UsesAs(r, e) = 0 /\ AwaitsAs(r, e) = 0
       /\ UsesAs(caller[a], f) = 1 /\ \A e : e # f => UsesAs(caller[a], e) = 0
       /\ \A e : AwaitsAs(caller[a], e) = UsesAs(caller[a], e)
       /\ InsideAs(caller[a]) = 1 /\ InsideAs(r) = 1
  BY <1>1, <1>2, Zenon DEF UsesAs, AwaitsAs, InsideAs
<1>13. active \in Nat /\ active' = active /\ Flights \subseteq Loads
  BY <1>2, Zenon DEF CacheInv, CacheTypeOK, Flights
<1>14. loads[f].entry => n = loads[f].refs - 1
  BY <1>6, Zenon
<1>15. /\ \A e \in Loads : loads[e].entry =>
            loads'[e].refs = loads[e].refs - UsesAs(caller[a], e) + UsesAs(r, e)
       /\ \A e \in Flights :
            loads'[e].waiters = loads[e].waiters - UsesAs(caller[a], e) + UsesAs(r, e)
       /\ \A e \in Loads : loads'[e].waiters >= loads[e].waiters - AwaitsAs(caller[a], e) + AwaitsAs(r, e)
       /\ active' = active - InsideAs(caller[a]) + InsideAs(r)
  <2> HIDE DEF r, n
  <2>1. ASSUME NEW e \in Loads PROVE /\ loads[e].entry => loads'[e].refs = loads[e].refs - UsesAs(caller[a], e)
                                     /\ loads'[e].waiters = loads[e].waiters - UsesAs(caller[a], e)
    <3>1. CASE e = f
      BY <1>5, <1>9, <1>12, <1>14, <3>1, Zenon
    <3>2. CASE e # f
      BY <1>5, <1>9, <1>12, <3>2
    <3>3. QED
      BY <3>1, <3>2, Zenon
  <2>2. \A e \in Loads : UsesAs(caller[a], e) \in {0, 1}
    BY Zenon DEF UsesAs
  <2> HIDE DEF w
  <2>3. QED
    BY <1>5, <1>12, <1>13, <2>1, <2>2
<1>16. UNCHANGED <<closing, releasing, released, closer>>
  BY <1>2, Zenon
<1>17. /\ closer' \in [Closes -> CloserStates] /\ "ending" \in CallerStates /\ NoKey \in Keys \cup {NoKey}
       /\ "ending" # "begun" /\ "ending" # "leased" /\ "ending" # "await" /\ 0 \in 0..MaxLoads
       /\ \A j \in Closes : closer[j] = "releasing" => closer'[j] = "releasing"
  BY <1>16, SMT DEF CacheInv, CacheTypeOK, CloserStates, CallerStates
<1> HIDE DEF w, n, c, r
<1>18. caller' = [caller EXCEPT ![a] = [pc |-> "ending", key |-> NoKey, load |-> 0]]
  BY <1>2, Zenon DEF CallerTo
<1>19. QED
  BY <1>9, <1>10, <1>11, <1>15, <1>16, <1>17, <1>18, CallerStep, Zenon DEF r

\* Acquire starts a load: it has one waiter, and nobody has used it before.
LEMMA StartLoadKeeps ==
  ASSUME CacheInv, NEW a \in Callers, StartLoad(a)
  PROVE  CacheInv'
<1>1. PICK g : g = Len(loads) + 1
  BY Zenon
<1>2. PICK l : l = [key |-> caller[a].key, waiters |-> 1, refs |-> 0,
                    stage |-> IF LoadSlotFree THEN "loading" ELSE "queued",
                    cancelled |-> FALSE, entry |-> FALSE, program |-> <<"none", 0>>]
  BY Zenon
<1>3. /\ caller[a].pc = "begun" /\ ~closing /\ Absent(caller[a].key) /\ Len(loads) < MaxLoads
      /\ loads' = Append(loads, l) /\ active' = active + 1 /\ CallerTo(a, "await", g)
      /\ UNCHANGED <<lru, currentWeight, closing, releasing, released, closer>>
  BY <1>1, <1>2, Zenon DEF StartLoad, MayLoad
<1>4. /\ CacheTypeOK /\ Accounted /\ WithinCapacity /\ SingleFlight
      /\ LoadsSound /\ CallersSound /\ WaitersCounted /\ CloseSound
  BY Zenon DEF CacheInv
<1>5. /\ l \in Load /\ l.key = caller[a].key /\ l.waiters = 1 /\ ~l.entry
      /\ l.stage \in {"loading", "queued"} /\ l.program = <<"none", 0>>
  <2>1. caller[a].key \in Keys
    BY <1>3, <1>4, Zenon DEF CallersSound, CallerSound
  <2>2. <<"none", 0>> \in Owner
    BY Zenon DEF Owner
  <2> HIDE DEF Owner
  <2>3. QED
    BY <1>2, <2>1, <2>2, Zenon DEF Load
<1>6. /\ LoadTypes' /\ Loads' = Loads \cup {g} /\ g \notin Loads /\ g \in 1..MaxLoads
      /\ loads'[g] = l /\ \A f \in Loads : loads'[f] = loads[f]
  <2> HIDE DEF Load
  <2>1. QED
    BY <1>1, <1>3, <1>4, <1>5 DEF CacheTypeOK, LoadTypes, Loads
<1>7. KeysKept
  BY <1>6, Zenon DEF KeysKept
<1>8. ListTypes' /\ WithinCapacity' /\ Cached' = Cached /\ Cached \subseteq Loads
  BY <1>3, <1>4, <1>7, CapacityFrame, Zenon DEF Cached, CacheTypeOK
<1>9. /\ Finished(g)' = FALSE /\ \A f \in Loads : Finished(f)' <=> Finished(f)
  BY <1>5, <1>6 DEF Finished
<1>10. Flights' = Flights \cup {g} /\ Flights \subseteq Loads
  BY <1>6, <1>9, Zenon DEF Flights
<1>11. SingleFlight'
  <2>1. \A f \in Cached \cup Flights : loads[f].key # l.key
    BY <1>3, <1>5, Zenon DEF Absent
  <2>2. \A f \in Cached \cup Flights : f \in Loads /\ loads'[f] = loads[f]
    BY <1>6, <1>8, <1>10, Zenon
  <2>3. QED
    BY <1>4, <1>6, <1>8, <1>10, <2>1, <2>2 DEF SingleFlight
<1>12. LoadsSound'
  <2>1. LoadSound(g)'
    <3>1. g \notin Cached'
      BY <1>6, <1>8, Zenon
    <3>2. QED
      BY <1>5, <1>6, <1>9, <3>1 DEF LoadSound
  <2>2. ASSUME NEW f \in Loads PROVE LoadSound(f)'
    <3>1. LoadSound(f) /\ loads'[f] = loads[f] /\ (Finished(f)' <=> Finished(f))
      BY <1>4, <1>6, <1>9, Zenon DEF LoadsSound
    <3>2. closing' = closing /\ closer' = closer
      BY <1>3, Zenon
    <3>3. QED
      BY <1>6, <1>8, <3>1, <3>2, Zenon DEF LoadSound
  <2>3. QED
    BY <1>6, <2>1, <2>2, Zenon DEF LoadsSound
<1> DEFINE r == [pc |-> "await", key |-> NoKey, load |-> g]
<1>13. caller' = [caller EXCEPT ![a] = r]
  BY <1>3, Zenon DEF CallerTo
<1>14. r.pc = "await" /\ r.load = g
       /\ r \in [pc : CallerStates, key : Keys \cup {NoKey}, load : 0..MaxLoads]
  BY <1>6, SMT DEF CallerStates
<1> HIDE DEF r
<1>15. caller'[a] = r /\ \A b \in Callers : b # a => caller'[b] = caller[b]
  BY <1>4, <1>13, CallerMoves, Zenon
<1>16. CallersSound'
  <2>1. CallerSound(a)'
    BY <1>5, <1>6, <1>14, <1>15, Zenon DEF CallerSound
  <2>2. ASSUME NEW b \in Callers, b # a PROVE CallerSound(b)'
    <3>1. CallerSound(b) /\ caller'[b] = caller[b]
      BY <1>4, <1>15, <2>2, Zenon DEF CallersSound
    <3>2. QED
      BY <1>6, <1>8, <3>1, Zenon DEF CallerSound
  <2>3. QED
    BY <2>1, <2>2, Zenon DEF CallersSound
<1>17. /\ \A f : UsesAs(caller[a], f) = 0 /\ AwaitsAs(caller[a], f) = 0
       /\ UsesAs(r, g) = 1 /\ AwaitsAs(r, g) = 1
       /\ \A f \in Loads : UsesAs(r, f) = 0 /\ AwaitsAs(r, f) = 0
       /\ InsideAs(caller[a]) = 1 /\ InsideAs(r) = 1
  BY <1>3, <1>6, <1>14, Zenon DEF UsesAs, AwaitsAs, InsideAs
<1>18. /\ \A f : Cardinality(Users(f)') = Cardinality(Users(f)) - UsesAs(caller[a], f) + UsesAs(r, f)
       /\ \A f : Cardinality(Awaiting(f)') = Cardinality(Awaiting(f)) - AwaitsAs(caller[a], f)
                                               + AwaitsAs(r, f)
       /\ Cardinality(Inside') = Cardinality(Inside) - InsideAs(caller[a]) + InsideAs(r)
  BY <1>4, <1>13, CallerCounts, Zenon
<1>19. /\ IsFiniteSet(Live) /\ Cardinality(Live) \in Nat /\ Cardinality(Inside) \in Nat
       /\ \A f : Cardinality(Users(f)) \in Nat /\ Cardinality(Awaiting(f)) \in Nat
  BY <1>4, CountedFinite, Zenon
<1>20. \A f \in Loads : /\ Cardinality(Users(f)') = Cardinality(Users(f))
                        /\ Cardinality(Awaiting(f)') = Cardinality(Awaiting(f))
  BY <1>17, <1>18, <1>19, SMT
<1>21. Cardinality(Users(g)') = 1 /\ Cardinality(Awaiting(g)') = 1
  <2>1. \A b \in Callers : caller[b].pc \in {"await", "leased"} => caller[b].load # g
    BY <1>4, <1>6, Zenon DEF CallersSound, CallerSound
  <2>2. Users(g) = {} /\ Awaiting(g) = {}
    BY <2>1, Zenon DEF Users, Awaiting
  <2>3. Cardinality(Users(g)) = 0 /\ Cardinality(Awaiting(g)) = 0
    BY <2>2, FS_EmptySet, Zenon
  <2>4. QED
    BY <1>17, <1>18, <2>3
<1>22. Cardinality(Live') = Cardinality(Live) + 1
  <2>1. Live' = Live \cup {g} /\ g \notin Live
    BY <1>5, <1>6, Zenon DEF Live
  <2>2. QED
    BY <1>19, <2>1, FS_AddElement, Zenon
<1>23. Accounted' /\ active' \in Nat
  <2>1. active = Cardinality(Inside) + Cardinality(Live)
    BY <1>4, Zenon DEF Accounted, Inside, Live
  <2>2. active' = Cardinality(Inside') + Cardinality(Live') /\ active' \in Nat
    BY <1>3, <1>17, <1>18, <1>19, <1>22, <2>1, SMTT(30)
  <2>3. ASSUME NEW f \in Loads', loads'[f].entry PROVE loads'[f].refs = Cardinality(Users(f)')
    BY <1>4, <1>5, <1>6, <1>20, <2>3, Zenon DEF Accounted
  <2>4. ASSUME NEW f \in Flights' PROVE loads'[f].waiters = Cardinality(Users(f)')
    BY <1>4, <1>5, <1>6, <1>10, <1>20, <1>21, Zenon DEF Accounted
  <2>5. QED
    BY <2>2, <2>3, <2>4, Zenon DEF Accounted, Inside, Live
<1>24. WaitersCounted'
  <2>1. \A f \in Loads : Cardinality(Awaiting(f)') <= loads'[f].waiters
    BY <1>4, <1>6, <1>20, Zenon DEF WaitersCounted
  <2>2. Cardinality(Awaiting(g)') <= loads'[g].waiters
    BY <1>5, <1>6, <1>21
  <2>3. QED
    BY <1>6, <2>1, <2>2, Zenon DEF WaitersCounted
<1>25. CloseSound'
  BY <1>3, <1>4, CloseFrame, Zenon
<1>26. caller' \in [Callers -> [pc : CallerStates, key : Keys \cup {NoKey}, load : 0..MaxLoads]]
  BY <1>4, <1>13, <1>14, Zenon DEF CacheTypeOK, CallerStates
<1>27. OtherTypes'
  BY <1>3, <1>4, <1>23, <1>26, Zenon DEF CacheTypeOK, OtherTypes, CallerStates
<1>28. CacheTypeOK'
  BY <1>6, <1>8, <1>27, Zenon DEF CacheTypeOK, LoadTypes, ListTypes, OtherTypes
<1>29. QED
  BY <1>8, <1>11, <1>12, <1>16, <1>23, <1>24, <1>25, <1>28, Zenon DEF CacheInv

-----------------------------------------------------------------------------
(* Steps of loads and of Close.                                            *)

\* A step that no caller takes part in.
LEMMA LoadStep ==
  ASSUME CacheInv, caller' = caller, Loads' = Loads, LoadTypes', ListTypes', WithinCapacity', KeysKept,
         \A f \in Loads : loads'[f].waiters = loads[f].waiters,
         \A f \in Loads : loads'[f].entry => loads'[f].refs = Cardinality(Users(f)),
         Flights' \subseteq Flights, Cached' \cup Flights' \subseteq Cached \cup Flights,
         LoadsSound', CloseSound', active' \in Nat,
         active' = Cardinality(Inside) + Cardinality(Live'),
         closing' \in BOOLEAN, releasing' \in BOOLEAN, released' \in BOOLEAN,
         closer' \in [Closes -> CloserStates],
         \A f \in Loads : loads[f].entry => loads'[f].entry,
         \A a \in Callers : caller[a].pc \in {"await", "leased"} /\ loads'[caller[a].load].entry =>
           caller[a].load \in Cached'
  PROVE  CacheInv'
<1>1. /\ CacheTypeOK /\ Accounted /\ SingleFlight /\ CallersSound /\ WaitersCounted
  BY Zenon DEF CacheInv
<1>2. /\ \A f : Users(f)' = Users(f) /\ Awaiting(f)' = Awaiting(f)
      /\ Inside' = Inside
  BY Zenon DEF Users, Awaiting, Inside
<1>3. Accounted'
  <2>1. \A f \in Loads' : loads'[f].entry => loads'[f].refs = Cardinality(Users(f)')
    BY <1>2, Zenon
  <2>2. \A f \in Flights' : loads'[f].waiters = Cardinality(Users(f)')
    BY <1>1, <1>2, Zenon DEF Accounted, Flights
  <2>3. active' = Cardinality(Inside') + Cardinality(Live')
    BY <1>2, Zenon
  <2>4. QED
    BY <2>1, <2>2, <2>3, Zenon DEF Accounted, Inside, Live
<1>4. WaitersCounted'
  BY <1>1, <1>2, Zenon DEF WaitersCounted
<1>5. SingleFlight'
  <2>1. Cached \cup Flights \subseteq Loads
    BY <1>1, Zenon DEF CacheTypeOK, Flights
  <2>2. QED
    BY <1>1, <2>1, Zenon DEF SingleFlight, KeysKept
<1>6. CallersSound'
  <2>1. ASSUME NEW a \in Callers PROVE CallerSound(a)'
    <3>1. CallerSound(a)
      BY <1>1, Zenon DEF CallersSound
    <3>2. QED
      BY <3>1, Zenon DEF CallerSound
  <2>2. QED
    BY <2>1, Zenon DEF CallersSound
<1>7. OtherTypes'
  BY <1>1, Zenon DEF CacheTypeOK, OtherTypes, CloserStates
<1>8. CacheTypeOK'
  BY <1>7, Zenon DEF CacheTypeOK, LoadTypes, ListTypes, OtherTypes
<1>9. QED
  BY <1>3, <1>4, <1>5, <1>6, <1>8, Zenon DEF CacheInv

\* The stages of a load.
Stages == {"queued", "loading", "evicting", "gone"}

\* A load with one other field.
LEMMA OneField ==
  ASSUME NEW l \in Load
  PROVE  /\ \A o \in Owner : LET m == [l EXCEPT !.program = o]
              IN  /\ m \in Load /\ m.key = l.key /\ m.stage = l.stage /\ m.waiters = l.waiters
                  /\ m.refs = l.refs /\ m.entry = l.entry /\ m.program = o
         /\ LET m == [l EXCEPT !.cancelled = TRUE]
            IN  /\ m \in Load /\ m.key = l.key /\ m.stage = l.stage /\ m.waiters = l.waiters
                /\ m.refs = l.refs /\ m.entry = l.entry /\ m.program = l.program
         /\ \A s \in Stages : LET m == [l EXCEPT !.stage = s]
              IN  /\ m \in Load /\ m.key = l.key /\ m.stage = s /\ m.waiters = l.waiters
                  /\ m.refs = l.refs /\ m.entry = l.entry /\ m.program = l.program
<1> HIDE DEF Owner
<1>1. ASSUME NEW o \in Owner
      PROVE  LET m == [l EXCEPT !.program = o]
             IN  /\ m \in Load /\ m.key = l.key /\ m.stage = l.stage /\ m.waiters = l.waiters
                 /\ m.refs = l.refs /\ m.entry = l.entry /\ m.program = o
  BY SMT DEF Load
<1>2. ASSUME NEW c \in BOOLEAN
      PROVE  LET m == [l EXCEPT !.cancelled = c]
             IN  /\ m \in Load /\ m.key = l.key /\ m.stage = l.stage /\ m.waiters = l.waiters
                 /\ m.refs = l.refs /\ m.entry = l.entry /\ m.program = l.program
  BY SMT DEF Load
<1>3. ASSUME NEW s \in Stages
      PROVE  LET m == [l EXCEPT !.stage = s]
             IN  /\ m \in Load /\ m.key = l.key /\ m.stage = s /\ m.waiters = l.waiters
                 /\ m.refs = l.refs /\ m.entry = l.entry /\ m.program = l.program
  BY SMT DEF Load, Stages
<1>4. TRUE \in BOOLEAN
  BY Zenon
<1>5. QED
  BY <1>1, <1>2, <1>3, <1>4, Zenon

\* A load that is not gone keeps Close waiting.
LEMMA LoadBusy ==
  ASSUME CacheInv, NEW f \in Loads, loads[f].stage # "gone"
  PROVE  active # 0
<1>1. f \in Live
  BY Zenon DEF Live
<1>2. QED
  BY <1>1, Busy, Zenon DEF CacheInv

\* What LoadStep asks of the rest of the state.
LEMMA Rest ==
  ASSUME CacheInv
  PROVE  /\ active \in Nat /\ active = Cardinality(Inside) + Cardinality(Live)
         /\ closing \in BOOLEAN /\ releasing \in BOOLEAN /\ released \in BOOLEAN
         /\ closer \in [Closes -> CloserStates]
         /\ \A a \in Callers : caller[a].pc \in {"await", "leased"} =>
              caller[a].load \in Loads /\ (loads[caller[a].load].entry => caller[a].load \in Cached)
         /\ \A f \in Loads : loads[f].entry => loads[f].refs = Cardinality(Users(f))
         /\ Cached \subseteq Loads /\ Flights \subseteq Loads
<1>1. active = Cardinality(Inside) + Cardinality(Live)
  BY Zenon DEF CacheInv, Accounted, Inside, Live
<1>2. QED
  BY <1>1, Zenon DEF CacheInv, CacheTypeOK, CloserStates, CallersSound, CallerSound, Accounted, Flights

\* A queued load gets its slot.
LEMMA LoadGetsSlotKeeps ==
  ASSUME CacheInv, NEW f \in Loads, LoadGetsSlot(f)
  PROVE  CacheInv'
<1> DEFINE r == [loads[f] EXCEPT !.stage = "loading"]
<1>1. /\ loads[f].stage = "queued" /\ loads' = [loads EXCEPT ![f] = r]
      /\ UNCHANGED <<lru, currentWeight, active, closing, releasing, released, caller, closer>>
  BY Zenon DEF LoadGetsSlot
<1>2. loads[f] \in Load /\ CacheTypeOK
  BY LoadIs, Zenon DEF CacheInv
<1>3. /\ r \in Load /\ r.key = loads[f].key /\ r.stage = "loading" /\ r.waiters = loads[f].waiters
      /\ r.refs = loads[f].refs /\ r.entry = loads[f].entry /\ r.program = loads[f].program
  <2>1. "loading" \in Stages
    BY Zenon DEF Stages
  <2>2. QED
    BY <1>2, <2>1, OneField, Zenon
<1> HIDE DEF r
<1>4. /\ LoadTypes' /\ Loads' = Loads /\ loads'[f] = r
      /\ \A e \in Loads : e # f => loads'[e] = loads[e]
  BY <1>1, <1>2, <1>3, OneLoad, Zenon
<1>5. \A e \in Loads :
        /\ loads'[e].key = loads[e].key /\ loads'[e].waiters = loads[e].waiters
        /\ loads'[e].refs = loads[e].refs /\ loads'[e].entry = loads[e].entry
        /\ loads'[e].program = loads[e].program /\ (Finished(e)' <=> Finished(e))
        /\ (loads'[e].stage = "gone" <=> loads[e].stage = "gone")
        /\ (loads'[e].stage = "evicting" <=> loads[e].stage = "evicting")
  BY <1>1, <1>3, <1>4, Zenon DEF Finished
<1>6. KeysKept /\ Flights' = Flights /\ Live' = Live
  BY <1>4, <1>5, Zenon DEF KeysKept, Flights, Live
<1>7. Cached' = Cached /\ ListTypes' /\ WithinCapacity'
  BY <1>1, <1>6, CapacityFrame, Zenon DEF CacheInv, Cached
<1>8. LoadsSound'
  <2>1. ASSUME NEW e \in Loads PROVE LoadSound(e)'
    <3>1. LoadSound(e)
      BY Zenon DEF CacheInv, LoadsSound
    <3>2. closing' = closing /\ closer' = closer
      BY <1>1, Zenon
    <3>3. QED
      BY <1>4, <1>5, <1>7, <3>1, <3>2 DEF LoadSound
  <2>2. QED
    BY <1>4, <2>1, Zenon DEF LoadsSound
<1>9. CloseSound'
  BY <1>1, LoadBusy, CloseFrame, Zenon DEF CacheInv
<1>10. QED
  BY <1>1, <1>4, <1>5, <1>6, <1>7, <1>8, <1>9, Rest, LoadStep, ZenonT(40)

\* A load that completes without leaving an entry.
Uncached(l, s, o) == [l EXCEPT !.stage = s, !.cancelled = TRUE, !.program = o]

\* The fields of a load that has completed without leaving an entry.
LEMMA UncachedIs ==
  ASSUME NEW l \in Load, NEW s \in Stages, NEW o \in Owner
  PROVE  LET m == Uncached(l, s, o)
         IN  /\ m \in Load /\ m.key = l.key /\ m.stage = s /\ m.waiters = l.waiters
             /\ m.refs = l.refs /\ m.entry = l.entry /\ m.program = o
<1> DEFINE l1 == [l EXCEPT !.stage = s]
           l2 == [l1 EXCEPT !.cancelled = TRUE]
           m == [l2 EXCEPT !.program = o]
<1>1. /\ l1 \in Load /\ l1.key = l.key /\ l1.stage = s /\ l1.waiters = l.waiters
      /\ l1.refs = l.refs /\ l1.entry = l.entry
  BY OneField, Zenon
<1>2. /\ l2 \in Load /\ l2.key = l1.key /\ l2.stage = l1.stage /\ l2.waiters = l1.waiters
      /\ l2.refs = l1.refs /\ l2.entry = l1.entry
  <2> HIDE DEF l1
  <2>1. QED
    BY <1>1, OneField, Zenon
<1>3. /\ m \in Load /\ m.key = l2.key /\ m.stage = l2.stage /\ m.waiters = l2.waiters
      /\ m.refs = l2.refs /\ m.entry = l2.entry /\ m.program = o
  <2> HIDE DEF l2
  <2>1. QED
    BY <1>2, OneField, Zenon
<1>4. Uncached(l, s, o) = m
  BY ZenonT(40) DEF Uncached
<1> HIDE DEF l1, l2, m
<1>5. QED
  BY <1>1, <1>2, <1>3, <1>4, Zenon

\* completeFlight without an entry: the Program, if there is one, is the load's
\* to close.
LEMMA CompleteUncachedKeeps ==
  ASSUME CacheInv, NEW f \in Loads, NEW compiled \in BOOLEAN, CompleteUncached(f, compiled)
  PROVE  CacheInv'
<1> DEFINE s == IF loads[f].stage = "queued" THEN "gone" ELSE "evicting"
           o == IF compiled THEN <<"load", f>> ELSE loads[f].program
           r == Uncached(loads[f], s, o)
<1>1. /\ loads[f].stage \in {"loading", "queued"} /\ (compiled => loads[f].stage = "loading")
      /\ loads' = [loads EXCEPT ![f] = r]
      /\ IF loads[f].stage = "queued" THEN End ELSE UNCHANGED <<active, closer>>
      /\ UNCHANGED <<lru, currentWeight, closing, releasing, released, caller>>
  BY Zenon DEF CompleteUncached, Uncached
<1>2. loads[f] \in Load /\ CacheTypeOK /\ loads[f].program \in Owner /\ f \in 1..MaxLoads
  BY LoadIs, Zenon DEF CacheInv
<1>3. ~Finished(f) /\ ~loads[f].entry /\ f \notin Cached /\ loads[f].program = <<"none", 0>>
  <2>1. ~Finished(f)
    BY <1>1, Zenon DEF Finished
  <2>2. LoadSound(f)
    BY Zenon DEF CacheInv, LoadsSound
  <2>3. QED
    BY <2>1, <2>2, Zenon DEF LoadSound
<1>4. s \in {"evicting", "gone"} /\ s \in Stages /\ o \in Owner
  <2>1. <<"load", f>> \in Owner
    BY <1>2, SMT DEF Owner
  <2>2. QED
    BY <1>2, <2>1, Zenon DEF Stages
<1>5. /\ o \in {<<"none", 0>>, <<"load", f>>} /\ (o = <<"load", f>> => s = "evicting")
  <2>1. CASE compiled
    <3>1. s = "evicting" /\ o = <<"load", f>>
      BY <1>1, <2>1, Zenon
    <3>2. QED
      BY <3>1, Zenon
  <2>2. CASE ~compiled
    <3>1. o = <<"none", 0>>
      BY <1>3, <2>2, Zenon
    <3>2. <<"none", 0>> # <<"load", f>>
      BY SMT
    <3>3. QED
      BY <3>1, <3>2, Zenon
  <2>3. QED
    BY <2>1, <2>2, Zenon
<1>6. loads[f].stage = "queued" <=> s = "gone"
  BY Zenon
<1> HIDE DEF s, o
<1>7. /\ r \in Load /\ r.key = loads[f].key /\ r.stage = s /\ r.waiters = loads[f].waiters
      /\ r.refs = loads[f].refs /\ r.entry = loads[f].entry /\ r.program = o
  BY <1>2, <1>4, UncachedIs, Zenon
<1> HIDE DEF r
<1>8. /\ LoadTypes' /\ Loads' = Loads /\ loads'[f] = r
      /\ \A e \in Loads : e # f => loads'[e] = loads[e]
  BY <1>1, <1>2, <1>7, OneLoad, Zenon
<1>9. \A e \in Loads :
        /\ loads'[e].key = loads[e].key /\ loads'[e].waiters = loads[e].waiters
        /\ loads'[e].refs = loads[e].refs /\ loads'[e].entry = loads[e].entry
        /\ (e # f => (Finished(e)' <=> Finished(e)))
  BY <1>7, <1>8, Zenon DEF Finished
<1>10. Finished(f)'
  BY <1>4, <1>7, <1>8, Zenon DEF Finished
<1>11. KeysKept /\ Flights' \subseteq Flights
  BY <1>8, <1>9, <1>10, Zenon DEF KeysKept, Flights
<1>12. Cached' = Cached /\ ListTypes' /\ WithinCapacity'
  BY <1>1, <1>2, <1>11, CapacityFrame, Zenon DEF CacheInv, Cached
<1>13. active # 0
  BY <1>1, LoadBusy, Zenon
<1>14. /\ CloseSound' /\ active' \in Nat /\ closer' \in [Closes -> CloserStates]
       /\ \A k \in Closes : closer[k] = "releasing" => closer'[k] = "releasing"
       /\ active' = IF s = "gone" THEN active - 1 ELSE active
  <2>1. CASE loads[f].stage = "queued"
    BY <1>1, <1>2, <1>6, <1>13, <2>1, EndFrame, Zenon DEF CacheInv, CloserStates
  <2>2. CASE loads[f].stage # "queued"
    <3>1. active' = active /\ closer' = closer
      BY <1>1, <2>2, Zenon
    <3>2. CloseSound'
      BY <1>1, <1>2, <1>13, <3>1, CloseFrame, Zenon DEF CacheInv
    <3>3. QED
      BY <1>6, <2>2, <3>1, <3>2, Rest, Zenon
  <2>3. QED
    BY <2>1, <2>2, Zenon
<1>15. active' = Cardinality(Inside) + Cardinality(Live')
  <2>1. f \in Live /\ IsFiniteSet(Live) /\ Cardinality(Live) \in Nat /\ Cardinality(Inside) \in Nat
    BY <1>1, <1>2, CountedFinite, Zenon DEF Live
  <2>2. Live' = IF s = "gone" THEN Live \ {f} ELSE Live
    BY <1>1, <1>4, <1>7, <1>8, Zenon DEF Live
  <2>3. Cardinality(Live') = IF s = "gone" THEN Cardinality(Live) - 1 ELSE Cardinality(Live)
    BY <2>1, <2>2, FS_RemoveElement, Zenon
  <2>4. active = Cardinality(Inside) + Cardinality(Live) /\ active \in Nat
    BY Rest, Zenon
  <2>5. QED
    BY <1>14, <2>1, <2>3, <2>4
<1>16. LoadsSound'
  <2>1. LoadSound(f)'
    <3>1. loads'[f].program \in {<<"none", 0>>, <<"load", f>>}
      BY <1>5, <1>7, <1>8, Zenon
    <3>2. \A g \in 1..MaxLoads : loads'[f].program = <<"load", g>> => g = f
      BY <3>1, SMT
    <3>3. loads'[f].program = <<"load", f>> => loads'[f].stage = "evicting"
      BY <1>5, <1>7, <1>8, Zenon
    <3>4. /\ loads'[f].program # <<"cache", 0>> /\ loads'[f].program # <<"pending", 0>>
          /\ \A k \in Closes : loads'[f].program # <<"close", k>>
      BY <3>1
    <3>5. f \notin Cached' /\ ~loads'[f].entry
      BY <1>3, <1>9, <1>12, Zenon
    <3>6. QED
      BY <1>8, <1>10, <3>2, <3>3, <3>4, <3>5, Zenon DEF LoadSound
  <2>2. ASSUME NEW e \in Loads, e # f PROVE LoadSound(e)'
    <3>1. LoadSound(e) /\ loads'[e] = loads[e] /\ (Finished(e)' <=> Finished(e))
      BY <1>8, <1>9, <2>2, Zenon DEF CacheInv, LoadsSound
    <3>2. closing' = closing /\ \A k \in Closes : closer[k] = "releasing" => closer'[k] = "releasing"
      BY <1>1, <1>14, Zenon
    <3>3. \A g \in Loads : loads[g].stage = "evicting" => loads'[g].stage = "evicting"
      BY <1>1, <1>8, Zenon
    <3>4. QED
      BY <1>8, <1>12, <3>1, <3>2, <3>3, Zenon DEF LoadSound
  <2>3. QED
    BY <1>8, <2>1, <2>2, Zenon DEF LoadsSound
<1>17. UNCHANGED <<closing, releasing, released, caller>>
  BY <1>1, Zenon
<1>18. QED
  BY <1>8, <1>9, <1>11, <1>12, <1>14, <1>15, <1>16, <1>17, Rest, LoadStep, SMTT(30)

\* A load that completes and leaves an entry with n pins.
Entered(l, n) ==
  [l EXCEPT !.stage = "evicting", !.cancelled = TRUE, !.entry = TRUE, !.refs = n,
            !.program = <<"cache", 0>>]

\* The fields of a load that has left an entry.
LEMMA EnteredIs ==
  ASSUME NEW l \in Load, NEW n \in Nat
  PROVE  LET m == Entered(l, n)
         IN  /\ m \in Load /\ m.key = l.key /\ m.stage = "evicting" /\ m.waiters = l.waiters
             /\ m.refs = n /\ m.entry /\ m.program = <<"cache", 0>>
<1> DEFINE l1 == [l EXCEPT !.stage = "evicting"]
           l2 == [l1 EXCEPT !.cancelled = TRUE]
           l3 == [l2 EXCEPT !.entry = TRUE]
           l4 == [l3 EXCEPT !.refs = n]
           m == [l4 EXCEPT !.program = <<"cache", 0>>]
<1>1. "evicting" \in Stages /\ <<"cache", 0>> \in Owner
  BY Zenon DEF Stages, Owner
<1> HIDE DEF Owner
<1>2. l1 \in Load /\ l1.key = l.key /\ l1.stage = "evicting" /\ l1.waiters = l.waiters
  BY <1>1, OneField, Zenon
<1>3. l2 \in Load /\ l2.key = l1.key /\ l2.stage = l1.stage /\ l2.waiters = l1.waiters
  <2> HIDE DEF l1
  <2>1. QED
    BY <1>2, OneField, Zenon
<1>4. l3 \in Load /\ l3.key = l2.key /\ l3.stage = l2.stage /\ l3.waiters = l2.waiters /\ l3.entry
  <2> HIDE DEF l2
  <2>1. ASSUME NEW c \in BOOLEAN PROVE
          LET k == [l2 EXCEPT !.entry = c]
          IN  k \in Load /\ k.key = l2.key /\ k.stage = l2.stage /\ k.waiters = l2.waiters /\ k.entry = c
    BY <1>3, SMT DEF Load
  <2>2. TRUE \in BOOLEAN
    BY Zenon
  <2>3. QED
    BY <2>1, <2>2, Zenon
<1>5. /\ l4 \in Load /\ l4.key = l3.key /\ l4.stage = l3.stage /\ l4.waiters = l3.waiters
      /\ l4.entry = l3.entry /\ l4.refs = n
  <2> HIDE DEF l3
  <2>1. l3 \in Load
    BY <1>4, Zenon
  <2>2. QED
    BY <2>1, SMT DEF Load
<1>6. /\ m \in Load /\ m.key = l4.key /\ m.stage = l4.stage /\ m.waiters = l4.waiters
      /\ m.entry = l4.entry /\ m.refs = l4.refs /\ m.program = <<"cache", 0>>
  <2> HIDE DEF l4
  <2>1. QED
    BY <1>1, <1>5, OneField, ZenonT(40)
<1>7. Entered(l, n) = m
  BY Zenon DEF Entered
<1> HIDE DEF l1, l2, l3, l4, m
<1>8. QED
  BY <1>2, <1>3, <1>4, <1>5, <1>6, <1>7, Zenon

\* The list and the running total when a load enters and victims leave.
LEMMA CapacityMoves ==
  ASSUME CacheTypeOK, WithinCapacity, KeysKept, NEW f \in Loads, f \notin Cached,
         NEW v \in Victims(WeightOf[loads[f].key]),
         lru' = InFront(f, Cached \ v),
         currentWeight' = currentWeight - Weight(v) + WeightOf[loads[f].key]
  PROVE  ListTypes' /\ WithinCapacity' /\ Cached' = (Cached \ v) \cup {f}
         /\ \A e \in v : e \in Cached /\ loads[e].refs = 0
<1>1. /\ v \subseteq Cached /\ \A e \in v : loads[e].refs = 0
      /\ currentWeight + WeightOf[loads[f].key] <= MaxWeightBytes + Weight(v)
      /\ Cardinality(Cached \ v) + 1 <= MaxEntries
  BY Zenon DEF Victims, Evictable, HasRoom
<1>2. PICK S : S = Cached \ v
  BY Zenon
<1>3. S \subseteq Cached /\ lru' = InFront(f, S) /\ f \notin S
  BY <1>2, Zenon
<1>4. /\ Cached' = S \cup {f} /\ \A e \in Cached' : lru'[e] \in Nat
      /\ \A e, g \in Cached' : lru'[e] = lru'[g] => e = g
  BY <1>3, FrontOfList, Zenon
<1>5. Cached \subseteq Loads
  BY Zenon DEF CacheTypeOK
<1>6. ListTypes'
  BY <1>3, <1>4, <1>5, Zenon DEF ListTypes, KeysKept
<1>7. S \in SUBSET Loads /\ v \in SUBSET Loads /\ {f} \in SUBSET Loads /\ S \cup {f} \in SUBSET Loads
      /\ S \cup v = Cached /\ S \cap v = {} /\ S \cap {f} = {}
  BY <1>1, <1>2, <1>3, <1>5, Zenon
<1>8. /\ Weight(S \cup v) = Weight(S) + Weight(v) /\ Weight(S \cup {f}) = Weight(S) + Weight({f})
      /\ Weight({f}) = WeightOf[loads[f].key]
      /\ Weight(S) \in Nat /\ Weight(v) \in Nat /\ WeightOf[loads[f].key] \in Nat
  BY <1>7, WeightIs, Zenon
<1>9. currentWeight = Weight(S) + Weight(v)
  BY <1>7, <1>8, Zenon DEF WithinCapacity
<1>10. currentWeight' = Weight(S \cup {f}) /\ currentWeight' <= MaxWeightBytes
  BY <1>1, <1>8, <1>9
<1>11. Weight(S \cup {f})' = Weight(S \cup {f})
  BY <1>7, WeightKept, Zenon
<1>12. Weight(Cached)' = Weight(S \cup {f})'
  BY <1>4, Zenon
<1>13. Cardinality(Cached') <= MaxEntries
  <2>1. IsFiniteSet(S)
    BY <1>3, CountedFinite, FS_Subset, Zenon
  <2>2. Cardinality(S \cup {f}) = Cardinality(S) + 1
    BY <1>3, <2>1, FS_AddElement, Zenon
  <2>3. QED
    BY <1>1, <1>2, <1>4, <2>2, Zenon
<1>14. WithinCapacity'
  BY <1>4, <1>10, <1>11, <1>12, <1>13, Zenon DEF WithinCapacity
<1>15. QED
  BY <1>1, <1>2, <1>4, <1>6, <1>14, Zenon

\* completeFlight with an entry: the waiters have their pins, and what makes
\* room is nobody's.
LEMMA CompleteCachedKeeps ==
  ASSUME CacheInv, NEW f \in Loads, CompleteCached(f)
  PROVE  CacheInv'
<1>1. PICK v \in Victims(WeightOf[loads[f].key]) :
        /\ loads[f].stage = "loading" /\ ~closing
        /\ loads' = [e \in Loads |->
             IF e = f THEN Entered(loads[f], loads[f].waiters)
             ELSE IF e \in v THEN [loads[e] EXCEPT !.program = <<"load", f>>]
             ELSE loads[e]]
        /\ lru' = InFront(f, Cached \ v)
        /\ currentWeight' = currentWeight - Weight(v) + WeightOf[loads[f].key]
        /\ UNCHANGED <<active, closing, releasing, released, caller, closer>>
  BY Zenon DEF CompleteCached, Entered
<1>2. CacheTypeOK /\ WithinCapacity
  BY Zenon DEF CacheInv
<1>3. \A e \in Loads : loads[e] \in Load /\ loads[e].waiters \in Nat
  BY <1>2, LoadIs, Zenon
<1>4. ~Finished(f) /\ ~loads[f].entry /\ f \notin Cached
  <2>1. ~Finished(f)
    BY <1>1, Zenon DEF Finished
  <2>2. LoadSound(f)
    BY Zenon DEF CacheInv, LoadsSound
  <2>3. QED
    BY <2>1, <2>2, Zenon DEF LoadSound
<1>5. <<"load", f>> \in Owner
  <2>1. f \in 1..MaxLoads
    BY <1>2, LoadIs, Zenon
  <2>2. QED
    BY <2>1, Zenon DEF Owner
<1> DEFINE r == Entered(loads[f], loads[f].waiters)
<1>6. /\ r \in Load /\ r.key = loads[f].key /\ r.stage = "evicting" /\ r.waiters = loads[f].waiters
      /\ r.refs = loads[f].waiters /\ r.entry /\ r.program = <<"cache", 0>>
  BY <1>3, EnteredIs, Zenon
<1> DEFINE Left(e) == [loads[e] EXCEPT !.program = <<"load", f>>]
<1>7. \A e \in Loads :
        /\ Left(e) \in Load /\ Left(e).key = loads[e].key /\ Left(e).stage = loads[e].stage
        /\ Left(e).waiters = loads[e].waiters /\ Left(e).refs = loads[e].refs
        /\ Left(e).entry = loads[e].entry /\ Left(e).program = <<"load", f>>
  <2>1. ASSUME NEW e \in Loads PROVE
          /\ Left(e) \in Load /\ Left(e).key = loads[e].key /\ Left(e).stage = loads[e].stage
          /\ Left(e).waiters = loads[e].waiters /\ Left(e).refs = loads[e].refs
          /\ Left(e).entry = loads[e].entry /\ Left(e).program = <<"load", f>>
    <3>1. loads[e] \in Load
      BY <1>3, Zenon
    <3>2. QED
      BY <1>5, <3>1, OneField, ZenonT(40)
  <2>2. QED
    BY <2>1, Zenon
<1>8. loads' = [e \in Loads |-> IF e = f THEN r ELSE IF e \in v THEN Left(e) ELSE loads[e]]
  BY <1>1, Zenon
<1> HIDE DEF r, Left
<1>9. loads' \in [Loads -> Load]
  BY <1>3, <1>6, <1>7, <1>8, Zenon
<1>10. LoadTypes' /\ Loads' = Loads
  <2>1. PICK g : g = loads'
    BY Zenon
  <2>2. g \in [Loads -> Load] /\ loads' = g
    BY <1>9, <2>1, Zenon
  <2>3. QED
    BY <1>2, <2>2, EveryLoad, Zenon
<1>11. loads'[f] = r /\ \A e \in Loads : e # f => loads'[e] = IF e \in v THEN Left(e) ELSE loads[e]
  BY <1>8, Zenon
<1>12. \A e \in Loads :
         /\ loads'[e].key = loads[e].key /\ loads'[e].waiters = loads[e].waiters
         /\ e # f => /\ loads'[e].stage = loads[e].stage /\ loads'[e].refs = loads[e].refs
                     /\ loads'[e].entry = loads[e].entry /\ (Finished(e)' <=> Finished(e))
  BY <1>6, <1>7, <1>11 DEF Finished
<1>13. KeysKept
  BY <1>10, <1>12, Zenon DEF KeysKept
<1>14. ListTypes' /\ WithinCapacity' /\ Cached' = (Cached \ v) \cup {f}
       /\ \A e \in v : e \in Cached /\ loads[e].refs = 0
  BY <1>1, <1>2, <1>4, <1>13, CapacityMoves, Zenon
<1>15. Finished(f)'
  BY <1>6, <1>11, Zenon DEF Finished
<1>16. Flights' = Flights \ {f} /\ f \in Flights /\ Live' = Live
  BY <1>1, <1>4, <1>6, <1>10, <1>11, <1>12, <1>15 DEF Flights, Live
<1>17. CloseSound'
  BY <1>1, <1>2, CloseFrame, Zenon DEF CacheInv
<1>18. \A e \in v : e # f /\ loads[e].entry /\ Users(e) = {}
  <2>1. ASSUME NEW e \in v PROVE e # f /\ loads[e].entry /\ Users(e) = {}
    <3>1. e \in Cached /\ e \in Loads /\ loads[e].refs = 0
      BY <1>14, Rest, Zenon
    <3>2. loads[e].entry /\ loads[e].refs = Cardinality(Users(e)) /\ IsFiniteSet(Users(e))
      BY <1>2, <3>1, Rest, CountedFinite, Zenon DEF CacheInv, LoadsSound, LoadSound
    <3>3. QED
      BY <1>4, <3>1, <3>2, FS_EmptySet, Zenon
  <2>2. QED
    BY <2>1, Zenon
<1>19. LoadsSound'
  <2>1. LoadSound(f)'
    BY <1>6, <1>11, <1>14, <1>15 DEF LoadSound
  <2>2. ASSUME NEW e \in Loads, e # f, e \in v PROVE LoadSound(e)'
    <3>1. loads'[e].program = <<"load", f>> /\ e \notin Cached' /\ f \in Loads' /\ loads'[f].stage = "evicting"
      BY <1>6, <1>7, <1>10, <1>11, <1>14, <2>2, Zenon
    <3>2. Finished(e)'
      BY <1>12, <1>18, <2>2, Zenon DEF CacheInv, LoadsSound, LoadSound
    <3>3. /\ \A g \in 1..MaxLoads : loads'[e].program = <<"load", g>> => g = f
          /\ loads'[e].program # <<"cache", 0>> /\ loads'[e].program # <<"pending", 0>>
          /\ \A k \in Closes : loads'[e].program # <<"close", k>>
      BY <3>1
    <3>4. QED
      BY <3>1, <3>2, <3>3, Zenon DEF LoadSound
  <2>3. ASSUME NEW e \in Loads, e # f, e \notin v PROVE LoadSound(e)'
    <3>1. LoadSound(e) /\ loads'[e] = loads[e] /\ (Finished(e)' <=> Finished(e)) /\ (e \in Cached' <=> e \in Cached)
      BY <1>11, <1>12, <1>14, <2>3, Zenon DEF CacheInv, LoadsSound
    <3>2. closing' = closing /\ closer' = closer
      BY <1>1, Zenon
    <3>3. \A g \in Loads : loads[g].stage = "evicting" => loads'[g].stage = "evicting"
      BY <1>6, <1>11, <1>12, Zenon
    <3>4. QED
      BY <1>10, <3>1, <3>2, <3>3, Zenon DEF LoadSound
  <2>4. QED
    BY <1>10, <2>1, <2>2, <2>3, Zenon DEF LoadsSound
<1>20. \A e \in Loads : loads'[e].entry => loads'[e].refs = Cardinality(Users(e))
  <2>1. loads[f].waiters = Cardinality(Users(f))
    BY <1>16, Zenon DEF CacheInv, Accounted
  <2>2. QED
    BY <1>6, <1>11, <1>12, <2>1, Rest, Zenon
<1>21. ASSUME NEW a \in Callers, caller[a].pc \in {"await", "leased"}, loads'[caller[a].load].entry
       PROVE  caller[a].load \in Cached'
  <2>1. PICK e : e = caller[a].load
    BY Zenon
  <2>2. e \in Loads /\ (loads[e].entry => e \in Cached) /\ loads'[e].entry /\ a \in Users(e)
    BY <1>21, <2>1, Rest, ZenonT(40) DEF Users
  <2>3. e \notin v
    BY <1>18, <2>2, Zenon
  <2>4. QED
    BY <1>12, <1>14, <2>1, <2>2, <2>3, Zenon
<1>22. \A e \in Loads : loads[e].entry => loads'[e].entry
  BY <1>4, <1>12, Zenon
<1>23. Flights' \subseteq Flights /\ Cached' \cup Flights' \subseteq Cached \cup Flights
  BY <1>14, <1>16, Zenon
<1>24. UNCHANGED <<active, closing, releasing, released, caller, closer>>
  BY <1>1, Zenon
<1>25. QED
  BY <1>10, <1>12, <1>13, <1>14, <1>16, <1>17, <1>19, <1>20, <1>21, <1>22, <1>23, <1>24, Rest, LoadStep, Zenon

\* The owners that can be told apart.
LEMMA OwnersDiffer ==
  ASSUME NEW g, NEW k
  PROVE  /\ <<"cache", 0>> # <<"load", g>> /\ <<"pending", 0>> # <<"load", g>> /\ <<"closed", 0>> # <<"load", g>>
         /\ <<"cache", 0>> # <<"close", k>> /\ <<"pending", 0>> # <<"close", k>>
         /\ <<"closed", 0>> # <<"close", k>> /\ <<"load", g>> # <<"close", k>>
         /\ <<"none", 0>> # <<"close", k>> /\ <<"none", 0>> # <<"load", g>>
         /\ <<"cache", 0>> # <<"pending", 0>> /\ <<"cache", 0>> # <<"closed", 0>>
         /\ <<"pending", 0>> # <<"closed", 0>> /\ <<"none", 0>> # <<"pending", 0>>
         /\ <<"none", 0>> # <<"cache", 0>> /\ <<"none", 0>> # <<"closed", 0>>
         /\ \A h : <<"load", g>> = <<"load", h>> => g = h
         /\ \A j : <<"close", k>> = <<"close", j>> => j = k
BY Zenon

\* Nobody is counted, so nobody is inside.
LEMMA AllOut ==
  ASSUME CacheInv, active = 0
  PROVE  /\ \A a \in Callers : caller[a].pc = "idle"
         /\ \A f \in Loads : loads[f].stage = "gone" /\ \A g \in 1..MaxLoads : loads[f].program # <<"load", g>>
<1>1. \A a \in Callers : caller[a].pc = "idle"
  BY CallerBusy, Zenon
<1>2. \A f \in Loads : loads[f].stage = "gone"
  BY LoadBusy, Zenon
<1>3. \A f \in Loads : LoadSound(f)
  BY Zenon DEF CacheInv, LoadsSound
<1>4. QED
  BY <1>1, <1>2, <1>3, Zenon DEF LoadSound

\* cancelFlightsLocked changes the shape of no load.
LEMMA CancelIs ==
  ASSUME CacheTypeOK
  PROVE  /\ CancelFlights(loads) \in [Loads -> Load]
         /\ \A e \in Loads : LET l == CancelFlights(loads)[e]
              IN  /\ l.key = loads[e].key /\ l.stage = loads[e].stage /\ l.waiters = loads[e].waiters
                  /\ l.refs = loads[e].refs /\ l.entry = loads[e].entry /\ l.program = loads[e].program
<1>1. DOMAIN loads = Loads
  BY SMT DEF CacheTypeOK, Loads
<1> DEFINE Cut(e) == [loads[e] EXCEPT !.cancelled = TRUE]
<1>2. ASSUME NEW e \in Loads
      PROVE  /\ loads[e] \in Load /\ Cut(e) \in Load
             /\ Cut(e).key = loads[e].key /\ Cut(e).stage = loads[e].stage
             /\ Cut(e).waiters = loads[e].waiters /\ Cut(e).refs = loads[e].refs
             /\ Cut(e).entry = loads[e].entry /\ Cut(e).program = loads[e].program
  <2>1. loads[e] \in Load
    BY LoadIs, Zenon
  <2>2. QED
    BY <2>1, OneField, Zenon
<1>3. CancelFlights(loads) = [e \in Loads |-> IF e \in Flights THEN Cut(e) ELSE loads[e]]
  BY <1>1, Zenon DEF CancelFlights
<1> HIDE DEF Cut
<1>4. CancelFlights(loads) \in [Loads -> Load]
  BY <1>2, <1>3, Zenon
<1>5. \A e \in Loads : CancelFlights(loads)[e] = IF e \in Flights THEN Cut(e) ELSE loads[e]
  BY <1>3, Zenon
<1> HIDE DEF CancelFlights
<1>6. QED
  BY <1>2, <1>4, <1>5, Zenon

\* What LoadStep asks of a step that leaves the loads and the list alone but for
\* cancellations.
LEMMA ShapeStep ==
  ASSUME CacheInv, caller' = caller, SameShape, LoadTypes',
         \A f \in Loads : loads'[f].waiters = loads[f].waiters /\ loads'[f].refs = loads[f].refs,
         lru' = lru, currentWeight' = currentWeight, active' = active,
         CloseSound', closing => closing', closing' \in BOOLEAN, releasing' = releasing,
         released' = released, closer' \in [Closes -> CloserStates],
         \A k \in Closes : closer[k] = "releasing" => closer'[k] = "releasing"
  PROVE  CacheInv'
<1>1. CacheTypeOK /\ LoadsSound /\ SingleFlight /\ WithinCapacity /\ Cached' = Cached
  BY Zenon DEF CacheInv, Cached
<1>2. LoadsSound' /\ KeysKept /\ Live' = Live /\ Flights' = Flights
  BY <1>1, ShapeKeeps, Zenon
<1>3. ListTypes' /\ WithinCapacity'
  BY <1>1, <1>2, CapacityFrame, Zenon
<1>4. Loads' = Loads /\ \A f \in Loads : loads'[f].entry = loads[f].entry
  BY Zenon DEF SameShape
<1>5. QED
  BY <1>1, <1>2, <1>3, <1>4, Rest, LoadStep, Zenon

\* Close, under the first lock of its loop.
LEMMA LookKeeps ==
  ASSUME CacheInv, NEW k \in Closes, Look(k)
  PROVE  CacheInv'
<1> DEFINE s == IF released THEN "done" ELSE IF releasing THEN "awaitRelease"
                ELSE IF active > 0 THEN "awaitDrain" ELSE "drained"
<1>1. /\ closer[k] \in {"idle", "look"} /\ closing' = (closing \/ ~released)
      /\ loads' = IF closing \/ released THEN loads ELSE CancelFlights(loads)
      /\ closer' = [closer EXCEPT ![k] = s]
      /\ UNCHANGED <<lru, currentWeight, active, releasing, released, caller>>
  BY Zenon DEF Look
<1>2. CacheTypeOK /\ CloseSound
  BY Zenon DEF CacheInv
<1>3. /\ closing \in BOOLEAN /\ active \in Nat /\ releasing \in BOOLEAN /\ released \in BOOLEAN
      /\ closer \in [Closes -> CloserStates]
  BY Rest, Zenon
<1>4. SameShape /\ LoadTypes'
      /\ \A f \in Loads : loads'[f].waiters = loads[f].waiters /\ loads'[f].refs = loads[f].refs
  <2>1. CASE closing \/ released
    <3>1. loads' = loads
      BY <1>1, <2>1, Zenon
    <3>2. QED
      BY <1>2, <3>1, TypesAre, Zenon DEF SameShape, Loads, LoadTypes
  <2>2. CASE ~(closing \/ released)
    <3>1. PICK g : g = CancelFlights(loads)
      BY Zenon
    <3>2. g \in [Loads -> Load] /\ loads' = g
      BY <1>1, <1>2, <2>2, <3>1, CancelIs, Zenon
    <3>3. LoadTypes' /\ Loads' = Loads
      BY <1>2, <3>2, EveryLoad, Zenon
    <3>4. \A e \in Loads :
            /\ g[e].key = loads[e].key /\ g[e].stage = loads[e].stage /\ g[e].waiters = loads[e].waiters
            /\ g[e].refs = loads[e].refs /\ g[e].entry = loads[e].entry /\ g[e].program = loads[e].program
      BY <1>2, <3>1, CancelIs, Zenon
    <3>5. QED
      BY <3>2, <3>3, <3>4, Zenon DEF SameShape
  <2>3. QED
    BY <2>1, <2>2, Zenon
<1>5. s \in CloserStates /\ s # "releasing" /\ (s = "drained" => active = 0 /\ ~released)
      /\ (s = "awaitDrain" => ~released)
  <2>1. s \in CloserStates /\ s # "releasing" /\ (s = "drained" => ~(active > 0) /\ ~released)
        /\ (s = "awaitDrain" => ~released)
    BY Zenon DEF CloserStates
  <2> HIDE DEF s
  <2>2. ~(active > 0) => active = 0
    BY <1>3, SMT
  <2>3. QED
    BY <2>1, <2>2, Zenon
<1> HIDE DEF s
<1>6. closer' \in [Closes -> CloserStates] /\ closer'[k] = s /\ \A j \in Closes : j # k => closer'[j] = closer[j]
  BY <1>1, <1>3, <1>5, Zenon
<1>7. closing' \in BOOLEAN /\ (closing => closing') /\ (~released => closing')
  BY <1>1, Zenon
<1>8. CloseSound'
  <2>1. releasing' = releasing /\ released' = released /\ active' = active /\ closer[k] # "releasing"
    BY <1>1, Zenon
  <2>2. \A j \in Closes : closer'[j] = "releasing" <=> closer[j] = "releasing"
    BY <1>5, <1>6, <2>1, Zenon
  <2>3. Loads' = Loads /\ \A f \in Loads : loads'[f].program = loads[f].program
    BY <1>4, Zenon DEF SameShape
  <2>4. \A j \in Closes : closer'[j] \in {"awaitDrain", "drained"} => closing'
    BY <1>2, <1>5, <1>6, <1>7, Zenon DEF CloseSound
  <2>5. \A j \in Closes : closer'[j] = "drained" => active' = 0
    BY <1>2, <1>5, <1>6, <2>1, Zenon DEF CloseSound
  <2>6. QED
    BY <1>2, <1>7, <2>1, <2>2, <2>3, <2>4, <2>5, Zenon DEF CloseSound
<1>9. \A j \in Closes : closer[j] = "releasing" => closer'[j] = "releasing"
  BY <1>1, <1>6, Zenon
<1>10. UNCHANGED <<lru, currentWeight, active, releasing, released, caller>>
  BY <1>1, Zenon
<1>11. QED
  BY <1>4, <1>6, <1>7, <1>8, <1>9, <1>10, ShapeStep

\* A Close call gives up waiting.
LEMMA GiveUpKeeps ==
  ASSUME CacheInv, NEW k \in Closes, GiveUp(k)
  PROVE  CacheInv'
<1>1. /\ closer[k] \in {"awaitRelease", "awaitDrain"} /\ closer' = [closer EXCEPT ![k] = "done"]
      /\ UNCHANGED <<loads, lru, currentWeight, active, closing, releasing, released, caller>>
  BY Zenon DEF GiveUp
<1>2. CacheTypeOK /\ CloseSound /\ closer \in [Closes -> CloserStates] /\ closing \in BOOLEAN
  BY Rest, Zenon DEF CacheInv
<1>3. SameShape /\ LoadTypes'
      /\ \A f \in Loads : loads'[f].waiters = loads[f].waiters /\ loads'[f].refs = loads[f].refs
  BY <1>1, <1>2, TypesAre, Zenon DEF SameShape, Loads, LoadTypes
<1>4. closer' \in [Closes -> CloserStates] /\ closer'[k] = "done" /\ \A j \in Closes : j # k => closer'[j] = closer[j]
  BY <1>1, <1>2, Zenon DEF CloserStates
<1>5. CloseSound'
  <2>1. \A j \in Closes : /\ closer'[j] = "releasing" <=> closer[j] = "releasing"
                          /\ closer'[j] \in {"awaitDrain", "drained"} => closer'[j] = closer[j]
    BY <1>1, <1>4, Zenon
  <2>2. UNCHANGED <<loads, active, closing, releasing, released>> /\ Loads' = Loads
    BY <1>1, Zenon DEF Loads
  <2>3. /\ \A j \in Closes : closer'[j] \in {"awaitDrain", "drained"} => closing
        /\ \A j \in Closes : closer'[j] = "drained" => active = 0
    BY <1>2, <2>1, Zenon DEF CloseSound
  <2>4. QED
    BY <1>2, <2>1, <2>2, <2>3, Zenon DEF CloseSound
<1>6. \A j \in Closes : closer[j] = "releasing" => closer'[j] = "releasing"
  BY <1>1, <1>4, Zenon
<1>7. UNCHANGED <<lru, currentWeight, active, closing, releasing, released, caller>>
  BY <1>1, Zenon
<1>8. QED
  BY <1>2, <1>3, <1>4, <1>5, <1>6, <1>7, ShapeStep

\* A load keeps all but the owner of its Program.
SameButOwner(m, l) ==
  /\ m.key = l.key /\ m.stage = l.stage /\ m.waiters = l.waiters
  /\ m.refs = l.refs /\ m.entry = l.entry

\* closePrograms: what an owner has is closed or pending, and nothing else moves.
LEMMA ClosedIs ==
  ASSUME NEW ls \in [Loads -> Load], NEW o, NEW failed
  PROVE  /\ Closed(ls, o, failed) \in [Loads -> Load]
         /\ \A e \in Loads :
              /\ SameButOwner(Closed(ls, o, failed)[e], ls[e])
              /\ Closed(ls, o, failed)[e].program =
                   IF ls[e].program # o THEN ls[e].program
                   ELSE IF e \in failed THEN <<"pending", 0>> ELSE <<"closed", 0>>
<1>1. <<"pending", 0>> \in Owner /\ <<"closed", 0>> \in Owner
  BY Zenon DEF Owner
<1> DEFINE To(e) == IF e \in failed THEN <<"pending", 0>> ELSE <<"closed", 0>>
           Handed(e) == [ls[e] EXCEPT !.program = To(e)]
<1>2. ASSUME NEW e \in Loads
      PROVE  Handed(e) \in Load /\ SameButOwner(Handed(e), ls[e]) /\ Handed(e).program = To(e)
  <2>1. ls[e] \in Load /\ To(e) \in Owner
    BY <1>1, Zenon
  <2> HIDE DEF To
  <2>2. QED
    BY <2>1, OneField, ZenonT(40) DEF SameButOwner
<1>3. Closed(ls, o, failed) = [e \in Loads |-> IF ls[e].program # o THEN ls[e] ELSE Handed(e)]
  BY Zenon DEF Closed
<1> HIDE DEF Handed, To
<1>4. Closed(ls, o, failed) \in [Loads -> Load]
  BY <1>2, <1>3, Zenon
<1>5. ASSUME NEW e \in Loads
      PROVE  /\ SameButOwner(Closed(ls, o, failed)[e], ls[e])
             /\ Closed(ls, o, failed)[e].program = IF ls[e].program # o THEN ls[e].program ELSE To(e)
  <2>1. Closed(ls, o, failed)[e] = IF ls[e].program # o THEN ls[e] ELSE Handed(e)
    BY <1>3, Zenon
  <2>2. SameButOwner(ls[e], ls[e])
    BY Zenon DEF SameButOwner
  <2> HIDE DEF Closed
  <2>3. CASE ls[e].program # o
    BY <2>1, <2>2, <2>3, Zenon
  <2>4. CASE ls[e].program = o
    BY <1>2, <2>1, <2>4, Zenon
  <2>5. QED
    BY <2>3, <2>4, Zenon
<1>6. QED
  BY <1>4, <1>5, Zenon DEF To

\* Programs change hands when nobody is inside: callers and counts are not
\* concerned.
LEMMA HandedStep ==
  ASSUME CacheInv, active = 0, UNCHANGED <<active, closing, caller>>,
         NEW ls \in [Loads -> Load], loads' = ls, \A e \in Loads : SameButOwner(ls[e], loads[e]),
         Cached' \subseteq Cached, ListTypes', WithinCapacity', LoadsSound', CloseSound',
         releasing' \in BOOLEAN, released' \in BOOLEAN, closer' \in [Closes -> CloserStates]
  PROVE  CacheInv'
<1>1. CacheTypeOK
  BY Zenon DEF CacheInv
<1>2. LoadTypes' /\ Loads' = Loads
  BY <1>1, EveryLoad, Zenon
<1>3. \A e \in Loads : /\ loads'[e].key = loads[e].key /\ loads'[e].stage = loads[e].stage
                       /\ loads'[e].waiters = loads[e].waiters /\ loads'[e].refs = loads[e].refs
                       /\ loads'[e].entry = loads[e].entry
  BY Zenon DEF SameButOwner
<1>4. KeysKept /\ Flights' = Flights /\ Live' = Live
  BY <1>2, <1>3, Zenon DEF KeysKept, Flights, Finished, Live
<1>5. \A a \in Callers : caller[a].pc \notin {"await", "leased"}
  BY AllOut, Zenon
<1>6. caller' = caller /\ active' = active /\ closing' = closing
  BY Zenon
<1>7. QED
  BY <1>2, <1>3, <1>4, <1>5, <1>6, Rest, LoadStep, Zenon

\* Close has released what it could.
LEMMA ReleaseEndsKeeps ==
  ASSUME CacheInv, NEW k \in Closes, ReleaseEnds(k)
  PROVE  CacheInv'
<1>1. PICK failed :
        /\ closer[k] = "releasing" /\ loads' = Closed(loads, <<"close", k>>, failed)
        /\ releasing' = FALSE /\ released' = (released \/ failed = {})
        /\ closer' = [Woken("awaitRelease", "look") EXCEPT ![k] = "done"]
        /\ UNCHANGED <<lru, currentWeight, active, closing, caller>>
  BY Zenon DEF ReleaseEnds
<1>2. CacheTypeOK /\ CloseSound /\ closer \in [Closes -> CloserStates] /\ released \in BOOLEAN
  BY Rest, Zenon DEF CacheInv
<1>3. releasing /\ closing /\ active = 0
  BY <1>1, <1>2, Zenon DEF CloseSound
<1>4. loads \in [Loads -> Load]
  BY <1>2, SMT DEF CacheTypeOK, Loads
<1>5. PICK ls : ls = Closed(loads, <<"close", k>>, failed)
  BY Zenon
<1>6. /\ ls \in [Loads -> Load] /\ loads' = ls
      /\ \A e \in Loads :
           /\ SameButOwner(ls[e], loads[e])
           /\ ls[e].program = IF loads[e].program # <<"close", k>> THEN loads[e].program
                              ELSE IF e \in failed THEN <<"pending", 0>> ELSE <<"closed", 0>>
  BY <1>1, <1>4, <1>5, ClosedIs
<1>7. /\ closer' \in [Closes -> CloserStates]
      /\ \A j \in Closes : closer'[j] = IF j = k THEN "done"
                                        ELSE IF closer[j] = "awaitRelease" THEN "look" ELSE closer[j]
  BY <1>1, <1>2, Zenon DEF Woken, CloserStates
<1>8. Loads' = Loads
  BY <1>2, <1>6, EveryLoad, ZenonT(40)
<1>9. \A e \in Loads :
        /\ loads[e].program \in {<<"none", 0>>, <<"closed", 0>>, <<"close", k>>}
        /\ LoadSound(e)
  <2>1. ASSUME NEW e \in Loads PROVE loads[e].program \in {<<"none", 0>>, <<"closed", 0>>, <<"close", k>>}
    <3>1. loads[e].program \in Owner
      BY <1>2, LoadIs, Zenon
    <3>2. loads[e].program \notin {<<"cache", 0>>, <<"pending", 0>>}
      BY <1>2, <1>3, Zenon DEF CloseSound
    <3>3. \A g \in 1..MaxLoads : loads[e].program # <<"load", g>>
      BY <1>3, AllOut, Zenon
    <3>4. \A j \in Closes : loads[e].program = <<"close", j>> => j = k
      BY <1>1, <1>2, Zenon DEF CacheInv, LoadsSound, LoadSound, CloseSound
    <3>5. CASE loads[e].program \in {"load"} \X (1..MaxLoads)
      BY <3>3, <3>5
    <3>6. CASE loads[e].program \in {"close"} \X Closes
      BY <3>4, <3>6
    <3>7. QED
      BY <3>1, <3>2, <3>5, <3>6, Zenon DEF Owner
  <2>2. QED
    BY <2>1, Zenon DEF CacheInv, LoadsSound
<1>10. \A e \in Loads : ls[e].program \in {<<"none", 0>>, <<"closed", 0>>, <<"pending", 0>>}
                          /\ (failed = {} => ls[e].program # <<"pending", 0>>)
  <2>1. <<"none", 0>> # <<"pending", 0>> /\ <<"closed", 0>> # <<"pending", 0>>
    BY OwnersDiffer, Zenon
  <2>2. QED
    BY <1>6, <1>9, <2>1, Zenon
<1>11. released => \A e \in Loads : ls[e].program \in {<<"none", 0>>, <<"closed", 0>>}
  <2>1. <<"none", 0>> # <<"close", k>> /\ <<"closed", 0>> # <<"close", k>>
    BY OwnersDiffer, Zenon
  <2>2. QED
    BY <1>2, <1>6, <2>1, Zenon DEF CloseSound
<1>12. LoadsSound'
  <2>1. ASSUME NEW e \in Loads PROVE LoadSound(e)'
    <3>1. \A g, j : /\ ls[e].program # <<"cache", 0>> /\ ls[e].program # <<"load", g>>
                    /\ ls[e].program # <<"close", j>>
      BY <1>10, OwnersDiffer, Zenon
    <3>2. e \notin Cached
      BY <1>9, OwnersDiffer, Zenon DEF LoadSound
    <3>3. Cached' = Cached /\ closing'
      BY <1>1, <1>3, Zenon DEF Cached
    <3>4. Finished(e) /\ Finished(e)'
      <4>1. loads[e].stage = "gone"
        BY <1>3, AllOut, Zenon
      <4>2. ls[e].stage = "gone"
        BY <1>6, <4>1, Zenon DEF SameButOwner
      <4>3. QED
        BY <1>6, <4>1, <4>2, Zenon DEF Finished
    <3>5. QED
      BY <1>6, <3>1, <3>2, <3>3, <3>4, Zenon DEF LoadSound
  <2>2. QED
    BY <1>8, <2>1, Zenon DEF LoadsSound
<1>13. CloseSound'
  <2>1. \A j \in Closes : closer'[j] # "releasing"
    BY <1>1, <1>2, <1>7, Zenon DEF CloseSound
  <2>2. released' => \A e \in Loads' : loads'[e].program \in {<<"none", 0>>, <<"closed", 0>>}
    BY <1>1, <1>6, <1>8, <1>10, <1>11, Zenon
  <2>3. closing' /\ active' = 0 /\ ~releasing'
    BY <1>1, <1>3, Zenon
  <2>4. QED
    BY <2>1, <2>2, <2>3, Zenon DEF CloseSound
<1>14. KeysKept
  BY <1>6, <1>8, Zenon DEF KeysKept, SameButOwner
<1>15. ListTypes' /\ WithinCapacity' /\ Cached' = Cached
  BY <1>1, <1>2, <1>14, CapacityFrame, Zenon DEF CacheInv, Cached
<1>16. releasing' \in BOOLEAN /\ released' \in BOOLEAN
  BY <1>1, Zenon
<1>17. UNCHANGED <<active, closing, caller>>
  BY <1>1, Zenon
<1>18. QED
  BY <1>3, <1>6, <1>7, <1>12, <1>13, <1>15, <1>16, <1>17, HandedStep, SMTT(30)

\* Close takes what the cache holds, or finds that another call is doing so.
LEMMA DetachKeeps ==
  ASSUME CacheInv, NEW k \in Closes, Detach(k)
  PROVE  CacheInv'
<1>1. closer[k] = "drained" /\ UNCHANGED <<active, closing, released, caller>>
  BY Zenon DEF Detach
<1>2. CacheTypeOK /\ CloseSound /\ closer \in [Closes -> CloserStates]
      /\ releasing \in BOOLEAN /\ released \in BOOLEAN /\ closing \in BOOLEAN
  BY Rest, Zenon DEF CacheInv
<1>3. closing /\ active = 0
  BY <1>1, <1>2, Zenon DEF CloseSound
<1>4. CASE releasing
  <2>1. closer' = [closer EXCEPT ![k] = "look"] /\ UNCHANGED <<loads, lru, currentWeight, releasing>>
    BY <1>4, Zenon DEF Detach
  <2>2. SameShape /\ LoadTypes'
        /\ \A f \in Loads : loads'[f].waiters = loads[f].waiters /\ loads'[f].refs = loads[f].refs
    BY <1>2, <2>1, TypesAre, Zenon DEF SameShape, Loads, LoadTypes
  <2>3. closer' \in [Closes -> CloserStates] /\ closer'[k] = "look" /\ \A j \in Closes : j # k => closer'[j] = closer[j]
    BY <1>2, <2>1, Zenon DEF CloserStates
  <2>4. CloseSound'
    <3>1. \A j \in Closes : closer'[j] = "releasing" <=> closer[j] = "releasing"
      BY <1>1, <2>3, Zenon
    <3>2. UNCHANGED <<loads, active, closing, releasing, released>> /\ Loads' = Loads
      BY <1>1, <2>1, Zenon DEF Loads
    <3>3. closing' /\ active' = 0
      BY <1>1, <1>3, Zenon
    <3>4. QED
      BY <1>2, <3>1, <3>2, <3>3, Zenon DEF CloseSound
  <2>5. \A j \in Closes : closer[j] = "releasing" => closer'[j] = "releasing"
    BY <1>1, <2>3, Zenon
  <2>6. QED
    BY <1>1, <1>2, <2>1, <2>2, <2>3, <2>4, <2>5, ShapeStep, SMTT(30)
<1>5. CASE ~releasing
  <2> DEFINE Held == {<<"cache", 0>>, <<"pending", 0>>}
             Taken(e) == [loads[e] EXCEPT !.program = <<"close", k>>]
  <2>1. /\ loads' = [e \in Loads |-> IF loads[e].program \in Held THEN Taken(e) ELSE loads[e]]
        /\ lru' = <<>> /\ currentWeight' = 0 /\ releasing' = TRUE
        /\ closer' = [closer EXCEPT ![k] = "releasing"]
    BY <1>5, Zenon DEF Detach
  <2>2. <<"close", k>> \in Owner
    BY SMT DEF Owner
  <2>3. ASSUME NEW e \in Loads
        PROVE  /\ loads[e] \in Load /\ Taken(e) \in Load /\ SameButOwner(Taken(e), loads[e])
               /\ SameButOwner(loads[e], loads[e]) /\ Taken(e).program = <<"close", k>>
    <3>1. loads[e] \in Load
      BY <1>2, LoadIs, Zenon
    <3>2. QED
      BY <2>2, <3>1, OneField, ZenonT(40) DEF SameButOwner
  <2>4. PICK ls : ls = loads'
    BY Zenon
  <2> HIDE DEF Taken
  <2>5. ls \in [Loads -> Load] /\ loads' = ls
    BY <2>1, <2>3, <2>4, Zenon
  <2>6. \A e \in Loads : ls[e] = IF loads[e].program \in Held THEN Taken(e) ELSE loads[e]
    BY <2>1, <2>4, Zenon
  <2>7. \A e \in Loads : /\ SameButOwner(ls[e], loads[e])
                         /\ ls[e].program = IF loads[e].program \in Held THEN <<"close", k>>
                                            ELSE loads[e].program
    BY <2>3, <2>6, Zenon
  <2>8. Loads' = Loads
    BY <1>2, <2>5, EveryLoad, Zenon
  <2>9. Cached' = {}
    <3>1. DOMAIN lru' = {}
      BY <2>1
    <3>2. QED
      BY <3>1, Zenon DEF Cached
  <2>10. KeysKept
    BY <2>5, <2>7, <2>8, Zenon DEF KeysKept, SameButOwner
  <2>11. ListTypes' /\ WithinCapacity'
    <3>1. {} \in SUBSET Loads
      BY Zenon
    <3>2. Weight({})' = Weight({})
      BY <2>10, <3>1, WeightKept, Zenon
    <3>3. Weight({}) = 0
      BY <1>2, WeightIs, Zenon
    <3>4. Weight(Cached)' = 0
      BY <2>9, <3>2, <3>3, Zenon
    <3>5. Cardinality(Cached') = 0
      BY <2>9, FS_EmptySet, Zenon
    <3>6. ListTypes'
      BY <2>9, Zenon DEF ListTypes
    <3>7. currentWeight' = 0 /\ 0 <= MaxWeightBytes /\ 0 <= MaxEntries
      BY <2>1
    <3>8. QED
      BY <2>9, <3>4, <3>5, <3>6, <3>7, Zenon DEF WithinCapacity
  <2>12. closer' \in [Closes -> CloserStates] /\ closer'[k] = "releasing"
         /\ \A j \in Closes : j # k => closer'[j] = closer[j] /\ closer'[j] # "releasing"
    BY <1>2, <1>5, <2>1, Zenon DEF CloserStates, CloseSound
  <2>13. \A e \in Loads : ls[e].program \notin Held
    BY <2>7, OwnersDiffer, Zenon
  <2>14. LoadsSound'
    <3>1. ASSUME NEW e \in Loads PROVE LoadSound(e)'
      <4>1. LoadSound(e)
        BY Zenon DEF CacheInv, LoadsSound
      <4>2. loads[e].stage = "gone" /\ \A g \in 1..MaxLoads : loads[e].program # <<"load", g>>
        BY <1>3, AllOut, Zenon
      <4>3. Finished(e)'
        BY <2>5, <2>7, <4>2, Zenon DEF Finished, SameButOwner
      <4>4. \A g \in 1..MaxLoads : ls[e].program # <<"load", g>>
        BY <2>7, <4>2, OwnersDiffer, ZenonT(40)
      <4>5. \A j \in Closes : ls[e].program = <<"close", j>> => closer'[j] = "releasing"
        <5>1. ASSUME NEW j \in Closes, ls[e].program = <<"close", j>>, j # k PROVE FALSE
          <6>1. <<"close", k>> # <<"close", j>>
            BY <5>1, OwnersDiffer, Zenon
          <6>2. loads[e].program = <<"close", j>>
            BY <2>7, <5>1, <6>1, Zenon
          <6>3. closer[j] = "releasing"
            BY <4>1, <6>2, Zenon DEF LoadSound
          <6>4. QED
            BY <2>12, <5>1, <6>3, Zenon
        <5>2. QED
          BY <2>12, <5>1, Zenon
      <4>6. ls[e].program # <<"cache", 0>> /\ ls[e].program # <<"pending", 0>> /\ e \notin Cached'
        BY <2>9, <2>13, Zenon
      <4>7. QED
        BY <2>5, <4>3, <4>4, <4>5, <4>6, Zenon DEF LoadSound
    <3>2. QED
      BY <2>8, <3>1, Zenon DEF LoadsSound
  <2>15. CloseSound'
    <3>1. releasing' /\ closing' /\ active' = 0 /\ released' = released
      BY <1>1, <1>3, <2>1, Zenon
    <3>2. released => \A e \in Loads : ls[e].program \in {<<"none", 0>>, <<"closed", 0>>}
      <4>1. <<"none", 0>> \notin Held /\ <<"closed", 0>> \notin Held
        BY OwnersDiffer, Zenon
      <4>2. QED
        BY <1>2, <2>7, <4>1, Zenon DEF CloseSound
    <3>3. released' => \A e \in Loads' : loads'[e].program \in {<<"none", 0>>, <<"closed", 0>>}
      BY <2>5, <2>8, <3>1, <3>2, Zenon
    <3>4. \A e \in Loads' : loads'[e].program \notin {<<"cache", 0>>, <<"pending", 0>>}
      BY <2>5, <2>8, <2>13, Zenon
    <3>5. \A i, j \in Closes : closer'[i] = "releasing" /\ closer'[j] = "releasing" => i = j
      BY <2>12, Zenon
    <3>6. QED
      BY <2>12, <3>1, <3>3, <3>4, <3>5, Zenon DEF CloseSound
  <2>16. releasing' \in BOOLEAN /\ released' \in BOOLEAN
    BY <1>1, <1>2, <2>1, Zenon
  <2>17. UNCHANGED <<active, closing, caller>> /\ Cached' \subseteq Cached
    BY <1>1, <2>9, Zenon
  <2>18. QED
    BY <1>3, <2>5, <2>7, <2>11, <2>12, <2>14, <2>15, <2>16, <2>17, HandedStep, SMTT(30)
<1>6. QED
  BY <1>2, <1>4, <1>5, Zenon

\* A load goroutine closes the Programs it was left with and is gone.
LEMMA CloseEvictedKeeps ==
  ASSUME CacheInv, NEW f \in Loads, CloseEvicted(f)
  PROVE  CacheInv'
<1>1. PICK failed :
        /\ loads[f].stage = "evicting"
        /\ loads' = [Closed(IF failed # {} THEN CancelFlights(loads) ELSE loads, <<"load", f>>, failed)
                       EXCEPT ![f].stage = "gone"]
        /\ closing' = (closing \/ failed # {}) /\ End
        /\ UNCHANGED <<lru, currentWeight, releasing, released, caller>>
  BY Zenon DEF CloseEvicted
<1>2. CacheTypeOK /\ CloseSound
  BY Zenon DEF CacheInv
<1>3. PICK x : x = IF failed # {} THEN CancelFlights(loads) ELSE loads
  BY Zenon
<1>4. /\ x \in [Loads -> Load]
      /\ \A e \in Loads : SameButOwner(x[e], loads[e]) /\ x[e].program = loads[e].program
  <2>1. CASE failed # {}
    <3>1. x = CancelFlights(loads)
      BY <1>3, <2>1, Zenon
    <3>2. QED
      BY <1>2, <3>1, CancelIs, Zenon DEF SameButOwner
  <2>2. CASE failed = {}
    <3>1. x = loads
      BY <1>3, <2>2, Zenon
    <3>2. loads \in [Loads -> Load]
      BY <1>2, SMT DEF CacheTypeOK, Loads
    <3>3. QED
      BY <3>1, <3>2, Zenon DEF SameButOwner
  <2>3. QED
    BY <2>1, <2>2, Zenon
<1>5. PICK y : y = Closed(x, <<"load", f>>, failed)
  BY Zenon
<1>6. /\ y \in [Loads -> Load]
      /\ \A e \in Loads :
           /\ SameButOwner(y[e], x[e])
           /\ y[e].program = IF x[e].program # <<"load", f>> THEN x[e].program
                             ELSE IF e \in failed THEN <<"pending", 0>> ELSE <<"closed", 0>>
  BY <1>4, <1>5, ClosedIs, SMTT(30)
<1> DEFINE r == [y[f] EXCEPT !.stage = "gone"]
<1>7. loads' = [y EXCEPT ![f] = r]
  BY <1>1, <1>3, <1>5, Zenon
<1>8. /\ r \in Load /\ r.key = y[f].key /\ r.stage = "gone" /\ r.waiters = y[f].waiters
      /\ r.refs = y[f].refs /\ r.entry = y[f].entry /\ r.program = y[f].program
  <2>1. y[f] \in Load /\ "gone" \in Stages
    BY <1>6, Zenon DEF Stages
  <2>2. QED
    BY <2>1, OneField, Zenon
<1> HIDE DEF r
<1>9. loads' \in [Loads -> Load] /\ loads'[f] = r /\ \A e \in Loads : e # f => loads'[e] = y[e]
  BY <1>6, <1>7, <1>8, Zenon
<1>10. LoadTypes' /\ Loads' = Loads
  <2>1. PICK g : g = loads'
    BY Zenon
  <2>2. g \in [Loads -> Load] /\ loads' = g
    BY <1>9, <2>1, Zenon
  <2>3. QED
    BY <1>2, <2>2, EveryLoad, Zenon
<1>11. \A e \in Loads :
         /\ loads'[e].key = loads[e].key /\ loads'[e].waiters = loads[e].waiters
         /\ loads'[e].refs = loads[e].refs /\ loads'[e].entry = loads[e].entry
         /\ loads'[e].stage = IF e = f THEN "gone" ELSE loads[e].stage
         /\ loads'[e].program = IF loads[e].program # <<"load", f>> THEN loads[e].program
                                ELSE IF e \in failed THEN <<"pending", 0>> ELSE <<"closed", 0>>
  <2>1. ASSUME NEW e \in Loads
        PROVE  /\ loads'[e].key = y[e].key /\ loads'[e].waiters = y[e].waiters
               /\ loads'[e].refs = y[e].refs /\ loads'[e].entry = y[e].entry
               /\ loads'[e].stage = IF e = f THEN "gone" ELSE y[e].stage
               /\ loads'[e].program = y[e].program
    BY <1>8, <1>9, SMTT(40)
  <2>2. QED
    BY <1>4, <1>6, <2>1 DEF SameButOwner
<1>12. KeysKept /\ Flights' = Flights /\ Live' = Live \ {f} /\ f \in Live
  BY <1>1, <1>10, <1>11 DEF KeysKept, Flights, Finished, Live
<1>13. ListTypes' /\ WithinCapacity' /\ Cached' = Cached
  BY <1>1, <1>2, <1>12, CapacityFrame, Zenon DEF CacheInv, Cached
<1>14. active # 0 /\ (closing => closing') /\ closing' \in BOOLEAN /\ (failed # {} => closing')
  BY <1>1, LoadBusy, Zenon
<1>15. /\ CloseSound' /\ active' \in Nat /\ active' = active - 1 /\ closer' \in [Closes -> CloserStates]
       /\ \A k \in Closes : closer[k] = "releasing" => closer'[k] = "releasing"
  BY <1>1, <1>2, <1>14, EndFrame, Zenon DEF CloserStates
<1>16. active' = Cardinality(Inside) + Cardinality(Live')
  <2>1. IsFiniteSet(Live) /\ Cardinality(Live) \in Nat /\ Cardinality(Inside) \in Nat
    BY <1>2, CountedFinite, Zenon
  <2>2. Cardinality(Live') = Cardinality(Live) - 1
    BY <1>12, <2>1, FS_RemoveElement, Zenon
  <2>3. active = Cardinality(Inside) + Cardinality(Live)
    BY Rest, Zenon
  <2>4. QED
    BY <1>15, <2>1, <2>2, <2>3
<1>17. LoadsSound'
  <2>1. ASSUME NEW e \in Loads PROVE LoadSound(e)'
    <3>1. LoadSound(e)
      BY Zenon DEF CacheInv, LoadsSound
    <3>2. Finished(e)' <=> Finished(e)
      BY <1>1, <1>11, Zenon DEF Finished
    <3>3. CASE loads[e].program = <<"load", f>>
      <4>1. loads'[e].program \in {<<"pending", 0>>, <<"closed", 0>>} /\ (loads'[e].program = <<"pending", 0>> => closing')
        <5>1. <<"pending", 0>> # <<"closed", 0>>
          BY OwnersDiffer, Zenon
        <5>2. QED
          BY <1>11, <1>14, <3>3, <5>1, Zenon
      <4>2. \A g, j : loads'[e].program # <<"cache", 0>> /\ loads'[e].program # <<"load", g>> /\ loads'[e].program # <<"close", j>>
        BY <4>1, OwnersDiffer, Zenon
      <4>3. loads[e].program # <<"cache", 0>> /\ loads[e].program # <<"none", 0>>
        BY <3>3, OwnersDiffer, Zenon
      <4>4. e \notin Cached /\ Finished(e)
        BY <3>1, <4>3, Zenon DEF LoadSound
      <4>5. QED
        BY <1>13, <3>2, <4>1, <4>2, <4>4, Zenon DEF LoadSound
    <3>4. CASE loads[e].program # <<"load", f>>
      <4>1. loads'[e].program = loads[e].program /\ loads'[e].entry = loads[e].entry
        BY <1>11, <3>4, Zenon
      <4>2. \A g \in 1..MaxLoads : loads[e].program = <<"load", g>> =>
              g \in Loads' /\ loads'[g].stage = "evicting"
        BY <1>10, <1>11, <3>1, <3>4, Zenon DEF LoadSound
      <4>3. QED
        BY <1>13, <1>14, <1>15, <3>1, <3>2, <4>1, <4>2, SMTT(30) DEF LoadSound
    <3>5. QED
      BY <3>3, <3>4, Zenon
  <2>2. QED
    BY <1>10, <2>1, Zenon DEF LoadsSound
<1>18. UNCHANGED <<releasing, released, caller>>
  BY <1>1, Zenon
<1>19. QED
  BY <1>10, <1>11, <1>12, <1>13, <1>14, <1>15, <1>16, <1>17, <1>18, Rest, LoadStep, Zenon

-----------------------------------------------------------------------------
(* The theorems.                                                           *)

\* The cache as it is made has nothing in it.
LEMMA CacheStart == CacheInit => CacheInv
<1> SUFFICES ASSUME CacheInit PROVE CacheInv
  BY Zenon
<1>1. Loads = {} /\ Cached = {} /\ Flights = {} /\ Live = {} /\ Inside = {}
  <2>1. Len(loads) = 0 /\ DOMAIN lru = {}
    BY SMT DEF CacheInit
  <2>2. Loads = {}
    BY <2>1, SMT DEF Loads
  <2>3. QED
    BY <2>1, <2>2, Zenon DEF Cached, Flights, Live, Inside, CacheInit
<1>2. CacheTypeOK
  <2>1. caller \in [Callers -> [pc : {"idle", "begun", "await", "leased", "ending"},
                                key : Keys \cup {NoKey}, load : 0..MaxLoads]]
    BY SMT DEF CacheInit
  <2>2. loads \in Seq(Load) /\ Len(loads) <= MaxLoads /\ active \in Nat
    BY SMT DEF CacheInit
  <2>3. QED
    BY <1>1, <2>1, <2>2, Zenon DEF CacheInit, CacheTypeOK
<1>3. Accounted
  <2>1. active = Cardinality(Inside) + Cardinality(Live)
    BY <1>1, FS_EmptySet, SMT DEF CacheInit
  <2>2. QED
    BY <1>1, <2>1, Zenon DEF Accounted, Inside, Live
<1>4. WithinCapacity
  <2>1. Weight({}) = 0
    BY <1>2, WeightIs, Zenon
  <2>2. currentWeight = 0 /\ 0 <= MaxWeightBytes /\ 0 <= MaxEntries
    BY SMT DEF CacheInit
  <2>3. Cardinality(Cached) = 0
    BY <1>1, FS_EmptySet, Zenon
  <2>4. QED
    BY <1>1, <2>1, <2>2, <2>3, Zenon DEF WithinCapacity
<1>5. SingleFlight /\ LoadsSound /\ WaitersCounted
  BY <1>1, Zenon DEF SingleFlight, LoadsSound, WaitersCounted
<1>6. CallersSound /\ CloseSound
  BY <1>1, Zenon DEF CallersSound, CallerSound, CloseSound, CacheInit
<1>7. QED
  BY <1>2, <1>3, <1>4, <1>5, <1>6, Zenon DEF CacheInv

\* Every step keeps what the locked sections rely on.
LEMMA CacheStep == CacheInv /\ [CacheNext]_cacheVars => CacheInv'
<1> SUFFICES ASSUME CacheInv, [CacheNext]_cacheVars PROVE CacheInv'
  BY Zenon
<1>1. CASE \E a \in Callers : CallerNext(a)
  BY <1>1, BeginKeeps, RefusedKeeps, HitKeeps, JoinKeeps, StartLoadKeeps, CollectKeeps, AbandonKeeps,
     EndAcquireKeeps, ReleaseKeeps, SMTT(30) DEF CallerNext
<1>2. CASE \E f \in Loads : LoadNext(f)
  BY <1>2, LoadGetsSlotKeeps, CompleteUncachedKeeps, CompleteCachedKeeps, CloseEvictedKeeps, Zenon
     DEF LoadNext, Complete
<1>3. CASE \E k \in Closes : CloseNext(k)
  BY <1>3, LookKeeps, DetachKeeps, ReleaseEndsKeeps, GiveUpKeeps, Zenon DEF CloseNext
<1>4. CASE UNCHANGED cacheVars
  <2>1. UNCHANGED <<loads, lru, currentWeight, active, closing, releasing, released, caller, closer>>
    BY <1>4, Zenon DEF cacheVars
  <2>2. SameShape /\ LoadTypes'
        /\ \A f \in Loads : loads'[f].waiters = loads[f].waiters /\ loads'[f].refs = loads[f].refs
    BY <2>1, TypesAre, Zenon DEF SameShape, Loads, LoadTypes, CacheInv
  <2>3. CloseSound'
    <3>1. CloseSound /\ Loads' = Loads
      BY <2>1, Zenon DEF CacheInv, Loads
    <3>2. QED
      BY <2>1, <3>1, Zenon DEF CloseSound
  <2>4. QED
    BY <2>1, <2>2, <2>3, Rest, ShapeStep, Zenon
<1>5. QED
  BY <1>1, <1>2, <1>3, <1>4, Zenon DEF CacheNext

\* The strengthened invariant holds throughout.
LEMMA CacheAlways == CacheSpec => []CacheInv
BY CacheStart, CacheStep, PTL DEF CacheSpec

\* Whatever loads, waiters that give up, evictions and Close do to each other:
\* the counts of the cache are exact, a leased Program stays open, the limits
\* hold with a running total that is the real one, and a key has one load.
THEOREM CacheHolds == CacheSpec => []CacheInvariant
<1>1. CacheInv => CacheInvariant
  <2> SUFFICES ASSUME CacheInv PROVE CacheInvariant
    BY Zenon
  <2>1. LeasePinsProgram
    <3>1. ASSUME NEW a \in Callers, caller[a].pc = "leased"
          PROVE  caller[a].load \in Cached /\ loads[caller[a].load].program = <<"cache", 0>>
      <4>1. CallerSound(a)
        BY Zenon DEF CacheInv, CallersSound
      <4>2. caller[a].load \in Loads /\ caller[a].load \in Cached
        BY <3>1, <4>1, Zenon DEF CallerSound
      <4>3. LoadSound(caller[a].load)
        BY <4>2, Zenon DEF CacheInv, LoadsSound
      <4>4. QED
        BY <4>2, <4>3, Zenon DEF LoadSound
    <3>2. QED
      BY <3>1, Zenon DEF LeasePinsProgram
  <2>2. QED
    BY <2>1, Zenon DEF CacheInv, CacheInvariant
<1>2. QED
  BY <1>1, CacheAlways, PTL

\* No compiled Program is lost between loads, failed closes and Close.
THEOREM NothingEverLeaked == CacheSpec => []NothingLeaked
<1>1. CacheInv => NothingLeaked
  <2> SUFFICES ASSUME CacheInv PROVE NothingLeaked
    BY Zenon
  <2>1. OwnedBy(<<"pending", 0>>) # {} => closing
    BY Zenon DEF CacheInv, LoadsSound, LoadSound, OwnedBy
  <2>2. QED
    BY <2>1, Zenon DEF CacheInv, CloseSound, NothingLeaked
<1>2. QED
  BY <1>1, CacheAlways, PTL

=============================================================================
