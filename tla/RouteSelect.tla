---------------------------- MODULE RouteSelect ----------------------------
(***************************************************************************)
(* internal/routing and the Route checks of internal/model: the weighted   *)
(* choice of one Target of a Route from the hash of the affinity key.      *)
(* The SHA-256 of the key is an arbitrary number below HashSize.           *)
(***************************************************************************)
EXTENDS Integers, Sequences, FiniteSetsExt

CONSTANTS
    HashSize,       \* 2^64: the number of values of the first eight bytes
    Total,          \* model.TotalRouteWeightBasisPoints, 10000
    Routes          \* the lists of Targets an operator may write

\* model.RouteTarget; Version IDs are numbered in their order.
Target == [version : Nat, generation : Nat, weight : Nat]

ASSUME SizesAssumption == HashSize \in Nat \ {0} /\ Total \in Nat \ {0}

ASSUME RoutesAssumption == Routes \subseteq Seq(Target)

\* The running sum of the weights, from the first Target on: total in
\* validateRouteTargets, cumulative in targetForBucket.
Cumulative(targets) ==
    LET upper[i \in 0..Len(targets)] == IF i = 0 THEN 0 ELSE upper[i - 1] + targets[i].weight
    IN  upper

\* validateRouteTargets, for an enabled Route: a Target is named by its
\* Version and generation, and the weights total exactly Total. The sum of at
\* most MaxRouteTargets (32) weights is far from the width of its uint32.
validateRouteTargets(targets) ==
    /\ targets # <<>>
    /\ \A i \in DOMAIN targets : targets[i].weight \in 1..Total
    /\ \A i, j \in DOMAIN targets :
        i # j => <<targets[i].version, targets[i].generation>> # <<targets[j].version, targets[j].generation>>
    /\ Cumulative(targets)[Len(targets)] = Total

\* The high word of u * Total.
bucketFromHash(u) == (u * Total) \div HashSize

\* Mutation: Targets are ordered by generation only.
compareGenerations(l, r) == l.generation < r.generation

compareTargets(l, r) ==
    l.version < r.version \/ (l.version = r.version /\ l.generation < r.generation)

\* slices.SortFunc: the Targets in an order compareTargets allows.
Sorted(targets) ==
    LET order == CHOOSE p \in Bijection(DOMAIN targets, DOMAIN targets) :
                    \A i, j \in DOMAIN targets : i < j => ~compareTargets(targets[p[j]], targets[p[i]])
    IN  [i \in DOMAIN targets |-> targets[order[i]]]

NoTarget == [version |-> 0, generation |-> 0, weight |-> 0]

\* The first Target whose cumulative weight exceeds the bucket.
targetForBucket(targets, bucket) ==
    LET Hits == {i \in DOMAIN targets : bucket < Cumulative(targets)[i]}
    IN  IF Hits = {} THEN NoTarget ELSE targets[Min(Hits)]

\* selectServing on a validated Route: the Targets are sorted first.
selectServing(targets, u) == targetForBucket(Sorted(targets), bucketFromHash(u))

\* The same Targets, listed from the last to the first.
Reversed(targets) == [i \in DOMAIN targets |-> targets[Len(targets) + 1 - i]]

\* selectServing is exact on a list of Targets: every hash is routed to a Target
\* of the Route, so that its last error is out of reach; each Target receives its
\* share weight / Total of the hashes, to within one hash; and the order in which
\* the Targets are listed makes no difference.
RouteExact(targets) ==
    LET Hashes == 0..(HashSize - 1)
        served == [u \in Hashes |-> selectServing(targets, u)]
        Excess(t) == Cardinality({u \in Hashes : served[u] = t}) * Total - t.weight * HashSize
    IN  /\ \A u \in Hashes : /\ served[u] \in Range(targets)
                             /\ served[u] = selectServing(Reversed(targets), u)
        /\ \A t \in Range(targets) : -Total < Excess(t) /\ Excess(t) < Total

\* Whatever valid Route it is given, selectServing is exact.
RoutesExact == \A targets \in Routes : validateRouteTargets(targets) => RouteExact(targets)
=============================================================================
