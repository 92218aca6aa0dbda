----------------------------- MODULE MCGateway -----------------------------
(* Small instances of Gateway. *)
EXTENDS Gateway, SequencesExt

CONSTANTS t1, t2, k1, k2

\* Two generations of one Version, and one of them alone.
Split == <<[version |-> 1, generation |-> 2, weight |-> 2], [version |-> 1, generation |-> 1, weight |-> 1]>>
Single == <<[version |-> 1, generation |-> 1, weight |-> 3]>>
Old == [version |-> 1, generation |-> 1]
New == [version |-> 1, generation |-> 2]
ViewOf(token, enabled, route, target) ==
    [token |-> token, enabled |-> enabled, targets |-> route, target |-> target]

\* Three replicas of one Target; two Targets; the second without a replica;
\* a disabled Trigger.
SomeViews ==
    {ViewOf(Public, TRUE, Single, [e \in 1..3 |-> Old]),
     ViewOf(t1, TRUE, Split, 1 :> Old @@ 3 :> Old @@ 4 :> New),
     ViewOf(t2, TRUE, Split, 1 :> Old),
     ViewOf(t2, FALSE, Single, <<>>)}

\* The two keys fall in the two intervals of Split, and swap at revision 2.
SomeHash ==
    [n \in 1..3 |-> IF n = 2 THEN (k1 :> 7 @@ k2 :> 2) ELSE (k1 :> 0 @@ k2 :> 3)]

\* Every Route of up to three Targets of two Versions and two generations.
AllRoutes ==
    BoundedSeq([version : {1, 2}, generation : {1, 2}, weight : 1..Total], 3)

Symmetry == Permutations(Requests)
=============================================================================
