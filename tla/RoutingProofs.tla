--------------------------- MODULE RoutingProofs ---------------------------
(***************************************************************************)
(* TLAPS proofs about the way of a request: the choice of a Target by      *)
(* weight, the discovery that tells a Gateway what to serve, and the       *)
(* Gateway that routes to it.                                              *)
(***************************************************************************)
EXTENDS ServingDiscovery, Gateway, FiniteSetTheorems, TLAPS

-----------------------------------------------------------------------------
(***************************************************************************)
(* Route selection: for any number of hashes, any total of the weights and *)
(* any valid Route, every hash has a Target, every Target its share, and   *)
(* the order in which the Targets are listed makes no difference.          *)
(***************************************************************************)

\* A set of numbers has a smallest one.
LEMMA Smallest ==
    ASSUME NEW T \in SUBSET Nat, T # {}
    PROVE  \E x \in T : \A y \in T : x <= y
<1> DEFINE R == {ss \in Nat \X Nat : ss[1] < ss[2]}
<1>1. OpToRel(<, Nat) = R
  BY Zenon DEF OpToRel
<1>2. IsWellFoundedOn(R, Nat)
  BY <1>1, NatLessThanWellFounded, Zenon
<1>3. PICK x \in T : \A y \in T : ~(<<y, x>> \in R)
  <2> HIDE DEF R
  <2> QED BY <1>2, WFMin, Zenon
<1>4. ASSUME NEW y \in T PROVE x <= y
  <2>1. x \in Nat /\ y \in Nat
    BY Zenon
  <2>2. ~(y < x)
    BY <1>3, <2>1, Zenon
  <2> QED BY <2>1, <2>2
<1> QED BY <1>4, Zenon

\* Every list of weights has its running sums (the loops of validateRouteTargets
\* and of targetForBucket).
LEMMA CumulativeIs ==
    ASSUME NEW t, NEW n \in Nat, Len(t) = n, \A i \in 1..n : t[i].weight \in Nat
    PROVE  /\ Cumulative(t)[0] = 0
           /\ \A i \in 1..n : Cumulative(t)[i] = Cumulative(t)[i - 1] + t[i].weight
           /\ \A i \in 0..n : Cumulative(t)[i] \in Nat
<1> DEFINE Sums(f, k) == f = [i \in 0..k |-> IF i = 0 THEN 0 ELSE f[i - 1] + t[i].weight]
           Without == {k \in 0..n : ~\E f : Sums(f, k)}
<1>1. \E f : Sums(f, n)
  <2> SUFFICES ASSUME Without # {} PROVE FALSE
    <3>1. n \in 0..n OBVIOUS
    <3>2. n \notin Without BY Zenon
    <3> HIDE DEF Sums
    <3> QED BY <3>1, <3>2, Zenon
  <2>1. PICK k \in Without : \A j \in Without : k <= j
    <3>1. Without \in SUBSET Nat OBVIOUS
    <3> HIDE DEF Without
    <3> QED BY <3>1, Smallest, Zenon
  <2>2. k # 0
    <3> SUFFICES ASSUME k = 0 PROVE FALSE BY Zenon
    <3>1. Sums([i \in 0..0 |-> 0], 0) OBVIOUS
    <3> QED BY <3>1, <2>1, Zenon
  <2>3. k \in 1..n /\ k - 1 \in 0..n /\ ~(k <= k - 1) BY <2>1, <2>2
  <2>4. PICK f : Sums(f, k - 1) BY <2>1, <2>3, Zenon
  <2> DEFINE g == [i \in 0..k |-> IF i = k THEN f[k - 1] + t[k].weight ELSE f[i]]
  <2>5. ASSUME NEW i \in 0..k PROVE g[i] = IF i = 0 THEN 0 ELSE g[i - 1] + t[i].weight
    <3>1. CASE i = k
      <4>1. k - 1 \in 0..k /\ k - 1 # k /\ k \in 0..k BY <2>3
      <4>2. g[k - 1] = f[k - 1] /\ g[k] = f[k - 1] + t[k].weight BY <4>1, Zenon
      <4> HIDE DEF g
      <4> QED BY <2>2, <3>1, <4>2, Zenon
    <3>2. CASE i # k
      <4>1. i \in 0..(k - 1) /\ (i # 0 => i - 1 \in 0..k /\ i - 1 # k) BY <2>3, <3>2
      <4>2. f[i] = IF i = 0 THEN 0 ELSE f[i - 1] + t[i].weight BY <2>4, <4>1, Zenon
      <4>3. g[i] = f[i] /\ (i # 0 => g[i - 1] = f[i - 1]) BY <3>2, <4>1, Zenon
      <4> HIDE DEF g
      <4> QED BY <4>2, <4>3, Zenon
    <3> QED BY <3>1, <3>2, Zenon
  <2>6. Sums(g, k)
    <3>1. g = [i \in 0..k |-> g[i]] BY Zenon
    <3> HIDE DEF g
    <3> QED BY <2>5, <3>1, Zenon
  <2> QED BY <2>1, <2>6, Zenon
<1> DEFINE c == Cumulative(t)
<1>2. Sums(c, n) BY <1>1, Zenon DEF Cumulative
<1>3. \A i \in 0..n : c[i] = IF i = 0 THEN 0 ELSE c[i - 1] + t[i].weight
  <2> HIDE DEF c
  <2> QED BY <1>2, Zenon
<1>4. c[0] = 0 /\ \A i \in 1..n : c[i] = c[i - 1] + t[i].weight
  <2> HIDE DEF c
  <2>1. 0 \in 0..n /\ \A i \in 1..n : i \in 0..n /\ i # 0 OBVIOUS
  <2> QED BY <1>3, <2>1, Zenon
<1>5. \A i \in 0..n : c[i] \in Nat
  <2> HIDE DEF c
  <2> DEFINE Bad == {i \in 0..n : c[i] \notin Nat}
  <2> SUFFICES ASSUME Bad # {} PROVE FALSE BY Zenon
  <2>1. PICK i \in Bad : \A j \in Bad : i <= j
    <3>1. Bad \in SUBSET Nat OBVIOUS
    <3> HIDE DEF Bad
    <3> QED BY <3>1, Smallest, Zenon
  <2>2. i # 0 BY <1>4, <2>1
  <2>3. i \in 1..n /\ i - 1 \in 0..n /\ ~(i <= i - 1) BY <2>1, <2>2
  <2>4. c[i - 1] \in Nat /\ t[i].weight \in Nat BY <2>1, <2>3, Zenon
  <2>5. c[i] \in Nat BY <1>4, <2>3, <2>4
  <2> QED BY <2>1, <2>5, Zenon
<1> QED BY <1>4, <1>5, Zenon

\* The shares of the first k Targets, one element for each basis point.
Units(t, k) == {x \in (1..k) \X (1..Total) : x[2] <= t[x[1]].weight}

\* A running sum (cumulative) counts the basis points of the Targets up to it.
LEMMA UnitsCount ==
    ASSUME NEW t, NEW n \in Nat, Len(t) = n, \A i \in 1..n : t[i].weight \in 1..Total
    PROVE  \A k \in 0..n : IsFiniteSet(Units(t, k)) /\ Cardinality(Units(t, k)) = Cumulative(t)[k]
<1> DEFINE c == Cumulative(t)
           Bad == {k \in 0..n : Cardinality(Units(t, k)) # c[k]}
<1>1. /\ c[0] = 0 /\ \A i \in 1..n : c[i] = c[i - 1] + t[i].weight
      /\ \A i \in 0..n : c[i] \in Nat
  <2>1. \A i \in 1..n : t[i].weight \in Nat BY SizesAssumption
  <2> QED BY <2>1, CumulativeIs, Zenon
<1> HIDE DEF c
<1>2. \A k \in 0..n : IsFiniteSet(Units(t, k))
  <2> SUFFICES ASSUME NEW k \in 0..n PROVE IsFiniteSet(Units(t, k)) BY Zenon
  <2>1. IsFiniteSet(1..k) /\ IsFiniteSet(1..Total) BY SizesAssumption, FS_Interval
  <2>2. IsFiniteSet((1..k) \X (1..Total)) BY <2>1, FS_Product, Zenon
  <2>3. Units(t, k) \in SUBSET ((1..k) \X (1..Total)) BY Zenon DEF Units
  <2> QED BY <2>2, <2>3, FS_Subset, Zenon
<1>3. Bad = {}
  <2> SUFFICES ASSUME Bad # {} PROVE FALSE BY Zenon
  <2>1. PICK k \in Bad : \A j \in Bad : k <= j
    <3>1. Bad \in SUBSET Nat OBVIOUS
    <3> HIDE DEF Bad
    <3> QED BY <3>1, Smallest, Zenon
  <2>2. k # 0
    <3>1. 1..0 = {} OBVIOUS
    <3>2. Units(t, 0) = {} BY <3>1, Zenon DEF Units
    <3> QED BY <1>1, <2>1, <3>2, FS_EmptySet, Zenon
  <2>3. k \in 1..n /\ k - 1 \in 0..n /\ k \in Nat /\ k >= 1 /\ ~(k <= k - 1) BY <2>1, <2>2
  <2>4. Cardinality(Units(t, k - 1)) = c[k - 1] BY <2>1, <2>3, Zenon
  <2> DEFINE w == t[k].weight
             New == {k} \X (1..w)
  <2>5. w \in 1..Total /\ w \in Nat BY <2>3, SizesAssumption
  <2>6. IsFiniteSet(New) /\ Cardinality(New) = w
    <3>1. IsFiniteSet(1..w) /\ Cardinality(1..w) = w
      <4>1. 1 \in Int /\ w \in Int /\ (w = 0 \/ w >= 1) BY <2>5
      <4> HIDE DEF w
      <4>2. IsFiniteSet(1..w) /\ Cardinality(1..w) = IF 1 > w THEN 0 ELSE w - 1 + 1
        BY <4>1, FS_Interval, Zenon
      <4> QED BY <4>1, <4>2
    <3>2. IsFiniteSet({k}) /\ Cardinality({k}) = 1 BY FS_Singleton, Zenon
    <3>3. IsFiniteSet(New) /\ Cardinality(New) = 1 * w BY <3>1, <3>2, FS_Product, ZenonT(40)
    <3> HIDE DEF New, w
    <3> QED BY <2>5, <3>3
  <2>7. Units(t, k) = Units(t, k - 1) \cup New /\ Units(t, k - 1) \cap New = {}
    <3>1. \A i \in Nat : /\ i \in 1..k <=> i \in 1..(k - 1) \/ i = k
                         /\ k \notin 1..(k - 1)
      BY <2>3
    <3>2. 1..k \subseteq Nat /\ 1..(k - 1) \subseteq Nat /\ k \in Nat BY <2>3
    <3>3. \A x \in Nat : x \in 1..w <=> x \in 1..Total /\ x <= w BY <2>5, SizesAssumption
    <3>4. 1..Total \subseteq Nat /\ 1..w \subseteq Nat BY <2>5, SizesAssumption
    <3>5. \A i, x : <<i, x>> \in Units(t, k) <=> <<i, x>> \in Units(t, k - 1) \cup New
      <4> SUFFICES ASSUME NEW i, NEW x
                   PROVE  <<i, x>> \in Units(t, k) <=> <<i, x>> \in Units(t, k - 1) \cup New
        BY Zenon
      <4>1. \A m : <<i, x>> \in Units(t, m) <=> i \in 1..m /\ x \in 1..Total /\ x <= t[i].weight
        BY Zenon DEF Units
      <4>2. <<i, x>> \in New <=> i = k /\ x \in 1..w BY Zenon
      <4> QED BY <3>1, <3>2, <3>3, <3>4, <4>1, <4>2, Zenon
    <3>6. \A y \in Units(t, k) \cup (Units(t, k - 1) \cup New) : \E i, x : y = <<i, x>> BY DEF Units
    <3>7. \A y \in New : y[1] = k BY Zenon
    <3>8. \A y \in Units(t, k - 1) : y[1] \in 1..(k - 1) BY Zenon DEF Units
    <3> HIDE DEF New
    <3>9. Units(t, k) = Units(t, k - 1) \cup New
      <4>1. ASSUME NEW y \in Units(t, k) PROVE y \in Units(t, k - 1) \cup New
        <5>1. PICK i, x : y = <<i, x>> BY <3>6, Zenon
        <5> QED BY <3>5, <5>1, Zenon
      <4>2. ASSUME NEW y \in Units(t, k - 1) \cup New PROVE y \in Units(t, k)
        <5>1. PICK i, x : y = <<i, x>> BY <3>6, Zenon
        <5> QED BY <3>5, <5>1, Zenon
      <4> QED BY <4>1, <4>2, Zenon
    <3>10. Units(t, k - 1) \cap New = {} BY <2>3, <3>1, <3>7, <3>8, Zenon
    <3> QED BY <3>9, <3>10, Zenon
  <2>8. Cardinality(Units(t, k)) = c[k - 1] + w - 0
    <3> HIDE DEF New, w
    <3>1. IsFiniteSet(Units(t, k - 1)) BY <1>2, <2>3, Zenon
    <3>2. Cardinality(Units(t, k - 1) \cup New)
            = Cardinality(Units(t, k - 1)) + Cardinality(New) - Cardinality(Units(t, k - 1) \cap New)
      BY <2>6, <3>1, FS_Union, Zenon
    <3> QED BY <2>4, <2>6, <2>7, <3>2, FS_EmptySet, Zenon
  <2>9. c[k] = c[k - 1] + w /\ c[k - 1] \in Nat BY <1>1, <2>3, Zenon
  <2>10. Cardinality(Units(t, k)) = c[k]
    <3> HIDE DEF w
    <3> QED BY <2>5, <2>8, <2>9
  <2> QED BY <2>1, <2>10, Zenon
<1> QED BY <1>2, <1>3, Zenon DEF c

\* Another order of the Targets has the same total: SortFunc keeps a Route valid.
LEMMA SameTotal ==
    ASSUME NEW n \in Nat, NEW t, Len(t) = n, \A i \in 1..n : t[i].weight \in 1..Total,
           NEW p \in Bijection(1..n, 1..n), NEW s, Len(s) = n, \A i \in 1..n : s[i] = t[p[i]]
    PROVE  Cumulative(s)[n] = Cumulative(t)[n]
<1>1. p \in [1..n -> 1..n] /\ (\A i, j \in 1..n : p[i] = p[j] => i = j) /\ \A j \in 1..n : \E i \in 1..n : p[i] = j
  BY Zenon DEF Bijection, Injection, Surjection, IsInjective
<1>2. \A i \in 1..n : s[i].weight \in 1..Total BY <1>1, Zenon
<1>3. n \in 0..n OBVIOUS
<1>4. /\ IsFiniteSet(Units(s, n)) /\ Cardinality(Units(s, n)) = Cumulative(s)[n]
      /\ Cardinality(Units(t, n)) = Cumulative(t)[n]
  BY <1>2, <1>3, UnitsCount, Zenon
<1> DEFINE f == [x \in Units(s, n) |-> <<p[x[1]], x[2]>>]
<1>5. \A r, i, x : <<i, x>> \in Units(r, n) <=> i \in 1..n /\ x \in 1..Total /\ x <= r[i].weight
  BY Zenon DEF Units
<1>6. \A r : \A y \in Units(r, n) : \E i, x : y = <<i, x>> BY DEF Units
<1>7. ASSUME NEW i, NEW x, <<i, x>> \in Units(s, n)
      PROVE  f[<<i, x>>] = <<p[i], x>> /\ <<p[i], x>> \in Units(t, n) /\ i \in 1..n
  <2>1. i \in 1..n /\ x \in 1..Total /\ x <= s[i].weight BY <1>5, <1>7, Zenon
  <2>2. <<p[i], x>> \in Units(t, n) BY <1>1, <1>5, <2>1, Zenon
  <2>3. f[<<i, x>>] = <<p[i], x>> BY <1>7, Zenon
  <2> QED BY <2>1, <2>2, <2>3, Zenon
<1>8. DOMAIN f = Units(s, n) /\ f = [x \in Units(s, n) |-> f[x]] BY Zenon
<1> HIDE DEF f
<1>9. \A y \in Units(s, n) : f[y] \in Units(t, n)
  <2> SUFFICES ASSUME NEW y \in Units(s, n) PROVE f[y] \in Units(t, n) BY Zenon
  <2>1. PICK i, x : y = <<i, x>> BY <1>6, Zenon
  <2> QED BY <1>7, <2>1, Zenon
<1>10. \A y, z \in Units(s, n) : f[y] = f[z] => y = z
  <2> SUFFICES ASSUME NEW y \in Units(s, n), NEW z \in Units(s, n), f[y] = f[z] PROVE y = z BY Zenon
  <2>1. PICK i, x : y = <<i, x>> BY <1>6, Zenon
  <2>2. PICK j, w : z = <<j, w>> BY <1>6, Zenon
  <2>3. <<p[i], x>> = <<p[j], w>> /\ i \in 1..n /\ j \in 1..n
    <3>1. f[y] = <<p[i], x>> /\ i \in 1..n BY <1>7, <2>1, Zenon
    <3>2. f[z] = <<p[j], w>> /\ j \in 1..n BY <1>7, <2>2, Zenon
    <3> QED BY <3>1, <3>2, Zenon
  <2>4. p[i] = p[j] /\ x = w BY <2>3, Zenon
  <2>5. i = j BY <1>1, <2>3, <2>4, Zenon
  <2> QED BY <2>1, <2>2, <2>4, <2>5, Zenon
<1>11. \A z \in Units(t, n) : \E y \in Units(s, n) : f[y] = z
  <2> SUFFICES ASSUME NEW z \in Units(t, n) PROVE \E y \in Units(s, n) : f[y] = z BY Zenon
  <2>1. PICK j, x : z = <<j, x>> BY <1>6, Zenon
  <2>2. j \in 1..n /\ x \in 1..Total /\ x <= t[j].weight BY <1>5, <2>1, Zenon
  <2>3. PICK i \in 1..n : p[i] = j BY <1>1, <2>2, Zenon
  <2>4. <<i, x>> \in Units(s, n) BY <1>5, <2>2, <2>3, Zenon
  <2> QED BY <1>7, <2>1, <2>3, <2>4, Zenon
<1>12. f \in Bijection(Units(s, n), Units(t, n))
  <2>1. f \in [Units(s, n) -> Units(t, n)] BY <1>8, <1>9, Zenon
  <2> QED BY <1>8, <1>10, <1>11, <2>1, Zenon DEF Bijection, Injection, Surjection, IsInjective
<1>13. Cardinality(Units(t, n)) = Cardinality(Units(s, n))
  BY <1>4, <1>12, FS_Bijection, Zenon DEF ExistsBijection
<1> QED BY <1>4, <1>13, Zenon

\* compareTargets orders any two Targets with different names, one way only.
LEMMA Comparison ==
    /\ \A a, b \in Target : <<a.version, a.generation>> # <<b.version, b.generation>>
                              => compareTargets(a, b) \/ compareTargets(b, a)
    /\ \A a, b \in Target : compareTargets(a, b) => ~compareTargets(b, a)
    /\ \A a, b, c \in Target : compareTargets(a, b) /\ compareTargets(b, c) => compareTargets(a, c)
<1>1. \A a \in Target : a.version \in Nat /\ a.generation \in Nat BY Zenon DEF Target
<1>3. ASSUME NEW a \in Target, NEW b \in Target, <<a.version, a.generation>> # <<b.version, b.generation>>
      PROVE  compareTargets(a, b) \/ compareTargets(b, a)
  BY <1>1, <1>3 DEF compareTargets
<1>4. ASSUME NEW a \in Target, NEW b \in Target, compareTargets(a, b) PROVE ~compareTargets(b, a)
  BY <1>1, <1>4 DEF compareTargets
<1>5. ASSUME NEW a \in Target, NEW b \in Target, NEW c \in Target, compareTargets(a, b), compareTargets(b, c)
      PROVE  compareTargets(a, c)
  BY <1>1, <1>5 DEF compareTargets
<1> QED BY <1>3, <1>4, <1>5, Zenon

\* A list of Targets with different names.
Named(t) ==
    /\ t \in Seq(Target)
    /\ \A i, j \in 1..Len(t) :
          i # j => <<t[i].version, t[i].generation>> # <<t[j].version, t[j].generation>>

\* Such a list can be put in order: the position of a Target is the number of
\* those before it.
LEMMA OrderExists ==
    ASSUME NEW t, Named(t), NEW n \in Nat, n = Len(t)
    PROVE  \E p \in Bijection(1..n, 1..n) :
              \A i, j \in 1..n : i < j => ~compareTargets(t[p[j]], t[p[i]])
<1> DEFINE Before(i) == {j \in 1..n : compareTargets(t[j], t[i])}
           r == [i \in 1..n |-> Cardinality(Before(i)) + 1]
<1>1. \A i \in 1..n : t[i] \in Target BY DEF Named
<1>2. IsFiniteSet(1..n) /\ Cardinality(1..n) = n
  <2>1. 1 \in Int /\ n \in Int OBVIOUS
  <2>2. IsFiniteSet(1..n) /\ Cardinality(1..n) = IF 1 > n THEN 0 ELSE n - 1 + 1 BY <2>1, FS_Interval, Zenon
  <2> QED BY <2>2
<1>3. \A i \in 1..n : /\ Before(i) \in SUBSET (1..n) /\ i \notin Before(i)
                      /\ IsFiniteSet(Before(i)) /\ Cardinality(Before(i)) \in Nat
  <2> SUFFICES ASSUME NEW i \in 1..n
               PROVE  /\ Before(i) \in SUBSET (1..n) /\ i \notin Before(i)
                      /\ IsFiniteSet(Before(i)) /\ Cardinality(Before(i)) \in Nat
    BY Zenon
  <2>1. Before(i) \in SUBSET (1..n) /\ i \notin Before(i) BY <1>1, Comparison, Zenon
  <2> HIDE DEF Before
  <2> QED BY <1>2, <2>1, FS_Subset, FS_CardinalityType, Zenon
<1>4. ASSUME NEW i \in 1..n, NEW j \in 1..n, compareTargets(t[i], t[j])
      PROVE  Cardinality(Before(i)) < Cardinality(Before(j))
  <2>1. Before(i) \subseteq Before(j) /\ i \in Before(j) BY <1>1, <1>4, Comparison, Zenon
  <2> HIDE DEF Before
  <2>2. Before(i) \in SUBSET Before(j) /\ Before(i) # Before(j) BY <1>3, <2>1, Zenon
  <2>3. Cardinality(Before(i)) <= Cardinality(Before(j)) /\ Cardinality(Before(i)) # Cardinality(Before(j))
    BY <1>3, <2>2, FS_Subset, Zenon
  <2> QED BY <1>3, <2>3
<1>5. ASSUME NEW i \in 1..n PROVE Cardinality(Before(i)) + 1 \in 1..n
  <2> HIDE DEF Before
  <2>1. Before(i) \in SUBSET (1..n) /\ Before(i) # 1..n BY <1>3, Zenon
  <2>2. Cardinality(Before(i)) <= n /\ Cardinality(Before(i)) # n BY <1>2, <2>1, FS_Subset, Zenon
  <2> QED BY <1>3, <2>2
<1>6. ASSUME NEW i \in 1..n, NEW j \in 1..n, Cardinality(Before(i)) + 1 = Cardinality(Before(j)) + 1 PROVE i = j
  <2> SUFFICES ASSUME i # j PROVE FALSE BY Zenon
  <2>1. compareTargets(t[i], t[j]) \/ compareTargets(t[j], t[i]) BY <1>1, Comparison, Zenon DEF Named
  <2>2. Cardinality(Before(i)) < Cardinality(Before(j)) \/ Cardinality(Before(j)) < Cardinality(Before(i))
    BY <1>4, <2>1, Zenon
  <2> HIDE DEF Before
  <2> QED BY <1>3, <1>6, <2>2
<1>7. /\ r \in [1..n -> 1..n] /\ \A i \in 1..n : r[i] = Cardinality(Before(i)) + 1
  <2> HIDE DEF Before
  <2> QED BY <1>5, Zenon
<1> HIDE DEF r
<1>8a. ASSUME NEW i \in 1..n, NEW j \in 1..n, r[i] = r[j] PROVE i = j
  <2>1. Cardinality(Before(i)) + 1 = Cardinality(Before(j)) + 1 BY <1>7, <1>8a, Zenon
  <2> QED BY <1>6, <2>1, Zenon
<1>8. r \in Injection(1..n, 1..n)
  <2>1. DOMAIN r = 1..n BY <1>7, Zenon
  <2> QED BY <1>7, <1>8a, <2>1, Zenon DEF Injection, IsInjective
<1>9. r \in Surjection(1..n, 1..n) BY <1>2, <1>8, FS_Injection, Zenon
<1> DEFINE p == [k \in 1..n |-> CHOOSE i \in 1..n : r[i] = k]
<1>10. \A k \in 1..n : p[k] \in 1..n /\ r[p[k]] = k
  <2> SUFFICES ASSUME NEW k \in 1..n PROVE p[k] \in 1..n /\ r[p[k]] = k BY Zenon
  <2>1. \E i \in 1..n : r[i] = k BY <1>9, Zenon DEF Surjection
  <2>2. p[k] = CHOOSE i \in 1..n : r[i] = k BY Zenon
  <2> HIDE DEF p
  <2> QED BY <2>1, <2>2, Zenon
<1>11. p \in [1..n -> 1..n] /\ DOMAIN p = 1..n
  <2>1. \A k \in 1..n : (CHOOSE i \in 1..n : r[i] = k) \in 1..n BY <1>10, Zenon
  <2> QED BY <2>1, Zenon
<1> HIDE DEF p
<1>12. \A i \in 1..n : r[i] \in 1..n /\ p[r[i]] = i BY <1>7, <1>8a, <1>10, ZenonT(40)
<1>13. p \in Bijection(1..n, 1..n)
  <2>2. \A j, k \in 1..n : p[j] = p[k] => j = k BY <1>10, Zenon
  <2>3. \A i \in 1..n : \E k \in 1..n : p[k] = i BY <1>12, Zenon
  <2> QED BY <1>11, <2>2, <2>3, Zenon DEF Bijection, Injection, Surjection, IsInjective
<1>14. ASSUME NEW i \in 1..n, NEW j \in 1..n, i < j PROVE ~compareTargets(t[p[j]], t[p[i]])
  <2> SUFFICES ASSUME compareTargets(t[p[j]], t[p[i]]) PROVE FALSE BY Zenon
  <2>1. Cardinality(Before(p[j])) < Cardinality(Before(p[i])) BY <1>4, <1>10, Zenon
  <2>2. /\ Cardinality(Before(p[j])) + 1 = j /\ Cardinality(Before(p[i])) + 1 = i
        /\ Cardinality(Before(p[j])) \in Nat /\ Cardinality(Before(p[i])) \in Nat
    BY <1>3, <1>7, <1>10, Zenon
  <2> HIDE DEF Before
  <2> QED BY <1>14, <2>1, <2>2
<1> QED BY <1>13, <1>14, Zenon

\* The list s holds t's Targets in increasing order.
InOrder(s, t) ==
    /\ s \in Seq(Target) /\ Len(s) = Len(t)
    /\ {s[i] : i \in 1..Len(t)} = {t[i] : i \in 1..Len(t)}
    /\ \A i, j \in 1..Len(t) : i < j => compareTargets(s[i], s[j])

\* Sorted (slices.SortFunc) puts the Targets of a Route in order and keeps the
\* total of their weights.
LEMMA SortedIs ==
    ASSUME NEW t, Named(t)
    PROVE  /\ InOrder(Sorted(t), t)
           /\ (\A i \in 1..Len(t) : t[i].weight \in 1..Total)
                 => Cumulative(Sorted(t))[Len(t)] = Cumulative(t)[Len(t)]
<1>1. PICK n \in Nat : n = Len(t) /\ DOMAIN t = 1..n /\ \A i \in 1..n : t[i] \in Target
  <2>1. Len(t) \in Nat /\ DOMAIN t = 1..Len(t) /\ \A i \in 1..Len(t) : t[i] \in Target BY DEF Named
  <2> QED BY <2>1, Zenon
<1> DEFINE s == Sorted(t)
           Orders(q) == \A i, j \in DOMAIN t : i < j => ~compareTargets(t[q[j]], t[q[i]])
           p == CHOOSE q \in Bijection(DOMAIN t, DOMAIN t) : Orders(q)
<1>10. s = [i \in DOMAIN t |-> t[p[i]]] BY Zenon DEF Sorted
<1>2. s = [i \in 1..n |-> t[p[i]]]
  <2> HIDE DEF s, p
  <2> QED BY <1>1, <1>10, Zenon
<1>3. p \in Bijection(1..n, 1..n) /\ \A i, j \in 1..n : i < j => ~compareTargets(t[p[j]], t[p[i]])
  <2>1. \E q \in Bijection(1..n, 1..n) : \A i, j \in 1..n : i < j => ~compareTargets(t[q[j]], t[q[i]])
    BY <1>1, OrderExists, Zenon
  <2>2. \E q \in Bijection(DOMAIN t, DOMAIN t) : Orders(q) BY <1>1, <2>1, Zenon
  <2> HIDE DEF Orders
  <2>3. p \in Bijection(DOMAIN t, DOMAIN t) /\ Orders(p) BY <2>2, Zenon
  <2> HIDE DEF p
  <2> QED BY <1>1, <2>3, Zenon DEF Orders
<1> HIDE DEF s, p
<1>4. p \in [1..n -> 1..n] /\ (\A i, j \in 1..n : p[i] = p[j] => i = j) /\ \A j \in 1..n : \E i \in 1..n : p[i] = j
  BY <1>3, Zenon DEF Bijection, Injection, Surjection, IsInjective
<1>5. \A i \in 1..n : p[i] \in 1..n /\ s[i] = t[p[i]] /\ s[i] \in Target BY <1>1, <1>2, <1>4, Zenon
<1>6. s \in Seq(Target) /\ Len(s) = n
  <2>1. s \in [1..n -> Target] BY <1>2, <1>5, Zenon
  <2> QED BY <1>1, <2>1
<1>7. {s[i] : i \in 1..n} = {t[i] : i \in 1..n}
  <2>1. ASSUME NEW i \in 1..n PROVE s[i] \in {t[k] : k \in 1..n} BY <1>5, Zenon
  <2>2. ASSUME NEW i \in 1..n PROVE t[i] \in {s[k] : k \in 1..n}
    <3>1. PICK k \in 1..n : p[k] = i BY <1>4, Zenon
    <3>2. s[k] = t[i] BY <1>5, <3>1, Zenon
    <3> QED BY <3>2, Zenon
  <2> QED BY <2>1, <2>2, Zenon
<1>8. ASSUME NEW i \in 1..n, NEW j \in 1..n, i < j PROVE compareTargets(s[i], s[j])
  <2>1. i # j BY <1>1, <1>8
  <2>2. p[i] # p[j] BY <1>4, <2>1, Zenon
  <2>3. compareTargets(s[i], s[j]) \/ compareTargets(s[j], s[i]) 
    <3>1. <<t[p[i]].version, t[p[i]].generation>> # <<t[p[j]].version, t[p[j]].generation>>
      BY <1>1, <1>5, <2>2, Zenon DEF Named
    <3>2. <<s[i].version, s[i].generation>> # <<s[j].version, s[j].generation>> BY <1>5, <3>1, Zenon
    <3> QED BY <1>5, <3>2, Comparison, Zenon
  <2>4. ~compareTargets(s[j], s[i]) BY <1>3, <1>5, <1>8, Zenon
  <2> QED BY <2>3, <2>4, Zenon
<1>9. ASSUME \A i \in 1..n : t[i].weight \in 1..Total PROVE Cumulative(s)[n] = Cumulative(t)[n]
  <2>1. p \in Bijection(1..n, 1..n) /\ \A i \in 1..n : s[i] = t[p[i]] BY <1>3, <1>5, Zenon
  <2>2. Len(t) = n /\ Len(s) = n BY <1>1, <1>6, Zenon
  <2> QED BY <1>9, <2>1, <2>2, SameTotal, ZenonT(40)
<1> QED BY <1>1, <1>6, <1>7, <1>8, <1>9, Zenon DEF InOrder, s

\* There is only one such order, whatever list SortFunc started from.
LEMMA OneOrder ==
    ASSUME NEW t, NEW s, NEW r, Len(t) \in Nat, InOrder(s, t), InOrder(r, t) PROVE s = r
<1> DEFINE n == Len(t)
           Bad == {i \in 1..n : s[i] # r[i]}
<1>1. /\ DOMAIN s = 1..n /\ DOMAIN r = 1..n /\ s = [i \in 1..n |-> s[i]] /\ r = [i \in 1..n |-> r[i]]
      /\ \A i \in 1..n : s[i] \in Target /\ r[i] \in Target
  BY DEF InOrder
<1>2. /\ \A i \in 1..n : (\E j \in 1..n : r[j] = s[i]) /\ \E j \in 1..n : s[j] = r[i]
  <2>1. {s[i] : i \in 1..n} = {r[i] : i \in 1..n} BY Zenon DEF InOrder
  <2>2. ASSUME NEW i \in 1..n PROVE \E j \in 1..n : r[j] = s[i]
    <3>1. s[i] \in {s[k] : k \in 1..n} BY Zenon
    <3> QED BY <2>1, <3>1, Zenon
  <2>3. ASSUME NEW i \in 1..n PROVE \E j \in 1..n : s[j] = r[i]
    <3>1. r[i] \in {r[k] : k \in 1..n} BY Zenon
    <3> QED BY <2>1, <3>1, Zenon
  <2> QED BY <2>2, <2>3, Zenon
<1>3. Bad = {}
  <2> SUFFICES ASSUME Bad # {} PROVE FALSE BY Zenon
  <2>1. PICK k \in Bad : \A j \in Bad : k <= j
    <3>1. Bad \in SUBSET Nat OBVIOUS
    <3> HIDE DEF Bad
    <3> QED BY <3>1, Smallest, Zenon
  <2>2. PICK j \in 1..n : r[j] = s[k] BY <1>2, <2>1, Zenon
  <2>3. PICK i \in 1..n : s[i] = r[k] BY <1>2, <2>1, Zenon
  <2>4. \A m \in 1..n : m < k => s[m] = r[m]
    <3> SUFFICES ASSUME NEW m \in 1..n, m < k PROVE s[m] = r[m] BY Zenon
    <3>1. ~(k <= m) BY <2>1
    <3> QED BY <2>1, <3>1, Zenon
  <2>5. \A a, b \in 1..n : a < b => compareTargets(s[a], s[b]) /\ compareTargets(r[a], r[b]) BY Zenon DEF InOrder
  <2>6. \A a, b \in 1..n : s[a] = s[b] \/ r[a] = r[b] => a = b
    <3> SUFFICES ASSUME NEW a \in 1..n, NEW b \in 1..n, a # b PROVE s[a] # s[b] /\ r[a] # r[b] BY Zenon
    <3>1. a < b \/ b < a OBVIOUS
    <3>2. compareTargets(s[a], s[b]) \/ compareTargets(s[b], s[a]) BY <2>5, <3>1, Zenon
    <3>3. compareTargets(r[a], r[b]) \/ compareTargets(r[b], r[a]) BY <2>5, <3>1, Zenon
    <3> QED BY <1>1, <3>2, <3>3, Comparison, Zenon
  <2>7. k \in 1..n /\ s[k] # r[k] BY <2>1, Zenon
  <2>8. k < j
    <3>1. j # k BY <2>2, <2>7, Zenon
    <3>2. ~(j < k)
      <4> SUFFICES ASSUME j < k PROVE FALSE BY Zenon
      <4>1. s[j] = s[k] BY <2>2, <2>4, Zenon
      <4> QED BY <2>6, <2>7, <3>1, <4>1, Zenon
    <3> QED BY <2>7, <3>1, <3>2
  <2>9. k < i
    <3>1. i # k BY <2>3, <2>7, Zenon
    <3>2. ~(i < k)
      <4> SUFFICES ASSUME i < k PROVE FALSE BY Zenon
      <4>1. r[i] = r[k] BY <2>3, <2>4, Zenon
      <4> QED BY <2>6, <2>7, <3>1, <4>1, Zenon
    <3> QED BY <2>7, <3>1, <3>2
  <2>10. compareTargets(r[k], s[k]) /\ compareTargets(s[k], r[k]) BY <2>2, <2>3, <2>5, <2>7, <2>8, <2>9, Zenon
  <2> QED BY <1>1, <2>7, <2>10, Comparison, Zenon
<1>4. \A i \in 1..n : s[i] = r[i] BY <1>3, Zenon
<1> QED BY <1>1, <1>4, Zenon

\* The order in which the Targets are listed makes no difference once they are
\* sorted.
LEMMA ReversedSorts ==
    ASSUME NEW t, Named(t) PROVE Sorted(Reversed(t)) = Sorted(t)
<1> DEFINE n == Len(t)
           r == Reversed(t)
<1>1. n \in Nat /\ DOMAIN t = 1..n /\ \A i \in 1..n : t[i] \in Target BY DEF Named
<1>2. \A i \in 1..n : n + 1 - i \in 1..n /\ n + 1 - (n + 1 - i) = i BY <1>1
<1>3. r = [i \in 1..n |-> t[n + 1 - i]] BY <1>1, Zenon DEF Reversed
<1> HIDE DEF r
<1>4. \A i \in 1..n : r[i] = t[n + 1 - i] /\ r[i] \in Target BY <1>1, <1>2, <1>3, Zenon
<1>5. r \in Seq(Target) /\ Len(r) = n
  <2>1. r \in [1..n -> Target] BY <1>3, <1>4, Zenon
  <2> QED BY <1>1, <2>1
<1>6. Named(r)
  <2>1. \A i, j \in 1..n : i # j => n + 1 - i # n + 1 - j BY <1>1
  <2>2. ASSUME NEW i \in 1..n, NEW j \in 1..n, i # j
        PROVE  <<r[i].version, r[i].generation>> # <<r[j].version, r[j].generation>>
    <3>1. n + 1 - i # n + 1 - j /\ n + 1 - i \in 1..n /\ n + 1 - j \in 1..n BY <1>2, <2>1, <2>2, Zenon
    <3>2. <<t[n + 1 - i].version, t[n + 1 - i].generation>> # <<t[n + 1 - j].version, t[n + 1 - j].generation>>
      BY <3>1, Zenon DEF Named
    <3> QED BY <1>4, <3>2, Zenon
  <2> QED BY <1>5, <2>2, Zenon DEF Named
<1>7. {r[i] : i \in 1..n} = {t[i] : i \in 1..n}
  <2>1. ASSUME NEW i \in 1..n PROVE r[i] \in {t[k] : k \in 1..n} BY <1>2, <1>4, Zenon
  <2>2. ASSUME NEW i \in 1..n PROVE t[i] \in {r[k] : k \in 1..n}
    <3>1. n + 1 - i \in 1..n /\ r[n + 1 - i] = t[i] BY <1>2, <1>4, Zenon
    <3> QED BY <3>1, Zenon
  <2> QED BY <2>1, <2>2, Zenon
<1>8. InOrder(Sorted(t), t) BY SortedIs, Zenon
<1>9. InOrder(Sorted(r), r) BY <1>6, SortedIs, Zenon
<1>10. InOrder(Sorted(r), t) BY <1>5, <1>7, <1>9, Zenon DEF InOrder
<1> QED BY <1>1, <1>8, <1>10, OneOrder, Zenon DEF r

\* Multiplication, as in bits.Mul64, is monotone.
LEMMA Times == \A a, b, h \in Nat : a <= b => a * h <= b * h
<1> SUFFICES ASSUME NEW a \in Nat, NEW b \in Nat, NEW h \in Nat, a <= b PROVE a * h <= b * h BY Zenon
<1> QED OBVIOUS

\* What the integer division of bucketFromHash returns.
LEMMA Quotient ==
    ASSUME NEW x \in Nat, NEW h \in Nat, h # 0
    PROVE  /\ x \div h \in Nat
           /\ (x \div h) * h <= x
           /\ x < (x \div h) * h + h
OBVIOUS

\* The buckets from a on are those of the hashes with a * HashSize <= u * Total,
\* and no bucket is beyond Total (bucketFromHash).
LEMMA Bucket ==
    ASSUME NEW u \in 0..(HashSize - 1)
    PROVE  /\ bucketFromHash(u) \in Nat /\ bucketFromHash(u) < Total
           /\ \A a \in Nat : a <= bucketFromHash(u) <=> a * HashSize <= u * Total
<1> DEFINE b == bucketFromHash(u)
           x == u * Total
<1>1. HashSize \in Nat /\ HashSize # 0 /\ Total \in Nat /\ Total # 0 /\ u \in Nat /\ u < HashSize
  BY SizesAssumption
<1>2. x \in Nat BY <1>1
<1>3. b \in Nat /\ b * HashSize <= x /\ x < b * HashSize + HashSize
  <2> HIDE DEF x
  <2>1. /\ x \div HashSize \in Nat /\ (x \div HashSize) * HashSize <= x
        /\ x < (x \div HashSize) * HashSize + HashSize BY <1>1, <1>2, Quotient, Zenon
  <2>2. b = x \div HashSize BY Zenon DEF bucketFromHash, x
  <2> QED BY <2>1, <2>2, Zenon
<1> HIDE DEF b
<1>4. ASSUME NEW a \in Nat PROVE a <= b <=> a * HashSize <= x
  <2> HIDE DEF x
  <2>1. a <= b => a * HashSize <= b * HashSize BY <1>1, <1>3, Times, Zenon
  <2>2. b + 1 <= a => (b + 1) * HashSize <= a * HashSize
    <3>1. b + 1 \in Nat BY <1>3
    <3> QED BY <1>1, <3>1, Times, Zenon
  <2>3. (b + 1) * HashSize = b * HashSize + HashSize BY <1>1, <1>3
  <2>4. b * HashSize \in Nat /\ a * HashSize \in Nat BY <1>1, <1>3
  <2>5. a <= b \/ b + 1 <= a BY <1>3
  <2>6. CASE a <= b BY <1>2, <1>3, <2>1, <2>4, <2>6
  <2>7. CASE b + 1 <= a
    <3>1. ~(a <= b) BY <1>3, <2>7
    <3> DEFINE y == b * HashSize
               z == a * HashSize
    <3>2. y + HashSize <= z /\ x < y + HashSize /\ y \in Nat /\ z \in Nat BY <1>3, <2>2, <2>3, <2>4, <2>7, Zenon
    <3> HIDE DEF y, z
    <3>3. ~(z <= x) BY <1>1, <1>2, <3>2
    <3> QED BY <3>1, <3>3, Zenon DEF z
  <2> QED BY <2>5, <2>6, <2>7, Zenon
<1>5. b < Total
  <2>1. ~(Total * HashSize <= x)
    <3>1. (u + 1) * Total <= HashSize * Total
      <4>1. u + 1 \in Nat /\ u + 1 <= HashSize BY <1>1
      <4> QED BY <1>1, <4>1, Times, Zenon
    <3>2. (u + 1) * Total = x + Total /\ HashSize * Total = Total * HashSize /\ HashSize * Total \in Nat BY <1>1
    <3> HIDE DEF x
    <3> QED BY <1>1, <1>2, <3>1, <3>2
  <2>2. ~(Total <= b) BY <1>1, <1>4, <2>1, Zenon
  <2> QED BY <1>1, <1>3, <2>2
<1> QED BY <1>3, <1>4, <1>5, Zenon DEF b

\* The hashes whose bucket is a or more start at some m, and m * Total is
\* a * HashSize rounded up to a multiple of Total.
LEMMA FirstHash ==
    ASSUME NEW a \in 0..Total
    PROVE  \E m \in 0..HashSize :
              /\ a * HashSize <= m * Total /\ m * Total < a * HashSize + Total
              /\ \A u \in 0..(HashSize - 1) : a <= bucketFromHash(u) <=> m <= u
<1> DEFINE From == {m \in 0..HashSize : a * HashSize <= m * Total}
<1>1. HashSize \in Nat /\ HashSize # 0 /\ Total \in Nat /\ Total # 0 /\ a \in Nat /\ a <= Total
      /\ 0 \in 0..HashSize /\ HashSize \in 0..HashSize
  BY SizesAssumption
<1>2. HashSize \in From
  <2>1. a * HashSize <= Total * HashSize BY <1>1, Times, Zenon
  <2>2. Total * HashSize = HashSize * Total BY <1>1
  <2> QED BY <1>1, <2>1, <2>2, Zenon
<1>3. PICK m \in From : \A j \in From : m <= j
  <2>1. From \in SUBSET Nat BY <1>1
  <2> HIDE DEF From
  <2> QED BY <1>2, <2>1, Smallest, Zenon
<1>4. m \in 0..HashSize /\ a * HashSize <= m * Total BY <1>3, Zenon
<1>5. m \in Nat /\ m <= HashSize /\ m * Total \in Nat /\ a * HashSize \in Nat BY <1>1, <1>4
<1>6. m * Total < a * HashSize + Total
  <2> DEFINE y == m * Total
             z == a * HashSize
  <2>1. CASE m = 0
    <3>1. y = 0 BY <1>1, <2>1
    <3>2. z \in Nat BY <1>5, Zenon
    <3> HIDE DEF y, z
    <3>3. y < z + Total BY <1>1, <3>1, <3>2
    <3> QED BY <3>3, Zenon DEF y, z
  <2>2. CASE m # 0
    <3>1. m - 1 \in 0..HashSize /\ ~(m <= m - 1) BY <1>1, <1>5, <2>2
    <3>2. ~(a * HashSize <= (m - 1) * Total) BY <1>3, <3>1, Zenon
    <3>3. (m - 1) * Total = m * Total - Total BY <1>1, <1>5
    <3>4. ~(z <= y - Total) BY <3>2, <3>3, Zenon
    <3>5. y \in Nat /\ z \in Nat BY <1>5, Zenon
    <3> HIDE DEF y, z
    <3>6. y < z + Total BY <1>1, <3>4, <3>5
    <3> QED BY <3>6, Zenon DEF y, z
  <2> QED BY <2>1, <2>2, Zenon
<1>7. ASSUME NEW u \in 0..(HashSize - 1) PROVE a <= bucketFromHash(u) <=> m <= u
  <2>1. u \in Nat /\ u \in 0..HashSize /\ u * Total \in Nat BY <1>1
  <2>2. a <= bucketFromHash(u) <=> a * HashSize <= u * Total BY <1>1, Bucket, Zenon
  <2>3. ASSUME a * HashSize <= u * Total PROVE m <= u BY <1>3, <2>1, <2>3, Zenon
  <2>4. ASSUME m <= u PROVE a * HashSize <= u * Total
    <3>1. m * Total <= u * Total BY <1>1, <1>5, <2>1, <2>4, Times, Zenon
    <3>2. \A x, y, z \in Nat : x <= y /\ y <= z => x <= z OBVIOUS
    <3> QED BY <1>4, <1>5, <2>1, <3>1, <3>2, Zenon
  <2> QED BY <2>2, <2>3, <2>4, Zenon
<1> QED BY <1>4, <1>6, <1>7, Zenon

\* A Target of weight w that starts at bucket a receives w / Total of the hashes,
\* to within one hash.
LEMMA Share ==
    ASSUME NEW a \in Nat, NEW w \in Nat, a + w <= Total,
           NEW S, S = {u \in 0..(HashSize - 1) : a <= bucketFromHash(u) /\ ~(a + w <= bucketFromHash(u))}
    PROVE  /\ -Total < Cardinality(S) * Total - w * HashSize
           /\ Cardinality(S) * Total - w * HashSize < Total
<1>1. HashSize \in Nat /\ HashSize # 0 /\ Total \in Nat /\ Total # 0 /\ a \in 0..Total /\ a + w \in 0..Total
  BY SizesAssumption
<1>2. PICK m \in 0..HashSize :
         /\ a * HashSize <= m * Total /\ m * Total < a * HashSize + Total
         /\ \A u \in 0..(HashSize - 1) : a <= bucketFromHash(u) <=> m <= u
  BY <1>1, FirstHash, Zenon
<1>3. PICK k \in 0..HashSize :
         /\ (a + w) * HashSize <= k * Total /\ k * Total < (a + w) * HashSize + Total
         /\ \A u \in 0..(HashSize - 1) : a + w <= bucketFromHash(u) <=> k <= u
  BY <1>1, FirstHash, Zenon
<1>4. m \in Nat /\ k \in Nat /\ k <= HashSize BY <1>1
<1>5. m <= k
  <2> SUFFICES ASSUME k < m PROVE FALSE BY <1>4
  <2>1. k \in 0..(HashSize - 1) /\ ~(m <= k) /\ k <= k BY <1>1, <1>4
  <2>2. a + w <= bucketFromHash(k) /\ ~(a <= bucketFromHash(k)) BY <1>2, <1>3, <2>1, Zenon
  <2>3. bucketFromHash(k) \in Nat BY <2>1, Bucket, Zenon
  <2> QED BY <2>2, <2>3
<1>6. S = m..(k - 1)
  <2>1. ASSUME NEW u \in S PROVE u \in m..(k - 1)
    <3>1. u \in 0..(HashSize - 1) /\ m <= u /\ ~(k <= u) BY <1>2, <1>3, Zenon
    <3> QED BY <1>1, <1>4, <3>1
  <2>2. ASSUME NEW u \in m..(k - 1) PROVE u \in S
    <3>1. u \in 0..(HashSize - 1) /\ m <= u /\ ~(k <= u) BY <1>1, <1>4
    <3> QED BY <1>2, <1>3, <3>1, Zenon
  <2> QED BY <2>1, <2>2, Zenon
<1>7. Cardinality(S) = k - m
  <2>1. m \in Int /\ k - 1 \in Int BY <1>4
  <2>2. Cardinality(m..(k - 1)) = IF m > k - 1 THEN 0 ELSE (k - 1) - m + 1 BY <2>1, FS_Interval, Zenon
  <2>3. (IF m > k - 1 THEN 0 ELSE (k - 1) - m + 1) = k - m BY <1>4, <1>5
  <2> QED BY <1>6, <2>2, <2>3, Zenon
<1> DEFINE A == a * HashSize
           W == w * HashSize
           M == m * Total
           K == k * Total
<1>8. A \in Nat /\ W \in Nat /\ M \in Nat /\ K \in Nat BY <1>1, <1>4
<1>9. (a + w) * HashSize = A + W /\ (k - m) * Total = K - M BY <1>1, <1>4
<1>10. A <= M /\ M < A + Total /\ A + W <= K /\ K < A + W + Total /\ Cardinality(S) * Total = K - M
  BY <1>2, <1>3, <1>7, <1>9, Zenon
<1> HIDE DEF A, M, K, W
<1>11. -Total < K - M - W /\ K - M - W < Total BY <1>1, <1>8, <1>10
<1>12. Cardinality(S) * Total - W = K - M - W BY <1>10, Zenon
<1>13. -Total < Cardinality(S) * Total - W /\ Cardinality(S) * Total - W < Total BY <1>11, <1>12, Zenon
<1> QED BY <1>13, Zenon DEF W

\* The running sum of targetForBucket never falls.
LEMMA CumulativeRises ==
    ASSUME NEW t, NEW n \in Nat, Len(t) = n, \A i \in 1..n : t[i].weight \in Nat,
           NEW i \in 0..n
    PROVE  \A j \in 0..n : i <= j => Cumulative(t)[i] <= Cumulative(t)[j]
<1> DEFINE c == Cumulative(t)
           Bad == {j \in 0..n : i <= j /\ ~(c[i] <= c[j])}
<1>1. (\A j \in 0..n : c[j] \in Nat) /\ \A j \in 1..n : c[j] = c[j - 1] + t[j].weight
  BY CumulativeIs, Zenon
<1> HIDE DEF c
<1> SUFFICES ASSUME Bad # {} PROVE FALSE BY Zenon DEF c
<1>2. PICK k \in Bad : \A j \in Bad : k <= j
  <2>1. Bad \in SUBSET Nat OBVIOUS
  <2> HIDE DEF Bad
  <2> QED BY <2>1, Smallest, Zenon
<1>3. k \in 0..n /\ i <= k /\ ~(c[i] <= c[k]) BY <1>2, Zenon
<1>4. k # i
  <2> SUFFICES ASSUME k = i PROVE FALSE BY Zenon
  <2>1. c[i] \in Nat BY <1>1, Zenon
  <2> QED BY <1>3, <2>1
<1>5. k \in 1..n /\ k - 1 \in 0..n /\ i <= k - 1 /\ ~(k <= k - 1) BY <1>3, <1>4
<1>6. c[i] <= c[k - 1] BY <1>2, <1>5, Zenon
<1>7. c[k] = c[k - 1] + t[k].weight /\ c[i] \in Nat /\ c[k - 1] \in Nat /\ t[k].weight \in Nat BY <1>1, <1>5, Zenon
<1> QED BY <1>3, <1>6, <1>7

\* Each bucket below Total is one Target's: the one whose running sum passes it
\* first (targetForBucket).
LEMMA OneTarget ==
    ASSUME NEW s, NEW n \in Nat, s \in Seq(Target), Len(s) = n,
           \A i \in 1..n : s[i].weight \in 1..Total,
           \A i, j \in 1..n : i < j => compareTargets(s[i], s[j]),
           Cumulative(s)[n] = Total,
           NEW b \in Nat, b < Total
    PROVE  /\ \E i \in 1..n : targetForBucket(s, b) = s[i]
           /\ \A i \in 1..n : targetForBucket(s, b) = s[i]
                                 <=> Cumulative(s)[i - 1] <= b /\ ~(Cumulative(s)[i] <= b)
<1> DEFINE c == Cumulative(s)
           Hits == {i \in 1..n : b < c[i]}
<1>1. Total \in Nat /\ Total # 0 BY SizesAssumption, Zenon
<1>2. DOMAIN s = 1..n /\ \A i \in 1..n : s[i] \in Target /\ s[i].weight \in Nat BY <1>1
<1>3. c[0] = 0 /\ (\A i \in 0..n : c[i] \in Nat) /\ \A i \in 1..n : c[i] = c[i - 1] + s[i].weight
  BY <1>2, CumulativeIs, Zenon
<1>4. \A i, j \in 0..n : i <= j => c[i] <= c[j] BY <1>2, CumulativeRises, Zenon
<1>5. targetForBucket(s, b) = IF Hits = {} THEN NoTarget ELSE s[Min(Hits)]
  BY <1>2, Zenon DEF targetForBucket
<1> HIDE DEF c
<1>6. n \in Hits
  <2>1. c[n] = Total BY Zenon DEF c
  <2>2. n # 0 BY <1>1, <1>3, <2>1, Zenon
  <2>3. n \in 1..n BY <2>2
  <2> QED BY <2>1, <2>3, Zenon
<1>7. PICK k \in Hits : Min(Hits) = k /\ \A j \in Hits : k <= j
  <2>1. Hits \in SUBSET Nat OBVIOUS
  <2> HIDE DEF Hits
  <2>2. \E x \in Hits : \A y \in Hits : x <= y BY <1>6, <2>1, Smallest, Zenon
  <2> QED BY <2>2, Zenon DEF Min
<1>8. k \in 1..n /\ b < c[k] /\ targetForBucket(s, b) = s[k]
  <2>1. Hits # {} BY <1>6, Zenon
  <2>2. k \in 1..n /\ b < c[k] BY <1>7, Zenon
  <2> HIDE DEF Hits
  <2> QED BY <1>5, <1>7, <2>1, <2>2, Zenon
<1>9. c[k - 1] <= b /\ ~(c[k] <= b)
  <2>1. k - 1 \in 0..n /\ k \in 0..n /\ ~(k <= k - 1) /\ (k - 1 # 0 => k - 1 \in 1..n) BY <1>8
  <2>2. c[k - 1] \in Nat /\ c[k] \in Nat BY <1>3, <2>1, Zenon
  <2>3. k - 1 \notin Hits BY <1>7, <2>1, Zenon
  <2>4. k - 1 = 0 \/ ~(b < c[k - 1]) BY <2>1, <2>3, Zenon
  <2>5. CASE k - 1 = 0
    <3>1. c[k - 1] = 0 BY <1>3, <2>5, Zenon
    <3> QED BY <1>8, <2>2, <3>1
  <2>6. CASE ~(b < c[k - 1]) BY <1>8, <2>2, <2>6
  <2> QED BY <2>4, <2>5, <2>6, Zenon
<1>10. ASSUME NEW i \in 1..n, c[i - 1] <= b, ~(c[i] <= b) PROVE i = k
  <2>1. i - 1 \in 0..n /\ i \in 0..n /\ k \in 0..n BY <1>8
  <2>2. c[i] \in Nat /\ c[i - 1] \in Nat /\ c[k] \in Nat BY <1>3, <2>1, Zenon
  <2>3. b < c[i] BY <1>10, <2>2
  <2>4. k <= i BY <1>7, <2>3, Zenon
  <2>5. ~(k <= i - 1)
    <3> SUFFICES ASSUME k <= i - 1 PROVE FALSE BY Zenon
    <3>1. c[k] <= c[i - 1] BY <1>4, <2>1, Zenon
    <3> QED BY <1>8, <1>10, <2>2, <3>1
  <2> QED BY <1>8, <2>4, <2>5
<1>11. ASSUME NEW i \in 1..n, s[i] = s[k] PROVE i = k
  <2> SUFFICES ASSUME i # k PROVE FALSE BY Zenon
  <2>1. i < k \/ k < i BY <1>8
  <2>2. compareTargets(s[i], s[k]) \/ compareTargets(s[k], s[i]) BY <1>8, <2>1, Zenon
  <2> QED BY <1>2, <1>8, <1>11, <2>2, Comparison, Zenon
<1> QED BY <1>8, <1>9, <1>10, <1>11, Zenon DEF c

\* A valid Route is served exactly: every hash by one of its Targets, each Target
\* by its share, whatever the order the Targets are listed in (selectServing).
LEMMA ValidExact ==
    ASSUME NEW t, t \in Seq(Target), validateRouteTargets(t) PROVE RouteExact(t)
<1>1. PICK n \in Nat : n = Len(t) /\ DOMAIN t = 1..n /\ \A i \in 1..n : t[i] \in Target
  <2>1. Len(t) \in Nat /\ DOMAIN t = 1..Len(t) /\ \A i \in 1..Len(t) : t[i] \in Target OBVIOUS
  <2> QED BY <2>1, Zenon
<1>2. /\ \A i \in 1..n : t[i].weight \in 1..Total
      /\ Cumulative(t)[n] = Total
      /\ Named(t)
  BY <1>1, Zenon DEF validateRouteTargets, Named
<1> DEFINE s == Sorted(t)
           c == Cumulative(s)
           b(u) == bucketFromHash(u)
           Hashes == 0..(HashSize - 1)
           served == [u \in Hashes |-> selectServing(t, u)]
           Excess(x) == Cardinality({u \in Hashes : served[u] = x}) * Total - x.weight * HashSize
<1>3. InOrder(s, t) /\ c[n] = Total BY <1>1, <1>2, SortedIs, Zenon
<1> HIDE DEF s
<1>4. /\ s \in Seq(Target) /\ Len(s) = n /\ DOMAIN s = 1..n
      /\ {s[i] : i \in 1..n} = {t[i] : i \in 1..n}
      /\ \A i, j \in 1..n : i < j => compareTargets(s[i], s[j])
  <2>1. /\ s \in Seq(Target) /\ Len(s) = n
        /\ {s[i] : i \in 1..n} = {t[i] : i \in 1..n}
        /\ \A i, j \in 1..n : i < j => compareTargets(s[i], s[j])
    BY <1>1, <1>3, Zenon DEF InOrder
  <2>2. DOMAIN s = 1..n BY <2>1
  <2> QED BY <2>1, <2>2, Zenon
<1>5. Range(t) = {s[i] : i \in 1..n} BY <1>1, <1>4, Zenon DEF Range
<1>6. \A i \in 1..n : s[i].weight \in 1..Total
  <2> SUFFICES ASSUME NEW i \in 1..n PROVE s[i].weight \in 1..Total BY Zenon
  <2>1. s[i] \in {s[k] : k \in 1..n} BY Zenon
  <2>2. s[i] \in {t[k] : k \in 1..n} BY <1>4, <2>1, Zenon
  <2>3. PICK k \in 1..n : s[i] = t[k] BY <2>2, Zenon
  <2> QED BY <1>2, <2>3, Zenon
<1>7. \A u \in Hashes : /\ served[u] = targetForBucket(s, b(u)) /\ b(u) \in Nat /\ b(u) < Total
                        /\ served[u] = selectServing(Reversed(t), u)
  <2> SUFFICES ASSUME NEW u \in Hashes
               PROVE  /\ served[u] = targetForBucket(s, b(u)) /\ b(u) \in Nat /\ b(u) < Total
                      /\ served[u] = selectServing(Reversed(t), u)
    BY Zenon
  <2>1. Sorted(Reversed(t)) = s BY <1>2, ReversedSorts, Zenon DEF s
  <2>2. served[u] = selectServing(t, u) BY Zenon
  <2>3. b(u) \in Nat /\ b(u) < Total BY Bucket, Zenon
  <2> HIDE DEF served
  <2> QED BY <2>1, <2>2, <2>3, Zenon DEF selectServing, s
<1> HIDE DEF served, b
<1>8. ASSUME NEW u \in Hashes
      PROVE  /\ \E i \in 1..n : served[u] = s[i]
             /\ \A i \in 1..n : served[u] = s[i] <=> c[i - 1] <= b(u) /\ ~(c[i] <= b(u))
  <2>1. PICK v \in Nat : v = b(u) /\ served[u] = targetForBucket(s, v) /\ v < Total BY <1>7, Zenon
  <2>2. s \in Seq(Target) /\ Len(s) = n /\ Cumulative(s)[n] = Total BY <1>3, <1>4, Zenon
  <2>3. \A i, j \in 1..n : i < j => compareTargets(s[i], s[j]) BY <1>4, Zenon
  <2>4. /\ \E i \in 1..n : targetForBucket(s, v) = s[i]
        /\ \A i \in 1..n : targetForBucket(s, v) = s[i] <=> Cumulative(s)[i - 1] <= v /\ ~(Cumulative(s)[i] <= v)
    BY <1>6, <2>1, <2>2, <2>3, OneTarget, SMTT(30)
  <2> QED BY <2>1, <2>4, Zenon
<1>9. Total \in Nat /\ \A i \in 1..n : s[i].weight \in Nat
  <2>1. Total \in Nat BY SizesAssumption, Zenon
  <2> QED BY <1>6, <2>1
<1>10. /\ \A i \in 0..n : c[i] \in Nat /\ c[i] <= Total
       /\ \A i \in 1..n : c[i] = c[i - 1] + s[i].weight
  <2>1. (\A i \in 0..n : c[i] \in Nat) /\ \A i \in 1..n : c[i] = c[i - 1] + s[i].weight
    BY <1>4, <1>9, CumulativeIs, Zenon
  <2>2. \A i \in 0..n : i <= n /\ n \in 0..n OBVIOUS
  <2>3. \A i \in 0..n : c[i] <= c[n] BY <1>4, <1>9, <2>2, CumulativeRises, Zenon
  <2> HIDE DEF c
  <2> QED BY <1>3, <2>1, <2>3, Zenon
<1> HIDE DEF c
<1>11. ASSUME NEW i \in 1..n PROVE -Total < Excess(s[i]) /\ Excess(s[i]) < Total
  <2> DEFINE S == {u \in Hashes : served[u] = s[i]}
             a == c[i - 1]
             w == s[i].weight
  <2>1. i - 1 \in 0..n /\ i \in 0..n OBVIOUS
  <2>2. a \in Nat /\ w \in Nat /\ a + w <= Total /\ c[i] = a + w BY <1>9, <1>10, <2>1, Zenon
  <2> HIDE DEF a, w
  <2>3. S = {u \in Hashes : a <= b(u) /\ ~(a + w <= b(u))}
    <3>1. \A u \in Hashes : served[u] = s[i] <=> a <= b(u) /\ ~(a + w <= b(u))
      <4> SUFFICES ASSUME NEW u \in Hashes
                   PROVE  served[u] = s[i] <=> a <= b(u) /\ ~(a + w <= b(u))
        BY Zenon
      <4>1. served[u] = s[i] <=> c[i - 1] <= b(u) /\ ~(c[i] <= b(u)) BY <1>8, Zenon
      <4> QED BY <2>2, <4>1, Zenon DEF a
    <3> QED BY <3>1, Zenon
  <2> HIDE DEF S
  <2>4. -Total < Cardinality(S) * Total - w * HashSize /\ Cardinality(S) * Total - w * HashSize < Total
    BY <2>2, <2>3, Share, Zenon DEF b
  <2> QED BY <2>4, Zenon DEF S, w
<1>12. \A x \in Range(t) : -Total < Excess(x) /\ Excess(x) < Total
  <2> HIDE DEF Excess
  <2> QED BY <1>5, <1>11, Zenon
<1>13. \A u \in Hashes : served[u] \in Range(t) /\ served[u] = selectServing(Reversed(t), u)
  BY <1>5, <1>7, <1>8, Zenon
<1> QED BY <1>12, <1>13, Zenon DEF RouteExact, served

\* Every valid Route an operator may write is served exactly (selectServing).
THEOREM RoutesAlwaysExact == RoutesExact
BY RoutesAssumption, ValidExact, Zenon DEF RoutesExact

-----------------------------------------------------------------------------
(***************************************************************************)
(* Serving discovery: for any Functions, Assignments, staleness windows    *)
(* and numbers of epochs and events, and whatever a Watch loses, repeats   *)
(* or reorders, the Store holds exactly what was published up to its       *)
(* position and never goes back.                                           *)
(***************************************************************************)

\* A sequence is a function on its positions.
LEMMA SeqLen ==
  ASSUME NEW S, NEW q \in Seq(S)
  PROVE  Len(q) \in Nat /\ q \in [1..Len(q) -> S] /\ DOMAIN q = 1..Len(q)
OBVIOUS

\* Its elements are in its set.
LEMMA SeqElement ==
  ASSUME NEW S, NEW q \in Seq(S), NEW n \in 1..Len(q) PROVE q[n] \in S
OBVIOUS

\* Append adds one element behind the others.
LEMMA SeqAppend ==
  ASSUME NEW S, NEW q \in Seq(S), NEW e \in S
  PROVE  /\ Append(q, e) \in Seq(S) /\ Len(Append(q, e)) = Len(q) + 1
         /\ \A i \in 1..Len(q) : Append(q, e)[i] = q[i]
         /\ Append(q, e)[Len(q) + 1] = e
OBVIOUS

\* What a batch may be, whether catalog, draft or event.
Snapshots == [revision : Nat, endpoints : SUBSET UNION {AssignmentsOf[f] : f \in FunctionIDs}]
Batches == UNION {[D -> Snapshots] : D \in SUBSET FunctionIDs}

Numbers(e) == 1..Len(published[e])

\* Event n of epoch e comes before event m of epoch d.
Before(e, n, d, m) == e < d \/ (e = d /\ n < m)

\* A batch says nothing older than another one does, of the Functions of both.
NotOlder(new, old) == \A f \in DOMAIN new \cap DOMAIN old : new[f].revision >= old[f].revision

\* An entry of the Store.
View(v) == DOMAIN v = {"snapshot", "suppressed", "age"} /\ v.snapshot.revision \in Nat

Types ==
  /\ catalog \in Batches /\ epoch \in 1..MaxEpoch
  /\ published \in [1..MaxEpoch -> Seq([full : BOOLEAN, snapshots : Batches])]
  /\ \A x \in syncs : x.draft \in Batches
  /\ \A f \in DOMAIN functions : f \in FunctionIDs /\ View(functions[f])
  /\ position.epoch \in Nat /\ position.sequence \in Nat

\* Only the epochs up to the current one have events, a single Function is
\* published alone, and FullSync is under one lock.
Numbered ==
  /\ \A e \in 1..MaxEpoch : e > epoch => Len(published[e]) = 0
  /\ \A e \in 1..MaxEpoch : \A n \in Numbers(e) : ~published[e][n].full =>
       \A f, g \in DOMAIN published[e][n].snapshots : f = g
  /\ \A x, y \in syncs : x = y
  /\ \A x \in syncs : x.at = "built" => Len(published[epoch]) > 0

\* What was published is in the catalog in the same or a later revision, and
\* what is being read was not older when it was read.
InCatalog ==
  \A e \in 1..MaxEpoch : \A n \in Numbers(e) :
    /\ DOMAIN published[e][n].snapshots \subseteq DOMAIN catalog
    /\ NotOlder(catalog, published[e][n].snapshots)
    /\ \A x \in syncs : x.at = "read" => NotOlder(x.draft, published[e][n].snapshots)

\* What is being read was in the catalog.
Read == \A x \in syncs : DOMAIN x.draft \subseteq DOMAIN catalog /\ NotOlder(catalog, x.draft)

\* A complete batch is not older than anything numbered before it.
Ordered ==
  \A e, d \in 1..MaxEpoch : \A n \in Numbers(e), m \in Numbers(d) :
    Before(e, n, d, m) /\ published[d][m].full =>
      NotOlder(published[d][m].snapshots, published[e][n].snapshots)

\* The position of the Store is a published event with a complete batch at it
\* or before it, and each of its Functions has a latest event since.
Sourced ==
  IF fullSynced
    THEN LET e == position.epoch n == position.sequence IN
         /\ e \in 1..MaxEpoch /\ n \in Numbers(e) /\ LastFull(e, n) \in 1..n
         /\ \A f \in DOMAIN functions : Max(Mentions(e, n, f)) \in Mentions(e, n, f)
    ELSE DOMAIN functions = {}

Inv == Types /\ Numbered /\ InCatalog /\ Read /\ Ordered /\ Sourced /\ HoldsPublishedPrefix

\* The parts of a batch.
LEMMA BatchParts ==
  ASSUME NEW b \in Batches
  PROVE  DOMAIN b \subseteq FunctionIDs /\ \A f \in DOMAIN b : b[f] \in Snapshots /\ b[f].revision \in Nat
<1>1. PICK D \in SUBSET FunctionIDs : b \in [D -> Snapshots] BY Zenon DEF Batches
<1>2. \A f \in DOMAIN b : b[f] \in Snapshots BY <1>1, Zenon
<1> QED BY <1>1, <1>2, Zenon DEF Snapshots

\* How to see that a function is a batch.
LEMMA MakeBatch ==
  ASSUME NEW D \in SUBSET FunctionIDs, NEW b \in [D -> Snapshots] PROVE b \in Batches
BY Zenon DEF Batches

\* The events that exist.
LEMMA EventParts ==
  ASSUME Inv, NEW e \in 1..MaxEpoch
  PROVE  /\ Len(published[e]) \in Nat
         /\ \A n \in Numbers(e) : published[e][n].full \in BOOLEAN /\ published[e][n].snapshots \in Batches
<1>1. PICK s : s = published[e] BY Zenon
<1>2. s \in Seq([full : BOOLEAN, snapshots : Batches]) BY <1>1, Zenon DEF Inv, Types
<1>3. Len(s) \in Nat /\ \A n \in 1..Len(s) : s[n] \in [full : BOOLEAN, snapshots : Batches]
  BY <1>2, SeqElement, SeqLen, Zenon
<1>4. \A n \in 1..Len(s) : s[n].full \in BOOLEAN /\ s[n].snapshots \in Batches BY <1>3, Zenon
<1> QED BY <1>1, <1>3, <1>4, Zenon DEF Numbers

\* What Max is of a set that has a greatest element.
LEMMA MaxIs ==
  ASSUME NEW S, NEW m \in S, m \in Int, \A y \in S : y \in Int /\ m >= y PROVE Max(S) = m
<1>1. \E x \in S : \A y \in S : x >= y BY Zenon
<1>2. Max(S) \in S /\ \A y \in S : Max(S) >= y BY <1>1, Zenon DEF Max
<1>3. PICK z : z = Max(S) BY Zenon
<1>4. z \in Int /\ z >= m /\ m >= z BY <1>2, <1>3, Zenon
<1> QED BY <1>3, <1>4

\* The prefix of the Store is the same after any step that keeps the Store and
\* the events up to its position.
LEMMA SamePrefix ==
  ASSUME Inv, UNCHANGED <<functions, position, fullSynced>>, DOMAIN published' = 1..MaxEpoch,
         \A e \in 1..MaxEpoch : /\ Len(published'[e]) \in Nat /\ Len(published'[e]) >= Len(published[e])
                               /\ \A n \in Numbers(e) : published'[e][n] = published[e][n]
  PROVE  Sourced' /\ HoldsPublishedPrefix'
<1>1. CASE ~fullSynced BY <1>1, Zenon DEF Inv, Sourced, HoldsPublishedPrefix
<1>2. CASE fullSynced
  <2>1. PICK e, n : e = position.epoch /\ n = position.sequence BY Zenon
  <2>2. e \in 1..MaxEpoch /\ n \in Numbers(e) /\ LastFull(e, n) \in 1..n
        /\ \A f \in DOMAIN functions : Max(Mentions(e, n, f)) \in Mentions(e, n, f)
    BY <1>2, <2>1, Zenon DEF Inv, Sourced
  <2>3. n \in 1..Len(published'[e]) /\ \A k \in 1..n : published'[e][k] = published[e][k]
    BY <2>2, EventParts DEF Numbers
  <2>4. {k \in 1..n : published'[e][k].full} = {k \in 1..n : published[e][k].full} BY <2>3, Zenon
  <2>5. LastFull(e, n)' = LastFull(e, n) BY <2>4, Zenon DEF LastFull
  <2>6. ASSUME NEW f PROVE Mentions(e, n, f)' = Mentions(e, n, f)
    <3>1. PICK l : l = LastFull(e, n) BY Zenon
    <3>2. l \in 1..n /\ n \in Nat BY <2>2, <3>1, EventParts DEF Numbers
    <3>3. \A k \in l..n : k \in 1..n BY <3>2
    <3>4. \A k \in l..n : published'[e][k] = published[e][k] BY <2>3, <3>3, Zenon
    <3> QED BY <2>5, <3>1, <3>4, Zenon DEF Mentions
  <2>7. Sourced' BY <1>2, <2>1, <2>2, <2>3, <2>5, <2>6 DEF Sourced, Numbers
  <2>8. HoldsPublishedPrefix'
    <3>1. DOMAIN functions = {f \in FunctionIDs : Mentions(e, n, f) # {}}
          /\ \A f \in DOMAIN functions : functions[f].snapshot = published[e][Max(Mentions(e, n, f))].snapshots[f]
      BY <1>2, <2>1, Zenon DEF Inv, HoldsPublishedPrefix
    <3>2. ASSUME NEW f \in DOMAIN functions PROVE Max(Mentions(e, n, f)) \in 1..n
      <4>1. PICK k, l : k = Max(Mentions(e, n, f)) /\ l = LastFull(e, n) BY Zenon
      <4>2. k \in Mentions(e, n, f) /\ l \in 1..n /\ n \in Nat BY <2>2, <4>1, EventParts DEF Numbers
      <4>3. Mentions(e, n, f) \subseteq l..n BY <4>1, Zenon DEF Mentions
      <4> QED BY <4>1, <4>2, <4>3
    <3> QED BY <1>2, <2>1, <2>3, <2>6, <3>1, <3>2 DEF HoldsPublishedPrefix
  <2> QED BY <2>7, <2>8, Zenon
<1> QED BY <1>1, <1>2, Zenon

\* In particular after any step of neither Publisher nor Store.
LEMMA StoreKept ==
  ASSUME Inv, UNCHANGED <<functions, position, fullSynced, published>> PROVE Sourced' /\ HoldsPublishedPrefix'
<1>1. DOMAIN published = 1..MaxEpoch BY Zenon DEF Inv, Types
<1>2. \A e \in 1..MaxEpoch : Len(published[e]) \in Nat BY EventParts, Zenon
<1> QED BY <1>1, <1>2, SamePrefix

\* A published event is the last one of the current epoch, and changes no other.
LEMMA Appended ==
  ASSUME Inv, NEW full \in BOOLEAN, NEW snaps \in Batches, Publish(full, snaps)
  PROVE  /\ published' \in [1..MaxEpoch -> Seq([full : BOOLEAN, snapshots : Batches])]
         /\ \A e \in 1..MaxEpoch \ {epoch} : published'[e] = published[e]
         /\ Len(published[epoch]) \in Nat /\ Len(published'[epoch]) = Len(published[epoch]) + 1
         /\ \A n \in Numbers(epoch) : published'[epoch][n] = published[epoch][n]
         /\ published'[epoch][Len(published[epoch]) + 1].full = full
         /\ published'[epoch][Len(published[epoch]) + 1].snapshots = snaps
<1>1. PICK E, s, x : E = [full : BOOLEAN, snapshots : Batches] /\ s = published[epoch]
                     /\ x = [full |-> full, snapshots |-> snaps]
  BY Zenon
<1>2. published \in [1..MaxEpoch -> Seq(E)] /\ epoch \in 1..MaxEpoch BY <1>1, Zenon DEF Inv, Types
<1>3. x \in E /\ x.full = full /\ x.snapshots = snaps BY <1>1, Zenon
<1>4. s \in Seq(E) BY <1>1, <1>2, Zenon
<1>5. /\ Append(s, x) \in Seq(E) /\ Len(s) \in Nat /\ Len(Append(s, x)) = Len(s) + 1
      /\ \A n \in 1..Len(s) : Append(s, x)[n] = s[n]
      /\ Append(s, x)[Len(s) + 1] = x
  BY <1>3, <1>4, SeqAppend, SeqLen
<1>6. published' = [published EXCEPT ![epoch] = Append(s, x)] BY <1>1, Zenon DEF Publish
<1>7. published'[epoch] = Append(s, x) /\ \A e \in 1..MaxEpoch \ {epoch} : published'[e] = published[e]
  BY <1>2, <1>6, Zenon
<1>8. published' \in [1..MaxEpoch -> Seq(E)] BY <1>2, <1>5, <1>6, Zenon
<1> QED BY <1>1, <1>3, <1>5, <1>7, <1>8, Zenon DEF Numbers

\* A batch that is not older than anything published, nor newer than the
\* catalog, may be published.
LEMMA PublishStep ==
  ASSUME Inv, NEW full \in BOOLEAN, NEW snaps \in Batches, Publish(full, snaps),
         UNCHANGED <<catalog, epoch, store>>,
         DOMAIN snaps \subseteq DOMAIN catalog, NotOlder(catalog, snaps),
         ~full => \A f, g \in DOMAIN snaps : f = g,
         full => \A e \in 1..MaxEpoch : \A n \in Numbers(e) : NotOlder(snaps, published[e][n].snapshots),
         \A x \in syncs' : x.draft \in Batches /\ x.at # "read" /\ (x \in syncs \/ DOMAIN x.draft = {}),
         \A x, y \in syncs' : x = y
  PROVE  Inv'
<1>1. PICK m : m = Len(published[epoch]) + 1 BY Zenon
<1>2. /\ published' \in [1..MaxEpoch -> Seq([full : BOOLEAN, snapshots : Batches])]
      /\ \A e \in 1..MaxEpoch \ {epoch} : published'[e] = published[e]
      /\ Len(published[epoch]) \in Nat /\ Len(published'[epoch]) = m
      /\ \A n \in Numbers(epoch) : published'[epoch][n] = published[epoch][n]
      /\ published'[epoch][m].full = full /\ published'[epoch][m].snapshots = snaps
  BY <1>1, Appended, Zenon
<1>3. epoch \in 1..MaxEpoch /\ MaxEpoch \in Nat BY DiscoveryAssumption, Zenon DEF Inv, Types
<1>4. \A e \in 1..MaxEpoch : Len(published'[e]) \in Nat /\ Len(published'[e]) >= Len(published[e])
                             /\ \A n \in Numbers(e) : published'[e][n] = published[e][n]
  BY <1>1, <1>2, EventParts
<1>5. Sourced' /\ HoldsPublishedPrefix' BY <1>2, <1>4, SamePrefix, Zenon DEF store
<1>6. \A e \in 1..MaxEpoch : \A n \in 1..Len(published'[e]) :
        (e = epoch /\ n = m) \/ (n \in Numbers(e) /\ published'[e][n] = published[e][n])
  BY <1>1, <1>2, <1>3, SMTT(40) DEF Numbers
<1>7. Types' BY <1>2, Zenon DEF Inv, Types, store
<1>8. Numbered'
  <2>1. \A e \in 1..MaxEpoch : e > epoch => Len(published'[e]) = 0
    <3>1. \A e \in 1..MaxEpoch : e > epoch => e \in 1..MaxEpoch \ {epoch} BY <1>3
    <3>2. \A e \in 1..MaxEpoch : e > epoch => Len(published[e]) = 0 BY Zenon DEF Inv, Numbered
    <3> QED BY <1>2, <3>1, <3>2, Zenon
  <2>2. \A e \in 1..MaxEpoch : \A n \in 1..Len(published'[e]) : ~published'[e][n].full =>
          \A f, g \in DOMAIN published'[e][n].snapshots : f = g
    BY <1>2, <1>6 DEF Inv, Numbered
  <2>3. Len(published'[epoch]) > 0 BY <1>1, <1>2
  <2> QED BY <2>1, <2>2, <2>3, Zenon DEF Numbered, Numbers
<1>9. InCatalog'
  <2> SUFFICES ASSUME NEW e \in 1..MaxEpoch, NEW n \in 1..Len(published'[e])
               PROVE  DOMAIN published'[e][n].snapshots \subseteq DOMAIN catalog
                      /\ NotOlder(catalog, published'[e][n].snapshots)
    BY Zenon DEF InCatalog, Numbers, NotOlder
  <2> QED BY <1>2, <1>6, Zenon DEF Inv, InCatalog
<1>10. Ordered'
  <2> SUFFICES ASSUME NEW e \in 1..MaxEpoch, NEW d \in 1..MaxEpoch, NEW n \in 1..Len(published'[e]),
                      NEW k \in 1..Len(published'[d]), Before(e, n, d, k), published'[d][k].full
               PROVE  NotOlder(published'[d][k].snapshots, published'[e][n].snapshots)
    BY Zenon DEF Ordered, Numbers, Before, NotOlder
  <2>1. CASE d = epoch /\ k = m
    <3>1. ~(e = epoch /\ n = m) BY <1>1, <1>2, <1>3, <2>1 DEF Before
    <3>2. n \in Numbers(e) /\ published'[e][n] = published[e][n] BY <1>6, <3>1, Zenon
    <3> QED BY <1>2, <2>1, <3>2, Zenon
  <2>2. CASE k \in Numbers(d) /\ published'[d][k] = published[d][k]
    <3>1. CASE e = epoch /\ n = m
      <4>1. d <= epoch
        <5>1. Len(published[d]) # 0 BY <2>2, EventParts DEF Numbers
        <5> QED BY <1>3, <5>1 DEF Inv, Numbered
      <4>2. d = epoch /\ k <= Len(published[epoch]) BY <1>3, <2>2, <3>1, <4>1, <1>2 DEF Before, Numbers
      <4> QED BY <1>1, <1>2, <2>2, <3>1, <4>2 DEF Before
    <3>2. CASE n \in Numbers(e) /\ published'[e][n] = published[e][n]
      BY <2>2, <3>2, Zenon DEF Inv, Ordered
    <3> QED BY <1>6, <3>1, <3>2, Zenon
  <2> QED BY <1>6, <2>1, <2>2, Zenon
<1>11. Read' BY Zenon DEF Inv, Read, NotOlder
<1> QED BY <1>5, <1>7, <1>8, <1>9, <1>10, <1>11, Zenon DEF Inv

\* Nothing is a batch.
LEMMA NothingIsBatch == NoDraft \in Batches /\ DOMAIN NoDraft = {}
<1>1. NoDraft \in [{} -> Snapshots] BY Zenon DEF NoDraft
<1> QED BY <1>1, MakeBatch, Zenon DEF NoDraft

\* FullSync publishes what it has read: nothing was published meanwhile, and
\* the catalog only moved on.
LEMMA BuildFullStep ==
  ASSUME Inv, NEW x \in syncs, BuildFull(x) PROVE Inv'
<1>1. PICK b : b = [at |-> "built", draft |-> NoDraft] BY Zenon
<1>2. b.at = "built" /\ b.draft = NoDraft BY <1>1, Zenon
<1>3. x.at = "read" /\ Publish(TRUE, x.draft) /\ syncs' = (syncs \ {x}) \cup {b}
      /\ UNCHANGED <<catalog, epoch, store>>
  BY <1>1, Zenon DEF BuildFull
<1>4. syncs' = {b} BY <1>3, Zenon DEF Inv, Numbered
<1>5. \A e \in 1..MaxEpoch : \A n \in Numbers(e) : NotOlder(x.draft, published[e][n].snapshots)
  BY <1>3, Zenon DEF Inv, InCatalog
<1>6. x.draft \in Batches BY Zenon DEF Inv, Types
<1>7. \A y \in syncs' : y.draft \in Batches /\ y.at # "read" /\ DOMAIN y.draft = {} BY <1>2, <1>4, NothingIsBatch, Zenon
<1>8. \A y, z \in syncs' : y = z BY <1>4, Zenon
<1>9. DOMAIN x.draft \subseteq DOMAIN catalog /\ NotOlder(catalog, x.draft) BY Zenon DEF Inv, Read
<1> QED BY <1>3, <1>5, <1>6, <1>7, <1>8, <1>9, PublishStep, Zenon

\* One Function is published as it is in the catalog.
LEMMA BuildStep ==
  ASSUME Inv, NEW f \in FunctionIDs, Build(f) PROVE Inv'
<1>1. PICK b : b = [g \in {f} |-> catalog[f]] BY Zenon
<1>2. syncs = {} /\ f \in DOMAIN catalog /\ Publish(FALSE, b) /\ UNCHANGED <<catalog, epoch, syncs, store>>
  BY <1>1, Zenon DEF Build, MaySync
<1>3. catalog[f] \in Snapshots /\ catalog[f].revision \in Nat BY <1>2, BatchParts, Zenon DEF Inv, Types
<1>4. b \in [{f} -> Snapshots] /\ DOMAIN b = {f} /\ b[f] = catalog[f] BY <1>1, <1>3, Zenon
<1>5. b \in Batches BY <1>4, MakeBatch, Zenon
<1>6. NotOlder(catalog, b) BY <1>3, <1>4 DEF NotOlder
<1>7. DOMAIN b \subseteq DOMAIN catalog /\ \A g, h \in DOMAIN b : g = h BY <1>2, <1>4, Zenon
<1>8. (\A y \in syncs' : y.draft \in Batches /\ y.at # "read") /\ \A y, z \in syncs' : y = z BY <1>2, Zenon
<1> QED BY <1>2, <1>5, <1>6, <1>7, <1>8, PublishStep, Zenon

\* A Function is created, or its revision or its Endpoints change.
LEMMA ChangeStep ==
  ASSUME Inv, NEW f \in FunctionIDs, Change(f) PROVE Inv'
<1>1. PICK r \in 1..MaxRevision[f], es \in SUBSET AssignmentsOf[f] :
        /\ r \in IF f \in DOMAIN catalog THEN {catalog[f].revision, catalog[f].revision + 1} ELSE {1}
        /\ catalog' = [g \in DOMAIN catalog \cup {f} |->
                        IF g = f THEN [revision |-> r, endpoints |-> es] ELSE catalog[g]]
  BY Zenon DEF Change
<1>2. UNCHANGED <<epoch, published, syncs, store>> BY Zenon DEF Change
<1>3. PICK s : s = [revision |-> r, endpoints |-> es] BY Zenon
<1>4. r \in Nat BY DiscoveryAssumption
<1>5. s \in Snapshots /\ s.revision = r
  <2>1. es \in SUBSET UNION {AssignmentsOf[g] : g \in FunctionIDs} BY Zenon
  <2> QED BY <1>3, <1>4, <2>1, Zenon DEF Snapshots
<1>6. DOMAIN catalog \subseteq FunctionIDs /\ \A g \in DOMAIN catalog : catalog[g] \in Snapshots /\ catalog[g].revision \in Nat
  BY BatchParts, Zenon DEF Inv, Types
<1>7. DOMAIN catalog' = DOMAIN catalog \cup {f} /\ catalog'[f] = s
      /\ \A g \in DOMAIN catalog \ {f} : catalog'[g] = catalog[g]
  BY <1>1, <1>3, Zenon
<1>8. catalog' \in [DOMAIN catalog \cup {f} -> Snapshots] BY <1>1, <1>3, <1>5, <1>6, Zenon
<1>9. catalog' \in Batches BY <1>6, <1>8, MakeBatch, Zenon
<1>10. f \in DOMAIN catalog => r >= catalog[f].revision BY <1>1, <1>4, <1>6
<1>11. \A g \in DOMAIN catalog : catalog'[g].revision >= catalog[g].revision /\ catalog'[g].revision \in Nat
  BY <1>4, <1>5, <1>6, <1>7, <1>10
<1>12. Types' BY <1>2, <1>9, Zenon DEF Inv, Types, store
<1>13. Numbered' /\ Ordered'
  <2>1. Numbered' BY <1>2, Zenon DEF Inv, Numbered, Numbers
  <2>2. Ordered' BY <1>2 DEF Inv, Ordered, Numbers, Before, NotOlder
  <2> QED BY <2>1, <2>2, Zenon
<1>14. InCatalog'
  <2> SUFFICES ASSUME NEW e \in 1..MaxEpoch, NEW n \in Numbers(e)
               PROVE  /\ DOMAIN published[e][n].snapshots \subseteq DOMAIN catalog'
                      /\ NotOlder(catalog', published[e][n].snapshots)
                      /\ \A x \in syncs : x.at = "read" => NotOlder(x.draft, published[e][n].snapshots)
    BY <1>2, Zenon DEF InCatalog, Numbers, NotOlder
  <2>1. PICK b : b = published[e][n].snapshots BY Zenon
  <2>2. b \in Batches BY <2>1, EventParts, Zenon
  <2>3. DOMAIN b \subseteq DOMAIN catalog /\ NotOlder(catalog, b) BY <2>1, Zenon DEF Inv, InCatalog
  <2>4. NotOlder(catalog', b) BY <1>6, <1>11, <2>2, <2>3, BatchParts DEF NotOlder
  <2> QED BY <1>7, <2>1, <2>3, <2>4, Zenon DEF Inv, InCatalog
<1>15. Sourced' /\ HoldsPublishedPrefix' BY <1>2, StoreKept, Zenon DEF store
<1>16. Read'
  <2> SUFFICES ASSUME NEW x \in syncs PROVE DOMAIN x.draft \subseteq DOMAIN catalog' /\ NotOlder(catalog', x.draft)
    BY <1>2, Zenon DEF Read, NotOlder
  <2>1. PICK b : b = x.draft BY Zenon
  <2>2. b \in Batches /\ DOMAIN b \subseteq DOMAIN catalog /\ NotOlder(catalog, b) BY <2>1, Zenon DEF Inv, Types, Read
  <2> QED BY <1>6, <1>7, <1>11, <2>1, <2>2, BatchParts DEF NotOlder
<1> QED BY <1>12, <1>13, <1>14, <1>15, <1>16, Zenon DEF Inv

\* A step that publishes nothing, and at most ends a FullSync.
LEMMA SourceKept ==
  ASSUME Inv, UNCHANGED source, syncs' \subseteq syncs,
         \A f \in DOMAIN functions' : f \in FunctionIDs /\ View(functions'[f]),
         position'.epoch \in Nat /\ position'.sequence \in Nat
  PROVE  Types' /\ Numbered' /\ InCatalog' /\ Read' /\ Ordered'
<1>1. Types' BY Zenon DEF Inv, Types, source
<1>2. Numbered' BY Zenon DEF Inv, Numbered, Numbers, source
<1>3. InCatalog' BY Zenon DEF Inv, InCatalog, Numbers, NotOlder, source
<1>4. Read' BY Zenon DEF Inv, Read, NotOlder, source
<1>5. Ordered' BY DEF Inv, Ordered, Numbers, Before, NotOlder, source
<1> QED BY <1>1, <1>2, <1>3, <1>4, <1>5, Zenon

\* A step of the Store that changes neither position nor snapshots.
LEMMA FlagsStep ==
  ASSUME Inv, UNCHANGED <<source, functions, position, fullSynced>>, syncs' \subseteq syncs PROVE Inv'
<1>1. Sourced' /\ HoldsPublishedPrefix' BY StoreKept, Zenon DEF source
<1>2. Types' /\ Numbered' /\ InCatalog' /\ Read' /\ Ordered' BY SourceKept, Zenon DEF Inv, Types
<1> QED BY <1>1, <1>2, Zenon DEF Inv

\* A step that suppresses an Endpoint or lets time pass: same snapshots.
LEMMA ViewStep ==
  ASSUME Inv, UNCHANGED <<source, syncs, position, fullSynced>>, DOMAIN functions' = DOMAIN functions,
         \A f \in DOMAIN functions : /\ functions'[f].snapshot = functions[f].snapshot
                                     /\ DOMAIN functions'[f] = DOMAIN functions[f]
  PROVE  Inv'
<1>1. Types' /\ Numbered' /\ InCatalog' /\ Read' /\ Ordered' BY SourceKept, Zenon DEF Inv, Types, View
<1>2. PICK e, n : e = position.epoch /\ n = position.sequence BY Zenon
<1>3. LastFull(e, n)' = LastFull(e, n) /\ \A f : Mentions(e, n, f)' = Mentions(e, n, f) /\ Numbers(e)' = Numbers(e)
  BY Zenon DEF LastFull, Mentions, Numbers, source
<1>4. Sourced' BY <1>2, <1>3, Zenon DEF Inv, Sourced
<1>5. HoldsPublishedPrefix' BY <1>2, <1>3, Zenon DEF Inv, HoldsPublishedPrefix, source
<1> QED BY <1>1, <1>4, <1>5, Zenon DEF Inv

\* The parts of a received snapshot.
LEMMA ReceivedParts ==
  ASSUME NEW f, NEW s
  PROVE  /\ Received(f, s).snapshot = s /\ DOMAIN Received(f, s) = {"snapshot", "suppressed", "age"}
         /\ Received(f, s).suppressed = IF f \in DOMAIN functions THEN functions[f].suppressed \cap s.endpoints ELSE {}
BY Zenon DEF Received, RetainedSuppressions

\* So it is an entry.
LEMMA ReceivedView ==
  ASSUME NEW f, NEW s, s.revision \in Nat PROVE View(Received(f, s)) /\ Received(f, s).snapshot = s
<1>1. PICK r : r = Received(f, s) BY Zenon
<1>2. r.snapshot = s /\ DOMAIN r = {"snapshot", "suppressed", "age"} BY <1>1, ReceivedParts, Zenon
<1>3. View(r) BY <1>2, Zenon DEF View
<1> QED BY <1>1, <1>2, <1>3, Zenon

\* A complete batch replaces everything: it is the last one and says it all.
LEMMA FullStep ==
  ASSUME Inv, NEW e \in 1..MaxEpoch, NEW n \in Numbers(e), published[e][n].full,
         functions' = [f \in DOMAIN published[e][n].snapshots |-> Received(f, published[e][n].snapshots[f])],
         position' = [epoch |-> e, sequence |-> n], fullSynced', UNCHANGED source, syncs' \subseteq syncs
  PROVE  Inv'
<1>1. PICK b : b = published[e][n].snapshots BY Zenon
<1>2. b \in Batches /\ DOMAIN b \subseteq FunctionIDs /\ \A f \in DOMAIN b : b[f].revision \in Nat
  BY <1>1, EventParts, BatchParts, Zenon
<1>3. DOMAIN functions' = DOMAIN b /\ \A f \in DOMAIN b : functions'[f].snapshot = b[f] /\ View(functions'[f])
  BY <1>1, <1>2, ReceivedView, Zenon
<1>4. position'.epoch = e /\ position'.sequence = n /\ e \in Nat /\ n \in Nat /\ n >= 1
  BY EventParts, DiscoveryAssumption DEF Numbers
<1>5. Types' /\ Numbered' /\ InCatalog' /\ Read' /\ Ordered' BY <1>2, <1>3, <1>4, SourceKept, Zenon
<1>6. LastFull(e, n) = n
  <2>1. n \in {k \in 1..n : published[e][k].full} BY <1>4
  <2>2. \A y \in {k \in 1..n : published[e][k].full} : y \in Int /\ n >= y BY <1>4
  <2> QED BY <1>4, <2>1, <2>2, MaxIs, Zenon DEF LastFull
<1>7. ASSUME NEW f PROVE Mentions(e, n, f) = IF f \in DOMAIN b THEN {n} ELSE {}
  <2>1. n..n = {n} BY <1>4
  <2> QED BY <1>1, <1>6, <2>1, Zenon DEF Mentions
<1>8. Max({n}) = n BY <1>4, MaxIs
<1>9. LastFull(e, n)' = n /\ \A f : Mentions(e, n, f)' = Mentions(e, n, f)
  BY <1>6, Zenon DEF LastFull, Mentions, source
<1>10. n \in Numbers(e)' /\ n \in 1..n BY <1>4 DEF Numbers, source
<1>11. Sourced'
  <2>1. \A f \in DOMAIN b : Mentions(e, n, f)' = {n} BY <1>7, <1>9, Zenon
  <2>2. \A f \in DOMAIN functions' : Max(Mentions(e, n, f)') \in Mentions(e, n, f)' BY <1>3, <1>8, <2>1, Zenon
  <2>3. LastFull(e, n)' \in 1..n BY <1>9, <1>10, Zenon
  <2> QED BY <1>4, <1>10, <2>2, <2>3, Zenon DEF Sourced
<1>12. HoldsPublishedPrefix'
  <2>1. {f \in FunctionIDs : Mentions(e, n, f)' # {}} = DOMAIN b BY <1>2, <1>7, <1>9, Zenon
  <2>2. \A f \in DOMAIN b : Max(Mentions(e, n, f)') = n BY <1>7, <1>8, <1>9, Zenon
  <2>3. published'[e][n].snapshots = b BY <1>1, Zenon DEF source
  <2> QED BY <1>3, <1>4, <2>1, <2>2, <2>3 DEF HoldsPublishedPrefix
<1> QED BY <1>5, <1>11, <1>12, Zenon DEF Inv

\* The next event of the epoch replaces its Function: it is the latest one of
\* that Function, and the last complete batch stays the last.
LEMMA NextStep ==
  ASSUME Inv, fullSynced, NEW e \in 1..MaxEpoch, NEW n \in Numbers(e), ~published[e][n].full,
         NextInOrder(e, n), NEW f \in DOMAIN published[e][n].snapshots,
         functions' = [g \in DOMAIN functions \cup {f} |->
                         IF g = f THEN Received(f, published[e][n].snapshots[f]) ELSE functions[g]],
         position' = [epoch |-> e, sequence |-> n], fullSynced', UNCHANGED source, syncs' \subseteq syncs
  PROVE  Inv'
<1>1. PICK b, m : b = published[e][n].snapshots /\ m = position.sequence BY Zenon
<1>2. /\ b \in Batches /\ DOMAIN b \subseteq FunctionIDs /\ \A g \in DOMAIN b : b[g].revision \in Nat
      /\ DOMAIN b = {f}
  <2>1. b \in Batches BY <1>1, EventParts, Zenon
  <2>2. \A g \in DOMAIN b : g = f BY <1>1, Zenon DEF Inv, Numbered
  <2> QED BY <1>1, <2>1, <2>2, BatchParts, Zenon
<1>3. DOMAIN functions' = DOMAIN functions \cup {f} /\ functions'[f].snapshot = b[f] /\ View(functions'[f])
      /\ \A g \in DOMAIN functions \ {f} : functions'[g] = functions[g]
  <2>1. PICK r : r = Received(f, b[f]) BY Zenon
  <2>2. r.snapshot = b[f] /\ View(r) BY <1>2, <2>1, ReceivedView, Zenon
  <2>3. functions' = [g \in DOMAIN functions \cup {f} |-> IF g = f THEN r ELSE functions[g]] BY <1>1, <2>1, Zenon
  <2> QED BY <2>2, <2>3, Zenon
<1>4. position'.epoch = e /\ position'.sequence = n /\ e \in Nat /\ n \in Nat /\ n >= 1 /\ n = m + 1
      /\ position.epoch = e /\ m \in Nat
  <2>1. e \in Nat /\ n \in Nat /\ n >= 1 BY EventParts, DiscoveryAssumption DEF Numbers
  <2>2. m \in Nat BY <1>1, Zenon DEF Inv, Types
  <2> QED BY <1>1, <2>1, <2>2, Zenon DEF NextInOrder
<1>5. Types' /\ Numbered' /\ InCatalog' /\ Read' /\ Ordered' BY <1>2, <1>3, <1>4, SourceKept, Zenon DEF Inv, Types
<1>6. LastFull(e, m) \in 1..m /\ \A g \in DOMAIN functions : Max(Mentions(e, m, g)) \in Mentions(e, m, g)
  BY <1>1, <1>4, Zenon DEF Inv, Sourced
<1>7. PICK l : l = LastFull(e, m) BY Zenon
<1>8. LastFull(e, n) = l /\ l \in 1..m
  <2>1. {k \in 1..n : published[e][k].full} = {k \in 1..m : published[e][k].full} BY <1>4
  <2> QED BY <1>6, <1>7, <2>1, Zenon DEF LastFull
<1>9. l..n = (l..m) \cup {n} BY <1>4, <1>8
<1>10. Mentions(e, n, f) = Mentions(e, m, f) \cup {n} BY <1>1, <1>2, <1>7, <1>8, <1>9, Zenon DEF Mentions
<1>11. ASSUME NEW g, g # f PROVE Mentions(e, n, g) = Mentions(e, m, g)
  BY <1>1, <1>2, <1>7, <1>8, <1>9, <1>11, Zenon DEF Mentions
<1>12. \A y \in Mentions(e, n, f) : y \in Int /\ n >= y BY <1>4, <1>7, <1>8 DEF Mentions
<1>13. Max(Mentions(e, n, f)) = n /\ n \in Mentions(e, n, f) BY <1>4, <1>10, <1>12, MaxIs, Zenon
<1>14. LastFull(e, n)' = l /\ \A g : Mentions(e, n, g)' = Mentions(e, n, g)
  BY <1>8, Zenon DEF LastFull, Mentions, source
<1>15. n \in Numbers(e)' /\ l \in 1..n BY <1>4, <1>8 DEF Numbers, source
<1>16. Sourced'
  <2>1. \A g \in DOMAIN functions' : Max(Mentions(e, n, g)) \in Mentions(e, n, g)
    BY <1>3, <1>6, <1>11, <1>13, Zenon
  <2>2. \A g \in DOMAIN functions' : Max(Mentions(e, n, g)') \in Mentions(e, n, g)' BY <1>14, <2>1, Zenon
  <2>3. LastFull(e, n)' \in 1..n BY <1>14, <1>15, Zenon
  <2> QED BY <1>4, <1>15, <2>2, <2>3, Zenon DEF Sourced
<1>17. HoldsPublishedPrefix'
  <2>1. DOMAIN functions = {g \in FunctionIDs : Mentions(e, m, g) # {}}
        /\ \A g \in DOMAIN functions : functions[g].snapshot = published[e][Max(Mentions(e, m, g))].snapshots[g]
    BY <1>1, <1>4, Zenon DEF Inv, HoldsPublishedPrefix
  <2>2. \A g \in FunctionIDs : g \in DOMAIN functions' <=> Mentions(e, n, g) # {}
    BY <1>2, <1>3, <1>11, <1>13, <2>1, ZenonT(40)
  <2>3. DOMAIN functions' \subseteq FunctionIDs BY <1>2, <1>3, <2>1, Zenon
  <2>4. \A g \in DOMAIN functions' : functions'[g].snapshot = published[e][Max(Mentions(e, n, g))].snapshots[g]
    <3> SUFFICES ASSUME NEW g \in DOMAIN functions'
                 PROVE  functions'[g].snapshot = published[e][Max(Mentions(e, n, g))].snapshots[g]
      BY Zenon
    <3>1. CASE g = f BY <1>1, <1>3, <1>13, <3>1, Zenon
    <3>2. CASE g # f
      <4>1. g \in DOMAIN functions /\ functions'[g] = functions[g] BY <1>3, <3>2, Zenon
      <4> QED BY <1>11, <2>1, <3>2, <4>1, Zenon
    <3> QED BY <3>1, <3>2, Zenon
  <2>5. DOMAIN functions' = {g \in FunctionIDs : Mentions(e, n, g)' # {}} BY <1>14, <2>2, <2>3, Zenon
  <2>6. \A g \in DOMAIN functions' : functions'[g].snapshot = published'[e][Max(Mentions(e, n, g)')].snapshots[g]
    BY <1>14, <2>4, Zenon DEF source
  <2> QED BY <1>4, <2>5, <2>6, Zenon DEF HoldsPublishedPrefix
<1> QED BY <1>5, <1>16, <1>17, Zenon DEF Inv

\* An event reaches the Store, in whatever order.
LEMMA ApplyStep ==
  ASSUME Inv, NEW e \in 1..MaxEpoch, NEW n \in Numbers(e), Apply(e, n), UNCHANGED source, syncs' \subseteq syncs
  PROVE  Inv'
<1>1. CASE UNCHANGED <<functions, position, fullSynced>> BY <1>1, FlagsStep, Zenon
<1>2. CASE published[e][n].full /\ ~UNCHANGED <<functions, position, fullSynced>>
  <2>1. ApplyFull(e, n, published[e][n].snapshots) BY <1>2, Zenon DEF Apply
  <2> QED BY <1>2, <2>1, FullStep, Zenon DEF ApplyFull, FailClosed
<1>3. CASE ~published[e][n].full /\ ~UNCHANGED <<functions, position, fullSynced>>
  <2>1. PICK f \in DOMAIN published[e][n].snapshots : ApplyNext(e, n, f, published[e][n].snapshots[f])
    BY <1>3, Zenon DEF Apply, ApplyGap
  <2> QED BY <1>3, <2>1, NextStep, Zenon DEF ApplyNext, FailClosed
<1> QED BY <1>1, <1>2, <1>3, Zenon

\* Everything starts empty.
LEMMA Begin == Init => Inv
<1> SUFFICES ASSUME Init PROVE Inv BY Zenon
<1>1. /\ catalog = NoDraft /\ epoch = 1 /\ syncs = {} /\ DOMAIN functions = {} /\ ~fullSynced
      /\ position.epoch = 0 /\ position.sequence = 0
      /\ published = [e \in 1..MaxEpoch |-> <<>>]
  BY Zenon DEF Init
<1>2. \A e \in 1..MaxEpoch : Len(published[e]) = 0 /\ Numbers(e) = {} BY <1>1 DEF Numbers
<1>3. published \in [1..MaxEpoch -> Seq([full : BOOLEAN, snapshots : Batches])] BY <1>1
<1>4. Types BY <1>1, <1>3, NothingIsBatch, DiscoveryAssumption DEF Types
<1>5. Numbered /\ InCatalog /\ Read /\ Ordered BY <1>1, <1>2, Zenon DEF Numbered, InCatalog, Read, Ordered
<1>6. Sourced /\ HoldsPublishedPrefix BY <1>1, Zenon DEF Sourced, HoldsPublishedPrefix
<1> QED BY <1>4, <1>5, <1>6, Zenon DEF Inv

\* A FullSync reads the catalog, alone; a new Leader begins the next epoch.
LEMMA ReadStep ==
  ASSUME Inv, ReadStates \/ NewPublisher PROVE Inv'
<1>1. CASE ReadStates
  <2>1. PICK x : x = [at |-> "read", draft |-> catalog] BY Zenon
  <2>2. x.at = "read" /\ x.draft = catalog BY <2>1, Zenon
  <2>3. syncs' = {x} /\ UNCHANGED <<source, store>> BY <1>1, <2>1, Zenon DEF ReadStates, MaySync
  <2>4. Sourced' /\ HoldsPublishedPrefix' BY <2>3, StoreKept, Zenon DEF source, store
  <2>5. Types' BY <2>2, <2>3, Zenon DEF Inv, Types, source, store
  <2>6. Numbered' BY <2>2, <2>3, Zenon DEF Inv, Numbered, Numbers, source
  <2>7. InCatalog' BY <2>2, <2>3, Zenon DEF Inv, InCatalog, Numbers, NotOlder, source
  <2>8. Ordered' BY <2>3 DEF Inv, Ordered, Numbers, Before, NotOlder, source
  <2>9. Read' BY <2>2, <2>3, BatchParts DEF Inv, Types, Read, NotOlder, source
  <2> QED BY <2>4, <2>5, <2>6, <2>7, <2>8, <2>9, Zenon DEF Inv
<1>2. CASE NewPublisher
  <2>1. syncs = {} /\ epoch < MaxEpoch /\ epoch' = epoch + 1 /\ UNCHANGED <<catalog, published, syncs, store>>
    BY <1>2, Zenon DEF NewPublisher
  <2>2. Sourced' /\ HoldsPublishedPrefix' BY <2>1, StoreKept, Zenon DEF store
  <2>3. Types'
    <3>1. epoch' \in 1..MaxEpoch BY <2>1, DiscoveryAssumption DEF Inv, Types
    <3> QED BY <2>1, <3>1, Zenon DEF Inv, Types, store
  <2>4. Numbered' BY <2>1, DiscoveryAssumption DEF Inv, Types, Numbered, Numbers
  <2>5. InCatalog' /\ Read' BY <2>1, Zenon DEF Inv, InCatalog, Numbers, NotOlder, Read
  <2>6. Ordered' BY <2>1, SMTT(30) DEF Inv, Ordered, Numbers, Before, NotOlder
  <2> QED BY <2>2, <2>3, <2>4, <2>5, <2>6, Zenon DEF Inv
<1> QED BY <1>1, <1>2, Zenon

\* FullSync hands the Store the batch it has just built, or is refused.
LEMMA ApplyOwnStep ==
  ASSUME Inv, NEW x \in syncs, ApplyOwn(x) PROVE Inv'
<1>1. PICK n : n = Len(published[epoch]) BY Zenon
<1>2. epoch \in 1..MaxEpoch /\ n \in Nat /\ n > 0 BY <1>1, EventParts, Zenon DEF Inv, Types, Numbered, ApplyOwn
<1>3. n \in Numbers(epoch) BY <1>1, <1>2 DEF Numbers
<1>4. UNCHANGED source /\ syncs' \subseteq syncs /\ (Apply(epoch, n) \/ UNCHANGED store)
  BY <1>1, Zenon DEF ApplyOwn, Sequence
<1>5. CASE Apply(epoch, n) BY <1>2, <1>3, <1>4, <1>5, ApplyStep, Zenon
<1>6. CASE UNCHANGED store BY <1>4, <1>6, FlagsStep, Zenon DEF store
<1> QED BY <1>4, <1>5, <1>6, Zenon

\* The invariant holds of every reachable state: one step per operation.
LEMMA Invariant == Spec => []Inv
<1>1. ASSUME Inv, [Next]_vars PROVE Inv'
  <2>1. CASE NewPublisher \/ ReadStates BY <1>1, <2>1, ReadStep, Zenon
  <2>2. CASE Lookup BY <1>1, <2>2, FlagsStep, Zenon DEF Lookup, FailClosed
  <2>3. CASE Tick
    <3>1. DOMAIN functions' = DOMAIN functions
          /\ \A f \in DOMAIN functions : /\ functions'[f].snapshot = functions[f].snapshot
                                       /\ DOMAIN functions'[f] = DOMAIN functions[f]
      BY <1>1, <2>3, Zenon DEF Tick, Inv, Types, View
    <3> QED BY <1>1, <2>3, <3>1, ViewStep, Zenon DEF Tick
  <2>4. ASSUME NEW connected \in BOOLEAN, SetWatchConnected(connected) PROVE Inv'
    BY <1>1, <2>4, FlagsStep, Zenon DEF SetWatchConnected
  <2>5. ASSUME NEW f \in FunctionIDs, Change(f) \/ Build(f) PROVE Inv' BY <1>1, <2>5, ChangeStep, BuildStep, Zenon
  <2>6. ASSUME NEW f \in FunctionIDs, NEW a \in AssignmentsOf[f], SuppressEndpoint(f, a) PROVE Inv'
    <3>1. DOMAIN functions' = DOMAIN functions
          /\ \A g \in DOMAIN functions : /\ functions'[g].snapshot = functions[g].snapshot
                                       /\ DOMAIN functions'[g] = DOMAIN functions[g]
      BY <1>1, <2>6, Zenon DEF SuppressEndpoint, Inv, Types, View
    <3> QED BY <1>1, <2>6, <3>1, ViewStep, Zenon DEF SuppressEndpoint
  <2>7. ASSUME NEW x \in syncs, SyncFails(x) \/ BuildFull(x) \/ ApplyOwn(x) PROVE Inv'
    <3>1. CASE SyncFails(x) BY <1>1, <3>1, FlagsStep, Zenon DEF SyncFails, store
    <3>2. CASE BuildFull(x) BY <1>1, <3>2, BuildFullStep, Zenon
    <3>3. CASE ApplyOwn(x) BY <1>1, <3>3, ApplyOwnStep, Zenon
    <3> QED BY <2>7, <3>1, <3>2, <3>3, Zenon
  <2>8. ASSUME NEW e \in 1..MaxEpoch, NEW n \in 1..Sequence(e), Watch(e, n) PROVE Inv'
    <3>1. n \in Numbers(e) BY Zenon DEF Numbers, Sequence
    <3> QED BY <1>1, <2>8, <3>1, ApplyStep, Zenon DEF Watch
  <2>9. CASE UNCHANGED vars BY <1>1, <2>9, FlagsStep, Zenon DEF vars, store
  <2> QED BY <1>1, <2>1, <2>2, <2>3, <2>4, <2>5, <2>6, <2>7, <2>8, <2>9, Zenon DEF Next
<1> QED BY <1>1, Begin, PTL DEF Spec

\* Whatever the Watch loses, repeats or reorders, the Store holds the last
\* complete batch up to its position with every later event applied, no more
\* and no less.
THEOREM PrefixHolds == Spec => []HoldsPublishedPrefix
<1>1. Inv => HoldsPublishedPrefix BY Zenon DEF Inv
<1> QED BY <1>1, Invariant, PTL

\* Every snapshot of the Store was published at its position or before.
LEMMA Origin ==
  ASSUME Inv, NEW f \in DOMAIN functions
  PROVE  /\ fullSynced /\ position.epoch \in 1..MaxEpoch
         /\ \E k \in Numbers(position.epoch) :
              /\ k <= position.sequence /\ f \in DOMAIN published[position.epoch][k].snapshots
              /\ functions[f].snapshot = published[position.epoch][k].snapshots[f]
<1>1. fullSynced BY Zenon DEF Inv, Sourced
<1>2. PICK e, n : e = position.epoch /\ n = position.sequence BY Zenon
<1>3. PICK k, l : k = Max(Mentions(e, n, f)) /\ l = LastFull(e, n) BY Zenon
<1>4. e \in 1..MaxEpoch /\ n \in Numbers(e) /\ l \in 1..n /\ k \in Mentions(e, n, f)
  BY <1>1, <1>2, <1>3, Zenon DEF Inv, Sourced
<1>5. k \in l..n /\ f \in DOMAIN published[e][k].snapshots BY <1>3, <1>4, Zenon DEF Mentions
<1>6. Len(published[e]) \in Nat BY <1>4, EventParts, Zenon
<1>7. k \in Numbers(e) /\ k <= n BY <1>4, <1>5, <1>6 DEF Numbers
<1>8. functions[f].snapshot = published[e][k].snapshots[f] BY <1>1, <1>2, <1>3, Zenon DEF Inv, HoldsPublishedPrefix
<1> QED BY <1>1, <1>2, <1>4, <1>5, <1>7, <1>8, Zenon

\* A complete batch that is later than the Store's position is never refused for
\* its revisions: FullSync reads and numbers under one lock.
THEOREM BatchesFit == Spec => []LaterBatchFits
<1>1. ASSUME Inv PROVE LaterBatchFits
  <2> SUFFICES ASSUME NEW d \in 1..MaxEpoch, NEW m \in Numbers(d), published[d][m].full, Later(d, m),
                      NEW f \in DOMAIN published[d][m].snapshots \cap DOMAIN functions
               PROVE  published[d][m].snapshots[f].revision >= functions[f].snapshot.revision
    BY Zenon DEF LaterBatchFits, RevisionsDoNotRegress, Numbers, Sequence
  <2>1. PICK e, n : e = position.epoch /\ n = position.sequence BY Zenon
  <2>2. e \in 1..MaxEpoch /\ n \in Nat BY <1>1, <2>1, Origin, Zenon DEF Inv, Types
  <2>3. PICK k \in Numbers(e) : /\ k <= n /\ f \in DOMAIN published[e][k].snapshots
                                /\ functions[f].snapshot = published[e][k].snapshots[f]
    BY <1>1, <2>1, Origin, Zenon
  <2>4. k \in Nat /\ m \in Nat BY <1>1, <2>2, EventParts DEF Numbers
  <2>5. Before(e, k, d, m) BY <2>1, <2>2, <2>3, <2>4 DEF Later, Before
  <2>6. NotOlder(published[d][m].snapshots, published[e][k].snapshots) BY <1>1, <2>2, <2>5, Zenon DEF Inv, Ordered
  <2> QED BY <2>3, <2>6, Zenon DEF NotOlder
<1> QED BY <1>1, Invariant, PTL

\* What a step may do to the position and to the views.
Forward ==
  /\ position' = position \/ position'.epoch > position.epoch
       \/ (position'.epoch = position.epoch /\ position'.sequence > position.sequence)
  /\ \A f \in DOMAIN functions \cap DOMAIN functions' :
       /\ functions'[f].snapshot.revision >= functions[f].snapshot.revision
       /\ \A a \in functions[f].suppressed \cap functions'[f].snapshot.endpoints :
            a \notin VisibleEndpoints(f)'

\* Whoever keeps its snapshot, and what it has suppressed, does not go back.
LEMMA KeptForward ==
  ASSUME Inv, UNCHANGED position,
         \A f \in DOMAIN functions \cap DOMAIN functions' :
           functions'[f].snapshot = functions[f].snapshot /\ functions[f].suppressed \subseteq functions'[f].suppressed
  PROVE  Forward
<1>1. \A f \in DOMAIN functions : functions[f].snapshot.revision \in Nat BY Zenon DEF Inv, Types, View
<1> QED BY <1>1 DEF Forward, VisibleEndpoints

\* A received snapshot keeps its suppressions, and passed the comparison of
\* revisions.
LEMMA ReceivedForward ==
  ASSUME NEW f \in DOMAIN functions, NEW s, s.revision >= functions[f].snapshot.revision, f \in DOMAIN functions',
         functions'[f] = Received(f, s)
  PROVE  /\ functions'[f].snapshot.revision >= functions[f].snapshot.revision
         /\ \A a \in functions[f].suppressed \cap functions'[f].snapshot.endpoints : a \notin VisibleEndpoints(f)'
<1>1. functions'[f].snapshot = s /\ functions'[f].suppressed = functions[f].suppressed \cap s.endpoints
  BY ReceivedParts, Zenon
<1> QED BY <1>1, Zenon DEF VisibleEndpoints

\* No event takes the Store back.
LEMMA ApplyForward ==
  ASSUME Inv, NEW e \in 1..MaxEpoch, NEW n \in Numbers(e), Apply(e, n) PROVE Forward
<1>1. CASE UNCHANGED <<functions, position>> BY <1>1, KeptForward, Zenon
<1>2. CASE published[e][n].full /\ ~UNCHANGED <<functions, position>>
  <2>1. PICK b : b = published[e][n].snapshots BY Zenon
  <2>2. /\ Later(e, n) /\ RevisionsDoNotRegress(b) /\ functions' = [f \in DOMAIN b |-> Received(f, b[f])]
        /\ position' = [epoch |-> e, sequence |-> n]
    BY <1>2, <2>1, Zenon DEF Apply, ApplyFull, FailClosed, FullIsLater
  <2>3. position'.epoch > position.epoch \/ (position'.epoch = position.epoch /\ position'.sequence > position.sequence)
    BY <2>2, Zenon DEF Later
  <2>4. \A f \in DOMAIN functions \cap DOMAIN functions' :
          b[f].revision >= functions[f].snapshot.revision /\ functions'[f] = Received(f, b[f])
    BY <2>2, Zenon DEF RevisionsDoNotRegress
  <2> QED BY <2>3, <2>4, ReceivedForward, Zenon DEF Forward
<1>3. CASE ~published[e][n].full /\ ~UNCHANGED <<functions, position>>
  <2>1. PICK b : b = published[e][n].snapshots BY Zenon
  <2>2. PICK f \in DOMAIN b : ApplyNext(e, n, f, b[f]) BY <1>3, <2>1, Zenon DEF Apply, ApplyGap
  <2>3. /\ NextInOrder(e, n) /\ RevisionsDoNotRegress([g \in {f} |-> b[f]])
        /\ functions' = [g \in DOMAIN functions \cup {f} |-> IF g = f THEN Received(f, b[f]) ELSE functions[g]]
        /\ position' = [epoch |-> e, sequence |-> n]
    BY <1>3, <2>2, ZenonT(40) DEF ApplyNext, FailClosed
  <2>4. position'.epoch = position.epoch /\ position'.sequence > position.sequence
    BY <2>3 DEF NextInOrder, Inv, Types
  <2>5. ASSUME NEW g \in DOMAIN functions \cap DOMAIN functions'
        PROVE  /\ functions'[g].snapshot.revision >= functions[g].snapshot.revision
               /\ \A a \in functions[g].suppressed \cap functions'[g].snapshot.endpoints : a \notin VisibleEndpoints(g)'
    <3>1. CASE g = f
      <4>1. b[f].revision >= functions[f].snapshot.revision BY <2>3, <3>1, Zenon DEF RevisionsDoNotRegress
      <4>2. functions'[g] = Received(g, b[g]) BY <2>3, <3>1, Zenon
      <4> QED BY <3>1, <4>1, <4>2, ReceivedForward, Zenon
    <3>2. CASE g # f
      <4>1. functions'[g] = functions[g] BY <2>3, <3>2, Zenon
      <4>2. functions[g].snapshot.revision \in Nat BY Zenon DEF Inv, Types, View
      <4> QED BY <4>1, <4>2 DEF VisibleEndpoints
    <3> QED BY <3>1, <3>2, Zenon
  <2> QED BY <2>4, <2>5, Zenon DEF Forward
<1> QED BY <1>1, <1>2, <1>3, Zenon

\* A Gateway never goes back: not to an earlier position or revision, and not to
\* an Endpoint that it suppressed while the same fence is published.
THEOREM StoreForward == Spec => NeverBack
<1>1. ASSUME Inv, Next PROVE Forward
  <2>1. CASE Tick
    <3>1. \A f \in DOMAIN functions : /\ functions'[f].snapshot = functions[f].snapshot
                                      /\ functions'[f].suppressed = functions[f].suppressed
      BY <1>1, <2>1, Zenon DEF Tick, Inv, Types, View
    <3> QED BY <1>1, <2>1, <3>1, KeptForward, Zenon DEF Tick
  <2>2. ASSUME NEW f \in FunctionIDs, NEW a \in AssignmentsOf[f], SuppressEndpoint(f, a) PROVE Forward
    <3>1. \A g \in DOMAIN functions : /\ functions'[g].snapshot = functions[g].snapshot
                                      /\ functions[g].suppressed \subseteq functions'[g].suppressed
      BY <1>1, <2>2, Zenon DEF SuppressEndpoint, Inv, Types, View
    <3> QED BY <1>1, <2>2, <3>1, KeptForward, Zenon DEF SuppressEndpoint
  <2>3. ASSUME NEW e \in 1..MaxEpoch, NEW n \in 1..Sequence(e), Watch(e, n) PROVE Forward
    <3>1. n \in Numbers(e) BY Zenon DEF Numbers, Sequence
    <3> QED BY <1>1, <2>3, <3>1, ApplyForward, Zenon DEF Watch
  <2>4. ASSUME NEW x \in syncs, ApplyOwn(x) PROVE Forward
    <3>1. PICK n : n = Len(published[epoch]) BY Zenon
    <3>2. epoch \in 1..MaxEpoch /\ n \in Nat /\ n > 0
      BY <1>1, <2>4, <3>1, EventParts, Zenon DEF Inv, Types, Numbered, ApplyOwn
    <3>3. n \in Numbers(epoch) BY <3>1, <3>2 DEF Numbers
    <3>4. Apply(epoch, n) \/ UNCHANGED store BY <2>4, <3>1, Zenon DEF ApplyOwn, Sequence
    <3>5. CASE Apply(epoch, n) BY <1>1, <3>2, <3>3, <3>5, ApplyForward, Zenon
    <3>6. CASE UNCHANGED store BY <1>1, <3>6, KeptForward, Zenon DEF store
    <3> QED BY <3>4, <3>5, <3>6, Zenon
  <2>5. CASE UNCHANGED <<functions, position>> BY <1>1, <2>5, KeptForward, Zenon
  <2> QED BY <1>1, <2>1, <2>2, <2>3, <2>4, <2>5, Zenon
    DEF Next, NewPublisher, Lookup, FailClosed, SetWatchConnected, Change, Build, ReadStates, SyncFails, BuildFull, store
<1>2. Inv /\ [Next]_vars => [Forward]_vars BY <1>1, Zenon
<1>3. NeverBack <=> [][Forward]_vars BY PTL DEF NeverBack, Forward
<1> QED BY <1>2, <1>3, Invariant, PTL DEF Spec

\* A batch says of every Function only what may be said of it.
Fits(b) == \A f \in DOMAIN b : f \in FunctionIDs /\ b[f] \in Snapshot(f)

\* An entry of the Store says so too; it suppresses only Endpoints that it has,
\* and its age is capped.
Entry(f, v) ==
  /\ f \in FunctionIDs /\ v.snapshot \in Snapshot(f)
  /\ v.suppressed \subseteq v.snapshot.endpoints
  /\ v.age \in 0..maxStale

EventIDs == UNION {{e} \X (1..Sequence(e)) : e \in 1..MaxEpoch}

\* What the types of the state rest on: the batches on their way fit as well.
SourceTyped ==
  /\ Fits(catalog)
  /\ \A x \in syncs : x.at \in {"read", "built"} /\ Fits(x.draft)
  /\ \A e \in 1..MaxEpoch : \A n \in Numbers(e) : Fits(published[e][n].snapshots)
  /\ IsFiniteSet(EventIDs) /\ Cardinality(EventIDs) <= MaxEvents

StoreTyped ==
  /\ \A f \in DOMAIN functions : Entry(f, functions[f])
  /\ fullSynced \in BOOLEAN /\ needsFullSync \in BOOLEAN
  /\ maxStale \in MaxStales /\ watchConnected \in BOOLEAN /\ clockHealthy \in BOOLEAN

\* A Store whose clock went backwards asks for a batch for ever.
Closed == ~clockHealthy => needsFullSync

Typed == SourceTyped /\ StoreTyped /\ Closed

\* A new event is one identity more.
LEMMA OneMore ==
  ASSUME Inv, SourceTyped, NEW full \in BOOLEAN, NEW snaps \in Batches, Publish(full, snaps), Events < MaxEvents
  PROVE  (IsFiniteSet(EventIDs) /\ Cardinality(EventIDs) <= MaxEvents)'
<1>1. PICK m : m = Len(published[epoch]) + 1 BY Zenon
<1>2. /\ \A e \in 1..MaxEpoch \ {epoch} : published'[e] = published[e]
      /\ m \in Nat /\ Len(published'[epoch]) = m /\ Len(published[epoch]) = m - 1
  BY <1>1, Appended
<1>3. epoch \in 1..MaxEpoch BY Zenon DEF Inv, Types
<1>4. PICK I : I = EventIDs BY Zenon
<1>5. IsFiniteSet(I) /\ Cardinality(I) \in Nat /\ Cardinality(I) < MaxEvents
  BY <1>4, FS_CardinalityType, Zenon DEF SourceTyped, Events, EventIDs
<1>6. EventIDs' = I \cup {<<epoch, m>>}
  <2>1. \A i : i \in I <=> \E e \in 1..MaxEpoch : i \in {e} \X (1..Len(published[e])) BY <1>4, Zenon DEF EventIDs, Sequence
  <2>2. \A i : i \in EventIDs' <=> \E e \in 1..MaxEpoch : i \in {e} \X (1..Len(published'[e]))
    BY Zenon DEF EventIDs, Sequence
  <2>3. 1..m = (1..(m - 1)) \cup {m} BY <1>1, <1>2
  <2>4. {epoch} \X (1..Len(published'[epoch])) = ({epoch} \X (1..Len(published[epoch]))) \cup {<<epoch, m>>}
    BY <1>2, <2>3
  <2>5. \A e \in 1..MaxEpoch : \A i : i \in {e} \X (1..Len(published'[e]))
          <=> i \in {e} \X (1..Len(published[e])) \/ (e = epoch /\ i = <<epoch, m>>)
    BY <1>2, <2>4, Zenon
  <2>6. \A i : i \in EventIDs' <=> i \in I \cup {<<epoch, m>>} BY <1>3, <2>1, <2>2, <2>5, Zenon
  <2> QED BY <2>6, Zenon
<1>7. PICK J : J = I \cup {<<epoch, m>>} BY Zenon
<1>8. IsFiniteSet(J) /\ Cardinality(J) <= Cardinality(I) + 1 /\ Cardinality(J) \in Nat
  <2>1. PICK i : i = <<epoch, m>> BY Zenon
  <2>2. IsFiniteSet(I \cup {i}) /\ Cardinality(I \cup {i}) = IF i \in I THEN Cardinality(I) ELSE Cardinality(I) + 1
    BY <1>5, FS_AddElement, Zenon
  <2> QED BY <1>5, <1>7, <2>1, <2>2
<1> QED BY <1>5, <1>6, <1>7, <1>8, DiscoveryAssumption

\* A batch that fits may be published.
LEMMA PublishFits ==
  ASSUME Inv, SourceTyped, NEW full \in BOOLEAN, NEW snaps \in Batches, Publish(full, snaps), Events < MaxEvents,
         Fits(snaps), UNCHANGED catalog, \A x \in syncs' : x.at \in {"read", "built"} /\ Fits(x.draft)
  PROVE  SourceTyped'
<1>1. (IsFiniteSet(EventIDs) /\ Cardinality(EventIDs) <= MaxEvents)' BY OneMore, Zenon
<1>2. PICK m : m = Len(published[epoch]) + 1 BY Zenon
<1>3. /\ \A e \in 1..MaxEpoch \ {epoch} : published'[e] = published[e]
      /\ m \in Nat /\ Len(published'[epoch]) = m /\ Len(published[epoch]) = m - 1
      /\ \A n \in Numbers(epoch) : published'[epoch][n] = published[epoch][n]
      /\ published'[epoch][m].snapshots = snaps
  BY <1>2, Appended
<1>4. ASSUME NEW e \in 1..MaxEpoch, NEW n \in 1..Len(published'[e]) PROVE Fits(published'[e][n].snapshots)
  <2>1. CASE e = epoch /\ n = m BY <1>3, <2>1, Zenon
  <2>2. CASE ~(e = epoch /\ n = m)
    <3>1. n \in Numbers(e) /\ published'[e][n] = published[e][n] BY <1>3, <2>2 DEF Numbers
    <3> QED BY <3>1, Zenon DEF SourceTyped
  <2> QED BY <2>1, <2>2, Zenon
<1>5. Fits(catalog)' BY Zenon DEF SourceTyped, Fits
<1>6. \A x \in syncs' : x.at \in {"read", "built"} /\ Fits(x.draft) BY Zenon
<1> QED BY <1>1, <1>4, <1>5, <1>6, Zenon DEF SourceTyped, Numbers, Fits

\* A step that publishes nothing, and at most ends a FullSync.
LEMMA SourceStays ==
  ASSUME SourceTyped, UNCHANGED source, syncs' \subseteq syncs PROVE SourceTyped'
BY Zenon DEF SourceTyped, source, Numbers, Fits, EventIDs, Sequence

\* Functions change within their bounds.
LEMMA ChangeFits ==
  ASSUME SourceTyped, NEW f \in FunctionIDs, Change(f) PROVE SourceTyped'
<1>1. PICK r \in 1..MaxRevision[f], es \in SUBSET AssignmentsOf[f] :
        catalog' = [g \in DOMAIN catalog \cup {f} |->
                        IF g = f THEN [revision |-> r, endpoints |-> es] ELSE catalog[g]]
  BY Zenon DEF Change
<1>2. UNCHANGED <<published, syncs>> BY Zenon DEF Change
<1>3. PICK s : s = [revision |-> r, endpoints |-> es] BY Zenon
<1>4. s \in Snapshot(f) BY <1>3, Zenon DEF Snapshot
<1>5. \A g \in DOMAIN catalog' : g \in FunctionIDs /\ catalog'[g] \in Snapshot(g)
  BY <1>1, <1>3, <1>4, Zenon DEF SourceTyped, Fits
<1>6. Fits(catalog)' BY <1>5, Zenon DEF Fits
<1> QED BY <1>2, <1>6, Zenon DEF SourceTyped, Numbers, Fits, EventIDs, Sequence

\* Every step of Publisher and synchroniser.
LEMMA SourceStep ==
  ASSUME Inv, SourceTyped,
         NewPublisher \/ ReadStates \/ (\E f \in FunctionIDs : Change(f) \/ Build(f))
           \/ \E x \in syncs : SyncFails(x) \/ BuildFull(x)
  PROVE  SourceTyped'
<1>1. CASE NewPublisher BY <1>1, Zenon DEF NewPublisher, SourceTyped, Numbers, Fits, EventIDs, Sequence
<1>2. CASE ReadStates
  <2>1. PICK x : x = [at |-> "read", draft |-> catalog] BY Zenon
  <2>2. x.at = "read" /\ x.draft = catalog BY <2>1, Zenon
  <2>3. syncs' = syncs \cup {x} /\ UNCHANGED source BY <1>2, <2>1, Zenon DEF ReadStates
  <2>4. \A y \in syncs' : y.at \in {"read", "built"} /\ Fits(y.draft) BY <2>2, <2>3, Zenon DEF SourceTyped
  <2> QED BY <2>3, <2>4, Zenon DEF SourceTyped, source, Numbers, Fits, EventIDs, Sequence
<1>3. ASSUME NEW f \in FunctionIDs, Change(f) PROVE SourceTyped' BY <1>3, ChangeFits, Zenon
<1>4. ASSUME NEW f \in FunctionIDs, Build(f) PROVE SourceTyped'
  <2>1. PICK b : b = [g \in {f} |-> catalog[f]] BY Zenon
  <2>2. f \in DOMAIN catalog /\ Publish(FALSE, b) /\ UNCHANGED <<catalog, syncs>> /\ MayChange
    BY <1>4, <2>1, Zenon DEF Build
  <2>3. catalog[f] \in Snapshots BY <2>2, BatchParts, Zenon DEF Inv, Types
  <2>4. b \in [{f} -> Snapshots] /\ DOMAIN b = {f} /\ b[f] = catalog[f] BY <2>1, <2>3, Zenon
  <2>5. b \in Batches BY <2>4, MakeBatch, Zenon
  <2>6. Fits(b) BY <2>2, <2>4, Zenon DEF SourceTyped, Fits
  <2>7. Events < MaxEvents
    <3>1. Events \in Nat BY FS_CardinalityType, Zenon DEF SourceTyped, Events, EventIDs
    <3> QED BY <2>2, <3>1, DiscoveryAssumption DEF MayChange
  <2>8. \A y \in syncs' : y.at \in {"read", "built"} /\ Fits(y.draft) BY <2>2, Zenon DEF SourceTyped
  <2> QED BY <2>2, <2>5, <2>6, <2>7, <2>8, PublishFits, Zenon
<1>5. ASSUME NEW x \in syncs, SyncFails(x) PROVE SourceTyped'
  BY <1>5, SourceStays, Zenon DEF SyncFails
<1>6. ASSUME NEW x \in syncs, BuildFull(x) PROVE SourceTyped'
  <2>1. PICK b : b = [at |-> "built", draft |-> NoDraft] BY Zenon
  <2>2. b.at = "built" /\ b.draft = NoDraft BY <2>1, Zenon
  <2>3. Publish(TRUE, x.draft) /\ Events < MaxEvents /\ UNCHANGED catalog /\ syncs' = (syncs \ {x}) \cup {b}
    BY <1>6, <2>1, Zenon DEF BuildFull
  <2>4. Fits(NoDraft) BY NothingIsBatch, Zenon DEF Fits
  <2>5. \A y \in syncs' : y.at \in {"read", "built"} /\ Fits(y.draft) BY <2>2, <2>3, <2>4, Zenon DEF SourceTyped
  <2>6. x.draft \in Batches /\ Fits(x.draft) BY Zenon DEF Inv, Types, SourceTyped
  <2> QED BY <2>3, <2>5, <2>6, PublishFits, Zenon
<1> QED BY <1>1, <1>2, <1>3, <1>4, <1>5, <1>6, Zenon

\* A received snapshot that fits is an entry.
LEMMA ReceivedEntry ==
  ASSUME NEW f \in FunctionIDs, NEW s \in Snapshot(f), maxStale \in Nat
  PROVE  Entry(f, Received(f, s))
<1>1. PICK r : r = Received(f, s) BY Zenon
<1>2. r.snapshot = s /\ r.age = 0 BY <1>1, Zenon DEF Received
<1>3. r.suppressed = IF f \in DOMAIN functions THEN functions[f].suppressed \cap s.endpoints ELSE {}
  BY <1>1, ReceivedParts, Zenon
<1>4. r.suppressed \subseteq s.endpoints BY <1>3, Zenon
<1>5. r.age \in 0..maxStale BY <1>2
<1>6. Entry(f, r) BY <1>2, <1>4, <1>5, Zenon DEF Entry
<1> QED BY <1>1, <1>6, Zenon

\* A step after which all entries are entries, the flags are flags, and the
\* clock has not become healthy.
LEMMA StoreParts ==
  ASSUME StoreTyped, Closed, UNCHANGED maxStale,
         \A f \in DOMAIN functions' : Entry(f, functions'[f]),
         fullSynced' \in BOOLEAN, needsFullSync' \in BOOLEAN, watchConnected' \in BOOLEAN, clockHealthy' \in BOOLEAN,
         ~clockHealthy' => needsFullSync'
  PROVE  StoreTyped' /\ Closed'
<1>1. \A f \in DOMAIN functions' : Entry(f, functions[f])' BY Zenon DEF Entry
<1> QED BY <1>1, Zenon DEF StoreTyped, Closed

\* A clock that is found to have gone backwards.
LEMMA FailClosedStep ==
  ASSUME StoreTyped, Closed, FailClosed PROVE StoreTyped' /\ Closed'
BY StoreParts, Zenon DEF FailClosed, StoreTyped

\* The Watch is a flag.
LEMMA ConnectedIs == ASSUME NEW c \in BOOLEAN PROVE Connected(c) \in BOOLEAN
BY Zenon DEF Connected

\* An event reaches the Store, in whatever order.
LEMMA ApplyTyped ==
  ASSUME Inv, Typed, NEW e \in 1..MaxEpoch, NEW n \in Numbers(e), Apply(e, n) PROVE StoreTyped' /\ Closed'
<1>1. PICK b : b = published[e][n].snapshots BY Zenon
<1>2. Fits(b) BY <1>1, Zenon DEF Typed, SourceTyped
<1>3. maxStale \in Nat BY DiscoveryAssumption, Zenon DEF Typed, StoreTyped
<1>4. StoreTyped /\ Closed BY Zenon DEF Typed
<1>5. CASE FailClosed BY <1>4, <1>5, FailClosedStep, Zenon
<1>6. CASE ApplyGap(e, n) BY <1>4, <1>6, StoreParts, Zenon DEF ApplyGap, StoreTyped
<1>7. CASE ApplyFull(e, n, b) /\ ~FailClosed
  <2>1. /\ clockHealthy /\ functions' = [f \in DOMAIN b |-> Received(f, b[f])] /\ fullSynced' = TRUE
        /\ needsFullSync' = FALSE /\ watchConnected' = Connected(TRUE) /\ UNCHANGED <<maxStale, clockHealthy>>
    BY <1>7, Zenon DEF ApplyFull
  <2>2. \A f \in DOMAIN b : Entry(f, Received(f, b[f])) BY <1>2, <1>3, ReceivedEntry, Zenon DEF Fits
  <2>3. \A f \in DOMAIN functions' : Entry(f, functions'[f]) BY <2>1, <2>2, Zenon
  <2>4. watchConnected' \in BOOLEAN BY <2>1, ConnectedIs, Zenon
  <2> QED BY <1>4, <2>1, <2>3, <2>4, StoreParts, Zenon
<1>8. ASSUME NEW f \in DOMAIN b, ApplyNext(e, n, f, b[f]), ~FailClosed PROVE StoreTyped' /\ Closed'
  <2>1. /\ clockHealthy /\ watchConnected' = Connected(TRUE)
        /\ functions' = [g \in DOMAIN functions \cup {f} |-> IF g = f THEN Received(f, b[f]) ELSE functions[g]]
        /\ UNCHANGED <<fullSynced, needsFullSync, maxStale, clockHealthy>>
    BY <1>8, Zenon DEF ApplyNext
  <2>2. PICK r : r = Received(f, b[f]) BY Zenon
  <2>3. Entry(f, r) BY <1>2, <1>3, <2>2, ReceivedEntry, Zenon DEF Fits
  <2>4. \A g \in DOMAIN functions : Entry(g, functions[g]) BY <1>4, Zenon DEF StoreTyped
  <2>5. \A g \in DOMAIN functions' : Entry(g, functions'[g]) BY <2>1, <2>2, <2>3, <2>4, Zenon
  <2>6. watchConnected' \in BOOLEAN BY <2>1, ConnectedIs, Zenon
  <2> QED BY <1>4, <2>1, <2>5, <2>6, StoreParts, Zenon DEF StoreTyped
<1>9. ApplyFull(e, n, b) \/ ApplyGap(e, n) \/ \E f \in DOMAIN b : ApplyNext(e, n, f, b[f]) BY <1>1, Zenon DEF Apply
<1> QED BY <1>5, <1>6, <1>7, <1>8, <1>9, Zenon

\* Time passes up to the window.
LEMMA TickTyped ==
  ASSUME Inv, StoreTyped, Closed, Tick PROVE StoreTyped' /\ Closed'
<1>1. maxStale \in Nat BY DiscoveryAssumption, Zenon DEF StoreTyped
<1>2. ASSUME NEW f \in DOMAIN functions PROVE Entry(f, functions'[f])
  <2>1. PICK v, a : v = functions[f] /\ a = Min({v.age + 1, maxStale}) BY Zenon
  <2>2. Entry(f, v) /\ DOMAIN v = {"snapshot", "suppressed", "age"} BY <2>1, Zenon DEF StoreTyped, Inv, Types, View
  <2>3. functions'[f] = [v EXCEPT !.age = a] BY <2>1, Zenon DEF Tick
  <2>4. a \in 0..maxStale
    <3>1. PICK S : S = {v.age + 1, maxStale} BY Zenon
    <3>2. v.age + 1 \in Nat BY <1>1, <2>2 DEF Entry
    <3>3. \E x \in S : \A y \in S : x <= y BY <1>1, <3>1, <3>2
    <3>4. Min(S) \in S /\ \A y \in S : Min(S) <= y BY <3>3, Zenon DEF Min
    <3>5. a = Min(S) BY <2>1, <3>1, Zenon
    <3> QED BY <1>1, <3>1, <3>2, <3>4, <3>5
  <2>5. functions'[f].snapshot = v.snapshot /\ functions'[f].suppressed = v.suppressed /\ functions'[f].age = a
    BY <2>2, <2>3, Zenon
  <2> QED BY <2>2, <2>4, <2>5, Zenon DEF Entry
<1>3. DOMAIN functions' = DOMAIN functions BY Zenon DEF Tick
<1> QED BY <1>2, <1>3, StoreParts, Zenon DEF Tick, StoreTyped, Closed

\* An Endpoint is suppressed where its snapshot names it.
LEMMA SuppressTyped ==
  ASSUME Inv, StoreTyped, Closed, NEW f \in FunctionIDs, NEW a \in AssignmentsOf[f], SuppressEndpoint(f, a)
  PROVE  StoreTyped' /\ Closed'
<1>1. PICK v : v = functions[f] BY Zenon
<1>2. f \in DOMAIN functions /\ a \in v.snapshot.endpoints
      /\ functions' = [functions EXCEPT ![f] = [v EXCEPT !.suppressed = v.suppressed \cup {a}]]
  BY <1>1, Zenon DEF SuppressEndpoint
<1>3. Entry(f, v) /\ DOMAIN v = {"snapshot", "suppressed", "age"} BY <1>1, <1>2, Zenon DEF StoreTyped, Inv, Types, View
<1>4. PICK w : w = [v EXCEPT !.suppressed = v.suppressed \cup {a}] BY Zenon
<1>5. w.snapshot = v.snapshot /\ w.suppressed = v.suppressed \cup {a} /\ w.age = v.age BY <1>3, <1>4, Zenon
<1>6. Entry(f, w) BY <1>2, <1>3, <1>5, Zenon DEF Entry
<1>7. \A g \in DOMAIN functions' : Entry(g, functions'[g]) BY <1>2, <1>4, <1>6, Zenon DEF StoreTyped
<1> QED BY <1>7, StoreParts, Zenon DEF SuppressEndpoint, StoreTyped, Closed

\* The types are kept by every step.
LEMMA TypedStep ==
  ASSUME Inv, Typed, [Next]_vars PROVE Typed'
<1>1. SourceTyped /\ StoreTyped /\ Closed BY Zenon DEF Typed
<1>2. CASE UNCHANGED <<store, clockHealthy>>
  <2>1. StoreTyped' /\ Closed' BY <1>1, <1>2, StoreParts, Zenon DEF store, StoreTyped, Closed
  <2>2. CASE NewPublisher \/ ReadStates \/ (\E f \in FunctionIDs : Change(f) \/ Build(f))
               \/ \E x \in syncs : SyncFails(x) \/ BuildFull(x)
    BY <1>1, <2>1, <2>2, SourceStep, Zenon DEF Typed
  <2>3. CASE UNCHANGED source /\ syncs' \subseteq syncs BY <1>1, <2>1, <2>3, SourceStays, Zenon DEF Typed
  <2> QED BY <2>2, <2>3, Zenon
    DEF Next, vars, Lookup, Tick, SetWatchConnected, SuppressEndpoint, ApplyOwn, Watch
<1>3. CASE Lookup \/ Tick \/ (\E connected \in BOOLEAN : SetWatchConnected(connected))
             \/ \E f \in FunctionIDs : \E a \in AssignmentsOf[f] : SuppressEndpoint(f, a)
  <2>1. SourceTyped' BY <1>1, <1>3, SourceStays, Zenon DEF Lookup, Tick, SetWatchConnected, SuppressEndpoint
  <2>2. CASE Lookup BY <1>1, <2>1, <2>2, FailClosedStep, Zenon DEF Lookup, Typed
  <2>3. CASE Tick BY <1>1, <2>1, <2>3, TickTyped, Zenon DEF Typed
  <2>4. ASSUME NEW connected \in BOOLEAN, SetWatchConnected(connected) PROVE Typed'
    <3>1. watchConnected' \in BOOLEAN BY <2>4, ConnectedIs, Zenon DEF SetWatchConnected
    <3> QED BY <1>1, <2>1, <2>4, <3>1, StoreParts, Zenon DEF SetWatchConnected, StoreTyped, Closed, Typed
  <2>5. ASSUME NEW f \in FunctionIDs, NEW a \in AssignmentsOf[f], SuppressEndpoint(f, a) PROVE Typed'
    BY <1>1, <2>1, <2>5, SuppressTyped, Zenon DEF Typed
  <2> QED BY <1>3, <2>2, <2>3, <2>4, <2>5, Zenon
<1>4. ASSUME NEW e \in 1..MaxEpoch, NEW n \in 1..Sequence(e), Watch(e, n) PROVE Typed'
  <2>1. n \in Numbers(e) BY Zenon DEF Numbers, Sequence
  <2>2. SourceTyped' BY <1>1, <1>4, SourceStays, Zenon DEF Watch
  <2> QED BY <1>4, <2>1, <2>2, ApplyTyped, Zenon DEF Watch, Typed
<1>5. ASSUME NEW x \in syncs, ApplyOwn(x), ~UNCHANGED <<store, clockHealthy>> PROVE Typed'
  <2>1. PICK n : n = Len(published[epoch]) BY ZenonT(40)
  <2>2. epoch \in 1..MaxEpoch /\ n \in Nat /\ n > 0 BY <1>5, <2>1, EventParts, Zenon DEF Inv, Types, Numbered, ApplyOwn
  <2>3. n \in Numbers(epoch) BY <2>1, <2>2 DEF Numbers
  <2>4. Apply(epoch, n) BY <1>5, <2>1, Zenon DEF ApplyOwn, Sequence
  <2>5. SourceTyped' BY <1>1, <1>5, SourceStays, Zenon DEF ApplyOwn
  <2> QED BY <2>2, <2>3, <2>4, <2>5, ApplyTyped, Zenon DEF Typed
<1> QED BY <1>2, <1>3, <1>4, <1>5, Zenon
  DEF Next, vars, NewPublisher, ReadStates, Change, Build, SyncFails, BuildFull

\* Everything starts empty.
LEMMA TypedStart == ASSUME Init PROVE Typed
<1>1. /\ catalog = NoDraft /\ syncs = {} /\ DOMAIN functions = {} /\ ~fullSynced /\ needsFullSync /\ clockHealthy
      /\ fullSynced \in BOOLEAN /\ needsFullSync \in BOOLEAN /\ watchConnected \in BOOLEAN /\ clockHealthy \in BOOLEAN
      /\ maxStale \in MaxStales /\ published = [e \in 1..MaxEpoch |-> <<>>]
  BY Zenon DEF Init
<1>2. \A e \in 1..MaxEpoch : Len(published[e]) = 0 /\ Numbers(e) = {} BY <1>1 DEF Numbers
<1>3. EventIDs = {}
  <2>1. \A e \in 1..MaxEpoch : {e} \X (1..Sequence(e)) = {} BY <1>2, Zenon DEF Numbers, Sequence
  <2> QED BY <2>1, Zenon DEF EventIDs
<1>4. Fits(catalog) BY <1>1, NothingIsBatch, Zenon DEF Fits
<1>5. SourceTyped BY <1>1, <1>2, <1>3, <1>4, FS_EmptySet, DiscoveryAssumption DEF SourceTyped
<1>6. StoreTyped /\ Closed BY <1>1, Zenon DEF StoreTyped, Closed
<1> QED BY <1>5, <1>6, Zenon DEF Typed

\* At any time: the state has its types and stays within its bounds, a later
\* complete batch is never refused for its revisions, and a Store whose clock
\* went backwards (elapsedLocked) serves nothing any more.
THEOREM DiscoveryHolds == Spec => []DiscoveryInvariant
<1>1. Init => Typed BY TypedStart, Zenon
<1>2. Inv /\ Typed /\ [Next]_vars => Typed' BY TypedStep, Zenon
<1>3. ASSUME Inv, Typed PROVE TypeOK /\ FailsClosed
  <2>1. Events <= MaxEvents BY <1>3, Zenon DEF Typed, SourceTyped, Events, EventIDs
  <2>2. TypeOK BY <1>3, <2>1, Zenon DEF Inv, Types, Typed, SourceTyped, StoreTyped, Fits, Entry, TypeOK
  <2>3. FailsClosed BY <1>3, Zenon DEF Typed, Closed, FailsClosed, Serves
  <2> QED BY <2>2, <2>3, Zenon
<1>4. Inv /\ Typed /\ LaterBatchFits => DiscoveryInvariant BY <1>3, Zenon DEF DiscoveryInvariant
<1> QED BY <1>1, <1>2, <1>4, Invariant, BatchesFit, PTL DEF Spec

-----------------------------------------------------------------------------
(***************************************************************************)
(* The Gateway: its slots and counts are conserved, every request goes     *)
(* where its view says, and the round robin moves on.                      *)
(***************************************************************************)

-----------------------------------------------------------------------------
(* The order of a finite set of numbers. *)

\* Any set of parts of a finite set has a smallest one: what holds of a set
\* when it holds of its proper parts holds of every finite set.
LEMMA SmallestPart ==
    \A S, B : IsFiniteSet(S) /\ (\A x \in B : x \subseteq S) /\ B # {} =>
       \E x \in B : \A y \in B : ~(y \subseteq x /\ y # x)
<1> SUFFICES ASSUME NEW S, NEW B, IsFiniteSet(S), \A x \in B : x \subseteq S, B # {}
             PROVE  \E x \in B : \A y \in B : ~(y \subseteq x /\ y # x)
  OBVIOUS
<1>1. B \subseteq FiniteSubsetsOf(S)
  BY FS_FiniteSubsetsOfFinite, Zenon
<1>2. PICK x \in B : \A y \in B : ~(<<y, x>> \in StrictSubsetOrdering(S))
  BY <1>1, FS_StrictSubsetOrderingWellFounded, WFMin, Zenon
<1> QED BY <1>2, Zenon DEF StrictSubsetOrdering

\* A finite set of numbers has a greatest one.
LEMMA Greatest ==
    ASSUME NEW S \in SUBSET Nat, IsFiniteSet(S), S # {}
    PROVE  \E m \in S : \A x \in S : x <= m
<1> DEFINE Bad == {T \in SUBSET S : T # {} /\ \A m \in T : \E x \in T : ~(x <= m)}
<1> SUFFICES ASSUME Bad # {} PROVE FALSE
  <2>1. S \notin Bad
    BY Zenon
  <2> QED BY <2>1, Zenon
<1>1. PICK T \in Bad : \A y \in Bad : ~(y \subseteq T /\ y # T)
  <2>1. \A x \in Bad : x \subseteq S
    BY Zenon
  <2> HIDE DEF Bad
  <2> QED BY <2>1, SmallestPart
<1>2. PICK x : x \in T
  BY Zenon
<1>3. CASE T = {x}
  BY <1>3
<1>4. CASE T # {x}
  <2>1. T \ {x} # {} /\ T \ {x} \subseteq T /\ T \ {x} # T /\ T \ {x} \in SUBSET S
    BY <1>2, <1>4, Zenon
  <2>2. T \ {x} \notin Bad
    BY <1>1, <2>1, Zenon
  <2>3. PICK m \in T \ {x} : \A y \in T \ {x} : y <= m
    BY <2>1, <2>2, Zenon
  <2>4. x \in Nat /\ m \in Nat /\ T \subseteq Nat
    BY <1>2, Zenon
  <2>5. CASE x <= m
    <3>1. \A y \in T : y <= m
      BY <2>3, <2>5, Zenon
    <3> QED BY <3>1, <2>3, Zenon
  <2>6. CASE m <= x
    <3>1. \A y \in T : y <= x
      BY <2>3, <2>4, <2>6
    <3> QED BY <3>1, <1>2, Zenon
  <2> QED BY <2>4, <2>5, <2>6
<1> QED BY <1>3, <1>4, Zenon

\* The numbers of a set below one of them.
Below(S, e) == {o \in S : o < e}

\* Every position of a finite set of numbers is taken by one of them.
LEMMA EveryRank ==
    ASSUME NEW S \in SUBSET Nat, IsFiniteSet(S), NEW n \in Nat, n < Cardinality(S)
    PROVE  \E e \in S : Cardinality(Below(S, e)) = n
<1> DEFINE Bad == {T \in SUBSET S : n < Cardinality(T) /\ \A e \in T : Cardinality(Below(T, e)) # n}
<1> SUFFICES ASSUME Bad # {} PROVE FALSE
  <2>1. S \notin Bad
    BY Zenon
  <2> QED BY <2>1, Zenon
<1>1. PICK T \in Bad : \A y \in Bad : ~(y \subseteq T /\ y # T)
  <2>1. \A x \in Bad : x \subseteq S
    BY Zenon
  <2> HIDE DEF Bad
  <2> QED BY <2>1, SmallestPart
<1>2. IsFiniteSet(T) /\ T \subseteq Nat /\ Cardinality(T) \in Nat /\ n < Cardinality(T)
  BY <1>1, FS_Subset, FS_CardinalityType, Zenon
<1>3. T # {}
  BY <1>2, FS_EmptySet
<1>4. PICK m \in T : \A x \in T : x <= m
  BY <1>2, <1>3, Greatest, Zenon
<1>5. IsFiniteSet(T \ {m}) /\ Cardinality(T \ {m}) = Cardinality(T) - 1
  BY <1>2, FS_RemoveElement, Zenon
<1>6. Below(T, m) = T \ {m}
  <2>1. \A x \in T : x < m <=> x # m
    BY <1>2, <1>4
  <2> QED BY <2>1, Zenon DEF Below
<1>7. n < Cardinality(T \ {m})
  <2>1. Cardinality(Below(T, m)) # n
    BY <1>1, Zenon
  <2> QED BY <2>1, <1>2, <1>5, <1>6
<1>8. PICK e \in T \ {m} : Cardinality(Below(T \ {m}, e)) = n
  <2>1. T \ {m} \subseteq T /\ T \ {m} # T /\ T \ {m} \in SUBSET S
    BY Zenon
  <2> QED BY <2>1, <1>1, <1>7, Zenon
<1>9. Below(T, e) = Below(T \ {m}, e)
  <2>1. ~(m < e)
    BY <1>2, <1>4
  <2> QED BY <2>1, Zenon DEF Below
<1> QED BY <1>1, <1>8, <1>9, Zenon

\* A position picks one member, and two positions pick two (tied[cursor % len(tied)]
\* in Balancer.Acquire).
LEMMA RankedIs ==
    ASSUME NEW S \in SUBSET Nat, IsFiniteSet(S), NEW n \in Nat, n < Cardinality(S)
    PROVE  Ranked(S, n) \in S /\ Cardinality(Below(S, Ranked(S, n))) = n
<1>1. \E e \in S : Cardinality({o \in S : o < e}) = n
  BY EveryRank, Zenon DEF Below
<1> QED BY <1>1, Zenon DEF Ranked, Below

\* Two numbers in a row leave different remainders.
LEMMA NextRemainder ==
    ASSUME NEW c \in Nat, NEW n \in Nat, n > 1
    PROVE  (c + 1) % n # c % n
<1> DEFINE p == c \div n
           q == (c + 1) \div n
<1>1. c = n * p + (c % n) /\ c + 1 = n * q + ((c + 1) % n) /\ p \in Int /\ q \in Int
  OBVIOUS
<1> SUFFICES ASSUME (c + 1) % n = c % n PROVE FALSE
  BY Zenon
<1>2. c % n \in Nat /\ n * p \in Int /\ n * q \in Int
  OBVIOUS
<1>3. n * q - n * p = 1
  BY <1>1, <1>2
<1>4. n * (q - p) = 1
  BY <1>3
<1>5. CASE q - p <= 0
  <2>1. n * (q - p) <= 0
    BY <1>5
  <2> QED BY <2>1, <1>4
<1>6. CASE q - p >= 1
  <2>1. n * (q - p) >= n
    BY <1>6
  <2> QED BY <2>1, <1>4
<1> QED BY <1>5, <1>6

-----------------------------------------------------------------------------
(* The inductive invariant. *)

\* What is known of a request, given the views published so far.
RequestSound(q, vs) ==
    /\ q.at # "idle" => q.since \in 1..Len(vs)
    /\ q.at = "authenticated" =>
          \E k \in q.since..Len(vs) : vs[k].token \in {Public, q.token}
    /\ q.at \in {"routed", "leased"} =>
          /\ q.view \in 1..Len(vs)
          /\ \E k \in q.since..q.view : vs[k].token \in {Public, q.token}
    /\ q.at = "leased" =>
          LET key == IF q.idempotency # NoKey THEN q.idempotency ELSE q.id
              v == vs[q.view]
          IN  /\ q.endpoint \in DOMAIN v.target
              /\ v.target[q.endpoint] = identity(selectServing(v.targets, Hash[q.view][key]))

\* What is remembered of a choice.
Choice == [tied : SUBSET Endpoints, chosen : Endpoints \cup {0}, cursor : 0..(CursorSize - 1)]

\* The choice made last for a Target is the one before the cursor.
ChoiceSound(c, cursor) ==
    c.tied # {} =>
        /\ IsFiniteSet(c.tied) /\ c.chosen = Ranked(c.tied, c.cursor % Cardinality(c.tied))
        /\ cursor = (c.cursor + 1) % CursorSize

\* The inductive invariant.
GatewayInv ==
    /\ GatewayTypeOK /\ SlotsConserved /\ InflightConserved
    /\ \A r \in Requests : RequestSound(req[r], views)
    /\ last \in [Identities -> Choice]
    /\ \A v \in Identities : ChoiceSound(last[v], roundRobin[v])

\* A view that follows does not change what is known of a request.
LEMMA SoundAfterPublish ==
    ASSUME NEW vs \in Seq(Views), NEW v \in Views, NEW q \in Request, RequestSound(q, vs)
    PROVE  RequestSound(q, Append(vs, v))
<1> DEFINE ws == Append(vs, v)
<1>1. Len(vs) \in Nat /\ Len(ws) = Len(vs) + 1 /\ \A k \in 1..Len(vs) : ws[k] = vs[k]
  OBVIOUS
<1>2. q.since \in Nat /\ q.view \in Nat
  BY GatewayAssumption DEF Request
<1> HIDE DEF ws
<1>3. q.at # "idle" => q.since \in 1..Len(ws)
  BY <1>1, <1>2 DEF RequestSound
<1>4. ASSUME q.at = "authenticated"
      PROVE  \E k \in q.since..Len(ws) : ws[k].token \in {Public, q.token}
  <2>1. q.since \in 1..Len(vs)
    BY <1>4, Zenon DEF RequestSound
  <2>2. PICK k \in q.since..Len(vs) : vs[k].token \in {Public, q.token}
    BY <1>4, Zenon DEF RequestSound
  <2>3. k \in q.since..Len(ws) /\ ws[k] = vs[k]
    BY <1>1, <1>2, <2>1
  <2> QED BY <2>2, <2>3, Zenon
<1>5. ASSUME q.at \in {"routed", "leased"}
      PROVE  /\ q.view \in 1..Len(ws) /\ ws[q.view] = vs[q.view]
             /\ \E k \in q.since..q.view : ws[k].token \in {Public, q.token}
  <2>1. q.view \in 1..Len(vs) /\ q.since \in 1..Len(vs)
    BY <1>5, Zenon DEF RequestSound
  <2>2. PICK k \in q.since..q.view : vs[k].token \in {Public, q.token}
    BY <1>5, Zenon DEF RequestSound
  <2>3. ws[k] = vs[k] /\ ws[q.view] = vs[q.view] /\ q.view \in 1..Len(ws)
    BY <1>1, <1>2, <2>1
  <2> QED BY <2>2, <2>3, Zenon
<1> QED BY <1>3, <1>4, <1>5, Zenon DEF RequestSound, ws

\* The current view is one that discovery may publish.
LEMMA Current ==
    ASSUME GatewayInv
    PROVE  /\ CurrentView \in Views /\ Revision \in 1..MaxViews /\ Revision = Len(views)
           /\ views \in Seq(Views) /\ req \in [Requests -> Request]
BY DEF GatewayInv, GatewayTypeOK, Revision, CurrentView

\* A request is routed by a view that discovery may publish.
LEMMA RoutedView ==
    ASSUME GatewayInv, NEW r \in Requests, req[r].at \in {"routed", "leased"}
    PROVE  /\ RoutedBy(r) \in Views /\ ViewOK(RoutedBy(r))
           /\ req[r].view \in 1..Len(views)
<1>1. req[r].view \in 1..Len(views)
  BY Zenon DEF GatewayInv, RequestSound
<1>2. RoutedBy(r) \in Views
  BY <1>1, Current DEF RoutedBy
<1> QED BY <1>1, <1>2, ViewsAssumption, Zenon

\* One request moves: the others stay as they are.
LEMMA OneMoves ==
    ASSUME GatewayInv, NEW r \in Requests, NEW q \in Request, req' = [req EXCEPT ![r] = q],
           RequestSound(q, views), views' = views
    PROVE  /\ req' \in [Requests -> Request] /\ req'[r] = q
           /\ \A s \in Requests : s # r => req'[s] = req[s]
           /\ \A s \in Requests : RequestSound(req'[s], views')
BY Zenon DEF GatewayInv, GatewayTypeOK

\* The slots follow the request that moves.
LEMMA SlotsFollow ==
    ASSUME GatewayInv, NEW r \in Requests, NEW q \in Request, req' = [req EXCEPT ![r] = q]
    PROVE  LET busy == Cardinality({s \in Requests : req'[s].at # "idle"}) IN
           /\ (req[r].at = "idle") = (q.at = "idle") => busy = slots
           /\ req[r].at = "idle" /\ q.at # "idle" => busy = slots + 1
           /\ req[r].at # "idle" /\ q.at = "idle" => busy = slots - 1
<1> DEFINE S == {s \in Requests : req[s].at # "idle"}
           T == {s \in Requests : req'[s].at # "idle"}
<1>1. req'[r] = q /\ \A s \in Requests : s # r => req'[s] = req[s]
  BY Zenon DEF GatewayInv, GatewayTypeOK
<1>2. slots = Cardinality(S) /\ IsFiniteSet(S)
  BY FS_Subset, GatewayAssumption, Zenon DEF GatewayInv, SlotsConserved
<1>3. ASSUME (req[r].at = "idle") = (q.at = "idle") PROVE T = S
  BY <1>1, <1>3, Zenon
<1>4. ASSUME req[r].at = "idle", q.at # "idle" PROVE T = S \cup {r} /\ r \notin S
  BY <1>1, <1>4, Zenon
<1>5. ASSUME req[r].at # "idle", q.at = "idle" PROVE T = S \ {r} /\ r \in S
  BY <1>1, <1>5, Zenon
<1>6. /\ r \notin S => Cardinality(S \cup {r}) = Cardinality(S) + 1
      /\ r \in S => Cardinality(S \ {r}) = Cardinality(S) - 1
  BY <1>2, FS_AddElement, FS_RemoveElement, Zenon
<1> QED BY <1>2, <1>3, <1>4, <1>5, <1>6, Zenon

\* A request that neither takes nor gives back a lease leaves the counts alone.
LEMMA InflightFrame ==
    ASSUME GatewayInv, UNCHANGED <<inflight>>,
           \A s \in Requests : \/ req'[s] = req[s]
                               \/ req[s].at # "leased" /\ req'[s].at # "leased"
    PROVE  InflightConserved'
<1>1. ASSUME NEW e PROVE Leased(e)' = Leased(e)
  BY Zenon DEF Leased
<1> QED BY <1>1, Zenon DEF GatewayInv, InflightConserved

\* The choices made last stay as they are.
LEMMA ChoicesFrame ==
    ASSUME GatewayInv, UNCHANGED <<last, roundRobin>>
    PROVE  /\ (roundRobin \in [Identities -> 0..(CursorSize - 1)])'
           /\ (last \in [Identities -> Choice])'
           /\ (\A v \in Identities : ChoiceSound(last[v], roundRobin[v]))'
BY Zenon DEF GatewayInv, GatewayTypeOK

\* Discovery publishes a view, and the bucket of the rate limiter fills or is
\* emptied by a request for which there is no slot.
LEMMA SurroundingsKeep ==
    ASSUME GatewayInv, (\E v \in Views : PublishView(v)) \/ Refill \/ Overloaded
    PROVE  GatewayInv'
<1>1. /\ UNCHANGED <<slots, req, inflight, roundRobin, last>>
      /\ req \in [Requests -> Request] /\ slots \in 0..MaxConcurrent
      /\ DOMAIN inflight \subseteq Endpoints
  BY Zenon DEF PublishView, Refill, Overloaded, balancer, GatewayInv, GatewayTypeOK
<1>2. tokens' \in 0..RateBurst
  BY GatewayAssumption DEF PublishView, Refill, Overloaded, GatewayInv, GatewayTypeOK
<1>3. /\ views' \in Seq(Views) /\ Revision' \in 1..MaxViews
      /\ \A s \in Requests : RequestSound(req[s], views')
  <2>1. CASE \E v \in Views : PublishView(v)
    <3>1. PICK v \in Views : views' = Append(views, v) /\ Revision < MaxViews
      BY <2>1, Zenon DEF PublishView
    <3>2. views' \in Seq(Views) /\ Len(views') = Len(views) + 1 /\ Len(views) \in Nat
      BY <3>1, Current
    <3>3. Revision' \in 1..MaxViews
      BY <3>1, <3>2, Current, GatewayAssumption DEF Revision
    <3>4. ASSUME NEW s \in Requests PROVE RequestSound(req[s], views')
      <4>1. req[s] \in Request /\ RequestSound(req[s], views) /\ views \in Seq(Views)
        BY <1>1, Current, Zenon DEF GatewayInv
      <4> QED BY <4>1, <3>1, SoundAfterPublish, Zenon
    <3> QED BY <3>2, <3>3, <3>4, Zenon
  <2>2. CASE Refill \/ Overloaded
    BY <2>2, Current, Zenon DEF Refill, Overloaded, GatewayInv, Revision
  <2> QED BY <2>1, <2>2, Zenon
<1>4. SlotsConserved' /\ InflightConserved'
  BY <1>1, InflightFrame, Zenon DEF GatewayInv, SlotsConserved
<1> QED BY <1>1, <1>2, <1>3, <1>4, ChoicesFrame, Zenon DEF GatewayInv, GatewayTypeOK

\* A request without a lease moves on or leaves: a slot is taken with the first
\* step of a request and given back with the last (ServeHTTP).
LEMMA UnleasedKeeps ==
    ASSUME GatewayInv, NEW r \in Requests,
           \/ \E id \in RequestIDs, k \in Idempotency \cup {NoKey}, t \in Tokens : Admit(r, id, k, t)
           \/ Authenticate(r) \/ Route(r) \/ Refuse(r) \/ Unavailable(r)
    PROVE  GatewayInv'
<1> DEFINE busy == Cardinality({s \in Requests : req'[s].at # "idle"})
<1>1. /\ views' = views /\ UNCHANGED <<inflight, roundRobin, last>> /\ req[r].at # "leased"
      /\ slots \in 0..MaxConcurrent /\ tokens \in 0..RateBurst
  BY Zenon DEF Admit, Authenticate, Route, Refuse, Unavailable, Leave, balancer, GatewayInv, GatewayTypeOK
<1>2. PICK q \in Request : /\ req' = [req EXCEPT ![r] = q] /\ q.at # "leased"
                           /\ RequestSound(q, views) /\ slots' \in Nat /\ slots' <= MaxConcurrent
                           /\ slots' = busy /\ tokens' \in 0..RateBurst
  <2>1. PICK p \in Request : p = req[r] /\ RequestSound(p, views)
    BY Current, Zenon DEF GatewayInv
  <2>2. ASSUME NEW id \in RequestIDs, NEW k \in Idempotency \cup {NoKey}, NEW t \in Tokens,
               Admit(r, id, k, t)
        PROVE  \E q \in Request : /\ req' = [req EXCEPT ![r] = q] /\ q.at # "leased"
                                  /\ RequestSound(q, views) /\ slots' \in Nat
                                  /\ slots' <= MaxConcurrent /\ slots' = busy
                                  /\ tokens' \in 0..RateBurst
    <3> DEFINE q == [p EXCEPT !.at = "admitted", !.id = id, !.idempotency = k, !.token = t,
                              !.since = Revision]
    <3>1. Revision \in 0..MaxViews
      BY Current, GatewayAssumption
    <3>2. q \in Request
      BY <3>1, Zenon DEF Request
    <3>3. req' = [req EXCEPT ![r] = q] /\ slots' = slots + 1 /\ slots < MaxConcurrent
      BY <2>1, <2>2, Current, Zenon DEF Admit
    <3>4. q.at = "admitted" /\ p.at = "idle" /\ q.since = Revision
      BY <2>1, <2>2, Zenon DEF Admit, Request
    <3>5. RequestSound(q, views)
      BY <3>4, Current DEF RequestSound
    <3>6. slots' = busy
      BY <2>1, <3>2, <3>3, <3>4, SlotsFollow, Zenon
    <3>7. tokens' \in 0..RateBurst
      <4>1. tokens > 0 /\ tokens' = tokens - 1
        BY <2>2, Zenon DEF Admit
      <4> QED BY <1>1, <4>1, GatewayAssumption
    <3>8. slots' \in Nat /\ slots' <= MaxConcurrent
      BY <1>1, <3>3, GatewayAssumption
    <3>9. q.at # "leased"
      BY <3>4, Zenon
    <3> HIDE DEF q, busy
    <3> QED BY <3>2, <3>3, <3>5, <3>6, <3>7, <3>8, <3>9, Zenon
  <2>3. ASSUME Authenticate(r)
        PROVE  \E q \in Request : /\ req' = [req EXCEPT ![r] = q] /\ q.at # "leased"
                                  /\ RequestSound(q, views) /\ slots' \in Nat
                                  /\ slots' <= MaxConcurrent /\ slots' = busy
                                  /\ tokens' \in 0..RateBurst
    <3> DEFINE q == [p EXCEPT !.at = "authenticated"]
    <3>1. q \in Request
      BY Zenon DEF Request
    <3>2. req' = [req EXCEPT ![r] = q] /\ slots' = slots /\ tokens' = tokens
      BY <2>1, <2>3, Current, Zenon DEF Authenticate
    <3>3. q.at = "authenticated" /\ p.at = "admitted" /\ q.since = p.since /\ q.token = p.token
      BY <2>1, <2>3, Zenon DEF Authenticate, Request
    <3>4. RequestSound(q, views)
      <4>1. q.since \in 1..Len(views)
        BY <2>1, <3>3, Zenon DEF RequestSound
      <4>2. Len(views) \in q.since..Len(views)
        BY <4>1, Current
      <4>3. views[Len(views)].token \in {Public, q.token}
        BY <2>1, <2>3, <3>3, Zenon DEF Authenticate, CurrentView, Revision
      <4> QED BY <3>3, <4>1, <4>2, <4>3, Zenon DEF RequestSound
    <3>5. slots' = busy
      BY <2>1, <3>1, <3>2, <3>3, SlotsFollow, Zenon
    <3>6. slots' \in Nat /\ slots' <= MaxConcurrent /\ tokens' \in 0..RateBurst
      BY <1>1, <3>2, GatewayAssumption
    <3>7. q.at # "leased"
      BY <3>3, Zenon
    <3> HIDE DEF q, busy
    <3> QED BY <3>1, <3>2, <3>4, <3>5, <3>6, <3>7, Zenon
  <2>5. ASSUME Route(r)
        PROVE  \E q \in Request : /\ req' = [req EXCEPT ![r] = q] /\ q.at # "leased"
                                  /\ RequestSound(q, views) /\ slots' \in Nat
                                  /\ slots' <= MaxConcurrent /\ slots' = busy
                                  /\ tokens' \in 0..RateBurst
    <3> DEFINE q == [p EXCEPT !.at = "routed", !.view = Revision]
    <3>1. Revision \in 0..MaxViews
      BY Current, GatewayAssumption
    <3>2. q \in Request
      BY <3>1, Zenon DEF Request
    <3>3. req' = [req EXCEPT ![r] = q] /\ slots' = slots /\ tokens' = tokens
      BY <2>1, <2>5, Current, Zenon DEF Route
    <3>4. /\ q.at = "routed" /\ p.at = "authenticated" /\ q.since = p.since /\ q.token = p.token
          /\ q.view = Revision
      BY <2>1, <2>5, Zenon DEF Route, Request
    <3>5. RequestSound(q, views)
      <4>1. Revision \in 1..Len(views)
        BY Current
      <4> HIDE DEF q
      <4> QED BY <2>1, <3>4, <4>1, Current, Zenon DEF RequestSound
    <3>6. slots' = busy
      BY <2>1, <3>2, <3>3, <3>4, SlotsFollow, Zenon
    <3>7. slots' \in Nat /\ slots' <= MaxConcurrent /\ tokens' \in 0..RateBurst
      BY <1>1, <3>3, GatewayAssumption
    <3>8. q.at # "leased"
      BY <3>4, Zenon
    <3> HIDE DEF q, busy
    <3> QED BY <3>2, <3>3, <3>5, <3>6, <3>7, <3>8, Zenon
  <2>4. ASSUME Refuse(r) \/ Unavailable(r)
        PROVE  \E q \in Request : /\ req' = [req EXCEPT ![r] = q] /\ q.at # "leased"
                                  /\ RequestSound(q, views) /\ slots' \in Nat
                                  /\ slots' <= MaxConcurrent /\ slots' = busy
                                  /\ tokens' \in 0..RateBurst
    <3>1. PICK q \in Request : q = Idle /\ q.at = "idle"
      <4>1. 0 \in 0..MaxViews
        BY GatewayAssumption
      <4>2. Idle \in Request /\ Idle.at = "idle"
        BY <4>1, Zenon DEF Idle, Request
      <4> QED BY <4>2, Zenon
    <3>2. req' = [req EXCEPT ![r] = q] /\ slots' = slots - 1 /\ tokens' = tokens
      BY <2>4, <3>1, Zenon DEF Refuse, Unavailable, Leave
    <3>3. req[r].at # "idle"
      BY <2>4, Zenon DEF Refuse, Unavailable
    <3>4. slots' = busy
      BY <3>1, <3>2, <3>3, SlotsFollow, ZenonT(40)
    <3>5. busy \in Nat
      BY FS_Subset, FS_CardinalityType, GatewayAssumption, ZenonT(40)
    <3>6. RequestSound(q, views)
      BY <3>1, Zenon DEF RequestSound
    <3> HIDE DEF busy
    <3>7. slots' \in Nat /\ slots' <= MaxConcurrent /\ tokens' \in 0..RateBurst
      BY <1>1, <3>2, <3>4, <3>5, GatewayAssumption
    <3>8. q.at # "leased"
      BY <3>1, Zenon
    <3> QED BY <3>2, <3>4, <3>6, <3>7, <3>8, Zenon
  <2> QED BY <2>2, <2>3, <2>4, <2>5, Zenon
<1>3. /\ req' \in [Requests -> Request] /\ \A s \in Requests : RequestSound(req'[s], views')
      /\ \A s \in Requests : req'[s] = req[s] \/ (req[s].at # "leased" /\ req'[s].at # "leased")
  BY <1>1, <1>2, OneMoves, Zenon
<1>4. SlotsConserved' /\ slots' \in 0..MaxConcurrent
  BY <1>2, GatewayAssumption DEF SlotsConserved
<1>5. InflightConserved'
  BY <1>1, <1>3, InflightFrame, Zenon
<1>6. views' \in Seq(Views) /\ Revision' \in 1..MaxViews
  BY <1>1, Current, Zenon DEF Revision
<1>7. DOMAIN inflight' \subseteq Endpoints
  BY <1>1, Zenon DEF GatewayInv, GatewayTypeOK
<1> QED BY <1>1, <1>2, <1>3, <1>4, <1>5, <1>6, <1>7, ChoicesFrame, Zenon DEF GatewayInv, GatewayTypeOK

\* The Endpoint that is leased is one of the least loaded of the Target, which
\* is a Target of the Route.
LEMMA LeasedEndpoint ==
    ASSUME GatewayInv, NEW r \in Requests, req[r].at = "routed", eligible(r) # {}
    PROVE  LET n == Cardinality(tied(r)) IN
           /\ Chosen(r) \in Identities /\ tied(r) \in SUBSET Endpoints /\ IsFiniteSet(tied(r)) /\ n \in Nat \ {0}
           /\ Ranked(tied(r), roundRobin[Chosen(r)] % n) \in tied(r)
<1>1. RoutedBy(r) \in Views /\ ViewOK(RoutedBy(r))
  BY RoutedView, Zenon
<1>2. eligible(r) \subseteq Endpoints /\ IsFiniteSet(eligible(r)) /\ eligible(r) \subseteq Nat
  BY <1>1, FS_Subset, GatewayAssumption, Zenon DEF eligible, ViewOK
<1>3. Chosen(r) \in Identities
  <2>1. PICK e \in DOMAIN RoutedBy(r).target : RoutedBy(r).target[e] = Chosen(r)
    BY Zenon DEF eligible
  <2>2. Chosen(r) \in Range(RoutedBy(r).target)
    BY <2>1, Zenon DEF Range
  <2>3. Chosen(r) \in {identity(t) : t \in Range(RoutedBy(r).targets)}
    BY <1>1, <2>2, Zenon DEF ViewOK
  <2> QED BY <1>1, <2>3, Zenon DEF Identities
<1>4. tied(r) \subseteq eligible(r)
  BY Zenon DEF tied
<1>5. IsFiniteSet(tied(r)) /\ Cardinality(tied(r)) \in Nat /\ tied(r) \in SUBSET Nat
  BY <1>2, <1>4, FS_Subset, FS_CardinalityType, Zenon
<1>6. tied(r) # {}
  <2>1. \A e \in eligible(r) : Load(e) \in Nat
    <3>1. ASSUME NEW e \in DOMAIN inflight PROVE inflight[e] \in Nat
      <4>1. inflight[e] = Cardinality(Leased(e))
        BY Zenon DEF GatewayInv, InflightConserved
      <4>2. IsFiniteSet(Leased(e))
        BY FS_Subset, GatewayAssumption, Zenon DEF Leased
      <4> QED BY <4>1, <4>2, FS_CardinalityType, Zenon
    <3> QED BY <3>1, Zenon DEF Load
  <2>2. PICK e \in eligible(r) : \A o \in eligible(r) : Load(e) <= Load(o)
    <3> DEFINE N == {Load(e) : e \in eligible(r)}
    <3>1. N \in SUBSET Nat /\ N # {}
      BY <2>1, Zenon
    <3>2. PICK n \in N : \A m \in N : n <= m
      BY <3>1, Smallest, Zenon
    <3> QED BY <3>2, Zenon
  <2> QED BY <2>2, Zenon DEF tied
<1>7. Cardinality(tied(r)) # 0
  BY <1>5, <1>6, FS_EmptySet, Zenon
<1>8. roundRobin[Chosen(r)] \in Nat
  BY <1>3, GatewayAssumption DEF GatewayInv, GatewayTypeOK
<1>9. PICK n \in Nat, c \in Nat : n = Cardinality(tied(r)) /\ c = roundRobin[Chosen(r)]
  BY <1>5, <1>8, Zenon
<1>10. c % n \in Nat /\ c % n < n
  BY <1>7, <1>9
<1>11. Ranked(tied(r), c % n) \in tied(r)
  BY <1>5, <1>9, <1>10, RankedIs, Zenon
<1> QED BY <1>2, <1>3, <1>4, <1>5, <1>7, <1>9, <1>11, Zenon

\* A lease is taken: the request is sent to the Target its key selects in the
\* view it is routed by, and the Endpoint is counted (Invoke, Acquire).
LEMMA SelectKeeps ==
    ASSUME GatewayInv, NEW r \in Requests, Select(r)
    PROVE  GatewayInv'
<1>1. PICK v : v = Chosen(r)
  BY Zenon
<1>2. /\ req[r].at = "routed" /\ eligible(r) # {} /\ Acquire(r)
      /\ views' = views /\ tokens' = tokens /\ slots' = slots
  BY <1>1, Zenon DEF Select
<1>3. PICK n \in Nat \ {0}, e \in Endpoints :
         /\ v \in Identities /\ tied(r) \in SUBSET Endpoints /\ IsFiniteSet(tied(r))
         /\ n = Cardinality(tied(r)) /\ e = Ranked(tied(r), roundRobin[v] % n) /\ e \in tied(r)
  BY <1>1, <1>2, LeasedEndpoint, ZenonT(40)
<1>4. Lease(r, e) /\ roundRobin' = [roundRobin EXCEPT ![v] = (@ + 1) % CursorSize]
  BY <1>1, <1>2, <1>3, Zenon DEF Acquire
<1>5. PICK p \in Request : p = req[r] /\ RequestSound(p, views)
  BY Current, Zenon DEF GatewayInv
<1> DEFINE q == [p EXCEPT !.at = "leased", !.endpoint = e]
<1>6. q \in Request
  BY Zenon DEF Request
<1>7. /\ q.at = "leased" /\ q.endpoint = e /\ q.view = p.view /\ q.since = p.since
      /\ q.token = p.token /\ q.id = p.id /\ q.idempotency = p.idempotency
  BY Zenon DEF Request
<1>8. req' = [req EXCEPT ![r] = q]
  BY <1>4, <1>5, Current, Zenon DEF Lease
<1>9. RequestSound(q, views)
  <2>1. p.at = "routed"
    BY <1>2, <1>5, Zenon
  <2>2. /\ p.since \in 1..Len(views) /\ p.view \in 1..Len(views)
        /\ \E k \in p.since..p.view : views[k].token \in {Public, p.token}
    BY <1>5, <2>1, Zenon DEF RequestSound
  <2>3. e \in DOMAIN views[p.view].target /\ views[p.view].target[e] = v
    BY <1>1, <1>3, <1>5, ZenonT(40) DEF tied, eligible, RoutedBy
  <2>4. v = identity(selectServing(views[p.view].targets,
              Hash[p.view][IF p.idempotency # NoKey THEN p.idempotency ELSE p.id]))
    BY <1>1, <1>5, Zenon DEF Chosen, affinityKey, RoutedBy
  <2> HIDE DEF q
  <2> QED BY <1>7, <2>2, <2>3, <2>4, Zenon DEF RequestSound
<1> HIDE DEF q
<1>10. /\ req' \in [Requests -> Request] /\ \A s \in Requests : RequestSound(req'[s], views')
       /\ req'[r] = q /\ \A s \in Requests : s # r => req'[s] = req[s]
  BY <1>2, <1>6, <1>8, <1>9, OneMoves, ZenonT(40)
<1>11. SlotsConserved'
  <2>1. (req[r].at = "idle") = (q.at = "idle")
    BY <1>2, <1>7, Zenon
  <2>2. slots = Cardinality({s \in Requests : req'[s].at # "idle"})
    BY <2>1, <1>6, <1>8, SlotsFollow, Zenon
  <2> QED BY <2>2, <1>2, Zenon DEF SlotsConserved
<1>12. InflightConserved'
  <2>1. /\ inflight' = [o \in DOMAIN inflight \cup {e} |-> IF o = e THEN Load(o) + 1 ELSE inflight[o]]
        /\ DOMAIN inflight = {o \in Endpoints : Leased(o) # {}}
        /\ \A o \in DOMAIN inflight : inflight[o] = Cardinality(Leased(o))
    BY <1>4, Zenon DEF Lease, GatewayInv, InflightConserved
  <2>2. Leased(e)' = Leased(e) \cup {r} /\ r \notin Leased(e)
    BY <1>2, <1>7, <1>10, Zenon DEF Leased
  <2>3. ASSUME NEW o, o # e PROVE Leased(o)' = Leased(o)
    BY <1>2, <1>7, <1>10, <2>3, Zenon DEF Leased
  <2>4. IsFiniteSet(Leased(e)) /\ Cardinality(Leased(e)) \in Nat
    BY FS_Subset, FS_CardinalityType, GatewayAssumption, Zenon DEF Leased
  <2>5. Load(e) = Cardinality(Leased(e))
    BY <2>1, FS_EmptySet, Zenon DEF Load
  <2>6. Cardinality(Leased(e)') = Load(e) + 1
    <3>1. Cardinality(Leased(e) \cup {r}) = Cardinality(Leased(e)) + 1
      BY <2>2, <2>4, FS_AddElement, Zenon
    <3> QED BY <2>2, <2>5, <3>1, Zenon
  <2>7. DOMAIN inflight' = {o \in Endpoints : Leased(o)' # {}}
    BY <2>1, <2>2, <2>3, Zenon
  <2>8. ASSUME NEW o \in DOMAIN inflight' PROVE inflight'[o] = Cardinality(Leased(o)')
    BY <2>1, <2>3, <2>6, Zenon
  <2> QED BY <2>7, <2>8, Zenon DEF InflightConserved
<1>13. DOMAIN inflight' \subseteq Endpoints
  BY <1>12, Zenon DEF InflightConserved
<1>14. PICK c \in 0..(CursorSize - 1) : c = roundRobin[v]
  BY <1>3, Zenon DEF GatewayInv, GatewayTypeOK
<1>15. PICK d \in 0..(CursorSize - 1) : d = (c + 1) % CursorSize
  BY GatewayAssumption
<1>16. /\ roundRobin' \in [Identities -> 0..(CursorSize - 1)] /\ roundRobin'[v] = d
       /\ \A w \in Identities : w # v => roundRobin'[w] = roundRobin[w]
  BY <1>3, <1>4, <1>14, <1>15, Zenon DEF GatewayInv, GatewayTypeOK
<1>17. PICK b \in Choice : b = [tied |-> tied(r), chosen |-> e, cursor |-> c]
  BY <1>3, Zenon DEF Choice
<1>18. /\ last' \in [Identities -> Choice] /\ last'[v] = b
       /\ \A w \in Identities : w # v => last'[w] = last[w]
  BY <1>1, <1>3, <1>4, <1>14, <1>17, Zenon DEF Lease, GatewayInv
<1>19. ChoiceSound(b, d)
  BY <1>3, <1>14, <1>15, <1>17, Zenon DEF ChoiceSound
<1>20. \A w \in Identities : ChoiceSound(last'[w], roundRobin'[w])
  BY <1>16, <1>18, <1>19, Zenon DEF GatewayInv
<1>21. /\ views' \in Seq(Views) /\ Revision' \in 1..MaxViews /\ tokens' \in 0..RateBurst
       /\ slots' \in 0..MaxConcurrent
  BY <1>2, Current, Zenon DEF Revision, GatewayInv, GatewayTypeOK
<1> QED BY <1>10, <1>11, <1>12, <1>13, <1>16, <1>18, <1>20, <1>21, Zenon DEF GatewayInv, GatewayTypeOK

\* A lease is given back, once: the count falls by one and its entry goes with
\* the last lease, whatever the view is by then (Release).
LEMMA FinishKeeps ==
    ASSUME GatewayInv, NEW r \in Requests, Finish(r)
    PROVE  GatewayInv'
<1>1. /\ req[r].at = "leased" /\ Release(r) /\ req' = [req EXCEPT ![r] = Idle]
      /\ slots' = slots - 1 /\ UNCHANGED <<views, tokens, roundRobin, last>>
  BY Zenon DEF Finish
<1>2. PICK q \in Request : q = Idle /\ q.at = "idle"
  <2>1. 0 \in 0..MaxViews
    BY GatewayAssumption
  <2>2. Idle \in Request /\ Idle.at = "idle"
    BY <2>1, Zenon DEF Idle, Request
  <2> QED BY <2>2, Zenon
<1>3. RequestSound(q, views)
  BY <1>2, Zenon DEF RequestSound
<1>4. /\ req' \in [Requests -> Request] /\ \A s \in Requests : RequestSound(req'[s], views')
      /\ req'[r] = q /\ \A s \in Requests : s # r => req'[s] = req[s]
  BY <1>1, <1>2, <1>3, OneMoves, Zenon
<1> DEFINE busy == Cardinality({s \in Requests : req'[s].at # "idle"})
<1>5. slots' = busy
  BY <1>1, <1>2, SlotsFollow, Zenon
<1>6. slots' \in 0..MaxConcurrent
  <2>1. busy \in Nat
    BY FS_Subset, FS_CardinalityType, GatewayAssumption, Zenon
  <2> HIDE DEF busy
  <2> QED BY <1>1, <1>5, <2>1, GatewayAssumption DEF GatewayInv, GatewayTypeOK
<1>7. PICK e : e = req[r].endpoint
  BY Zenon
<1>8. /\ DOMAIN inflight = {o \in Endpoints : Leased(o) # {}}
      /\ \A o \in DOMAIN inflight : inflight[o] = Cardinality(Leased(o))
  BY Zenon DEF GatewayInv, InflightConserved
<1>9. e \in DOMAIN inflight
  <2>1. e \in Endpoints
    <3>1. PICK p \in Request : p = req[r] /\ RequestSound(p, views)
      BY Current, Zenon DEF GatewayInv
    <3>2. p.view \in 1..Len(views) /\ e \in DOMAIN views[p.view].target
      BY <1>1, <1>7, <3>1, Zenon DEF RequestSound
    <3>3. views[p.view] \in Views
      BY <3>2, Current
    <3> QED BY <3>2, <3>3, ViewsAssumption, Zenon DEF ViewOK
  <2>2. r \in Leased(e)
    BY <1>1, <1>7, Zenon DEF Leased
  <2> QED BY <2>1, <2>2, <1>8, Zenon
<1>10. Leased(e)' = Leased(e) \ {r} /\ r \in Leased(e)
  BY <1>1, <1>2, <1>4, <1>7, Zenon DEF Leased
<1>11. ASSUME NEW o, o # e PROVE Leased(o)' = Leased(o)
  BY <1>1, <1>2, <1>4, <1>7, <1>11, Zenon DEF Leased
<1>12. PICK n \in Nat : n = inflight[e] /\ n = Cardinality(Leased(e)) /\ Cardinality(Leased(e)') = n - 1
  <2>1. IsFiniteSet(Leased(e)) /\ Cardinality(Leased(e)) \in Nat
    BY FS_Subset, FS_CardinalityType, GatewayAssumption, Zenon DEF Leased
  <2>2. Cardinality(Leased(e) \ {r}) = Cardinality(Leased(e)) - 1
    BY <1>10, <2>1, FS_RemoveElement, Zenon
  <2> QED BY <1>8, <1>9, <1>10, <2>1, <2>2, Zenon
<1>13. IsFiniteSet(Leased(e)') /\ Cardinality(Leased(e)') \in Nat
  <2>1. IsFiniteSet(Leased(e) \ {r})
    BY FS_Subset, GatewayAssumption, Zenon DEF Leased
  <2> QED BY <1>10, <2>1, FS_CardinalityType, Zenon
<1>14. inflight' = IF n <= 1 THEN [o \in DOMAIN inflight \ {e} |-> inflight[o]]
                   ELSE [inflight EXCEPT ![e] = n - 1]
  BY <1>1, <1>7, <1>12, Zenon DEF Release
<1>15. InflightConserved'
  <2>1. CASE n <= 1
    <3>1. Leased(e)' = {}
      BY <1>12, <1>13, <2>1, FS_EmptySet
    <3>2. inflight' = [o \in DOMAIN inflight \ {e} |-> inflight[o]]
      BY <1>14, <2>1, Zenon
    <3>3. DOMAIN inflight' = {o \in Endpoints : Leased(o)' # {}}
      BY <1>8, <1>11, <3>1, <3>2, Zenon
    <3>4. ASSUME NEW o \in DOMAIN inflight' PROVE inflight'[o] = Cardinality(Leased(o)')
      BY <1>8, <1>11, <3>2, Zenon
    <3> QED BY <3>3, <3>4, Zenon DEF InflightConserved
  <2>2. CASE n > 1
    <3>1. Leased(e)' # {}
      <4>1. Cardinality({}) = 0
        BY FS_EmptySet, Zenon
      <4> QED BY <1>12, <2>2, <4>1
    <3>2. inflight' = [inflight EXCEPT ![e] = n - 1]
      BY <1>14, <2>2
    <3>3. DOMAIN inflight' = {o \in Endpoints : Leased(o)' # {}}
      BY <1>8, <1>9, <1>11, <3>1, <3>2, Zenon
    <3>4. ASSUME NEW o \in DOMAIN inflight' PROVE inflight'[o] = Cardinality(Leased(o)')
      BY <1>8, <1>9, <1>11, <1>12, <3>2, Zenon
    <3> QED BY <3>3, <3>4, Zenon DEF InflightConserved
  <2> QED BY <2>1, <2>2
<1>16. DOMAIN inflight' \subseteq Endpoints
  BY <1>15, Zenon DEF InflightConserved
<1>17. views' \in Seq(Views) /\ Revision' \in 1..MaxViews /\ tokens' \in 0..RateBurst
  BY <1>1, Current, Zenon DEF Revision, GatewayInv, GatewayTypeOK
<1>18. SlotsConserved'
  BY <1>5, Zenon DEF SlotsConserved
<1> QED BY <1>1, <1>4, <1>6, <1>15, <1>16, <1>17, <1>18, ChoicesFrame, Zenon DEF GatewayInv, GatewayTypeOK

\* Every state a run of the Gateway reaches satisfies the inductive invariant.
LEMMA GatewayAlways == GatewaySpec => []GatewayInv
<1>1. GatewayInit => GatewayInv
  <2> SUFFICES ASSUME GatewayInit PROVE GatewayInv
    BY Zenon
  <2>1. PICK v \in Views : views = <<v>>
    BY Zenon DEF GatewayInit
  <2>2. views \in Seq(Views) /\ Len(views) = 1
    BY <2>1
  <2>3. /\ tokens = RateBurst /\ slots = 0 /\ req = [r \in Requests |-> Idle] /\ inflight = <<>>
        /\ roundRobin = [w \in Identities |-> 0]
        /\ last = [w \in Identities |-> [tied |-> {}, chosen |-> 0, cursor |-> 0]]
    BY Zenon DEF GatewayInit
  <2>4. 0 \in 0..MaxViews /\ 0 \in 0..(CursorSize - 1) /\ 0 \in 0..MaxConcurrent /\ 1 \in 1..MaxViews
        /\ RateBurst \in 0..RateBurst
    BY GatewayAssumption
  <2>5. Idle \in Request /\ Idle.at = "idle"
    BY <2>4, Zenon DEF Idle, Request
  <2>6. req \in [Requests -> Request] /\ \A r \in Requests : req[r].at = "idle"
    BY <2>3, <2>5, Zenon
  <2>7. DOMAIN inflight = {}
    BY <2>3
  <2>8. GatewayTypeOK
    BY <2>2, <2>3, <2>4, <2>6, <2>7, Zenon DEF GatewayTypeOK, Revision
  <2>9. SlotsConserved
    <3>1. {r \in Requests : req[r].at # "idle"} = {}
      BY <2>6, Zenon
    <3> QED BY <2>3, <3>1, FS_EmptySet, Zenon DEF SlotsConserved
  <2>10. InflightConserved
    <3>1. \A e : Leased(e) = {}
      BY <2>6, Zenon DEF Leased
    <3> QED BY <2>7, <3>1, Zenon DEF InflightConserved
  <2>11. \A r \in Requests : RequestSound(req[r], views)
    BY <2>6, Zenon DEF RequestSound
  <2>12. [tied |-> {}, chosen |-> 0, cursor |-> 0] \in Choice
    BY <2>4, Zenon DEF Choice
  <2>13. last \in [Identities -> Choice] /\ \A w \in Identities : last[w].tied = {}
    BY <2>3, <2>12, Zenon
  <2>14. \A w \in Identities : ChoiceSound(last[w], roundRobin[w])
    BY <2>13, Zenon DEF ChoiceSound
  <2> QED BY <2>8, <2>9, <2>10, <2>11, <2>13, <2>14, Zenon DEF GatewayInv
<1>2. GatewayInv /\ [GatewayNext]_gatewayVars => GatewayInv'
  <2> SUFFICES ASSUME GatewayInv, [GatewayNext]_gatewayVars PROVE GatewayInv'
    BY Zenon
  <2>1. CASE GatewayNext
    BY <2>1, SurroundingsKeep, UnleasedKeeps, SelectKeeps, FinishKeeps, ZenonT(40) DEF GatewayNext
  <2>2. CASE UNCHANGED gatewayVars
    <3>1. UNCHANGED <<views, tokens, slots, req, inflight, roundRobin, last>>
      BY <2>2, Zenon DEF gatewayVars
    <3>2. InflightConserved'
      BY <3>1, InflightFrame, Zenon
    <3> QED BY <3>1, <3>2, ChoicesFrame, Zenon DEF GatewayInv, GatewayTypeOK, SlotsConserved, Revision
  <2> QED BY <2>1, <2>2, Zenon
<1> QED BY <1>1, <1>2, PTL DEF GatewaySpec

\* For every number of requests, slots, Endpoints and views: the slots taken and
\* the in-flight counts are those of the requests in progress, and a request
\* is sent to the Target its key selects under a token that was current (ServeHTTP,
\* Invoke, Acquire, Release).
THEOREM GatewayHolds == GatewaySpec => []GatewayInvariant
<1>1. GatewayInv => GatewayInvariant
  <2> SUFFICES ASSUME GatewayInv PROVE GatewayInvariant
    BY Zenon
  <2>1. TargetKept
    BY ZenonT(40) DEF GatewayInv, RequestSound, TargetKept, RoutedBy, Chosen, affinityKey
  <2>2. TokenWasCurrent
    BY Zenon DEF GatewayInv, RequestSound, TokenWasCurrent
  <2> QED BY <2>1, <2>2, Zenon DEF GatewayInv, GatewayInvariant
<1> QED BY <1>1, GatewayAlways, PTL

\* The choice that follows: with the same tied Endpoints, more than one of them,
\* and a cursor that has not returned to zero, it falls on another Endpoint.
LEMMA NextChoice ==
    ASSUME GatewayInv, NEW r \in Requests, Select(r)
    PROVE  LET e == req'[r].endpoint
               before == last[Chosen(r)]
           IN  (/\ Cardinality(before.tied) > 1 /\ before.cursor + 1 < CursorSize
                /\ tied(r) = before.tied)
                   => e # before.chosen
<1>1. PICK v : v = Chosen(r)
  BY Zenon
<1>2. req[r].at = "routed" /\ eligible(r) # {} /\ Acquire(r)
  BY <1>1, Zenon DEF Select
<1>3. PICK n \in Nat \ {0}, e \in Endpoints :
         /\ v \in Identities /\ tied(r) \in SUBSET Endpoints /\ IsFiniteSet(tied(r))
         /\ n = Cardinality(tied(r)) /\ e = Ranked(tied(r), roundRobin[v] % n) /\ e \in tied(r)
  BY <1>1, <1>2, LeasedEndpoint, ZenonT(40)
<1>5. req'[r].endpoint = e
  BY <1>1, <1>2, <1>3, Current, Zenon DEF Acquire, Lease, Request
<1>6. PICK b \in Choice, c \in Nat : b = last[v] /\ c = b.cursor /\ ChoiceSound(b, roundRobin[v])
  BY <1>3 DEF GatewayInv, Choice
<1>7. ASSUME n > 1, c + 1 < CursorSize, tied(r) = b.tied
      PROVE  e # b.chosen
  <2>1. b.tied # {}
    BY <1>3, <1>7, ZenonT(40)
  <2>2. b.chosen = Ranked(tied(r), c % n) /\ roundRobin[v] = (c + 1) % CursorSize
    BY <1>3, <1>6, <1>7, <2>1, Zenon DEF ChoiceSound
  <2>3. (c + 1) % CursorSize = c + 1
    BY <1>7, GatewayAssumption
  <2>4. c % n \in 0..(n - 1) /\ (c + 1) % n \in 0..(n - 1)
    OBVIOUS
  <2>5. (c + 1) % n # c % n
    BY <1>7, NextRemainder, Zenon
  <2>6. e = Ranked(tied(r), (c + 1) % n)
    BY <1>3, <2>2, <2>3, Zenon
  <2>7. tied(r) \in SUBSET Nat
    BY <1>3, GatewayAssumption, Zenon
  <2>8. PICK i \in Nat, j \in Nat : i = c % n /\ j = (c + 1) % n /\ i < n /\ j < n
    BY <2>4
  <2>9. /\ Cardinality(Below(tied(r), Ranked(tied(r), i))) = i
        /\ Cardinality(Below(tied(r), Ranked(tied(r), j))) = j
    BY <1>3, <2>7, <2>8, RankedIs, Zenon
  <2> QED BY <2>2, <2>5, <2>6, <2>8, <2>9, Zenon
<1> QED BY <1>1, <1>3, <1>5, <1>6, <1>7, ZenonT(40)

\* Round-robin: for every number of Endpoints and every size of the cursor,
\* consecutive choices between the same tied Endpoints differ until the cursor
\* returns to zero (Balancer.Acquire).
THEOREM RoundRobinAlwaysMoves == GatewaySpec => RoundRobinMoves
<1>1. ASSUME GatewayInv, [GatewayNext]_gatewayVars, NEW r \in Requests,
             req[r].at = "routed", req'[r].at = "leased"
      PROVE  Select(r)
  <2>1. req \in [Requests -> Request] /\ Idle.at = "idle"
    BY <1>1, Current, Zenon DEF Idle
  <2>2. req' # req
    BY <1>1, Zenon
  <2>3. PICK s \in Requests :
           \/ \E id \in RequestIDs, k \in Idempotency \cup {NoKey}, t \in Tokens : Admit(s, id, k, t)
           \/ Authenticate(s) \/ Refuse(s) \/ Route(s) \/ Select(s) \/ Unavailable(s) \/ Finish(s)
    BY <1>1, <2>2, Zenon DEF GatewayNext, gatewayVars, PublishView, Refill, Overloaded
  <2>4. PICK q : req' = [req EXCEPT ![s] = q] /\ (q.at = "leased" => Select(s))
    <3>1. PICK p \in Request : p = req[s]
      BY <2>1, Zenon
    <3>2. ASSUME NEW id \in RequestIDs, NEW k \in Idempotency \cup {NoKey}, NEW t \in Tokens,
                 Admit(s, id, k, t)
          PROVE  \E q : req' = [req EXCEPT ![s] = q] /\ q.at # "leased"
      <4> DEFINE q == [p EXCEPT !.at = "admitted", !.id = id, !.idempotency = k, !.token = t,
                                !.since = Revision]
      <4>1. req' = [req EXCEPT ![s] = q]
        BY <2>1, <3>1, <3>2, Zenon DEF Admit
      <4>2. q.at = "admitted"
        BY Zenon DEF Request
      <4> QED BY <4>1, <4>2, Zenon
    <3>3. ASSUME Authenticate(s)
          PROVE  \E q : req' = [req EXCEPT ![s] = q] /\ q.at # "leased"
      <4> DEFINE q == [p EXCEPT !.at = "authenticated"]
      <4>1. req' = [req EXCEPT ![s] = q]
        BY <2>1, <3>1, <3>3, Zenon DEF Authenticate
      <4>2. q.at = "authenticated"
        BY Zenon DEF Request
      <4> QED BY <4>1, <4>2, Zenon
    <3>6. ASSUME Route(s)
          PROVE  \E q : req' = [req EXCEPT ![s] = q] /\ q.at # "leased"
      <4> DEFINE q == [p EXCEPT !.at = "routed", !.view = Revision]
      <4>1. req' = [req EXCEPT ![s] = q]
        BY <2>1, <3>1, <3>6, Zenon DEF Route
      <4>2. q.at = "routed"
        BY Zenon DEF Request
      <4> QED BY <4>1, <4>2, Zenon
    <3>4. ASSUME Refuse(s) \/ Unavailable(s) \/ Finish(s)
          PROVE  \E q : req' = [req EXCEPT ![s] = q] /\ q.at # "leased"
      <4>1. req' = [req EXCEPT ![s] = Idle]
        BY <3>4, Zenon DEF Refuse, Unavailable, Finish, Leave
      <4> QED BY <2>1, <4>1, Zenon
    <3>5. ASSUME Select(s)
          PROVE  \E q : req' = [req EXCEPT ![s] = q]
      <4>1. \E e : Lease(s, e)
        BY <3>5, Zenon DEF Select, Acquire
      <4> QED BY <2>1, <3>1, <4>1, ZenonT(40) DEF Lease
    <3> QED BY <2>3, <3>2, <3>3, <3>4, <3>5, <3>6, Zenon
  <2>5. s = r
    BY <1>1, <2>1, <2>4, Zenon
  <2> QED BY <1>1, <2>1, <2>4, <2>5, Zenon
<1>2. GatewayInv /\ [GatewayNext]_gatewayVars =>
         [\A r \in Requests : req[r].at = "routed" /\ req'[r].at = "leased" =>
             LET before == last[Chosen(r)] IN
             (/\ Cardinality(before.tied) > 1 /\ before.cursor + 1 < CursorSize
              /\ tied(r) = before.tied)
                 => req'[r].endpoint # before.chosen]_gatewayVars
  BY <1>1, NextChoice, Zenon
<1> QED BY <1>2, GatewayAlways, PTL DEF GatewaySpec, RoundRobinMoves

\* For every size of the hash and of the total weight, every valid Route an
\* operator may write and the one the Gateway serves: each hash has a Target,
\* each Target its share to within one hash, in any order of the list
\* (routing.SelectServing).
THEOREM EveryRouteAlwaysExact == GatewaySpec => []EveryRouteExact
<1>1. GatewayInv => EveryRouteExact
  <2> SUFFICES ASSUME GatewayInv PROVE EveryRouteExact BY Zenon
  <2>1. CurrentView.targets \in Seq(Target) /\ validateRouteTargets(CurrentView.targets)
    BY Current, ViewsAssumption, Zenon DEF ViewOK
  <2> QED BY <2>1, ValidExact, RoutesAlwaysExact, Zenon DEF EveryRouteExact
<1> QED BY <1>1, GatewayAlways, PTL
=============================================================================
