-------------------------- MODULE AdmissionProofs --------------------------
(***************************************************************************)
(* TLAPS proofs about what is let in: the registry that admits Workers,    *)
(* the Planner that admits an Assignment to one of them, and the client of *)
(* the validator that admits an artifact. The three parts use nothing of   *)
(* each other.                                                             *)
(***************************************************************************)
EXTENDS Planner, WorkerRegistry, ValidatorClient, FiniteSetTheorems, TLAPS

-----------------------------------------------------------------------------
(***************************************************************************)
(* The Planner: its two maps index the same decisions, its answers agree,  *)
(* its decisions keep within their bound and under their barrier, and it   *)
(* chooses the best Worker, whatever the order of the candidates.          *)
(***************************************************************************)

USE MaxDecisionsAssumption, MaxBarrierAssumption

-----------------------------------------------------------------------------
(* Orders.                                                                 *)

\* Among the parts of a finite set that have a property, one contains no other
\* one: the form in which an induction over finite sets is used here.
LEMMA SmallestPart ==
    \A S, B : IsFiniteSet(S) /\ (\A x \in B : x \subseteq S) /\ B # {} =>
       \E x \in B : \A y \in B : ~(y \subseteq x /\ y # x)
<1> SUFFICES ASSUME NEW S, NEW B, IsFiniteSet(S), \A x \in B : x \subseteq S, B # {}
             PROVE  \E x \in B : \A y \in B : ~(y \subseteq x /\ y # x)
  OBVIOUS
<1>1. B \subseteq FiniteSubsetsOf(S)
  BY FS_FiniteSubsetsOfFinite, Zenon
<1>2. PICK x \in B : \A y \in B : ~(<<y, x>> \in StrictSubsetOrdering(S))
  BY <1>1, FS_StrictSubsetOrderingWellFounded, WFMin, Zenon
<1>3. ASSUME NEW y \in B, y \subseteq x, y # x PROVE FALSE
  <2>1. <<y, x>> \in StrictSubsetOrdering(S)
    BY <1>3, Zenon DEF StrictSubsetOrdering
  <2> QED BY <1>2, <2>1, Zenon
<1>4. \A y \in B : ~(y \subseteq x /\ y # x)
  BY <1>3, Zenon
<1> QED BY <1>2, <1>4, Zenon

\* A finite set has a first member in every order that ranks any two of its
\* members: what slices.SortFunc puts in front.
LEMMA First ==
  \A S, R : /\ IsFiniteSet(S) /\ S # {}
            /\ \A x, y \in S : <<x, y>> \in R \/ <<y, x>> \in R
            /\ \A x, y, z \in S : <<x, y>> \in R /\ <<y, z>> \in R => <<x, z>> \in R
            => \E m \in S : \A x \in S : <<m, x>> \in R
<1> SUFFICES ASSUME NEW S, NEW R, IsFiniteSet(S), S # {},
                    \A x, y \in S : <<x, y>> \in R \/ <<y, x>> \in R,
                    \A x, y, z \in S : <<x, y>> \in R /\ <<y, z>> \in R => <<x, z>> \in R,
                    ~ \E m \in S : \A x \in S : <<m, x>> \in R
             PROVE  FALSE
  BY Zenon
<1> DEFINE Bad == {T \in SUBSET S : T # {} /\ ~ \E m \in T : \A x \in T : <<m, x>> \in R}
<1>1. S \in Bad
  BY Zenon
<1>2. \A T \in Bad : T \subseteq S /\ T # {} /\ ~ \E m \in T : \A x \in T : <<m, x>> \in R
  BY Zenon
<1>2a. \A T : T \subseteq S /\ T # {} /\ T \notin Bad => \E m \in T : \A x \in T : <<m, x>> \in R
  BY Zenon
<1> HIDE DEF Bad
<1>2b. (\A T \in Bad : T \subseteq S) /\ Bad # {}
  BY <1>1, <1>2, Zenon
<1>3. PICK T \in Bad : \A U \in Bad : ~(U \subseteq T /\ U # T)
  BY <1>2b, SmallestPart
<1>3a. ~ \E m \in T : \A x \in T : <<m, x>> \in R
  BY <1>2, <1>3, Zenon
<1>4. PICK w \in T : TRUE
  BY <1>2, Zenon
<1>5. T \ {w} \subseteq T /\ T \ {w} # T /\ T \ {w} \subseteq S /\ w \in S /\ T \subseteq S
  BY <1>2, <1>4, Zenon
<1>6. CASE T \ {w} = {}
  <2>1. \A x \in T : x = w
    BY <1>6, Zenon
  <2>2. <<w, w>> \in R
    BY <1>5, Zenon
  <2>3. \A x \in T : <<w, x>> \in R
    BY <2>1, <2>2, Zenon
  <2> QED BY <1>3a, <1>4, <2>3, Zenon
<1>7. CASE T \ {w} # {}
  <2>1. T \ {w} \notin Bad
    BY <1>3, <1>5, Zenon
  <2>2. PICK m \in T \ {w} : \A x \in T \ {w} : <<m, x>> \in R
    BY <1>2a, <1>5, <1>7, <2>1, Zenon
  <2>3. m \in S /\ m \in T
    BY <1>5, <2>2, Zenon
  <2>4. CASE <<m, w>> \in R
    <3>1. \A x \in T : <<m, x>> \in R
      BY <2>2, <2>4, Zenon
    <3> QED BY <1>3a, <2>3, <3>1, Zenon
  <2>5. CASE <<w, m>> \in R
    <3>1. \A x \in T \ {w} : x \in S /\ <<m, x>> \in R
      BY <1>5, <2>2, Zenon
    <3>2. \A x \in T \ {w} : <<w, x>> \in R
      BY <1>5, <2>3, <2>5, <3>1, Zenon
    <3>3. <<w, w>> \in R
      BY <1>5, Zenon
    <3>4. \A x \in T : <<w, x>> \in R
      BY <3>2, <3>3, Zenon
    <3> QED BY <1>3a, <1>4, <3>4, Zenon
  <2> QED BY <1>5, <2>3, <2>4, <2>5, Zenon
<1> QED BY <1>6, <1>7, Zenon

\* Scaling by a positive factor keeps the order.
LEMMA Scaled ==
  ASSUME NEW x \in Nat, NEW y \in Nat, NEW z \in Nat \ {0}
  PROVE  /\ x < y <=> x * z < y * z
         /\ x = y <=> x * z = y * z
         /\ x * z \in Nat /\ y * z \in Nat
<1>1. ASSUME NEW p \in Nat, NEW q \in Nat, p < q PROVE p * z < q * z
  <2>1. PICK k \in Nat : k > 0 /\ q = p + k
    <3>1. q - p \in Nat /\ q - p > 0 /\ q = p + (q - p)
      BY <1>1
    <3> QED BY <3>1, Zenon
  <2>2. q * z = p * z + k * z
    BY <2>1
  <2>3. k * z > 0 /\ k * z \in Nat /\ p * z \in Nat
    BY <2>1
  <2> QED BY <2>2, <2>3
<1>2. x < y => x * z < y * z
  BY <1>1, Zenon
<1>3. y < x => y * z < x * z
  BY <1>1, Zenon
<1>4. x * z \in Nat /\ y * z \in Nat
  OBVIOUS
<1>5. x < y \/ x = y \/ y < x
  OBVIOUS
<1> QED BY <1>2, <1>3, <1>4, <1>5

\* Comparing cross products compares shares: it is transitive.
LEMMA RatiosTransitive ==
  ASSUME NEW a \in Nat, NEW b \in Nat \ {0}, NEW c \in Nat, NEW d \in Nat \ {0},
         NEW e \in Nat, NEW f \in Nat \ {0}
  PROVE  /\ a * d <= c * b /\ c * f <= e * d => a * f <= e * b
         /\ a * d = c * b /\ c * f = e * d => a * f = e * b
         /\ a * d < c * b /\ c * f <= e * d => a * f < e * b
         /\ a * d <= c * b /\ c * f < e * d => a * f < e * b
<1>1. /\ (a * d) * f = (a * f) * d /\ (c * b) * f = (c * f) * b /\ (e * d) * b = (e * b) * d
      /\ a * d \in Nat /\ c * b \in Nat /\ c * f \in Nat /\ e * d \in Nat /\ a * f \in Nat /\ e * b \in Nat
  OBVIOUS
<1>2. PICK p, q, r, s, t, u \in Nat : /\ p = a * d /\ q = c * b /\ r = c * f /\ s = e * d
                                        /\ t = a * f /\ u = e * b
  BY <1>1, Zenon
<1>3. /\ p * f = t * d /\ q * f = r * b /\ s * b = u * d
  BY <1>1, <1>2, Zenon
<1>4. p * f \in Nat /\ q * f \in Nat /\ s * b \in Nat /\ r * b \in Nat /\ t * d \in Nat /\ u * d \in Nat
  BY Scaled, Zenon
<1>4b. (p < q <=> p * f < q * f) /\ (p = q <=> p * f = q * f)
  BY Scaled, Zenon
<1>5. (r < s <=> r * b < s * b) /\ (r = s <=> r * b = s * b)
  BY Scaled, Zenon
<1>6. (t < u <=> t * d < u * d) /\ (t = u <=> t * d = u * d)
  BY Scaled, Zenon
<1>7. PICK A, B, C \in Nat : A = p * f /\ B = q * f /\ C = s * b
  BY <1>4, Zenon
<1>8. (p < q <=> A < B) /\ (p = q <=> A = B) /\ (r < s <=> B < C) /\ (r = s <=> B = C)
      /\ (t < u <=> A < C) /\ (t = u <=> A = C)
  BY <1>3, <1>4b, <1>5, <1>6, <1>7, Zenon
<1>9. /\ p <= q /\ r <= s => t <= u
      /\ p = q /\ r = s => t = u
      /\ p < q /\ r <= s => t < u
      /\ p <= q /\ r < s => t < u
  BY <1>8
<1> QED BY <1>2, <1>9, Zenon

-----------------------------------------------------------------------------
(* The order of the candidates.                                            *)

LowerLoad(f, l, r) == f[l].allocatedSlots * f[r].slots < f[r].allocatedSlots * f[l].slots
SameLoad(f, l, r) == f[l].allocatedSlots * f[r].slots = f[r].allocatedSlots * f[l].slots
LowerMemory(f, l, r) == f[l].allocatedMemory * f[r].memory < f[r].allocatedMemory * f[l].memory
SameMemory(f, l, r) == f[l].allocatedMemory * f[r].memory = f[r].allocatedMemory * f[l].memory

\* l comes before r, or is r: compareEligible spelled out.
Precedes(p, f, l, r) ==
    \/ f[l].cache > f[r].cache
    \/ /\ f[l].cache = f[r].cache
       /\ \/ spreadScore(p, l) > spreadScore(p, r)
          \/ /\ spreadScore(p, l) = spreadScore(p, r)
             /\ \/ LowerLoad(f, l, r)
                \/ SameLoad(f, l, r) /\ (LowerMemory(f, l, r) \/ (SameMemory(f, l, r) /\ l <= r))

\* What a candidate has is a number, and the capacity a request needs is not zero.
LEMMA CandidateFields ==
  ASSUME NEW p \in Payloads, Validate(p), NEW f \in [Workers -> Observations],
         NEW w \in evaluateCandidates(p, f)
  PROVE  /\ w \in Workers /\ w \in Nat /\ f[w] \in Observations
         /\ f[w].allocatedSlots \in Nat /\ f[w].slots \in Nat \ {0}
         /\ f[w].allocatedMemory \in Nat /\ f[w].memory \in Nat \ {0}
         /\ f[w].cache \in 0..2 /\ spreadScore(p, w) \in 0..1
<1>1. w \in Workers /\ f[w] \in Observations /\ eligible(p, f[w])
  BY Zenon DEF evaluateCandidates
<1>2. /\ f[w].allocatedSlots \in Nat /\ f[w].slots \in Nat
      /\ f[w].allocatedMemory \in Nat /\ f[w].memory \in Nat /\ f[w].cache \in 0..2
  BY <1>1, ObservationsAssumption, Zenon
<1>3. p.memory \in Nat \ {0} /\ p.slots \in Nat \ {0}
  BY PayloadsAssumption, Zenon DEF Validate
<1>4. /\ f[w].memory - f[w].allocatedMemory >= p.memory
      /\ f[w].slots - f[w].allocatedSlots >= p.slots
  BY <1>1, Zenon DEF eligible
<1>5. f[w].slots # 0 /\ f[w].memory # 0
  BY <1>2, <1>3, <1>4
<1>6. spreadScore(p, w) \in 0..1
  BY DEF spreadScore
<1> QED BY <1>1, <1>2, <1>5, <1>6, WorkersAssumption, Zenon

\* The cross products are numbers.
LEMMA CrossProducts ==
  ASSUME NEW p \in Payloads, Validate(p), NEW f \in [Workers -> Observations],
         NEW l \in evaluateCandidates(p, f), NEW r \in evaluateCandidates(p, f)
  PROVE  \E a, b, c, d \in Nat : /\ a = f[l].allocatedSlots * f[r].slots
                                 /\ b = f[r].allocatedSlots * f[l].slots
                                 /\ c = f[l].allocatedMemory * f[r].memory
                                 /\ d = f[r].allocatedMemory * f[l].memory
<1>1. /\ f[l].allocatedSlots \in Nat /\ f[l].slots \in Nat
      /\ f[l].allocatedMemory \in Nat /\ f[l].memory \in Nat
      /\ f[r].allocatedSlots \in Nat /\ f[r].slots \in Nat
      /\ f[r].allocatedMemory \in Nat /\ f[r].memory \in Nat
  BY CandidateFields, Zenon
<1>2. \A x, y \in Nat : x * y \in Nat
  OBVIOUS
<1>3. /\ f[l].allocatedSlots * f[r].slots \in Nat /\ f[r].allocatedSlots * f[l].slots \in Nat
      /\ f[l].allocatedMemory * f[r].memory \in Nat /\ f[r].allocatedMemory * f[l].memory \in Nat
  BY <1>1, <1>2, Zenon
<1> QED BY <1>3, Zenon

\* compareEligible finds that l does not come after r exactly when it precedes it.
LEMMA CompareMeans ==
  ASSUME NEW p \in Payloads, Validate(p), NEW f \in [Workers -> Observations],
         NEW l \in evaluateCandidates(p, f), NEW r \in evaluateCandidates(p, f)
  PROVE  compareEligible(p, f, l, r) <= 0 <=> Precedes(p, f, l, r)
<1>1. PICK a, b, c, d \in Nat : /\ a = f[l].allocatedSlots * f[r].slots
                                /\ b = f[r].allocatedSlots * f[l].slots
                                /\ c = f[l].allocatedMemory * f[r].memory
                                /\ d = f[r].allocatedMemory * f[l].memory
  BY CrossProducts
<1>2. PICK x, y \in 0..1 : x = spreadScore(p, l) /\ y = spreadScore(p, r)
  BY CandidateFields, Zenon
<1>3. PICK m, n \in 0..2 : m = f[l].cache /\ n = f[r].cache
  BY CandidateFields, Zenon
<1>4. compareRatio(f[l].allocatedSlots, f[l].slots, f[r].allocatedSlots, f[r].slots)
         = IF a < b THEN -1 ELSE IF a > b THEN 1 ELSE 0
  BY <1>1, Zenon DEF compareRatio
<1>5. compareRatio(f[l].allocatedMemory, f[l].memory, f[r].allocatedMemory, f[r].memory)
         = IF c < d THEN -1 ELSE IF c > d THEN 1 ELSE 0
  BY <1>1, Zenon DEF compareRatio
<1>6. compareEligible(p, f, l, r) =
         IF m # n THEN n - m ELSE IF y - x # 0 THEN y - x
         ELSE IF a < b THEN -1 ELSE IF a > b THEN 1
         ELSE IF c < d THEN -1 ELSE IF c > d THEN 1 ELSE l - r
  BY <1>2, <1>3, <1>4, <1>5 DEF compareEligible
<1>7. l \in Nat /\ r \in Nat
  BY CandidateFields, Zenon
<1>8. Precedes(p, f, l, r) <=>
         m > n \/ (m = n /\ (x > y \/ (x = y /\ (a < b \/ (a = b /\ (c < d \/ (c = d /\ l <= r)))))))
  BY <1>1, <1>2, <1>3, Zenon DEF Precedes, LowerLoad, SameLoad, LowerMemory, SameMemory
<1> QED BY <1>6, <1>7, <1>8

\* Any two candidates are in order.
LEMMA PrecedesTotal ==
  ASSUME NEW p \in Payloads, Validate(p), NEW f \in [Workers -> Observations],
         NEW l \in evaluateCandidates(p, f), NEW r \in evaluateCandidates(p, f)
  PROVE  Precedes(p, f, l, r) \/ Precedes(p, f, r, l)
<1>1. PICK a, b, c, d \in Nat : /\ a = f[l].allocatedSlots * f[r].slots
                                /\ b = f[r].allocatedSlots * f[l].slots
                                /\ c = f[l].allocatedMemory * f[r].memory
                                /\ d = f[r].allocatedMemory * f[l].memory
  BY CrossProducts
<1>2. spreadScore(p, l) \in 0..1 /\ spreadScore(p, r) \in 0..1 /\ f[l].cache \in 0..2 /\ f[r].cache \in 0..2
      /\ l \in Nat /\ r \in Nat
  BY CandidateFields, Zenon
<1> QED BY <1>1, <1>2 DEF Precedes, LowerLoad, SameLoad, LowerMemory, SameMemory

\* The order of the candidates is transitive: no cycle of preferences makes the
\* result depend on the sort.
LEMMA PrecedesTransitive ==
  ASSUME NEW p \in Payloads, Validate(p), NEW f \in [Workers -> Observations],
         NEW x \in evaluateCandidates(p, f), NEW y \in evaluateCandidates(p, f),
         NEW z \in evaluateCandidates(p, f), Precedes(p, f, x, y), Precedes(p, f, y, z)
  PROVE  Precedes(p, f, x, z)
<1>1. /\ LowerLoad(f, x, y) /\ (LowerLoad(f, y, z) \/ SameLoad(f, y, z)) => LowerLoad(f, x, z)
      /\ SameLoad(f, x, y) /\ LowerLoad(f, y, z) => LowerLoad(f, x, z)
      /\ SameLoad(f, x, y) /\ SameLoad(f, y, z) => SameLoad(f, x, z)
  <2>1. /\ f[x].allocatedSlots \in Nat /\ f[x].slots \in Nat \ {0}
        /\ f[y].allocatedSlots \in Nat /\ f[y].slots \in Nat \ {0}
        /\ f[z].allocatedSlots \in Nat /\ f[z].slots \in Nat \ {0}
    BY CandidateFields, Zenon
  <2>2. PICK a, c, e \in Nat, b, d, g \in Nat \ {0} :
            /\ a = f[x].allocatedSlots /\ b = f[x].slots /\ c = f[y].allocatedSlots
            /\ d = f[y].slots /\ e = f[z].allocatedSlots /\ g = f[z].slots
    BY <2>1, Zenon
  <2>3. /\ a * d <= c * b /\ c * g <= e * d => a * g <= e * b
        /\ a * d = c * b /\ c * g = e * d => a * g = e * b
        /\ a * d < c * b /\ c * g <= e * d => a * g < e * b
        /\ a * d <= c * b /\ c * g < e * d => a * g < e * b
    BY RatiosTransitive, Zenon
  <2>4. a * d \in Nat /\ c * b \in Nat /\ c * g \in Nat /\ e * d \in Nat
    OBVIOUS
  <2>5. /\ a * d < c * b /\ (c * g < e * d \/ c * g = e * d) => a * g < e * b
        /\ a * d = c * b /\ c * g < e * d => a * g < e * b
        /\ a * d = c * b /\ c * g = e * d => a * g = e * b
    BY <2>3, <2>4
  <2> QED BY <2>2, <2>5, Zenon DEF LowerLoad, SameLoad
<1>2. /\ LowerMemory(f, x, y) /\ (LowerMemory(f, y, z) \/ SameMemory(f, y, z)) => LowerMemory(f, x, z)
      /\ SameMemory(f, x, y) /\ LowerMemory(f, y, z) => LowerMemory(f, x, z)
      /\ SameMemory(f, x, y) /\ SameMemory(f, y, z) => SameMemory(f, x, z)
  <2>1. /\ f[x].allocatedMemory \in Nat /\ f[x].memory \in Nat \ {0}
        /\ f[y].allocatedMemory \in Nat /\ f[y].memory \in Nat \ {0}
        /\ f[z].allocatedMemory \in Nat /\ f[z].memory \in Nat \ {0}
    BY CandidateFields, Zenon
  <2>2. PICK a, c, e \in Nat, b, d, g \in Nat \ {0} :
            /\ a = f[x].allocatedMemory /\ b = f[x].memory /\ c = f[y].allocatedMemory
            /\ d = f[y].memory /\ e = f[z].allocatedMemory /\ g = f[z].memory
    BY <2>1, Zenon
  <2>3. /\ a * d <= c * b /\ c * g <= e * d => a * g <= e * b
        /\ a * d = c * b /\ c * g = e * d => a * g = e * b
        /\ a * d < c * b /\ c * g <= e * d => a * g < e * b
        /\ a * d <= c * b /\ c * g < e * d => a * g < e * b
    BY RatiosTransitive, Zenon
  <2>4. a * d \in Nat /\ c * b \in Nat /\ c * g \in Nat /\ e * d \in Nat
    OBVIOUS
  <2>5. /\ a * d < c * b /\ (c * g < e * d \/ c * g = e * d) => a * g < e * b
        /\ a * d = c * b /\ c * g < e * d => a * g < e * b
        /\ a * d = c * b /\ c * g = e * d => a * g = e * b
    BY <2>3, <2>4
  <2> QED BY <2>2, <2>5, Zenon DEF LowerMemory, SameMemory
<1>3. /\ spreadScore(p, x) \in 0..1 /\ spreadScore(p, y) \in 0..1 /\ spreadScore(p, z) \in 0..1
      /\ f[x].cache \in 0..2 /\ f[y].cache \in 0..2 /\ f[z].cache \in 0..2
      /\ x \in Nat /\ y \in Nat /\ z \in Nat
  BY CandidateFields, Zenon
<1> QED BY <1>1, <1>2, <1>3 DEF Precedes

\* There is a first candidate, and chosen is one: sorting and taking the first
\* gives a candidate that no other comes before.
LEMMA ChosenFirst ==
  ASSUME NEW p \in Payloads, Validate(p), NEW f \in [Workers -> Observations],
         evaluateCandidates(p, f) # {}
  PROVE  /\ chosen(p, f) \in evaluateCandidates(p, f)
         /\ \A o \in evaluateCandidates(p, f) : Precedes(p, f, chosen(p, f), o)
<1> DEFINE E == evaluateCandidates(p, f)
           R == {e \in E \X E : Precedes(p, f, e[1], e[2])}
<1>1. IsFiniteSet(E)
  <2>1. E \subseteq Workers
    BY Zenon DEF evaluateCandidates
  <2> QED BY <2>1, FS_Subset, WorkersAssumption, Zenon
<1>2. \A x, y \in E : <<x, y>> \in R <=> Precedes(p, f, x, y)
  BY Zenon
<1>3. \A x, y \in E : Precedes(p, f, x, y) \/ Precedes(p, f, y, x)
  BY PrecedesTotal, Zenon
<1>4. \A x, y, z \in E : Precedes(p, f, x, y) /\ Precedes(p, f, y, z) => Precedes(p, f, x, z)
  BY PrecedesTransitive, Zenon
<1>5. \A x, y \in E : compareEligible(p, f, x, y) <= 0 <=> Precedes(p, f, x, y)
  BY CompareMeans, Zenon
<1>6. chosen(p, f) = CHOOSE w \in E : \A o \in E : compareEligible(p, f, w, o) <= 0
  BY Zenon DEF chosen
<1>7. E # {}
  BY Zenon
<1> HIDE DEF E, R
<1>8. /\ \A x, y \in E : <<x, y>> \in R \/ <<y, x>> \in R
      /\ \A x, y, z \in E : <<x, y>> \in R /\ <<y, z>> \in R => <<x, z>> \in R
  BY <1>2, <1>3, <1>4, Zenon
<1>9. PICK m \in E : \A x \in E : <<m, x>> \in R
  BY <1>1, <1>7, <1>8, First, Zenon
<1>10. \A x \in E : compareEligible(p, f, m, x) <= 0
  BY <1>2, <1>5, <1>9, Zenon
<1>11. chosen(p, f) \in E /\ \A o \in E : compareEligible(p, f, chosen(p, f), o) <= 0
  BY <1>6, <1>9, <1>10, Zenon
<1>12. chosen(p, f) \in E /\ \A o \in E : Precedes(p, f, chosen(p, f), o)
  BY <1>5, <1>11, Zenon
<1> QED BY <1>12, Zenon DEF E

-----------------------------------------------------------------------------
(* The invariant.                                                          *)

RoomOn(f, p, w) ==
    /\ f[w].allocatedSlots + p.slots <= f[w].slots
    /\ f[w].allocatedMemory + p.memory <= f[w].memory
    /\ f[w].intent = "Schedulable" /\ f[w].state = "Ready"
    /\ f[w].compatible /\ f[w].labels

Best(f, p, w) == RoomOn(f, p, w) /\ \A o \in Workers : RoomOn(f, p, o) => ~Better(p, f, o, w)

Decision == [fingerprint : Fingerprints, worker : Workers,
             barrier : Barriers, fleet : [Workers -> Observations]]

PlannerInv ==
    /\ PlannerTypeOK /\ IsFiniteSet(DOMAIN decisions)
    /\ RecordsPaired /\ AnswersAgree /\ DecisionsAuthorised /\ DecisionsBounded
    /\ DecisionsBest

\* The Worker Plan picks has room, and no Worker with room is better: what the
\* documented preference promises of compareEligible.
LEMMA ChosenBest ==
  ASSUME NEW p \in Payloads, Validate(p), NEW f \in [Workers -> Observations],
         evaluateCandidates(p, f) # {}
  PROVE  chosen(p, f) \in Workers /\ Best(f, p, chosen(p, f))
<1>1. PICK w \in evaluateCandidates(p, f) :
         /\ w = chosen(p, f)
         /\ \A o \in evaluateCandidates(p, f) : Precedes(p, f, w, o)
  BY ChosenFirst, Zenon
<1>2. \A o \in Workers : RoomOn(f, p, o) <=> o \in evaluateCandidates(p, f)
  <2> SUFFICES ASSUME NEW o \in Workers PROVE RoomOn(f, p, o) <=> eligible(p, f[o])
    BY Zenon DEF evaluateCandidates
  <2>1. /\ f[o].allocatedSlots \in Nat /\ f[o].slots \in Nat
        /\ f[o].allocatedMemory \in Nat /\ f[o].memory \in Nat
    BY ObservationsAssumption
  <2>2. p.memory \in Nat /\ p.slots \in Nat
    BY PayloadsAssumption, Zenon
  <2> QED BY <2>1, <2>2 DEF RoomOn, eligible, validate, compatible
<1>3. w \in Workers
  BY <1>1, Zenon DEF evaluateCandidates
<1>4. ASSUME NEW o \in evaluateCandidates(p, f), Precedes(p, f, w, o) PROVE ~Better(p, f, o, w)
  <2>1. PICK a, b, c, d \in Nat : /\ a = f[w].allocatedSlots * f[o].slots
                                  /\ b = f[o].allocatedSlots * f[w].slots
                                  /\ c = f[w].allocatedMemory * f[o].memory
                                  /\ d = f[o].allocatedMemory * f[w].memory
    BY CrossProducts, SMTT(30)
  <2>2. /\ spreadScore(p, w) \in 0..1 /\ spreadScore(p, o) \in 0..1
        /\ f[w].cache \in 0..2 /\ f[o].cache \in 0..2
    BY CandidateFields, Zenon
  <2> QED BY <1>4, <2>1, <2>2
          DEF Better, Precedes, LowerLoad, SameLoad, LowerMemory, SameMemory
<1> QED BY <1>1, <1>2, <1>3, <1>4, Zenon DEF Best

\* DecisionsBest in these terms.
LEMMA BestMeans == DecisionsBest <=>
  \A c \in DOMAIN decisions :
     Best(decisions[c].fleet, decisions[c].fingerprint.payload, decisions[c].worker)
BY Zenon DEF DecisionsBest, Best, RoomOn

\* The decisions stay the best ones while they stay.
LEMMA BestFrame ==
  ASSUME DecisionsBest, decisions' = decisions PROVE DecisionsBest'
<1>1. \A x \in DOMAIN decisions' :
         Best(decisions'[x].fleet, decisions'[x].fingerprint.payload, decisions'[x].worker)
  BY BestMeans, Zenon
<1> QED BY <1>1, Zenon DEF DecisionsBest, Best, RoomOn, Better

-----------------------------------------------------------------------------
(* Steps.                                                                  *)

\* The invariant is about the Planner's records: the fleet is free.
LEMMA RecordsSame ==
    ASSUME PlannerInv, UNCHANGED <<barrier, decisions, assignments, told>>,
           fleet' \in [Workers -> Observations]
    PROVE  PlannerInv'
<1>1. PlannerTypeOK' BY Zenon DEF PlannerInv, PlannerTypeOK
<1>2. RecordsPaired' BY Zenon DEF PlannerInv, RecordsPaired
<1>3. AnswersAgree' BY Zenon DEF PlannerInv, AnswersAgree
<1>4. DecisionsAuthorised' /\ DecisionsBounded' BY Zenon DEF PlannerInv, DecisionsAuthorised, DecisionsBounded
<1>5. DecisionsBest' BY BestFrame, Zenon DEF PlannerInv
<1> QED BY <1>1, <1>2, <1>3, <1>4, <1>5, Zenon DEF PlannerInv

\* The fields of a barrier.
LEMMA BarrierFields ==
    ASSUME PlannerInv
    PROVE  /\ barrier.term \in Nat /\ barrier.index \in Nat
           /\ barrier.ready => barrier \in Barriers
           /\ \A c \in DOMAIN decisions :
                 /\ decisions[c].barrier.term \in Nat \ {0} /\ decisions[c].barrier.index \in Nat
                 /\ decisions[c].barrier.ready
<1>1. \A b \in Barriers : b.term \in Nat \ {0} /\ b.index \in Nat BY DEF Barriers
<1>2. NoBarrier.term = 0 /\ NoBarrier.index = 0 /\ ~NoBarrier.ready BY Zenon DEF NoBarrier
<1>3. barrier \in Barriers \/ barrier = NoBarrier BY Zenon DEF PlannerInv, PlannerTypeOK
<1>4. barrier.term \in Nat /\ barrier.index \in Nat BY <1>1, <1>2, <1>3
<1>5. barrier.ready => barrier \in Barriers BY <1>2, <1>3, Zenon
<1>6. \A c \in DOMAIN decisions : decisions[c].barrier \in Barriers BY Zenon DEF PlannerInv, PlannerTypeOK
<1>7. \A c \in DOMAIN decisions : decisions[c].barrier.ready BY Zenon DEF PlannerInv, DecisionsAuthorised
<1> QED BY <1>1, <1>4, <1>5, <1>6, <1>7, Zenon

\* Installing a barrier keeps what was decided under an older one authorised.
LEMMA InstallStep ==
    ASSUME PlannerInv, NEW b \in Barriers, InstallBarrier(b) PROVE PlannerInv'
<1>1. b.ready /\ barrier' = b /\ UNCHANGED <<decisions, assignments, told, fleet>>
      /\ (barrier.term = 0 \/ (b.term >= barrier.term /\ b.index >= barrier.index))
  BY Zenon DEF InstallBarrier
<1>2. b.term \in Nat /\ b.index \in Nat BY DEF Barriers
<1>3. DecisionsAuthorised' BY <1>1, <1>2, BarrierFields DEF PlannerInv, DecisionsAuthorised
<1>4. PlannerTypeOK' BY <1>1, Zenon DEF PlannerInv, PlannerTypeOK
<1>5. RecordsPaired' /\ AnswersAgree' /\ DecisionsBounded'
  BY <1>1, Zenon DEF PlannerInv, RecordsPaired, AnswersAgree, DecisionsBounded
<1>6. DecisionsBest' BY <1>1, BestFrame, Zenon DEF PlannerInv
<1> QED BY <1>1, <1>3, <1>4, <1>5, <1>6, Zenon DEF PlannerInv

\* Losing the barrier changes no decision.
LEMMA InvalidateStep ==
    ASSUME PlannerInv, InvalidateBarrier PROVE PlannerInv'
<1>1. barrier' = [barrier EXCEPT !.ready = FALSE] /\ UNCHANGED <<decisions, assignments, told, fleet>>
  BY Zenon DEF InvalidateBarrier
<1>2. barrier' \in Barriers \cup {NoBarrier} /\ barrier'.term = barrier.term /\ barrier'.index = barrier.index
  <2>1. CASE barrier \in Barriers BY <1>1, <2>1, Zenon DEF Barriers
  <2>2. CASE barrier = NoBarrier BY <1>1, <2>2, Zenon DEF NoBarrier
  <2> QED BY <2>1, <2>2, Zenon DEF PlannerInv, PlannerTypeOK
<1>3. DecisionsAuthorised' BY <1>1, <1>2, Zenon DEF PlannerInv, DecisionsAuthorised
<1>4. PlannerTypeOK' BY <1>1, <1>2, Zenon DEF PlannerInv, PlannerTypeOK
<1>5. RecordsPaired' /\ AnswersAgree' /\ DecisionsBounded'
  BY <1>1, Zenon DEF PlannerInv, RecordsPaired, AnswersAgree, DecisionsBounded
<1>6. DecisionsBest' BY <1>1, BestFrame, Zenon DEF PlannerInv
<1> QED BY <1>1, <1>3, <1>4, <1>5, <1>6, Zenon DEF PlannerInv

\* An answer from a retained decision repeats it.
LEMMA RepeatStep ==
    ASSUME PlannerInv, NEW c, NEW q \in Fingerprints, PlanDuplicate(c, q) \/ PlanSatisfied(c, q) PROVE PlannerInv'
<1> DEFINE a == q.assignment
<1>1. /\ a \in Assignments /\ a \in DOMAIN assignments
      /\ told' = [told EXCEPT ![a] = @ \cup {decisions[assignments[a]].worker}]
      /\ UNCHANGED <<barrier, decisions, assignments, fleet>>
  BY Zenon DEF PlanDuplicate, PlanSatisfied, Tell, PlannerInv, RecordsPaired, Fingerprints
<1>2. told \in [Assignments -> SUBSET Workers] /\ fleet \in [Workers -> Observations]
  BY Zenon DEF PlannerInv, PlannerTypeOK
<1>3. told[a] = {decisions[assignments[a]].worker} BY <1>1, Zenon DEF PlannerInv, AnswersAgree
<1>4. told' = told BY <1>1, <1>2, <1>3, Zenon
<1> QED BY <1>1, <1>2, <1>4, RecordsSame, Zenon

\* A new decision opens a record in both maps and answers for an Assignment
\* nothing was answered for.
LEMMA ApplyStep ==
    ASSUME PlannerInv, NEW c \in Commands, NEW q \in Fingerprints, PlanApplied(c, q) PROVE PlannerInv'
<1> DEFINE a == q.assignment
<1>1. PICK w, r : w = chosen(q.payload, fleet) /\ r = Record(c, q) BY Zenon
<1>2. /\ c \notin DOMAIN decisions /\ a \notin DOMAIN assignments /\ a \in Assignments
      /\ barrier.ready /\ Cardinality(DOMAIN decisions) < MaxDecisions
      /\ decisions' = [x \in DOMAIN decisions \cup {c} |-> IF x = c THEN r ELSE decisions[x]]
      /\ assignments' = [x \in DOMAIN assignments \cup {a} |-> IF x = a THEN c ELSE assignments[x]]
      /\ told' = [told EXCEPT ![a] = @ \cup {w}]
      /\ barrier' = barrier /\ fleet' = fleet
      /\ Validate(q.payload) /\ evaluateCandidates(q.payload, fleet) # {}
  BY <1>1, Zenon DEF PlanApplied, Tell, Fingerprints
<1>3. r.fingerprint = q /\ r.worker = w /\ r.barrier = barrier /\ r.fleet = fleet BY <1>1, Zenon DEF Record
<1> HIDE DEF a
<1>4. r.fingerprint.assignment = a BY <1>3, Zenon DEF a
<1>5. /\ told \in [Assignments -> SUBSET Workers] /\ fleet \in [Workers -> Observations]
      /\ q.payload \in Payloads
  BY Zenon DEF PlannerInv, PlannerTypeOK, Fingerprints
<1>w. w \in Workers /\ Best(fleet, q.payload, w)
  BY <1>1, <1>2, <1>5, ChosenBest, Zenon
<1>6. told[a] = {} BY <1>2, Zenon DEF PlannerInv, AnswersAgree
<1>7. told' \in [Assignments -> SUBSET Workers] /\ told'[a] = {w} /\ \A x \in Assignments \ {a} : told'[x] = told[x]
  BY <1>2, <1>5, <1>6, <1>w, Zenon
<1>8. DOMAIN decisions' = DOMAIN decisions \cup {c} /\ decisions'[c] = r
      /\ \A x \in DOMAIN decisions : decisions'[x] = decisions[x]
  BY <1>2, Zenon
<1>9. DOMAIN assignments' = DOMAIN assignments \cup {a} /\ assignments'[a] = c
      /\ \A x \in DOMAIN assignments : assignments'[x] = assignments[x]
  BY <1>2, Zenon
<1>10. barrier \in Barriers BY <1>2, BarrierFields, Zenon
<1>11. IsFiniteSet(DOMAIN decisions') /\ Cardinality(DOMAIN decisions') = Cardinality(DOMAIN decisions) + 1
       /\ Cardinality(DOMAIN decisions) \in Nat
  BY <1>2, <1>8, FS_AddElement, FS_CardinalityType, Zenon DEF PlannerInv
<1>r. r \in Decision
  <2>1. r = [fingerprint |-> q, worker |-> w, barrier |-> barrier, fleet |-> fleet]
    BY <1>1, Zenon DEF Record
  <2> QED BY <1>5, <1>10, <1>w, <2>1, Zenon DEF Decision
<1>12. PlannerTypeOK'
  <2>1. DOMAIN assignments' \subseteq Assignments BY <1>2, <1>9, Zenon DEF PlannerInv, PlannerTypeOK
  <2>2. \A x \in DOMAIN decisions' : decisions'[x] \in Decision
    BY <1>8, <1>r, Zenon DEF PlannerInv, PlannerTypeOK, Decision
  <2>3. DOMAIN decisions' \subseteq Commands BY <1>8, Zenon DEF PlannerInv, PlannerTypeOK
  <2> QED BY <1>2, <1>5, <1>7, <1>10, <2>1, <2>2, <2>3, Zenon DEF PlannerTypeOK, Decision
<1>13. RecordsPaired' BY <1>2, <1>4, <1>8, <1>9 DEF PlannerInv, RecordsPaired
<1>14. AnswersAgree'
  <2> SUFFICES ASSUME NEW x \in Assignments
               PROVE  told'[x] = IF x \in DOMAIN assignments' THEN {decisions'[assignments'[x]].worker} ELSE {}
    BY Zenon DEF AnswersAgree
  <2>1. CASE x = a BY <1>3, <1>7, <1>8, <1>9, <2>1, Zenon
  <2>2. CASE x \in DOMAIN assignments /\ x # a
    <3>1. assignments'[x] = assignments[x] /\ decisions'[assignments[x]] = decisions[assignments[x]]
      BY <1>8, <1>9, <2>2, Zenon DEF PlannerInv, RecordsPaired
    <3> QED BY <1>7, <1>9, <2>2, <3>1, Zenon DEF PlannerInv, AnswersAgree
  <2>3. CASE x \notin DOMAIN assignments /\ x # a BY <1>7, <1>9, <2>3, Zenon DEF PlannerInv, AnswersAgree
  <2> QED BY <2>1, <2>2, <2>3, Zenon
<1>15. DecisionsAuthorised' BY <1>2, <1>3, <1>8, BarrierFields DEF PlannerInv, DecisionsAuthorised
<1>16. DecisionsBounded' BY <1>2, <1>11 DEF DecisionsBounded
<1>17. DecisionsBest'
  <2>1. \A x \in DOMAIN decisions :
           Best(decisions[x].fleet, decisions[x].fingerprint.payload, decisions[x].worker)
    BY BestMeans, Zenon DEF PlannerInv
  <2>2. \A x \in DOMAIN decisions' :
           Best(decisions'[x].fleet, decisions'[x].fingerprint.payload, decisions'[x].worker)
    BY <1>3, <1>8, <1>w, <2>1, Zenon
  <2> QED BY <2>2, Zenon DEF DecisionsBest, Best, RoomOn, Better
<1> QED BY <1>11, <1>12, <1>13, <1>14, <1>15, <1>16, <1>17, Zenon DEF PlannerInv

\* Acknowledging a decision closes both records and forgets the answers.
LEMMA AcknowledgeStep ==
    ASSUME PlannerInv, NEW c, Acknowledge(c) PROVE PlannerInv'
<1>1. PICK a : a = decisions[c].fingerprint.assignment BY Zenon
<1>2. c \in DOMAIN decisions /\ a \in DOMAIN assignments /\ a \in Assignments /\ assignments[a] = c
  BY <1>1, Zenon DEF Acknowledge, PlannerInv, RecordsPaired, PlannerTypeOK
<1>3. /\ decisions' = [x \in DOMAIN decisions \ {c} |-> decisions[x]]
      /\ assignments' = [x \in DOMAIN assignments \ {a} |-> assignments[x]]
      /\ told' = [told EXCEPT ![a] = {}]
      /\ barrier' = barrier /\ fleet' = fleet
  BY <1>1, <1>2, Zenon DEF Acknowledge, Without, Restrict
<1>4. told \in [Assignments -> SUBSET Workers] BY Zenon DEF PlannerInv, PlannerTypeOK
<1>5. told' \in [Assignments -> SUBSET Workers] /\ told'[a] = {} /\ \A x \in Assignments \ {a} : told'[x] = told[x]
  BY <1>2, <1>3, <1>4, Zenon
<1>6. \A x \in DOMAIN decisions \ {c} : decisions[x].fingerprint.assignment # a
  BY <1>2, Zenon DEF PlannerInv, RecordsPaired
<1>7. \A x \in DOMAIN assignments \ {a} : assignments[x] # c
  BY <1>1, Zenon DEF PlannerInv, RecordsPaired
<1>8. IsFiniteSet(DOMAIN decisions') /\ Cardinality(DOMAIN decisions') <= Cardinality(DOMAIN decisions)
       /\ Cardinality(DOMAIN decisions) \in Nat /\ Cardinality(DOMAIN decisions') \in Nat
  BY <1>3, FS_Subset, FS_CardinalityType, Zenon DEF PlannerInv
<1>9. PlannerTypeOK'
  <2>1. DOMAIN assignments' \subseteq Assignments BY <1>3, Zenon DEF PlannerInv, PlannerTypeOK
  <2>2. DOMAIN decisions' \subseteq Commands /\ \A x \in DOMAIN decisions' : decisions'[x] \in Decision
    BY <1>3, Zenon DEF PlannerInv, PlannerTypeOK, Decision
  <2> QED BY <1>3, <1>5, <2>1, <2>2, Zenon DEF PlannerInv, PlannerTypeOK, Decision
<1>10. RecordsPaired' BY <1>3, <1>6, <1>7, Zenon DEF PlannerInv, RecordsPaired
<1>11. AnswersAgree' BY <1>3, <1>5, <1>7, Zenon DEF PlannerInv, AnswersAgree, RecordsPaired
<1>12. DecisionsAuthorised' BY <1>3, Zenon DEF PlannerInv, DecisionsAuthorised
<1>13. DecisionsBounded' BY <1>8 DEF PlannerInv, DecisionsBounded
<1>14. DecisionsBest'
  <2>1. \A x \in DOMAIN decisions :
           Best(decisions[x].fleet, decisions[x].fingerprint.payload, decisions[x].worker)
    BY BestMeans, Zenon DEF PlannerInv
  <2>2. \A x \in DOMAIN decisions' :
           Best(decisions'[x].fleet, decisions'[x].fingerprint.payload, decisions'[x].worker)
    BY <1>3, <2>1, Zenon
  <2> QED BY <2>2, Zenon DEF DecisionsBest, Best, RoomOn, Better
<1> QED BY <1>8, <1>9, <1>10, <1>11, <1>12, <1>13, <1>14, Zenon DEF PlannerInv

\* A Planner starts with no decision and no barrier.
LEMMA PlannerStart == PlannerInit => PlannerInv
<1> SUFFICES ASSUME PlannerInit PROVE PlannerInv BY Zenon
<1>1. /\ barrier = NoBarrier /\ DOMAIN decisions = {} /\ DOMAIN assignments = {}
      /\ told \in [Assignments -> SUBSET Workers] /\ \A x \in Assignments : told[x] = {}
      /\ fleet \in [Workers -> Observations]
  BY DEF PlannerInit
<1>2. IsFiniteSet({}) /\ Cardinality({}) = 0 BY FS_EmptySet, Zenon
<1>3. PlannerTypeOK BY <1>1, Zenon DEF PlannerTypeOK
<1>4. RecordsPaired /\ AnswersAgree /\ DecisionsAuthorised BY <1>1, Zenon DEF RecordsPaired, AnswersAgree, DecisionsAuthorised
<1>5. DecisionsBounded BY <1>1, <1>2 DEF DecisionsBounded
<1>6. DecisionsBest BY <1>1, Zenon DEF DecisionsBest
<1> QED BY <1>1, <1>2, <1>3, <1>4, <1>5, <1>6, Zenon DEF PlannerInv

\* The invariant holds of every reachable state: one step per operation of the
\* Planner.
LEMMA PlannerAlways == PlannerSpec => []PlannerInv
<1>1. ASSUME PlannerInv, [PlannerNext]_plannerVars PROVE PlannerInv'
  <2>1. ASSUME NEW b \in Barriers, InstallBarrier(b) PROVE PlannerInv' BY <1>1, <2>1, InstallStep, Zenon
  <2>2. CASE InvalidateBarrier BY <1>1, <2>2, InvalidateStep, Zenon
  <2>3. ASSUME NEW c \in Commands, NEW q \in Fingerprints, PlanDuplicate(c, q) \/ PlanSatisfied(c, q) PROVE PlannerInv'
    BY <1>1, <2>3, RepeatStep, Zenon
  <2>4. ASSUME NEW c \in Commands, NEW q \in Fingerprints, PlanApplied(c, q) PROVE PlannerInv' BY <1>1, <2>4, ApplyStep, Zenon
  <2>5. ASSUME NEW c \in Commands, Acknowledge(c) PROVE PlannerInv' BY <1>1, <2>5, AcknowledgeStep, Zenon
  <2>6. ASSUME NEW w \in Workers, NEW o \in Observations, Observe(w, o) PROVE PlannerInv'
    BY <1>1, <2>6, RecordsSame, Zenon DEF Observe, PlannerInv, PlannerTypeOK
  <2>7. CASE UNCHANGED plannerVars BY <1>1, <2>7, RecordsSame, Zenon DEF plannerVars, PlannerInv, PlannerTypeOK
  <2> QED BY <1>1, <2>1, <2>2, <2>3, <2>4, <2>5, <2>6, <2>7, Zenon DEF PlannerNext
<1> QED BY <1>1, PlannerStart, PTL DEF PlannerSpec

\* Until a decision is acknowledged, every answer Plan gives for its Assignment
\* names one and the same Worker: a retry, another command for the Assignment
\* and a changed fleet cannot move it.
THEOREM OneWorkerPerAssignment == PlannerSpec => []AnswersAgree
<1>1. PlannerInv => AnswersAgree BY Zenon DEF PlannerInv
<1> QED BY <1>1, PlannerAlways, PTL

\* The decisions and assignments maps never come apart, what is retained has its
\* type, no retained decision is younger than the barrier, and never more than
\* maxDecisions are retained.
THEOREM PlannerHolds == PlannerSpec => []PlannerInvariant
<1>1. PlannerInv => PlannerInvariant BY Zenon DEF PlannerInv, PlannerInvariant
<1> QED BY <1>1, PlannerAlways, PTL

\* Every retained decision names a Worker that had room for its request, and no
\* Worker with room was better in the documented preference: sorting by
\* compareEligible, which compares shares by cross products, and taking the first
\* candidate is enough, for every fleet and every request.
THEOREM BestWorkerChosen == PlannerSpec => []DecisionsBest
<1>1. PlannerInv => DecisionsBest BY Zenon DEF PlannerInv
<1> QED BY <1>1, PlannerAlways, PTL

-----------------------------------------------------------------------------
(***************************************************************************)
(* The registry: its invariant and the way sessions move, for every set of *)
(* Workers and boots, every limit and every timing.                        *)
(***************************************************************************)

USE RegistryAssumption

\* What is true of one Worker.  A removed one is not registered: this is what
\* keeps late heartbeats from reviving it.
Sound(r) ==
  /\ r \in WorkerRecord
  /\ r.state \in {"Ready", "Suspect"} => r.registered /\ r.hasInventory /\ ~r.needsNewSession
  /\ r.intent = "Schedulable" <=> r.drain = "NotDraining"
  /\ r.intent = "Removed" => r.drain = "Drained" /\ ~r.registered

Inv ==
  /\ TypeOK /\ FailsClosed
  /\ \A w \in Known : Sound(workers[w])

-----------------------------------------------------------------------------
(* The revision counter.                                                   *)

\* Adding less than the size of the counter, and not nothing, changes it.
LEMMA Wraps ==
  ASSUME NEW R \in Nat \ {0}, NEW a \in 0..(R - 1), NEW n \in 0..(R - 1)
  PROVE  /\ (a + n) % R \in 0..(R - 1)
         /\ n # 0 => (a + n) % R # a
<1>1. (a + n) % R = IF a + n < R THEN a + n ELSE a + n - R
  OBVIOUS
<1> QED BY <1>1

\* A step for n Workers keeps the counter in range and is visible in it.
LEMMA Bumped ==
  ASSUME TypeOK, NEW n \in 0..Cardinality(WorkerIDs), Bump(n)
  PROVE  revision' \in 0..(RevisionSize - 1) /\ (n # 0 => revision' # revision)
<1>1. Cardinality(WorkerIDs) \in Nat BY FS_CardinalityType, Zenon
<1>2. n \in 0..(RevisionSize - 1) /\ RevisionSize \in Nat \ {0} BY <1>1
<1> QED BY <1>2, Wraps, Zenon DEF Bump, TypeOK

-----------------------------------------------------------------------------
(* Steps.                                                                  *)

SessionStep ==
  /\ \A w \in Known : w \in Known' /\ Moves(workers[w], workers'[w])
  /\ ReadyWorkers' # ReadyWorkers => revision' # revision \/ clockHealthy' # clockHealthy

Clocks == clock' \in 0..MaxClock /\ lastElapsed' \in 0..MaxClock /\ clockHealthy' \in BOOLEAN

\* The types that a worker record is made of.
LEMMA Fields ==
  ASSUME NEW r, Sound(r)
  PROVE  /\ r \in WorkerRecord /\ r.epoch \in 1..MaxEpoch /\ r.epoch \in Nat
         /\ r.state \in States /\ r.intent \in Intents /\ r.drain \in Drains /\ r.boot \in BootIDs
         /\ r.registered \in BOOLEAN /\ r.needsNewSession \in BOOLEAN /\ r.hasInventory \in BOOLEAN
         /\ r.inventoryRevision \in 0..MaxInventory /\ r.lastHeartbeat \in 0..MaxClock
         /\ Moves(r, r)
<1>1. r \in WorkerRecord BY Zenon DEF Sound
<1>2. /\ r.epoch \in 1..MaxEpoch /\ r.epoch \in Nat
      /\ r.state \in States /\ r.intent \in Intents /\ r.drain \in Drains /\ r.boot \in BootIDs
      /\ r.registered \in BOOLEAN /\ r.needsNewSession \in BOOLEAN /\ r.hasInventory \in BOOLEAN
      /\ r.inventoryRevision \in 0..MaxInventory /\ r.lastHeartbeat \in 0..MaxClock
  BY <1>1 DEF WorkerRecord
<1>3. r.needsNewSession => r.state # "Ready" BY Zenon DEF Sound
<1> QED BY <1>1, <1>2, <1>3, Zenon DEF Moves

\* A step that leaves the Workers alone.
LEMMA NoneMoves ==
  ASSUME Inv, UNCHANGED <<workers, revision, clockHealthy>>, Clocks
  PROVE  Inv' /\ SessionStep
<1>1. \A w \in Known : Moves(workers[w], workers[w]) BY Fields, Zenon DEF Inv
<1> QED BY <1>1, Zenon DEF Inv, TypeOK, FailsClosed, Known, SessionStep, ReadyWorkers, Clocks

\* A step that changes the record of one known Worker.
LEMMA OneMoves ==
  ASSUME Inv, NEW w \in Known, NEW q, workers' = [workers EXCEPT ![w] = q],
         Sound(q), Moves(workers[w], q), Clocks, clockHealthy' = clockHealthy,
         ~clockHealthy => q.state \notin {"Ready", "Suspect"},
         \/ Bump(1)
         \/ revision' = revision /\ (q.state = "Ready" <=> workers[w].state = "Ready")
  PROVE  Inv' /\ SessionStep
<1>1. Known' = Known /\ workers'[w] = q /\ \A x \in Known \ {w} : workers'[x] = workers[x]
  BY Zenon DEF Known
<1>2. WorkerIDs # {} BY Zenon DEF Inv, TypeOK
<1>3. 1 \in 0..Cardinality(WorkerIDs) BY <1>2, FS_CardinalityType, FS_EmptySet
<1>4. revision' \in 0..(RevisionSize - 1) /\ (Bump(1) => revision' # revision)
  BY <1>3, Bumped DEF Inv, TypeOK
<1>5. \A x \in Known : Sound(workers'[x]) BY <1>1, Zenon DEF Inv
<1>6. \A x \in Known : workers'[x] \in WorkerRecord BY <1>5, Zenon DEF Sound
<1>7. TypeOK' BY <1>1, <1>4, <1>6, Zenon DEF Inv, TypeOK, Clocks
<1>8. FailsClosed' BY <1>1, Zenon DEF Inv, FailsClosed
<1>9. \A x \in Known : Moves(workers[x], workers'[x]) BY <1>1, Fields, Zenon DEF Inv
<1>10. ReadyWorkers' # ReadyWorkers => revision' # revision
  BY <1>1, <1>4, Zenon DEF ReadyWorkers
<1> QED BY <1>1, <1>5, <1>7, <1>8, <1>9, <1>10, Zenon DEF Inv, SessionStep

\* A clock that went back fails every registered Worker.
LEMMA FailClosedMoves ==
  ASSUME Inv, FailClosed PROVE Inv' /\ SessionStep
<1>0. /\ Known' = Known /\ \A w \in Known : workers'[w] = Failed(workers[w])
      /\ clockHealthy' = FALSE /\ UNCHANGED <<revision, clock, lastElapsed>>
  BY Zenon DEF FailClosed, Known
<1>1. ASSUME NEW w \in Known
      PROVE  /\ Sound(workers'[w]) /\ Moves(workers[w], workers'[w])
             /\ workers'[w].state \notin {"Ready", "Suspect"}
  <2>0. PICK r : r = workers[w] BY Zenon
  <2>1. Sound(r) BY <2>0, Zenon DEF Inv
  <2>2. CASE r.registered /\ r.intent # "Removed"
    <3>1. workers'[w] = [r EXCEPT !.state = "Unavailable"] BY <1>0, <2>0, <2>2, Zenon DEF Failed
    <3>2. [r EXCEPT !.state = "Unavailable"] \in WorkerRecord
      BY <2>1, Fields, Zenon DEF WorkerRecord, States
    <3> QED BY <2>0, <2>1, <2>2, <3>1, <3>2, Fields, Zenon DEF Sound, Moves, WorkerRecord
  <2>3. CASE ~(r.registered /\ r.intent # "Removed")
    <3>1. workers'[w] = r BY <1>0, <2>0, <2>3, Zenon DEF Failed
    <3> QED BY <2>0, <2>1, <2>3, <3>1, Fields, Zenon DEF Sound
  <2> QED BY <2>2, <2>3, Zenon
<1>2. TypeOK' BY <1>0, <1>1, Zenon DEF Inv, TypeOK, Sound
<1>3. FailsClosed' BY <1>0, <1>1, Zenon DEF FailsClosed
<1>4. ReadyWorkers' # ReadyWorkers => clockHealthy' # clockHealthy
  BY <1>0, <1>1, Zenon DEF Inv, TypeOK, FailsClosed, ReadyWorkers
<1> QED BY <1>0, <1>1, <1>2, <1>3, <1>4, Zenon DEF Inv, SessionStep

\* A registration is of the session that is committed.
LEMMA RegisterMoves ==
  ASSUME Inv, NEW w \in WorkerIDs, NEW boot, NEW epoch, Register(w, boot, epoch)
  PROVE  Inv' /\ SessionStep
<1>0. PICK r : w \in Known /\ r = workers[w] /\ Sound(r) BY Zenon DEF Register, Inv
<1>1. CASE FailClosed BY <1>1, FailClosedMoves, Zenon
<1>2. CASE ~FailClosed
  <2> DEFINE q == [r EXCEPT !.registered = TRUE, !.hasInventory = FALSE,
                            !.state = "Joining", !.lastHeartbeat = clock]
  <2>1. /\ r.intent # "Removed" /\ ~r.needsNewSession /\ ~r.registered
        /\ ReadClock /\ workers' = [workers EXCEPT ![w] = q] /\ Bump(1)
    BY <1>0, <1>2, Zenon DEF Register
  <2>2. clock \in 0..MaxClock /\ Clocks /\ clockHealthy' = clockHealthy
    BY <2>1, Zenon DEF Inv, TypeOK, Clocks, ReadClock
  <2>f. r \in WorkerRecord BY <1>0, Zenon DEF Sound
  <2>3. q \in WorkerRecord BY <2>2, <2>f, Zenon DEF WorkerRecord, States
  <2>4. Sound(q) /\ Moves(r, q) /\ q.state = "Joining"
    BY <1>0, <2>1, <2>3, Fields, Zenon DEF Sound, Moves, WorkerRecord
  <2> HIDE DEF q
  <2> QED BY <1>0, <2>1, <2>2, <2>4, OneMoves, Zenon
<1> QED BY <1>1, <1>2, Zenon

\* A report makes a Worker Ready under its current session.
LEMMA ReportMoves ==
  ASSUME Inv, NEW w \in WorkerIDs, NEW boot, NEW epoch, NEW inventory \in 0..MaxInventory,
         ReportInventory(w, boot, epoch, inventory)
  PROVE  Inv' /\ SessionStep
<1>0. PICK r : w \in Known /\ r = workers[w] /\ Sound(r) BY Zenon DEF ReportInventory, SessionCurrent, Inv
<1>1. CASE FailClosed BY <1>1, FailClosedMoves, Zenon
<1>2. CASE ~FailClosed
  <2> DEFINE q == [r EXCEPT !.hasInventory = TRUE, !.inventoryRevision = inventory,
                            !.state = "Ready", !.lastHeartbeat = clock]
  <2>1. /\ r.registered /\ ~r.needsNewSession /\ ReadClock /\ Bump(1)
        /\ workers' = [workers EXCEPT ![w].hasInventory = TRUE, ![w].inventoryRevision = inventory,
                                      ![w].state = "Ready", ![w].lastHeartbeat = clock]
    BY <1>0, <1>2, Zenon DEF ReportInventory, SessionCurrent
  <2>a. workers' = [workers EXCEPT ![w] = q] BY <1>0, <2>1, Zenon
  <2>2. clock \in 0..MaxClock /\ Clocks /\ clockHealthy' = clockHealthy /\ clockHealthy
    BY <2>1, Zenon DEF Inv, TypeOK, Clocks, ReadClock, ClockReadable
  <2>f. r \in WorkerRecord BY <1>0, Zenon DEF Sound
  <2>3. q \in WorkerRecord BY <2>2, <2>f, Zenon DEF WorkerRecord, States
  <2>4. Sound(q) /\ Moves(r, q)
    BY <1>0, <2>1, <2>3, Fields, Zenon DEF Sound, Moves, WorkerRecord
  <2> HIDE DEF q
  <2> QED BY <1>0, <2>1, <2>a, <2>2, <2>4, OneMoves, Zenon
<1> QED BY <1>1, <1>2, Zenon

\* A heartbeat brings back a Worker that had reported under its session.
LEMMA HeartbeatMoves ==
  ASSUME Inv, NEW w \in WorkerIDs, NEW boot, NEW epoch, Heartbeat(w, boot, epoch)
  PROVE  Inv' /\ SessionStep
<1>0. PICK r : w \in Known /\ r = workers[w] /\ Sound(r) BY Zenon DEF Heartbeat, SessionCurrent, Inv
<1>1. CASE FailClosed BY <1>1, FailClosedMoves, Zenon
<1>2. CASE ~FailClosed
  <2> DEFINE back == r.hasInventory /\ r.state \in {"Suspect", "Unavailable"}
             q == [r EXCEPT !.lastHeartbeat = clock, !.state = IF back THEN "Ready" ELSE r.state]
  <2>1. /\ r.registered /\ ~r.needsNewSession /\ ReadClock
        /\ workers' = [workers EXCEPT ![w].lastHeartbeat = clock,
                                      ![w].state = IF back THEN "Ready" ELSE @]
        /\ IF back THEN Bump(1) ELSE UNCHANGED revision
    BY <1>0, <1>2, Zenon DEF Heartbeat, SessionCurrent
  <2>f. r \in WorkerRecord /\ r.state \in States BY <1>0, Fields, Zenon
  <2>a. workers' = [workers EXCEPT ![w] = q] BY <1>0, <2>1, Zenon
  <2>2. clock \in 0..MaxClock /\ Clocks /\ clockHealthy' = clockHealthy /\ clockHealthy
    BY <2>1, Zenon DEF Inv, TypeOK, Clocks, ReadClock, ClockReadable
  <2>3. q \in WorkerRecord BY <2>2, <2>f, Zenon DEF WorkerRecord, States
  <2>4. Sound(q) /\ Moves(r, q)
    BY <1>0, <2>1, <2>3, Fields, Zenon DEF Sound, Moves, WorkerRecord
  <2>5. ~back => q.state = r.state BY <2>f, Zenon DEF WorkerRecord
  <2> HIDE DEF q, back
  <2> QED BY <1>0, <2>1, <2>a, <2>2, <2>4, <2>5, OneMoves, Zenon
<1> QED BY <1>1, <1>2, Zenon

\* An intent of the operator changes its Worker and never makes it Ready.
LEMMA IntentMoves ==
  ASSUME Inv, NEW w \in WorkerIDs,
         SetIntentRemoved(w) \/ SetIntentDraining(w) \/ SetIntentSchedulable(w)
  PROVE  Inv' /\ SessionStep
<1>0. PICK r : w \in Known /\ r = workers[w] /\ Sound(r)
  BY Zenon DEF SetIntentRemoved, SetIntentDraining, SetIntentSchedulable, Inv
<1>f. r \in WorkerRecord BY <1>0, Zenon DEF Sound
<1>c. Bump(1) /\ Clocks /\ clockHealthy' = clockHealthy
  BY Zenon DEF SetIntentRemoved, SetIntentDraining, SetIntentSchedulable, Inv, TypeOK, Clocks
<1>1. CASE SetIntentRemoved(w)
  <2> DEFINE q == [r EXCEPT !.intent = "Removed", !.registered = FALSE, !.state = "Unavailable"]
  <2>1. /\ r.intent = "Draining" /\ r.drain = "Drained"
        /\ workers' = [workers EXCEPT ![w].intent = "Removed", ![w].registered = FALSE,
                                      ![w].state = "Unavailable"]
    BY <1>0, <1>1, Zenon DEF SetIntentRemoved
  <2>2. workers' = [workers EXCEPT ![w] = q] BY <1>0, <2>1, Zenon
  <2>3. q \in WorkerRecord BY <1>f, Zenon DEF WorkerRecord, States, Intents
  <2>4. Sound(q) /\ Moves(r, q) /\ q.state = "Unavailable"
    BY <1>0, <2>1, <2>3, Fields, Zenon DEF Sound, Moves, WorkerRecord
  <2> HIDE DEF q
  <2> QED BY <1>0, <1>c, <2>2, <2>4, OneMoves, Zenon
<1>2. CASE SetIntentDraining(w)
  <2> DEFINE q == [r EXCEPT !.intent = "Draining", !.drain = "Draining"]
  <2>1. /\ r.intent = "Schedulable"
        /\ workers' = [workers EXCEPT ![w].intent = "Draining", ![w].drain = "Draining"]
    BY <1>0, <1>2, Zenon DEF SetIntentDraining
  <2>2. workers' = [workers EXCEPT ![w] = q] BY <1>0, <2>1, Zenon
  <2>3. q \in WorkerRecord BY <1>f, Zenon DEF WorkerRecord, Intents, Drains
  <2>4. Sound(q) /\ Moves(r, q) /\ q.state = r.state
    BY <1>0, <2>1, <2>3, Fields, Zenon DEF Sound, Moves, WorkerRecord
  <2>5. ~clockHealthy => r.state \notin {"Ready", "Suspect"} BY <1>0, Zenon DEF Inv, FailsClosed
  <2> HIDE DEF q
  <2> QED BY <1>0, <1>c, <2>2, <2>4, <2>5, OneMoves, Zenon
<1>3. CASE SetIntentSchedulable(w)
  <2> DEFINE q == [r EXCEPT !.intent = "Schedulable", !.drain = "NotDraining",
                            !.needsNewSession = TRUE, !.state = "Joining"]
  <2>1. /\ r.intent = "Draining"
        /\ workers' = [workers EXCEPT ![w].intent = "Schedulable", ![w].drain = "NotDraining",
                                      ![w].needsNewSession = TRUE, ![w].state = "Joining"]
    BY <1>0, <1>3, Zenon DEF SetIntentSchedulable
  <2>2. workers' = [workers EXCEPT ![w] = q] BY <1>0, <2>1, Zenon
  <2>3. q \in WorkerRecord BY <1>f, Zenon DEF WorkerRecord, Intents, Drains, States
  <2>4. Sound(q) /\ Moves(r, q) /\ q.state = "Joining"
    BY <1>0, <2>1, <2>3, Fields, Zenon DEF Sound, Moves, WorkerRecord
  <2> HIDE DEF q
  <2> QED BY <1>0, <1>c, <2>2, <2>4, OneMoves, Zenon
<1> QED BY <1>1, <1>2, <1>3, Zenon

\* A drain observation is about a draining Worker.
LEMMA DrainMoves ==
  ASSUME Inv, NEW w \in WorkerIDs, NEW boot, NEW epoch, UpdateDrain(w, boot, epoch)
  PROVE  Inv' /\ SessionStep
<1>0. PICK r : w \in Known /\ r = workers[w] /\ Sound(r) BY Zenon DEF UpdateDrain, MayDrain, Inv
<1>f. r \in WorkerRecord BY <1>0, Zenon DEF Sound
<1>1. PICK d \in {"Drained", "Draining"} : workers' = [workers EXCEPT ![w].drain = d]
  BY Zenon DEF UpdateDrain
<1>2. r.intent = "Draining" /\ Bump(1) /\ Clocks /\ clockHealthy' = clockHealthy
  BY <1>0, Zenon DEF UpdateDrain, MayDrain, Inv, TypeOK, Clocks
<1> DEFINE q == [r EXCEPT !.drain = d]
<1>3. workers' = [workers EXCEPT ![w] = q] BY <1>0, <1>1, Zenon
<1>4. q \in WorkerRecord BY <1>f, Zenon DEF WorkerRecord, Drains
<1>5. Sound(q) /\ Moves(r, q) /\ q.state = r.state
  BY <1>0, <1>2, <1>4, Fields, Zenon DEF Sound, Moves, WorkerRecord
<1>6. ~clockHealthy => r.state \notin {"Ready", "Suspect"} BY <1>0, Zenon DEF Inv, FailsClosed
<1> HIDE DEF q
<1> QED BY <1>0, <1>2, <1>3, <1>5, <1>6, OneMoves, Zenon

\* A committed session starts over under a higher epoch.
LEMMA CommitMoves ==
  ASSUME Inv, NEW w \in WorkerIDs, NEW boot \in BootIDs, CommitSession(w, boot)
  PROVE  Inv' /\ SessionStep
<1>c. Bump(1) /\ Clocks /\ clockHealthy' = clockHealthy
  BY Zenon DEF CommitSession, Inv, TypeOK, Clocks
<1>1. ASSUME w \in Known, MayCommit(workers[w]),
             workers' = [workers EXCEPT ![w] = NextSession(workers[w], boot)]
      PROVE  Inv' /\ SessionStep
  <2>0. PICK r, q : r = workers[w] /\ q = NextSession(r, boot) BY Zenon
  <2>1. Sound(r) /\ r \in WorkerRecord /\ r.epoch \in Nat /\ r.epoch < MaxEpoch /\ r.intent # "Removed"
    BY <1>1, <2>0, Fields, Zenon DEF Inv, MayCommit
  <2>2. q \in WorkerRecord
    <3>1. PICK e \in 1..MaxEpoch : e = r.epoch + 1 BY <2>1
    <3>2. q = [r EXCEPT !.epoch = e, !.boot = boot, !.registered = FALSE, !.needsNewSession = FALSE,
                        !.hasInventory = FALSE, !.inventoryRevision = 0, !.state = "Joining"]
      BY <2>0, <3>1, Zenon DEF NextSession
    <3>3. 0 \in 0..MaxInventory /\ "Joining" \in States BY DEF States
    <3> QED BY <2>1, <3>2, <3>3, Zenon DEF WorkerRecord
  <2>3. Sound(q) /\ Moves(r, q) /\ q.state = "Joining"
    BY <2>0, <2>1, <2>2, Fields DEF Sound, Moves, WorkerRecord, NextSession
  <2> QED BY <1>1, <1>c, <2>0, <2>3, OneMoves, Zenon
<1>2. ASSUME w \notin Known, Cardinality(Known) < MaxWorkers,
             workers' = [x \in Known \cup {w} |-> IF x = w THEN FirstSession(boot) ELSE workers[x]]
      PROVE  Inv' /\ SessionStep
  <2>0. PICK q : q = FirstSession(boot) BY Zenon
  <2>1. /\ Known' = Known \cup {w} /\ workers'[w] = q
        /\ \A x \in Known : workers'[x] = workers[x]
    BY <1>2, <2>0, Zenon DEF Known
  <2>2. q \in WorkerRecord BY <2>0 DEF FirstSession, WorkerRecord, States, Intents, Drains
  <2>3. Sound(q) /\ q.state = "Joining" BY <2>0, <2>2, Zenon DEF Sound, FirstSession
  <2>4. \A x \in Known' : Sound(workers'[x]) BY <2>1, <2>3, Zenon DEF Inv
  <2>5. Cardinality(Known') <= MaxWorkers
    <3>1. IsFiniteSet(Known) BY FS_Subset, Zenon DEF Inv, TypeOK
    <3>2. Cardinality(Known') = Cardinality(Known) + 1 BY <1>2, <2>1, <3>1, FS_AddElement, Zenon
    <3>3. Cardinality(Known) \in Nat BY <3>1, FS_CardinalityType, Zenon
    <3> QED BY <1>2, <3>2, <3>3
  <2>6. revision' \in 0..(RevisionSize - 1) /\ revision' # revision
    <3>1. 1 \in 0..Cardinality(WorkerIDs) BY FS_CardinalityType, FS_EmptySet
    <3> QED BY <1>c, <3>1, Bumped DEF Inv
  <2>7. \A x \in Known' : workers'[x] \in WorkerRecord BY <2>4, Zenon DEF Sound
  <2>8. TypeOK' BY <1>c, <2>1, <2>5, <2>6, <2>7, Zenon DEF Inv, TypeOK, Clocks
  <2>9. FailsClosed' BY <1>c, <2>1, <2>3, Zenon DEF Inv, FailsClosed
  <2>10. \A x \in Known : Moves(workers[x], workers'[x]) BY <2>1, Fields, Zenon DEF Inv
  <2> QED BY <2>1, <2>4, <2>6, <2>8, <2>9, <2>10, Zenon DEF Inv, SessionStep
<1> QED BY <1>1, <1>2, Zenon DEF CommitSession

\* An evaluation moves the Workers that report, and all its changes show in the
\* revision.
LEMMA EvaluateMoves ==
  ASSUME Inv, Evaluate PROVE Inv' /\ SessionStep
<1>1. CASE FailClosed BY <1>1, FailClosedMoves, Zenon
<1>2. CASE ~FailClosed
  <2> DEFINE Changed == {w \in Known : Evaluated(workers[w]) /\ Classified(workers[w]) # workers[w].state}
  <2>1. /\ ReadClock /\ Bump(Cardinality(Changed))
        /\ workers' = [w \in Known |-> IF w \in Changed
                         THEN [workers[w] EXCEPT !.state = Classified(workers[w])] ELSE workers[w]]
    BY <1>2, Zenon DEF Evaluate
  <2>2. Clocks /\ clockHealthy' = clockHealthy /\ clockHealthy /\ clock \in Nat
    BY <2>1 DEF Inv, TypeOK, Clocks, ReadClock, ClockReadable
  <2>3. Known' = Known BY <2>1, Zenon DEF Known
  <2>4. ASSUME NEW w \in Known PROVE Sound(workers'[w]) /\ Moves(workers[w], workers'[w])
    <3>0. PICK r : r = workers[w] /\ Sound(r) BY Zenon DEF Inv
    <3>1. CASE w \in Changed
      <4>1. PICK c : c = Classified(r) BY Zenon
      <4>2. c \in {"Ready", "Suspect", "Unavailable"}
        BY <2>2, <3>0, <4>1, Fields DEF Classified
      <4>3. workers'[w] = [r EXCEPT !.state = c] BY <2>1, <3>0, <3>1, <4>1, Zenon
      <4>4. r.registered /\ ~r.needsNewSession /\ r.hasInventory BY <3>0, <3>1, Zenon DEF Evaluated
      <4>5. r \in WorkerRecord BY <3>0, Zenon DEF Sound
      <4>6. [r EXCEPT !.state = c] \in WorkerRecord BY <4>2, <4>5, Zenon DEF WorkerRecord, States
      <4> QED BY <3>0, <4>2, <4>3, <4>4, <4>6, Fields, Zenon DEF Sound, Moves, WorkerRecord
    <3>2. CASE w \notin Changed BY <2>1, <3>0, <3>2, Fields, Zenon
    <3> QED BY <3>1, <3>2, Zenon
  <2>5. Changed \subseteq WorkerIDs /\ Cardinality(Changed) \in 0..Cardinality(WorkerIDs)
    <3>1. Changed \subseteq WorkerIDs BY Zenon DEF Inv, TypeOK
    <3>2. IsFiniteSet(Changed) /\ Cardinality(Changed) <= Cardinality(WorkerIDs)
      BY <3>1, FS_Subset, Zenon
    <3>3. Cardinality(Changed) \in Nat /\ Cardinality(WorkerIDs) \in Nat
      BY <3>2, FS_CardinalityType, Zenon
    <3> HIDE DEF Changed
    <3> QED BY <3>1, <3>2, <3>3
  <2>6. Cardinality(Changed) = 0 => Changed = {}
    BY <2>5, FS_Subset, FS_EmptySet, Zenon
  <2>7. /\ revision' \in 0..(RevisionSize - 1)
        /\ Cardinality(Changed) # 0 => revision' # revision
    BY <2>1, <2>5, Bumped, Zenon DEF Inv
  <2>8. TypeOK'
    <3>1. \A w \in Known' : workers'[w] \in WorkerRecord BY <2>3, <2>4, Zenon DEF Sound
    <3> QED BY <2>2, <2>3, <2>7, <3>1, Zenon DEF Inv, TypeOK, Clocks
  <2>9. FailsClosed' BY <2>2, Zenon DEF FailsClosed
  <2>10. Changed = {} => \A w \in Known : workers'[w] = workers[w] BY <2>1, Zenon
  <2>11. ReadyWorkers' # ReadyWorkers => revision' # revision
    <3> HIDE DEF Changed
    <3> QED BY <2>3, <2>6, <2>7, <2>10, Zenon DEF ReadyWorkers
  <2> QED BY <2>3, <2>4, <2>8, <2>9, <2>11, Zenon DEF Inv, SessionStep
<1> QED BY <1>1, <1>2, Zenon

\* Every step keeps the invariant and moves the sessions forward.
LEMMA Step ==
  ASSUME Inv, Next PROVE Inv' /\ SessionStep
<1>1. CASE Tick \/ ClockRegresses
  <2>1. UNCHANGED <<workers, revision, clockHealthy>> /\ Clocks
    BY <1>1 DEF Tick, ClockRegresses, Inv, TypeOK, Clocks
  <2> QED BY <2>1, NoneMoves, Zenon
<1> QED BY <1>1, EvaluateMoves, IntentMoves, CommitMoves, RegisterMoves, HeartbeatMoves, DrainMoves,
           ReportMoves, Zenon DEF Next

\* The invariant holds from the start.
LEMMA Start ==
  ASSUME Init PROVE Inv
<1>1. Known = {} BY Zenon DEF Init, Known
<1>2. Cardinality({}) = 0 BY FS_EmptySet, Zenon
<1>3. RevisionSize - 1 \in Nat
  <2>1. Cardinality(WorkerIDs) \in Nat BY FS_CardinalityType, Zenon
  <2> QED BY <2>1
<1> QED BY <1>1, <1>2, <1>3 DEF Init, Inv, TypeOK, FailsClosed

\* The invariant holds throughout.
LEMMA Invariant == Spec => []Inv
<1>1. Inv /\ [Next]_vars => Inv'
  <2>1. Inv /\ UNCHANGED vars => Inv' BY DEF Inv, TypeOK, FailsClosed, Known, vars
  <2> QED BY <2>1, Step, Zenon
<1> QED BY <1>1, Start, PTL DEF Spec

\* Whoever is Ready or Suspect has registered its current session and reported
\* under it; nobody is once the clock has been seen to go back; the drain state
\* follows the intent; and the Registry keeps its limit (CommitSession, Register,
\* ReportInventory, Heartbeat, Evaluate, SetIntent, UpdateDrain).
THEOREM RegistryHolds == Spec => []RegistryInvariant
<1>1. Inv => RegistryInvariant
  BY Zenon DEF Inv, RegistryInvariant, ReadyIsBacked, DrainFollowsIntent, Sound
<1> QED BY <1>1, Invariant, PTL

\* Epochs grow one at a time and belong to one boot, a removed identity stays as
\* it was left, an activated Worker needs a newer session, and the revision shows
\* every change of the Ready Workers though it wraps (Registry.mu's methods).
THEOREM SessionsForward == Spec => SessionsMoveForward
<1>1. Inv /\ [Next]_vars => [SessionStep]_vars BY Step, Zenon
<1>2. SessionsMoveForward <=> [][SessionStep]_vars BY PTL DEF SessionsMoveForward, SessionStep
<1> QED BY <1>1, <1>2, Invariant, PTL DEF Spec

-----------------------------------------------------------------------------
(***************************************************************************)
(* The validator's client: no more processes than slots, nothing left      *)
(* behind, and only true verdicts.                                         *)
(***************************************************************************)

\* A call that has not made its directory yet.
Early(r) == r.pc \in {"idle", "called", "admitted"}
\* Its process runs.
Lives(r) == r.child \in {"starting", "reading", "compiling"}

\* The slot covers directory and process, and is free before and after.
SlotCovers(r) ==
    /\ r.pc \in {"idle", "called", "closing", "returned"} => ~r.slot
    /\ r.pc \in {"admitted", "prepared", "waiting", "waited", "receiving"} => r.slot
    /\ r.temp = "made" =>
          r.slot /\ r.pc \in {"prepared", "waiting", "waited", "receiving", "removing"}
    /\ Lives(r) => r.slot /\ r.pc = "waiting"
    /\ r.pc = "returned" => r.artifact = "closed"

\* The deadline of the call, and the later one of its process.
DeadlineCovers(r, t) ==
    /\ Early(r) => ~r.expired /\ r.child = "none" /\ r.said = "none" /\ r.result = "none"
    /\ r.pc \in {"called", "admitted"} => Room(t)
    /\ r.expired => t >= r.deadline
    /\ r.pc = "receiving" => ~r.expired
    /\ r.pc \in {"prepared", "waiting", "waited"} /\ ~r.expired => t < r.deadline + StartDelay
    /\ r.child \in {"reading", "compiling"} => r.due >= r.deadline + StartDelay

\* What was said is true unless the deadline has passed.
AnswerTrue(r) ==
    /\ r.said \in Modules /\ ~r.expired => r.said = r.module
    /\ r.result \in Modules => r.result = r.module
    /\ r.result = "timeout" => r.expired
    /\ r.result = "limit" => r.flooded

\* All of that, at time t.
CallSound(r, t) == SlotCovers(r) /\ DeadlineCovers(r, t) /\ AnswerTrue(r)

\* The inductive invariant.
ValidatorInv ==
    /\ ValidatorTypeOK
    /\ Held <= MaxConcurrent
    /\ \A c \in Validations : CallSound(call[c], now)

\* A step of one call that leaves its record sound, and takes a slot only
\* when one is free, keeps the invariant.
LEMMA SetKeeps ==
    ASSUME ValidatorInv, NEW c \in Validations, NEW r \in Validation, CallSound(r, now),
           Set(c, r), r.slot => call[c].slot \/ Held < MaxConcurrent
    PROVE  ValidatorInv'
<1> DEFINE S == {d \in Validations : call[d].slot}
           T == {d \in Validations : call'[d].slot}
<1>1. call' = [call EXCEPT ![c] = r] /\ others' = others /\ now' = now
  BY Zenon DEF Set
<1>2. call \in [Validations -> Validation] /\ now \in 0..MaxTime /\ others \in 0..MaxConcurrent
  BY Zenon DEF ValidatorInv, ValidatorTypeOK
<1>3. call' \in [Validations -> Validation]
  BY <1>1, <1>2, Zenon
<1>4. IsFiniteSet(Validations) /\ MaxConcurrent \in Nat
  BY ValidatorAssumption, Zenon
<1>5. IsFiniteSet(S) /\ Cardinality(S) \in Nat
  BY <1>4, FS_Subset, FS_CardinalityType, Zenon
<1>6. Cardinality(S) + others <= MaxConcurrent
  BY Zenon DEF ValidatorInv, Held
<1>7. \A d \in Validations \ {c} : call'[d] = call[d]
  BY <1>1, <1>2, Zenon
<1>8. call'[c] = r
  BY <1>1, <1>2, Zenon
<1>9. Cardinality(T) + others <= MaxConcurrent
  <2>1. CASE r.slot => call[c].slot
    <3>1. T \subseteq S
      BY <2>1, <1>7, <1>8, Zenon
    <3> QED BY <3>1, <1>5, <1>6, <1>2, <1>4, FS_Subset, FS_CardinalityType
  <2>2. CASE Cardinality(S) + others < MaxConcurrent
    <3>1. T \subseteq S \cup {c}
      BY <1>7, Zenon
    <3>2. IsFiniteSet(S \cup {c}) /\ Cardinality(S \cup {c}) <= Cardinality(S) + 1
      <4>1. IsFiniteSet(S \cup {c})
            /\ Cardinality(S \cup {c}) = IF c \in S THEN Cardinality(S) ELSE Cardinality(S) + 1
        BY <1>5, FS_AddElement, Zenon
      <4>2. Cardinality(S) \in Nat BY <1>5, FS_CardinalityType, Zenon
      <4> QED BY <4>1, <4>2
    <3>3. Cardinality(T) <= Cardinality(S \cup {c}) /\ Cardinality(T) \in Nat
      BY <3>1, <3>2, FS_Subset, FS_CardinalityType, Zenon
    <3>4. Cardinality(S \cup {c}) \in Nat
      BY <3>2, FS_CardinalityType, Zenon
    <3> QED BY <3>3, <3>2, <3>4, <2>2, <1>5, <1>2, <1>4
  <2> QED BY <2>1, <2>2, Zenon DEF Held
<1>10. \A d \in Validations : CallSound(call'[d], now')
  BY <1>1, <1>7, <1>8, Zenon DEF ValidatorInv
<1> QED BY <1>1, <1>2, <1>3, <1>9, <1>10, Zenon DEF ValidatorInv, ValidatorTypeOK, Held


\* The steps of the supervisor: the slot is taken before and given back after
\* everything else, and the answer is drawn from what is true by then
\* (Client.Validate).
LEMMA SuperviseKeeps ==
    ASSUME ValidatorInv, NEW c \in Validations, Supervise(c)
    PROVE  ValidatorInv'
<1>1. PICK r \in Validation : r = call[c]
  BY Zenon DEF ValidatorInv, ValidatorTypeOK
<1>2. CallSound(r, now) /\ now \in 0..MaxTime
  BY <1>1, Zenon DEF ValidatorInv, ValidatorTypeOK
<1>3. Deadline \in Nat \ {0} /\ StartDelay \in Nat \ {0} /\ MaxTime \in Nat
  BY ValidatorAssumption, Zenon
<1>4. ASSUME NEW s \in Validation, CallSound(s, now), Set(c, s), s.slot => r.slot
      PROVE  ValidatorInv'
  BY <1>1, <1>4, SetKeeps, Zenon
<1>5. ASSUME NEW result \in {"failed", "canceled", "overloaded"}, Set(c, Return(r, result)),
             r.pc \in {"called", "admitted", "prepared"}
      PROVE  ValidatorInv'
  <2> DEFINE s == Return(r, result)
  <2>1. s \in Validation
    BY ZenonT(60) DEF Return, Validation, Results
  <2>3. s.slot = r.slot
    BY Zenon DEF Return, Validation
  <2>2. CallSound(s, now)
    BY <1>2, <1>5, Zenon DEF CallSound, SlotCovers, DeadlineCovers, AnswerTrue, Early, Lives, Return,
      Modules, Validation
  <2> QED BY <2>1, <2>2, <2>3, <1>4, <1>5, Zenon
<1>6. CASE Refused(c)
  BY <1>1, <1>5, <1>6, Zenon DEF Refused, CallAt
<1>7. CASE TakeSlot(c)
  <2> DEFINE s == [r EXCEPT !.pc = "admitted", !.slot = TRUE]
  <2>1. s \in Validation
    BY Zenon DEF Validation
  <2>2. r.pc = "called" /\ Set(c, s) /\ Held < MaxConcurrent
    BY <1>1, <1>7, Zenon DEF TakeSlot, CallAt
  <2>3. CallSound(s, now)
    BY <1>2, <2>2, Zenon DEF CallSound, SlotCovers, DeadlineCovers, AnswerTrue, Early, Lives, Validation
  <2> QED BY <2>1, <2>2, <2>3, <1>1, SetKeeps, Zenon
<1>8. CASE MakeTemp(c)
  <2> DEFINE s == [r EXCEPT !.pc = "prepared", !.temp = "made", !.deadline = now + Deadline]
  <2>1. r.pc = "admitted" /\ (Set(c, s) \/ Set(c, Return(r, "failed")))
    BY <1>1, <1>8, Zenon DEF MakeTemp, CallAt
  <2>2. now + Deadline \in 0..MaxTime
    BY <1>2, <1>3, <2>1 DEF CallSound, DeadlineCovers, Room
  <2>3. s \in Validation /\ (s.slot => r.slot)
    BY <2>2, ZenonT(60) DEF Validation
  <2>4. CallSound(s, now)
    BY <1>2, <1>3, <2>1 DEF CallSound, SlotCovers, DeadlineCovers, AnswerTrue, Early, Lives,
      Validation
  <2> QED BY <2>1, <2>3, <2>4, <1>4, <1>5, Zenon
<1>9. CASE StartChild(c)
  <2> DEFINE s == [r EXCEPT !.pc = "waiting", !.child = "starting", !.pump = "sending"]
  <2>1. r.pc = "prepared" /\ (Set(c, s) \/ Set(c, Return(r, "failed")))
    BY <1>1, <1>9, Zenon DEF StartChild, CallAt
  <2>2. s \in Validation
    BY ZenonT(40) DEF Validation
  <2>3. CallSound(s, now)
    BY <1>2, <1>3, <2>1 DEF CallSound, SlotCovers, DeadlineCovers, AnswerTrue, Early, Lives,
      Validation
  <2>4. s.slot => r.slot
    BY Zenon DEF Validation
  <2> QED BY <2>1, <2>2, <2>3, <2>4, <1>4, <1>5, Zenon
<1>10. CASE Wait(c)
  <2> DEFINE s == [r EXCEPT !.pc = "waited"]
  <2>1. r.pc = "waiting" /\ r.child = "exited" /\ Set(c, s)
    BY <1>1, <1>10, Zenon DEF Wait, CallAt
  <2>2. s \in Validation
    BY ZenonT(60) DEF Validation
  <2>3. CallSound(s, now)
    BY <1>2, <1>3, <2>1 DEF CallSound, SlotCovers, DeadlineCovers, AnswerTrue, Early, Lives,
      Validation
  <2>4. s.slot => r.slot
    BY Zenon DEF Validation
  <2> QED BY <2>1, <2>2, <2>3, <2>4, <1>4, Zenon
<1>11. CASE Answer(c)
  <2>1. r.pc = "waited" /\ Set(c, IF Outcome(r) = "none" THEN [r EXCEPT !.pc = "receiving"]
                                  ELSE Return(r, Outcome(r)))
    BY <1>1, <1>11, Zenon DEF Answer, CallAt
  <2>2. CASE Outcome(r) = "none"
    <3> DEFINE s == [r EXCEPT !.pc = "receiving"]
    <3>1. ~r.expired /\ Set(c, s)
      BY <2>1, <2>2, Zenon DEF Outcome
    <3>2. s \in Validation
      BY ZenonT(60) DEF Validation
    <3>3. s.slot = r.slot
      BY Zenon DEF Validation
    <3>4. CallSound(s, now)
      BY <1>2, <1>3, <2>1, <3>1 DEF CallSound, SlotCovers, DeadlineCovers, AnswerTrue, Early, Lives,
        Validation
    <3> QED BY <3>1, <3>2, <3>3, <3>4, <1>4, Zenon
  <2>3. CASE Outcome(r) # "none"
    <3> DEFINE s == Return(r, Outcome(r))
    <3>1. Set(c, s) /\ Outcome(r) \in Results
      BY <2>1, <2>3, Zenon DEF Outcome, Results
    <3>2. s \in Validation
      BY <3>1, Zenon DEF Return, Validation
    <3>3. s.slot = r.slot
      BY Zenon DEF Return, Validation
    <3>4. SlotCovers(s) /\ DeadlineCovers(s, now)
      BY <1>2, <1>3, <2>1, Zenon DEF CallSound, SlotCovers, DeadlineCovers, Early, Lives, Return, Validation
    <3>5. AnswerTrue(s)
      BY <1>2, Zenon DEF CallSound, AnswerTrue, Return, Outcome, Validation, Modules
    <3> QED BY <3>1, <3>2, <3>3, <3>4, <3>5, <1>4, Zenon DEF CallSound
  <2> QED BY <2>2, <2>3, Zenon
<1>15. CASE Receive(c)
  <2>1. PICK result : /\ result = IF r.pump = "failed" \/ r.said = "another" THEN "failed" ELSE r.said
                      /\ Set(c, Return(r, result))
    BY <1>1, <1>15, Zenon DEF Receive
  <2> DEFINE s == Return(r, result)
  <2>2. r.pc = "receiving"
    BY <1>1, <1>15, Zenon DEF Receive, CallAt
  <2>3. result \in Results /\ (result \in Modules => result = r.said) /\ result # "timeout" /\ result # "limit"
    BY <2>1, Zenon DEF Validation, Results, Modules
  <2>4. s \in Validation
    BY <2>3, Zenon DEF Return, Validation
  <2>5. s.slot = r.slot
    BY Zenon DEF Return, Validation
  <2>6. SlotCovers(s) /\ DeadlineCovers(s, now)
    BY <1>2, <1>3, <2>2, Zenon DEF CallSound, SlotCovers, DeadlineCovers, Early, Lives, Return, Validation
  <2>7. ~r.expired
    BY <1>2, <2>2, Zenon DEF CallSound, DeadlineCovers
  <2>8. AnswerTrue(s)
    BY <1>2, <2>3, <2>7, Zenon DEF CallSound, AnswerTrue, Return, Validation
  <2> QED BY <2>1, <2>4, <2>5, <2>6, <2>8, <1>4, Zenon DEF CallSound
<1>12. CASE RemoveTemp(c)
  <2> DEFINE s == [r EXCEPT !.pc = "releasing", !.temp = IF @ = "made" THEN "removed" ELSE @]
             l == [r EXCEPT !.pc = "releasing", !.temp = "left", !.result = Joined(@)]
  <2>1. r.pc = "removing" /\ (Set(c, s) \/ Set(c, l))
    BY <1>1, <1>12, Zenon DEF RemoveTemp, CallAt
  <2>2. s \in Validation /\ l \in Validation
    <3>1. Joined(r.result) \in Results
      BY Zenon DEF Joined, Results, Validation
    <3>2. \A x \in Results : [r EXCEPT !.pc = "releasing", !.temp = "left", !.result = x]
             \in Validation
      BY Zenon DEF Validation
    <3>3. \A x \in {"none", "made", "removed", "left"} :
             [r EXCEPT !.pc = "releasing", !.temp = x] \in Validation
      BY Zenon DEF Validation
    <3>4. (IF r.temp = "made" THEN "removed" ELSE r.temp) \in {"none", "made", "removed", "left"}
      BY Zenon DEF Validation
    <3> QED BY <3>1, <3>2, <3>3, <3>4, Zenon
  <2>5. s.slot = r.slot /\ l.slot = r.slot
    BY Zenon DEF Validation
  <2>3. CallSound(s, now)
    BY <1>2, <1>3, <2>1 DEF CallSound, SlotCovers, DeadlineCovers, AnswerTrue, Early, Lives,
      Validation
  <2>4. CallSound(l, now)
    BY <1>2, <1>3, <2>1 DEF CallSound, SlotCovers, DeadlineCovers, AnswerTrue, Early, Lives,
      Validation, Joined, Modules
  <2> QED BY <2>1, <2>2, <2>3, <2>4, <2>5, <1>4, Zenon
<1>13. CASE ReleaseSlot(c)
  <2> DEFINE s == [r EXCEPT !.pc = "closing", !.slot = FALSE]
  <2>1. r.pc = "releasing" /\ Set(c, s)
    BY <1>1, <1>13, Zenon DEF ReleaseSlot, CallAt
  <2>2. s \in Validation
    BY Zenon DEF Validation
  <2>3. CallSound(s, now)
    BY <1>2, <1>3, <2>1 DEF CallSound, SlotCovers, DeadlineCovers, AnswerTrue, Early, Lives,
      Validation
  <2>4. s.slot => r.slot
    BY Zenon DEF Validation
  <2> QED BY <2>1, <2>2, <2>3, <2>4, <1>4, Zenon
<1>14. CASE CloseArtifact(c)
  <2>1. PICK result \in {r.result, Joined(r.result)} :
           Set(c, [r EXCEPT !.pc = "returned", !.artifact = "closed", !.result = result])
    BY <1>1, <1>14, Zenon DEF CloseArtifact
  <2> DEFINE s == [r EXCEPT !.pc = "returned", !.artifact = "closed", !.result = result]
  <2>2. r.pc = "closing"
    BY <1>1, <1>14, Zenon DEF CloseArtifact, CallAt
  <2>3. s \in Validation
    <3>1. result \in Results
      BY <2>1, Zenon DEF Joined, Results, Validation
    <3>2. \A x \in Results : [r EXCEPT !.pc = "returned", !.artifact = "closed", !.result = x]
             \in Validation
      BY Zenon DEF Validation
    <3> QED BY <3>1, <3>2, Zenon
  <2>5. s.slot = r.slot
    BY Zenon DEF Validation
  <2>4. CallSound(s, now)
    BY <1>2, <1>3, <2>2 DEF CallSound, SlotCovers, DeadlineCovers, AnswerTrue, Early, Lives,
      Validation, Joined, Modules
  <2> QED BY <2>1, <2>3, <2>4, <2>5, <1>4, Zenon
<1> QED BY <1>6, <1>7, <1>8, <1>9, <1>10, <1>11, <1>12, <1>13, <1>14, <1>15, Zenon DEF Supervise


\* What the caller, the timer, the feeding goroutine and the process itself do
\* to a call: a process that is cut short by its own deadline is past that of
\* the call, which started earlier (Client.Validate, engine.Validate).
LEMMA AroundKeeps ==
    ASSUME ValidatorInv, NEW c \in Validations,
           \/ Cancel(c) \/ Expire(c) \/ KillProcessGroup(c) \/ PumpEnds(c) \/ Child(c)
           \/ \E module \in Modules, reader \in Readers : Call(c, module, reader)
    PROVE  ValidatorInv'
<1>1. PICK r \in Validation : r = call[c]
  BY Zenon DEF ValidatorInv, ValidatorTypeOK
<1>2. CallSound(r, now) /\ now \in 0..MaxTime
  BY <1>1, Zenon DEF ValidatorInv, ValidatorTypeOK
<1>3. Deadline \in Nat \ {0} /\ StartDelay \in Nat \ {0} /\ MaxTime \in Nat
  BY ValidatorAssumption, Zenon
<1>4. ASSUME NEW s \in Validation, CallSound(s, now), Set(c, s), s.slot = r.slot
      PROVE  ValidatorInv'
  BY <1>1, <1>4, SetKeeps, Zenon
<1>5. CASE Cancel(c)
  <2> DEFINE s == [r EXCEPT !.canceled = TRUE]
  <2>1. Set(c, s)
    BY <1>1, <1>5, Zenon DEF Cancel
  <2>2. s \in Validation
    BY Zenon DEF Validation
  <2>3. s.slot = r.slot
    BY Zenon DEF Validation
  <2>4. CallSound(s, now)
    BY <1>2 DEF CallSound, SlotCovers, DeadlineCovers, AnswerTrue, Early, Lives, Validation
  <2> QED BY <2>1, <2>2, <2>3, <2>4, <1>4, Zenon
<1>6. CASE Expire(c)
  <2> DEFINE s == [r EXCEPT !.expired = TRUE]
  <2>1. Set(c, s) /\ r.pc \in {"prepared", "waiting", "waited"} /\ now >= r.deadline
    BY <1>1, <1>6, Zenon DEF Expire, Counting, CallAt
  <2>2. s \in Validation
    BY Zenon DEF Validation
  <2>3. s.slot = r.slot
    BY Zenon DEF Validation
  <2>4. CallSound(s, now)
    BY <1>2, <2>1 DEF CallSound, SlotCovers, DeadlineCovers, AnswerTrue, Early, Lives, Validation
  <2> QED BY <2>1, <2>2, <2>3, <2>4, <1>4, Zenon
<1>7. ASSUME NEW exit \in {"ok", "failed"}, NEW said \in Modules \cup {"none", "another"},
             Lives(r), Exit(c, exit, said), said \in Modules => r.expired \/ said = r.module
      PROVE  ValidatorInv'
  <2> DEFINE s == [r EXCEPT !.child = "exited", !.exit = exit, !.said = said]
  <2>1. Set(c, s)
    BY <1>1, <1>7, Zenon DEF Exit
  <2>2. s \in Validation
    BY ZenonT(60) DEF Validation
  <2>3. s.slot = r.slot
    BY Zenon DEF Validation
  <2>4. SlotCovers(s)
    BY <1>2 DEF CallSound, SlotCovers, Lives, Validation
  <2>5. DeadlineCovers(s, now)
    BY <1>2, <1>7, Zenon DEF CallSound, SlotCovers, DeadlineCovers, Early, Lives, Validation
  <2>6. AnswerTrue(s)
    BY <1>2, <1>7, Zenon DEF CallSound, AnswerTrue, Validation
  <2> QED BY <2>1, <2>2, <2>3, <2>4, <2>5, <2>6, <1>4, Zenon DEF CallSound
<1>8. ASSUME NEW flooded \in BOOLEAN, r.flooded => flooded, Lives(r),
             Set(c, [r EXCEPT !.child = "exited", !.exit = "failed", !.flooded = flooded])
      PROVE  ValidatorInv'
  <2> DEFINE s == [r EXCEPT !.child = "exited", !.exit = "failed", !.flooded = flooded]
  <2>2. s \in Validation
    BY Zenon DEF Validation
  <2>3. s.slot = r.slot
    BY Zenon DEF Validation
  <2>4. SlotCovers(s)
    BY <1>2 DEF CallSound, SlotCovers, Lives, Validation
  <2>5. DeadlineCovers(s, now)
    BY <1>2, <1>8, Zenon DEF CallSound, SlotCovers, DeadlineCovers, Early, Lives, Validation
  <2>6. AnswerTrue(s)
    BY <1>2, <1>8, Zenon DEF CallSound, AnswerTrue, Validation
  <2> QED BY <2>2, <2>3, <2>4, <2>5, <2>6, <1>4, <1>8, Zenon DEF CallSound
<1>9. CASE KillProcessGroup(c)
  <2>1. [r EXCEPT !.child = "exited", !.exit = "failed"]
           = [r EXCEPT !.child = "exited", !.exit = "failed", !.flooded = r.flooded]
    BY Zenon DEF Validation
  <2>2. Lives(r) /\ Set(c, [r EXCEPT !.child = "exited", !.exit = "failed"])
    BY <1>1, <1>9, Zenon DEF KillProcessGroup, Alive, Lives
  <2>3. r.flooded \in BOOLEAN
    BY Zenon DEF Validation
  <2> QED BY <2>1, <2>2, <2>3, <1>8, Zenon
<1>10. CASE PumpEnds(c)
  <2>1. PICK pump \in {"sent", "failed"} : Set(c, [r EXCEPT !.pump = pump])
    BY <1>1, <1>10, Zenon DEF PumpEnds
  <2> DEFINE s == [r EXCEPT !.pump = pump]
  <2>2. s \in Validation
    BY ZenonT(60) DEF Validation
  <2>3. s.slot = r.slot
    BY Zenon DEF Validation
  <2>4. CallSound(s, now)
    BY <1>2 DEF CallSound, SlotCovers, DeadlineCovers, AnswerTrue, Early, Lives, Validation
  <2> QED BY <2>1, <2>2, <2>3, <2>4, <1>4, Zenon
<1>11. CASE ChildStarts(c)
  <2> DEFINE s == [r EXCEPT !.child = "reading", !.due = now + Deadline]
  <2>1. Set(c, s) /\ r.child = "starting" /\ now >= r.deadline - Deadline + StartDelay
    BY <1>1, <1>11, Zenon DEF ChildStarts
  <2>2. r.deadline \in Nat /\ now + Deadline \in 0..MaxTime + Deadline
    BY <1>2, <1>3 DEF Validation
  <2>3. s \in Validation
    BY <2>2, Zenon DEF Validation
  <2>4. s.slot = r.slot
    BY Zenon DEF Validation
  <2>5. SlotCovers(s)
    BY <1>2, <2>1, Zenon DEF CallSound, SlotCovers, Lives, Validation
  <2>6. now + Deadline >= r.deadline + StartDelay
    BY <2>1, <2>2, <1>2, <1>3
  <2>7. DeadlineCovers(s, now)
    BY <1>2, <2>1, <2>6, Zenon DEF CallSound, DeadlineCovers, Early, Validation
  <2>8. AnswerTrue(s)
    BY <1>2, Zenon DEF CallSound, AnswerTrue, Validation
  <2> QED BY <2>1, <2>3, <2>4, <2>5, <2>7, <2>8, <1>4, Zenon DEF CallSound
<1>12. CASE ChildReads(c)
  <2> DEFINE s == [r EXCEPT !.child = "compiling"]
  <2>1. Set(c, s) /\ r.child = "reading"
    BY <1>1, <1>12, Zenon DEF ChildReads
  <2>2. s \in Validation
    BY ZenonT(60) DEF Validation
  <2>3. s.slot = r.slot
    BY Zenon DEF Validation
  <2>4. CallSound(s, now)
    BY <1>2, <2>1, Zenon DEF CallSound, SlotCovers, DeadlineCovers, AnswerTrue, Early, Lives, Validation
  <2> QED BY <2>1, <2>2, <2>3, <2>4, <1>4, Zenon
<1>13. CASE ChildReports(c)
  <2>1. Lives(r)
    BY <1>1, <1>13, Zenon DEF ChildReports, Lives
  <2>2. CASE Exit(c, "ok", r.module)
    BY <2>1, <2>2, <1>7, Zenon DEF Validation
  <2>3. CASE now >= r.due /\ Exit(c, "ok", "invalid")
    <3>1. r.child = "compiling"
      BY <1>1, <1>13, Zenon DEF ChildReports
    <3>2. r.pc = "waiting" /\ r.due >= r.deadline + StartDelay
      BY <1>2, <3>1, Zenon DEF CallSound, SlotCovers, DeadlineCovers, Lives
    <3>3. r.due \in Nat /\ r.deadline \in Nat
      BY <1>3 DEF Validation
    <3>4. r.expired
      BY <3>2, <3>3, <2>3, <1>2, <1>3 DEF CallSound, DeadlineCovers
    <3> QED BY <2>1, <2>3, <3>4, <1>7, Zenon DEF Modules
  <2> QED BY <2>2, <2>3, <1>1, <1>13, Zenon DEF ChildReports
<1>14. CASE ChildMisreports(c)
  BY <1>1, <1>7, <1>14, Zenon DEF ChildMisreports, Alive, Lives, Modules
<1>15. CASE ChildFails(c)
  BY <1>1, <1>7, <1>15, Zenon DEF ChildFails, Alive, Lives, Modules
<1>16. CASE ChildFloods(c)
  BY <1>1, <1>8, <1>16, Zenon DEF ChildFloods, Alive, Lives
<1>17. ASSUME NEW module \in Modules, NEW reader \in Readers, Call(c, module, reader)
       PROVE  ValidatorInv'
  <2> DEFINE s == [r EXCEPT !.pc = "called", !.module = module, !.reader = reader,
                            !.artifact = "open"]
  <2>1. Set(c, s) /\ r.pc = "idle" /\ Room(now)
    BY <1>1, <1>17, Zenon DEF Call, CallAt
  <2>2. s \in Validation
    BY Zenon DEF Validation
  <2>3. s.slot = r.slot
    BY Zenon DEF Validation
  <2>4. SlotCovers(s) /\ DeadlineCovers(s, now)
    BY <1>2, <2>1, Zenon DEF CallSound, SlotCovers, DeadlineCovers, Early, Lives, Validation
  <2>5. AnswerTrue(s)
    BY <1>2, <2>1, Zenon DEF CallSound, AnswerTrue, DeadlineCovers, Early, Modules, Validation
  <2> QED BY <2>1, <2>2, <2>3, <2>4, <2>5, <1>4, Zenon DEF CallSound
<1> QED BY <1>5, <1>6, <1>9, <1>10, <1>11, <1>12, <1>13, <1>14, <1>15, <1>16, <1>17, Zenon DEF Child


\* Time passes, and the other calls of Validate come and go.
LEMMA ElsewhereKeeps ==
    ASSUME ValidatorInv, ValidatorTick \/ OtherCall
    PROVE  ValidatorInv'
<1>1. /\ call \in [Validations -> Validation] /\ now \in 0..MaxTime
      /\ others \in 0..MaxConcurrent
  BY Zenon DEF ValidatorInv, ValidatorTypeOK
<1>2. /\ IsFiniteSet(Validations) /\ MaxConcurrent \in Nat /\ MaxTime \in Nat
      /\ Deadline \in Nat \ {0} /\ StartDelay \in Nat \ {0}
  BY ValidatorAssumption, Zenon
<1>3. CASE ValidatorTick
  <2>1. now' = now + 1 /\ now' \in 0..MaxTime /\ call' = call /\ others' = others
    BY <1>1, <1>2, <1>3 DEF ValidatorTick
  <2>2. ASSUME NEW c \in Validations
        PROVE  CallSound(call[c], now + 1)
    <3>1. PICK r \in Validation : r = call[c]
      BY <1>1, Zenon
    <3>2. CallSound(r, now)
      BY <3>1, Zenon DEF ValidatorInv
    <3>3. /\ r.pc \in {"prepared", "waiting", "waited"} /\ ~r.expired
                => now + 1 < r.deadline + StartDelay
          /\ r.pc \in {"called", "admitted"} => Room(now + 1)
      BY <3>1, <1>3, Zenon DEF ValidatorTick, Counting, CallAt
    <3>4. r.deadline \in Nat
      BY <1>2 DEF Validation
    <3>5. DeadlineCovers(r, now + 1)
      BY <3>2, <3>3, <3>4, <1>1, <1>2 DEF CallSound, DeadlineCovers
    <3> QED BY <3>1, <3>2, <3>5, Zenon DEF CallSound
  <2> QED BY <2>1, <2>2, <1>1, Zenon DEF ValidatorInv, ValidatorTypeOK, Held
<1>4. CASE OtherCall
  <2> DEFINE n == Cardinality({c \in Validations : call[c].slot})
  <2>1. n \in Nat
    BY <1>2, FS_Subset, FS_CardinalityType, Zenon
  <2>2. call' = call /\ now' = now
    BY <1>4, Zenon DEF OtherCall
  <2>3. n + others <= MaxConcurrent
    BY Zenon DEF ValidatorInv, Held
  <2>4. others' \in 0..MaxConcurrent /\ n + others' <= MaxConcurrent
    <3> HIDE DEF n
    <3>1. \/ n + others < MaxConcurrent /\ others' = others + 1
          \/ others > 0 /\ others' = others - 1
      BY <1>4, Zenon DEF OtherCall, Held, n
    <3> QED BY <3>1, <2>1, <2>3, <1>1, <1>2
  <2> QED BY <2>2, <2>4, <1>1, Zenon DEF ValidatorInv, ValidatorTypeOK, Held
<1> QED BY <1>3, <1>4, Zenon

\* Every state a run of the supervisor reaches satisfies the inductive invariant.
LEMMA ValidatorAlways == ValidatorSpec => []ValidatorInv
<1>1. ValidatorInit => ValidatorInv
  <2> SUFFICES ASSUME ValidatorInit PROVE ValidatorInv
    BY Zenon
  <2>1. /\ MaxConcurrent \in Nat /\ MaxTime \in Nat /\ Deadline \in Nat \ {0}
        /\ StartDelay \in Nat \ {0}
    BY ValidatorAssumption, Zenon
  <2>2. 0 \in 0..MaxTime /\ 0 \in 0..MaxTime + Deadline
    BY <2>1
  <2>3. NotCalled \in Validation
    BY <2>2, Zenon DEF NotCalled, Validation, Modules, Readers, Results
  <2>4. ValidatorTypeOK
    BY <2>1, <2>2, <2>3 DEF ValidatorInit, ValidatorTypeOK
  <2>5. \A c \in Validations : ~call[c].slot
    BY Zenon DEF ValidatorInit, NotCalled
  <2>6. {c \in Validations : call[c].slot} = {}
    BY <2>5, Zenon
  <2>7. Held <= MaxConcurrent
    BY <2>1, <2>6, FS_EmptySet DEF Held, ValidatorInit
  <2>8. CallSound(NotCalled, 0)
    BY <2>1, Zenon DEF NotCalled, CallSound, SlotCovers, DeadlineCovers, AnswerTrue, Early, Lives, Modules
  <2> QED BY <2>4, <2>7, <2>8, Zenon DEF ValidatorInv, ValidatorInit
<1>2. ValidatorInv /\ [ValidatorNext]_validatorVars => ValidatorInv'
  <2> SUFFICES ASSUME ValidatorInv, [ValidatorNext]_validatorVars PROVE ValidatorInv'
    BY Zenon
  <2>1. CASE ValidatorNext
    BY <2>1, SuperviseKeeps, AroundKeeps, ElsewhereKeeps, Zenon DEF ValidatorNext
  <2>2. CASE UNCHANGED validatorVars
    BY <2>2, Zenon DEF validatorVars, ValidatorInv, ValidatorTypeOK, Held
  <2> QED BY <2>1, <2>2, Zenon
<1> QED BY <1>1, <1>2, PTL DEF ValidatorSpec

\* At every moment, for every limit, deadline and number of calls, the
\* directories and processes under way fit into MaxConcurrent slots, a call
\* that returned owns nothing, and a timeout or a limit has its cause
\* (Client.Validate, admit).
THEOREM ValidatorHolds == ValidatorSpec => []ValidatorInvariant
<1>1. ValidatorInv => ValidatorInvariant
  <2> SUFFICES ASSUME ValidatorInv PROVE ValidatorInvariant
    BY Zenon
  <2>1. call \in [Validations -> Validation] /\ others \in Nat
    BY ValidatorAssumption DEF ValidatorInv, ValidatorTypeOK
  <2>2. WorkIsBounded
    <3> DEFINE S == {c \in Validations : call[c].slot}
               B == {c \in Validations : Alive(c) \/ call[c].temp = "made"}
    <3>1. B \subseteq S
      BY Zenon DEF ValidatorInv, CallSound, SlotCovers, Alive, Lives
    <3>2. IsFiniteSet(S)
      BY ValidatorAssumption, FS_Subset, Zenon
    <3>3. Cardinality(B) <= Cardinality(S) /\ Cardinality(S) \in Nat /\ Cardinality(B) \in Nat
      BY <3>1, <3>2, FS_Subset, FS_CardinalityType, Zenon
    <3>4. Cardinality(S) + others <= MaxConcurrent
      BY Zenon DEF ValidatorInv, Held
    <3> HIDE DEF S, B
    <3>5. Cardinality(B) + others <= MaxConcurrent
      BY <3>3, <3>4, <2>1, ValidatorAssumption
    <3> QED BY <3>5, Zenon DEF WorkIsBounded, B
  <2>3. ASSUME NEW c \in Validations, CallAt(c, "returned")
        PROVE  ~Alive(c) /\ call[c].artifact = "closed" /\ ~call[c].slot /\ call[c].temp # "made"
    BY <2>3, Zenon DEF ValidatorInv, CallSound, SlotCovers, CallAt, Alive, Lives
  <2>4. TerminalHasCause
    BY Zenon DEF ValidatorInv, CallSound, AnswerTrue, DeadlineCovers, TerminalHasCause
  <2> QED BY <2>2, <2>3, <2>4, Zenon DEF ValidatorInv, ValidatorInvariant, NothingLeftBehind
<1> QED BY <1>1, ValidatorAlways, PTL

\* A verdict is the truth about the module, for every deadline and whatever a
\* process takes to start: the deadline a process counts ends after that of its
\* call, and what it says after that is not believed (Client.Validate, Validate
\* of the engine).
THEOREM VerdictsHold == ValidatorSpec => []VerdictsAreTrue
<1>1. ValidatorInv => VerdictsAreTrue
  BY Zenon DEF ValidatorInv, CallSound, AnswerTrue, VerdictsAreTrue
<1> QED BY <1>1, ValidatorAlways, PTL
=============================================================================
