------------------------- MODULE Clusterings_proofs -------------------------
(***************************************************************************)
(* The clustering of the mesh.                                             *)
(*                                                                         *)
(* The search for the wiggle factor, for any mesh, time steps, rates, costs *)
(* and grid of wiggle factors: clusterings from the cache are the ones that *)
(* would be computed, the final ids are admissible, each has a constraint,  *)
(* and the wiggle factor found is the best one of the grid.                 *)
(*                                                                         *)
(* The enforcement of the maximum difference, for every mesh, distribution, *)
(* number of ranks and order of reads: the ids it returns are admissible,   *)
(* and no admissible clustering below the initial one is above them.        *)
(***************************************************************************)
EXTENDS WiggleSearch, MaximumDifference, FiniteSetTheorems, WellFoundedInduction,
        NaturalsInduction, TLAPS

(***************************************************************************)
(* Least elements.  They stand for induction: the first counterexample has  *)
(* no predecessor that is one.                                             *)
(***************************************************************************)

Before == OpToRel(<, Nat)

\* The order of the natural numbers, as a relation.
LEMMA BeforeIsWellFounded == IsWellFoundedOn(Before, Nat)
BY NatLessThanWellFounded DEF Before

\* What the relation says.
LEMMA BeforeIsLess == \A x, y \in Nat : <<x, y>> \in Before <=> x < y
BY DEF Before, OpToRel

\* A non-empty set of natural numbers has a least element.
LEMMA FirstExists ==
    ASSUME NEW T, T \subseteq Nat, T # {}
    PROVE  \E x \in T : \A y \in T : x <= y
<1>1. PICK x \in T : \A y \in T : ~(<<y, x>> \in Before)
  BY BeforeIsWellFounded, WFMin, Zenon
<1>2. x \in Nat /\ \A y \in T : y \in Nat /\ ~(y < x)
  BY <1>1, BeforeIsLess
<1>3. \A y \in T : x <= y
  BY <1>2
<1> QED BY <1>3

\* A finite set has a least element in any order of its elements that is total
\* and transitive.
LEMMA FiniteHasFirst ==
    ASSUME NEW S, IsFiniteSet(S), S # {}, NEW R,
           \A x, y \in S : <<x, y>> \in R \/ <<y, x>> \in R,
           \A x, y, z \in S : <<x, y>> \in R /\ <<y, z>> \in R => <<x, z>> \in R
    PROVE  \E x \in S : \A y \in S : <<x, y>> \in R
<1> DEFINE Bad == {T \in SUBSET S : T # {} /\ \A x \in T : \E y \in T : <<x, y>> \notin R}
           sizes == {Cardinality(T) : T \in Bad}
<1>1. SUFFICES ASSUME Bad # {} PROVE FALSE
  <2>1. S \notin Bad
    BY <1>1
  <2> QED BY <2>1
<1>2. \A T \in SUBSET S : IsFiniteSet(T) /\ Cardinality(T) \in Nat
  BY FS_Subset, FS_CardinalityType
<1>3. \A T \in Bad : Cardinality(T) \in Nat
  BY <1>2
<1>4. PICK T \in Bad : \A U \in Bad : Cardinality(T) <= Cardinality(U)
  <2> HIDE DEF Bad
  <2>1. sizes \subseteq Nat /\ sizes # {}
    BY <1>1, <1>3
  <2>2. PICK n \in sizes : \A m \in sizes : n <= m
    <3> HIDE DEF sizes
    <3> QED BY <2>1, FirstExists
  <2>3. PICK T \in Bad : n = Cardinality(T)
    BY <2>2
  <2>4. \A U \in Bad : Cardinality(U) \in sizes
    OBVIOUS
  <2> HIDE DEF sizes
  <2> QED BY <2>2, <2>3, <2>4
<1>5. PICK x \in T : TRUE
  OBVIOUS
<1>6. Cardinality(T \ {x}) = Cardinality(T) - 1 /\ Cardinality(T) \in Nat
  BY <1>2, FS_RemoveElement
<1>7. T \ {x} \notin Bad
  <2> HIDE DEF Bad
  <2>1. ~(Cardinality(T) <= Cardinality(T \ {x}))
    BY <1>6
  <2> QED BY <1>4, <2>1
<1>8. CASE T \ {x} = {}
  <2>1. T = {x}
    BY <1>8
  <2> QED BY <2>1
<1>9. CASE T \ {x} # {}
  <2>1. PICK m \in T \ {x} : \A y \in T \ {x} : <<m, y>> \in R
    BY <1>7, <1>9
  <2>2. T \subseteq S /\ x \in S /\ m \in S /\ m \in T
    OBVIOUS
  <2>3. CASE <<m, x>> \in R
    <3>1. \A y \in T : <<m, y>> \in R
      BY <2>1, <2>3
    <3> QED BY <2>2, <3>1
  <2>4. CASE <<x, m>> \in R
    <3>1. ASSUME NEW y \in T PROVE <<x, y>> \in R
      <4>1. CASE y = x
        BY <2>2, <4>1
      <4>2. CASE y # x
        BY <2>1, <2>2, <2>4, <4>2
      <4> QED BY <4>1, <4>2
    <3> QED BY <3>1
  <2> QED BY <2>2, <2>3, <2>4
<1> QED BY <1>8, <1>9

\* A non-empty finite set of natural numbers has a largest element.
LEMMA LargestExists ==
    ASSUME NEW T, T \subseteq Nat, T # {}, IsFiniteSet(T)
    PROVE  \E x \in T : \A y \in T : y <= x
<1> DEFINE R == {p \in T \X T : p[1] >= p[2]}
<1>1. \A x, y \in T : <<x, y>> \in R <=> x >= y
  OBVIOUS
<1>2. \A x, y \in T : <<x, y>> \in R \/ <<y, x>> \in R
  <2>1. \A x, y \in T : x >= y \/ y >= x
    OBVIOUS
  <2> HIDE DEF R
  <2> QED BY <1>1, <2>1
<1>3. \A x, y, z \in T : <<x, y>> \in R /\ <<y, z>> \in R => <<x, z>> \in R
  <2>1. \A x, y, z \in T : x >= y /\ y >= z => x >= z
    OBVIOUS
  <2> HIDE DEF R
  <2> QED BY <1>1, <2>1
<1>4. PICK x \in T : \A y \in T : <<x, y>> \in R
  <2> HIDE DEF R
  <2> QED BY <1>2, <1>3, FiniteHasFirst
<1>5. \A y \in T : y <= x
  BY <1>1, <1>4
<1> QED BY <1>5

\* The operators of the library.
LEMMA MinFacts ==
    ASSUME NEW T, T \subseteq Nat, T # {}
    PROVE  Min(T) \in T /\ \A y \in T : Min(T) <= y
BY FirstExists, Zenon DEF Min

LEMMA MaxFacts ==
    ASSUME NEW T, T \subseteq Nat, T # {}, IsFiniteSet(T)
    PROVE  Max(T) \in T /\ \A y \in T : y <= Max(T)
<1>1. PICK x \in T : \A y \in T : y <= x
  BY LargestExists
<1>2. \A y \in T : x >= y
  BY <1>1
<1>3. Max(T) \in T /\ \A y \in T : Max(T) >= y
  BY <1>2, Zenon DEF Max
<1> QED BY <1>3

(***************************************************************************)
(* The rates of the clusters.                                              *)
(***************************************************************************)

\* Every rate is a positive number.
LEMMA RateType == ASSUME NEW i \in Nat \ {0} PROVE Rate(i) \in Nat \ {0}
<1>1. Len(Rates) \in Nat \ {0} /\ DOMAIN Rates = 1..Len(Rates)
  BY RatesAssumption
<1>2. Minimum(i, Len(Rates)) \in 1..Len(Rates)
  BY <1>1 DEF Minimum
<1>3. \A k \in 1..Len(Rates) : Rates[k] \in Nat \ {0}
  BY RatesAssumption
<1> QED BY <1>2, <1>3 DEF Rate

\* The rates of the clusters up to n.
RatesUpTo(n) ==
    {f \in [0..n -> Nat] : \A k \in 0..n : f[k] = IF k = 0 THEN 1 ELSE f[k - 1] * Rate(k)}

\* There are such rates,
LEMMA RatesUpToExist == \A n \in Nat : RatesUpTo(n) # {}
<1> DEFINE Bad == {n \in Nat : RatesUpTo(n) = {}}
<1>1. SUFFICES ASSUME Bad # {} PROVE FALSE
  OBVIOUS
<1>2. PICK n \in Bad : \A m \in Bad : n <= m
  <2>1. Bad \subseteq Nat
    OBVIOUS
  <2> HIDE DEF Bad
  <2> QED BY <1>1, <2>1, FirstExists
<1>3. CASE n = 0
  <2>1. [k \in 0..0 |-> 1] \in RatesUpTo(0)
    BY DEF RatesUpTo
  <2> QED BY <1>3, <2>1
<1>4. CASE n # 0
  <2>1. n - 1 \in Nat /\ n - 1 \notin Bad
    BY <1>2, <1>4
  <2>2. PICK f \in RatesUpTo(n - 1) : TRUE
    BY <2>1
  <2> DEFINE g == [k \in 0..n |-> IF k = n THEN f[n - 1] * Rate(n) ELSE f[k]]
  <2>3. f \in [0..(n - 1) -> Nat] /\ f[n - 1] \in Nat
    BY <2>1, <2>2 DEF RatesUpTo
  <2>4. Rate(n) \in Nat
    BY <1>4, RateType
  <2>5. f[n - 1] * Rate(n) \in Nat
    BY <2>3, <2>4
  <2>6. g \in [0..n -> Nat]
    BY <2>3, <2>5
  <2>7. ASSUME NEW k \in 0..n PROVE g[k] = IF k = 0 THEN 1 ELSE g[k - 1] * Rate(k)
    <3>1. CASE k = n
      <4>1. n - 1 \in 0..n /\ n - 1 # n
        BY <2>1
      <4> QED BY <1>4, <3>1, <4>1
    <3>2. CASE k # n
      <4>1. k \in 0..(n - 1) /\ (k # 0 => k - 1 \in 0..n /\ k - 1 # n)
        BY <3>2
      <4>2. f[k] = IF k = 0 THEN 1 ELSE f[k - 1] * Rate(k)
        BY <4>1, <2>2 DEF RatesUpTo
      <4> QED BY <3>2, <4>1, <4>2
    <3> QED BY <3>1, <3>2
  <2>8. g \in RatesUpTo(n)
    <3> HIDE DEF g
    <3> QED BY <2>6, <2>7 DEF RatesUpTo
  <2> QED BY <2>8
<1> QED BY <1>3, <1>4

\* and they agree.
LEMMA RatesUpToAgree ==
    ASSUME NEW n \in Nat, NEW m \in Nat, NEW f \in RatesUpTo(n), NEW g \in RatesUpTo(m)
    PROVE  \A k \in Nat : k <= n /\ k <= m => f[k] = g[k]
<1> DEFINE Bad == {k \in Nat : k <= n /\ k <= m /\ f[k] # g[k]}
<1>1. SUFFICES ASSUME Bad # {} PROVE FALSE
  OBVIOUS
<1>2. PICK k \in Bad : \A j \in Bad : k <= j
  <2>1. Bad \subseteq Nat
    OBVIOUS
  <2> HIDE DEF Bad
  <2> QED BY <1>1, <2>1, FirstExists
<1>3. k \in 0..n /\ k \in 0..m
  OBVIOUS
<1>4. /\ f[k] = IF k = 0 THEN 1 ELSE f[k - 1] * Rate(k)
      /\ g[k] = IF k = 0 THEN 1 ELSE g[k - 1] * Rate(k)
  BY <1>3 DEF RatesUpTo
<1>5. k # 0 => k - 1 \in Nat /\ k - 1 <= n /\ k - 1 <= m /\ k - 1 \notin Bad
  BY <1>2
<1>6. k # 0 => f[k - 1] = g[k - 1]
  BY <1>5
<1> QED BY <1>4, <1>6

\* The rate of the first cluster is 1, and each one is the rate of the cluster
\* before times a rate.
LEMMA ClusterRateStep ==
    ClusterRate[0] = 1 /\ \A k \in Nat \ {0} : ClusterRate[k] = ClusterRate[k - 1] * Rate(k)
<1> DEFINE upTo(n) == CHOOSE f \in RatesUpTo(n) : TRUE
           g == [n \in Nat |-> upTo(n)[n]]
<1>1. \A n \in Nat : upTo(n) \in RatesUpTo(n)
  BY RatesUpToExist
<1> HIDE DEF upTo
<1>2. ASSUME NEW k \in Nat PROVE g[k] = IF k = 0 THEN 1 ELSE g[k - 1] * Rate(k)
  <2>1. upTo(k)[k] = IF k = 0 THEN 1 ELSE upTo(k)[k - 1] * Rate(k)
    BY <1>1 DEF RatesUpTo
  <2>2. k # 0 => k - 1 \in Nat /\ k - 1 <= k /\ k - 1 <= k - 1
    OBVIOUS
  <2>3. k # 0 => upTo(k)[k - 1] = upTo(k - 1)[k - 1]
    BY <1>1, <2>2, RatesUpToAgree
  <2> QED BY <2>1, <2>2, <2>3
<1>3. g = [k \in Nat |-> IF k = 0 THEN 1 ELSE g[k - 1] * Rate(k)]
  BY <1>2
<1> HIDE DEF g
<1>4. ClusterRate = [k \in Nat |-> IF k = 0 THEN 1 ELSE ClusterRate[k - 1] * Rate(k)]
  BY <1>3, Zenon DEF ClusterRate
<1>5. \A k \in Nat : ClusterRate[k] = IF k = 0 THEN 1 ELSE ClusterRate[k - 1] * Rate(k)
  BY <1>4, Zenon
<1> QED BY <1>5

\* A product of positive numbers is not below its factors.
LEMMA ProductBounds ==
    ASSUME NEW a \in Nat \ {0}, NEW b \in Nat \ {0}
    PROVE  a * b \in Nat \ {0} /\ a <= a * b
OBVIOUS

\* They are positive.
LEMMA ClusterRateType == \A k \in Nat : ClusterRate[k] \in Nat \ {0}
<1> DEFINE Bad == {k \in Nat : ClusterRate[k] \notin Nat \ {0}}
<1>1. SUFFICES ASSUME Bad # {} PROVE FALSE
  OBVIOUS
<1>2. PICK k \in Bad : \A j \in Bad : k <= j
  <2>1. Bad \subseteq Nat
    OBVIOUS
  <2> HIDE DEF Bad
  <2> QED BY <1>1, <2>1, FirstExists
<1>3. k # 0
  BY ClusterRateStep
<1>4. k - 1 \in Nat /\ k - 1 \notin Bad
  BY <1>2, <1>3
<1>5. ClusterRate[k - 1] \in Nat \ {0} /\ Rate(k) \in Nat \ {0}
  BY <1>3, <1>4, RateType
<1>6. ClusterRate[k] = ClusterRate[k - 1] * Rate(k)
  BY <1>3, ClusterRateStep
<1> QED BY <1>5, <1>6, ProductBounds

\* A later cluster does not make shorter steps.
LEMMA ClusterRateGrows == \A j, k \in Nat : j <= k => ClusterRate[j] <= ClusterRate[k]
<1>1. SUFFICES ASSUME NEW j \in Nat, NEW l \in Nat, j <= l, ~(ClusterRate[j] <= ClusterRate[l])
               PROVE  FALSE
  OBVIOUS
<1> DEFINE Bad == {k \in Nat : j <= k /\ ~(ClusterRate[j] <= ClusterRate[k])}
<1>2. Bad \subseteq Nat /\ Bad # {}
  BY <1>1
<1>3. PICK k \in Bad : \A i \in Bad : k <= i
  <2> HIDE DEF Bad
  <2> QED BY <1>2, FirstExists
<1>4. ClusterRate[j] \in Nat /\ ClusterRate[k] \in Nat
  BY ClusterRateType
<1>5. k # j
  BY <1>4
<1>6. k # 0 /\ k - 1 \in Nat /\ j <= k - 1 /\ k - 1 \notin Bad
  BY <1>3, <1>5
<1>7. ClusterRate[j] <= ClusterRate[k - 1]
  BY <1>6
<1>8. ClusterRate[k - 1] \in Nat \ {0} /\ Rate(k) \in Nat \ {0}
  BY <1>6, ClusterRateType, RateType
<1>9. ClusterRate[k - 1] <= ClusterRate[k]
  BY <1>6, <1>8, ClusterRateStep, ProductBounds
<1> QED BY <1>4, <1>7, <1>8, <1>9

(***************************************************************************)
(* Admissible clusterings.                                                 *)
(***************************************************************************)

\* What a face allows.
LEMMA FaceFacts ==
    ASSUME NEW f \in Faces
    PROVE  /\ f[1] \in Cells /\ f[2] \in Cells
           /\ (IF f \in DynamicRupture THEN 0 ELSE 1) \in 0..1
BY FacesAssumption

\* "Merging clusters does not invalidate invariance generated by
\* enforceMaximumDifference()" (LtsWeights.cpp:255).
THEOREM MergingKeepsAdmissible ==
    ASSUME NEW ids \in Ids, Admissible(ids), NEW limit \in Nat
    PROVE  Admissible(EnforceMaxClusterId(ids, limit))
<1>1. ASSUME NEW f \in Faces
      PROVE  EnforceMaxClusterId(ids, limit)[f[1]]
               <= EnforceMaxClusterId(ids, limit)[f[2]] + (IF f \in DynamicRupture THEN 0 ELSE 1)
  <2>1. f[1] \in Cells /\ f[2] \in Cells
    BY FaceFacts
  <2>2. ids[f[1]] \in Nat /\ ids[f[2]] \in Nat
    BY <2>1, FacesAssumption DEF Ids
  <2>3. ids[f[1]] <= ids[f[2]] + (IF f \in DynamicRupture THEN 0 ELSE 1)
    BY DEF Admissible
  <2> QED BY <2>1, <2>2, <2>3 DEF EnforceMaxClusterId, Minimum
<1> QED BY <1>1 DEF Admissible

\* The comment at LtsWeights.cpp:411-417: ids that are the smaller of two
\* admissible clusterings are admissible, so that a cached clustering may be
\* combined with another one.
THEOREM SmallerOfTwoIsAdmissible ==
    ASSUME NEW a \in Ids, NEW b \in Ids, Admissible(a), Admissible(b)
    PROVE  Admissible([c \in Cells |-> Minimum(a[c], b[c])])
<1>1. ASSUME NEW f \in Faces
      PROVE  [c \in Cells |-> Minimum(a[c], b[c])][f[1]]
               <= [c \in Cells |-> Minimum(a[c], b[c])][f[2]] + (IF f \in DynamicRupture THEN 0 ELSE 1)
  <2>1. f[1] \in Cells /\ f[2] \in Cells
    BY FaceFacts
  <2>2. {a[f[1]], a[f[2]], b[f[1]], b[f[2]]} \subseteq Nat
    BY <2>1, FacesAssumption DEF Ids
  <2>3. /\ a[f[1]] <= a[f[2]] + (IF f \in DynamicRupture THEN 0 ELSE 1)
        /\ b[f[1]] <= b[f[2]] + (IF f \in DynamicRupture THEN 0 ELSE 1)
    BY DEF Admissible
  <2> QED BY <2>1, <2>2, <2>3 DEF Minimum
<1> QED BY <1>1 DEF Admissible

\* g is the greatest admissible clustering below ids.
IsGreatestBelow(g, ids) ==
    /\ g \in AdmissibleIds /\ Below(g, ids)
    /\ \A a \in AdmissibleIds : Below(a, ids) => Below(a, g)

\* There is only one,
LEMMA GreatestIsUnique ==
    ASSUME NEW ids, NEW g, NEW h, IsGreatestBelow(g, ids), IsGreatestBelow(h, ids)
    PROVE  g = h
<1>1. g \in Ids /\ h \in Ids /\ Below(g, h) /\ Below(h, g)
  BY DEF IsGreatestBelow, AdmissibleIds
<1>2. ASSUME NEW c \in Cells PROVE g[c] = h[c]
  <2>1. g[c] \in Nat /\ h[c] \in Nat
    BY <1>1, FacesAssumption DEF Ids
  <2>2. g[c] <= h[c] /\ h[c] <= g[c]
    BY <1>1 DEF Below
  <2> QED BY <2>1, <2>2
<1> QED BY <1>1, <1>2 DEF Ids

\* and GreatestBelow is it.
LEMMA GreatestBelowIsGreatest ==
    ASSUME NEW ids \in Ids
    PROVE  IsGreatestBelow(GreatestBelow(ids), ids)
<1> DEFINE below == {a \in AdmissibleIds : Below(a, ids)}
           values(c) == {a[c] : a \in below}
           g == GreatestBelow(ids)
<1>1. \A a \in below : a \in Ids /\ Admissible(a) /\ Below(a, ids)
  BY DEF AdmissibleIds
<1>2. [c \in Cells |-> 0] \in below
  <2> DEFINE zero == [c \in Cells |-> 0]
  <2>1. zero \in Ids
    BY FacesAssumption DEF Ids
  <2>2. \A f \in Faces : zero[f[1]] <= zero[f[2]] + (IF f \in DynamicRupture THEN 0 ELSE 1)
    BY FaceFacts
  <2>3. \A c \in Cells : zero[c] <= ids[c]
    BY FacesAssumption DEF Ids
  <2> HIDE DEF zero
  <2>4. zero \in AdmissibleIds
    BY <2>1, <2>2 DEF AdmissibleIds, Admissible
  <2>5. Below(zero, ids)
    BY <2>3 DEF Below
  <2>6. zero \in below
    BY <2>4, <2>5
  <2> QED BY <2>6 DEF zero
<1>3. ASSUME NEW c \in Cells
      PROVE  \E v \in 0..MaxClusterId : (\E a \in below : a[c] = v) /\ \A a \in below : a[c] <= v
  <2> HIDE DEF below
  <2>1. \A a \in below : a[c] \in 0..MaxClusterId
    BY <1>1 DEF Ids
  <2>2. values(c) \subseteq 0..MaxClusterId /\ values(c) # {}
    BY <1>2, <2>1
  <2>3. IsFiniteSet(values(c)) /\ values(c) \subseteq Nat
    <3>1. IsFiniteSet(0..MaxClusterId) /\ 0..MaxClusterId \subseteq Nat
      BY FacesAssumption, FS_Interval
    <3> HIDE DEF values
    <3> QED BY <2>2, <3>1, FS_Subset
  <2>4. PICK v \in values(c) : \A u \in values(c) : u <= v
    <3> HIDE DEF values
    <3> QED BY <2>2, <2>3, LargestExists
  <2>5. \A a \in below : a[c] <= v
    BY <2>4
  <2> QED BY <2>2, <2>4, <2>5
<1>4. ASSUME NEW c \in Cells
      PROVE  /\ g[c] \in 0..MaxClusterId
             /\ \E a \in below : a[c] = g[c]
             /\ \A a \in below : a[c] <= g[c]
  <2>1. g[c] = CHOOSE v \in 0..MaxClusterId :
            /\ \E a \in below : a[c] = v
            /\ \A a \in below : a[c] <= v
    BY DEF GreatestBelow
  <2> HIDE DEF below, g
  <2> QED BY <1>3, <2>1, Zenon
<1>5. g \in Ids
  <2>1. g = [c \in Cells |-> g[c]]
    BY DEF GreatestBelow
  <2> HIDE DEF g
  <2> QED BY <1>4, <2>1 DEF Ids
<1> HIDE DEF g, below
<1>6. Admissible(g)
  <2>1. ASSUME NEW f \in Faces
        PROVE  g[f[1]] <= g[f[2]] + (IF f \in DynamicRupture THEN 0 ELSE 1)
    <3>1. f[1] \in Cells /\ f[2] \in Cells /\ (IF f \in DynamicRupture THEN 0 ELSE 1) \in 0..1
      BY FaceFacts
    <3>2. PICK a \in below : a[f[1]] = g[f[1]]
      BY <1>4, <3>1
    <3>3. a[f[1]] <= a[f[2]] + (IF f \in DynamicRupture THEN 0 ELSE 1)
      BY <1>1 DEF Admissible
    <3>4. a[f[2]] <= g[f[2]] /\ a[f[2]] \in Nat /\ g[f[2]] \in Nat /\ g[f[1]] \in Nat
      BY <1>1, <1>4, <3>1, FacesAssumption DEF Ids
    <3> QED BY <3>1, <3>2, <3>3, <3>4
  <2> QED BY <2>1 DEF Admissible
<1>7. Below(g, ids)
  <2>1. ASSUME NEW c \in Cells PROVE g[c] <= ids[c]
    <3>1. PICK a \in below : a[c] = g[c]
      BY <1>4
    <3> QED BY <1>1, <3>1 DEF Below
  <2> QED BY <2>1 DEF Below
<1>8. ASSUME NEW a \in AdmissibleIds, Below(a, ids) PROVE Below(a, g)
  <2>1. a \in below
    BY <1>8 DEF below
  <2> QED BY <1>4, <2>1 DEF Below
<1>9. g \in AdmissibleIds
  BY <1>5, <1>6 DEF AdmissibleIds
<1> QED BY <1>7, <1>8, <1>9 DEF IsGreatestBelow, g

\* Below is transitive.
LEMMA BelowTransitive ==
    ASSUME NEW a \in Ids, NEW b \in Ids, NEW d \in Ids, Below(a, b), Below(b, d)
    PROVE  Below(a, d)
<1>1. ASSUME NEW c \in Cells PROVE a[c] <= d[c]
  <2>1. a[c] \in Nat /\ b[c] \in Nat /\ d[c] \in Nat
    BY FacesAssumption DEF Ids
  <2>2. a[c] <= b[c] /\ b[c] <= d[c]
    BY DEF Below
  <2> QED BY <2>1, <2>2
<1> QED BY <1>1 DEF Below

\* Ids that a cached clustering and new ids allow: their greatest admissible
\* clustering is that of the new ids, and when the new ids do not lower the cached
\* ones, those are it (the comment at LtsWeights.cpp:411-417).
LEMMA CombiningWithCache ==
    ASSUME NEW old \in Ids, NEW new \in Ids, Below(new, old)
    PROVE  LET begin == [c \in Cells |-> Minimum(GreatestBelow(old)[c], new[c])]
           IN  /\ begin \in Ids
               /\ GreatestBelow(begin) = GreatestBelow(new)
               /\ begin = GreatestBelow(old) => begin = GreatestBelow(new)
<1> DEFINE cached == GreatestBelow(old)
           begin == [c \in Cells |-> Minimum(cached[c], new[c])]
<1>1. IsGreatestBelow(cached, old) /\ IsGreatestBelow(GreatestBelow(new), new)
  BY GreatestBelowIsGreatest
<1> HIDE DEF cached
<1>2. cached \in Ids
  BY <1>1 DEF IsGreatestBelow, AdmissibleIds
<1>3. \A c \in Cells : cached[c] \in 0..MaxClusterId /\ new[c] \in 0..MaxClusterId
  BY <1>2 DEF Ids
<1>4. begin \in Ids
  BY <1>3 DEF Ids, Minimum
<1>5. \A a \in Ids : Below(a, cached) /\ Below(a, new) => Below(a, begin)
  BY <1>3 DEF Below, Minimum
<1>6. Below(begin, new) /\ Below(begin, cached)
  <2>1. ASSUME NEW c \in Cells PROVE begin[c] <= new[c] /\ begin[c] <= cached[c]
    <3>1. cached[c] \in Int /\ new[c] \in Int
      BY <1>3
    <3> QED BY <3>1 DEF Minimum
  <2> QED BY <2>1 DEF Below
<1> HIDE DEF begin
<1>7. ASSUME NEW a \in AdmissibleIds PROVE Below(a, begin) <=> Below(a, new)
  <2>1. a \in Ids
    BY DEF AdmissibleIds
  <2>2. Below(a, begin) => Below(a, new)
    BY <1>4, <1>6, <2>1, BelowTransitive
  <2>3. ASSUME Below(a, new) PROVE Below(a, begin)
    <3>1. Below(a, old)
      BY <2>1, <2>3, BelowTransitive
    <3>2. Below(a, cached)
      BY <1>1, <3>1 DEF IsGreatestBelow
    <3> QED BY <1>5, <2>1, <2>3, <3>2
  <2> QED BY <2>2, <2>3
<1>8. IsGreatestBelow(GreatestBelow(begin), begin)
  BY <1>4, GreatestBelowIsGreatest
<1>9. IsGreatestBelow(GreatestBelow(begin), new)
  BY <1>7, <1>8 DEF IsGreatestBelow
<1>10. GreatestBelow(begin) = GreatestBelow(new)
  BY <1>1, <1>9, GreatestIsUnique
<1>11. ASSUME begin = cached PROVE begin = GreatestBelow(new)
  <2>1. begin \in AdmissibleIds
    BY <1>1, <1>11 DEF IsGreatestBelow
  <2>2. IsGreatestBelow(begin, new)
    BY <1>6, <1>7, <2>1 DEF IsGreatestBelow
  <2> QED BY <1>1, <2>2, GreatestIsUnique
<1> QED BY <1>4, <1>10, <1>11 DEF begin, cached

(***************************************************************************)
(* The cluster of a time step.                                             *)
(***************************************************************************)

\* Wiggle factors the search may look at.
WiggleFactors == UNION {m..One : m \in MinWiggles}

\* The smallest time step is one of the time steps and below the others.
LEMMA LeastStepFacts ==
    ASSUME timestep \in [Cells -> TimeSteps]
    PROVE  /\ LeastStep \in TimeSteps /\ LeastStep \in Nat \ {0}
           /\ \A c \in Cells : LeastStep <= timestep[c]
<1> DEFINE steps == {timestep[c] : c \in Cells}
<1>1. steps \subseteq TimeSteps /\ steps # {} /\ steps \subseteq Nat /\ TimeSteps \subseteq Nat \ {0}
  BY CellsAssumption
<1>2. Min(steps) \in steps /\ \A y \in steps : Min(steps) <= y
  <2> HIDE DEF steps
  <2> QED BY <1>1, MinFacts
<1>3. \A c \in Cells : timestep[c] \in steps
  OBVIOUS
<1>4. LeastStep = Min(steps)
  BY DEF LeastStep
<1> HIDE DEF steps
<1> QED BY <1>1, <1>2, <1>3, <1>4

\* Where the loop of getCluster stops.
Stops(step, wiggle, k) ==
    wiggle * LeastStep * ClusterRate[k + 1] > One * step \/ Rate(k + 2) = 1

\* The loop stops, at the first cluster where it may.
LEMMA GetClusterFacts ==
    ASSUME timestep \in [Cells -> TimeSteps], NEW step \in TimeSteps, LeastStep <= step,
           NEW wiggle \in WiggleFactors
    PROVE  /\ GetCluster(step, wiggle) \in 0..MaxClusterId
           /\ Stops(step, wiggle, GetCluster(step, wiggle))
           /\ \A j \in 1..GetCluster(step, wiggle) :
                wiggle * LeastStep * ClusterRate[j] <= One * step /\ Rate(j + 1) # 1
<1>1. PICK m \in MinWiggles : wiggle \in m..One
  BY DEF WiggleFactors
<1>2. LeastStep \in TimeSteps /\ LeastStep \in Nat /\ MaxClusterId \in Nat
  BY LeastStepFacts, FacesAssumption
<1>3. PICK l \in 0..MaxClusterId : Stops(step, wiggle, l)
  BY <1>1, <1>2, MaxClusterIdAssumption DEF Stops
<1> DEFINE Stop == {k \in 0..MaxClusterId : Stops(step, wiggle, k)}
<1>4. PICK k \in Stop : \A j \in Stop : k <= j
  <2>1. Stop \subseteq Nat /\ Stop # {}
    BY <1>2, <1>3
  <2> HIDE DEF Stop
  <2> QED BY <2>1, FirstExists
<1>5. ASSUME NEW j \in 1..k
      PROVE  wiggle * LeastStep * ClusterRate[j] <= One * step /\ Rate(j + 1) # 1
  <2>1. j - 1 \in 0..MaxClusterId /\ ~(k <= j - 1)
    BY <1>2
  <2>2. ~Stops(step, wiggle, j - 1)
    BY <1>4, <2>1
  <2>3. (j - 1) + 1 = j /\ (j - 1) + 2 = j + 1
    OBVIOUS
  <2>4. ~(wiggle * LeastStep * ClusterRate[j] > One * step) /\ Rate(j + 1) # 1
    BY <2>2, <2>3 DEF Stops
  <2>5. wiggle \in Int /\ LeastStep \in Int /\ ClusterRate[j] \in Int /\ One \in Int /\ step \in Int
    <3>1. ClusterRate[j] \in Nat
      BY ClusterRateType
    <3>2. wiggle \in Int /\ One \in Int /\ step \in Int
      BY <1>1, WiggleAssumption, CellsAssumption
    <3> QED BY <1>2, <3>1, <3>2
  <2>6. wiggle * LeastStep * ClusterRate[j] \in Int /\ One * step \in Int
    BY <2>5
  <2> QED BY <2>4, <2>6
<1> DEFINE Chosen(i) ==
      /\ \A j \in 1..i : wiggle * LeastStep * ClusterRate[j] <= One * step /\ Rate(j + 1) # 1
      /\ Stops(step, wiggle, i)
<1>6. k \in 0..MaxClusterId /\ Chosen(k)
  BY <1>5
<1>7. GetCluster(step, wiggle) = CHOOSE i \in 0..MaxClusterId : Chosen(i)
  BY DEF GetCluster, Stops
<1> HIDE DEF Chosen
<1>8. GetCluster(step, wiggle) \in 0..MaxClusterId /\ Chosen(GetCluster(step, wiggle))
  BY <1>6, <1>7, Zenon
<1> QED BY <1>8 DEF Chosen

\* A product grows with its factors.
LEMMA ProductGrows ==
    ASSUME NEW a \in Nat, NEW b \in Nat, a <= b, NEW c \in Nat
    PROVE  a * c \in Nat /\ b * c \in Nat /\ a * c <= b * c
OBVIOUS

\* Cells with longer time steps are in later clusters, and a larger wiggle factor
\* does not move a cell to a later one.
LEMMA GetClusterMonotonic ==
    ASSUME timestep \in [Cells -> TimeSteps],
           NEW s \in TimeSteps, NEW t \in TimeSteps, LeastStep <= s, s <= t,
           NEW v \in WiggleFactors, NEW w \in WiggleFactors, w <= v
    PROVE  GetCluster(s, v) <= GetCluster(t, w)
<1> DEFINE k == GetCluster(s, v)
           l == GetCluster(t, w)
<1>1. LeastStep \in Nat /\ s \in Nat /\ t \in Nat /\ v \in Nat /\ w \in Nat /\ One \in Nat
  <2>1. s \in Nat /\ t \in Nat /\ One \in Nat
    BY WiggleAssumption, CellsAssumption
  <2>2. v \in Nat /\ w \in Nat
    BY WiggleAssumption DEF WiggleFactors
  <2> QED BY <2>1, <2>2, LeastStepFacts
<1>2. k \in Nat /\ l \in Nat /\ Stops(t, w, l)
  <2>1. LeastStep <= t
    BY <1>1
  <2> QED BY <2>1, GetClusterFacts
<1> HIDE DEF k, l
<1>3. SUFFICES ASSUME l + 1 \in 1..k PROVE FALSE
  <2>1. k <= l
    BY <1>2, <1>3
  <2> QED BY <2>1 DEF k, l
<1>4. v * LeastStep * ClusterRate[l + 1] <= One * s /\ Rate(l + 2) # 1
  <2>1. (l + 1) + 1 = l + 2
    BY <1>2
  <2> QED BY <1>3, <2>1, GetClusterFacts DEF k
<1>5. w * LeastStep * ClusterRate[l + 1] > One * t
  BY <1>2, <1>4 DEF Stops
<1>6. ClusterRate[l + 1] \in Nat
  BY <1>2, ClusterRateType
<1>7. w * LeastStep * ClusterRate[l + 1] <= v * LeastStep * ClusterRate[l + 1]
  <2>1. w * LeastStep \in Nat /\ v * LeastStep \in Nat /\ w * LeastStep <= v * LeastStep
    BY <1>1, ProductGrows
  <2> QED BY <1>6, <2>1, ProductGrows
<1>8. One * s <= One * t
  <2>1. s * One <= t * One
    BY <1>1, ProductGrows
  <2> QED BY <1>1, <2>1
<1> DEFINE a == w * LeastStep * ClusterRate[l + 1]
           b == v * LeastStep * ClusterRate[l + 1]
           d == One * s
           e == One * t
<1>9. a \in Int /\ b \in Int /\ d \in Int /\ e \in Int
  BY <1>1, <1>6
<1>10. a <= b /\ b <= d /\ d <= e /\ a > e
  BY <1>4, <1>5, <1>7, <1>8
<1> HIDE DEF a, b, d, e
<1> QED BY <1>9, <1>10

(***************************************************************************)
(* The search: its wiggle factors and its cache.                           *)
(***************************************************************************)

SettingsOK ==
    settings \in [enforce : BOOLEAN, autoMerge : BOOLEAN, bestBaseline : BOOLEAN,
                  minWiggle : MinWiggles, maxClusters : MaxNumbersOfClusters]

\* What the search is given and never changes.
Given == timestep \in [Cells -> TimeSteps] /\ SettingsOK

\* The wiggle factors the search computes clusterings for.
Tried == Grid \cup {One}

\* They are between the smallest wiggle factor and 1.
LEMMA TriedFacts ==
    ASSUME Given
    PROVE  /\ NumberOfSteps \in Nat \ {0}
           /\ \A i \in 0..(NumberOfSteps - 1) : Wiggle(i) \in Grid
           /\ Grid \subseteq Tried /\ One \in Tried
           /\ Tried \subseteq settings.minWiggle..One
           /\ Tried \subseteq WiggleFactors /\ Tried \subseteq 1..One
<1>1. /\ settings.minWiggle \in MinWiggles /\ settings.minWiggle \in 1..One
      /\ Stepsize \in Nat \ {0} /\ One \in Nat
  BY WiggleAssumption DEF Given, SettingsOK
<1>2. NumberOfSteps \in Nat \ {0}
  <2>1. One - settings.minWiggle + Stepsize - 1 \in Nat
    BY <1>1
  <2>2. \A a \in Nat : \A b \in Nat \ {0} : a \div b \in Nat
    OBVIOUS
  <2>3. (One - settings.minWiggle + Stepsize - 1) \div Stepsize \in Nat
    BY <1>1, <2>1, <2>2
  <2> QED BY <2>3 DEF NumberOfSteps
<1>3. ASSUME NEW i \in 0..(NumberOfSteps - 1) PROVE Wiggle(i) \in settings.minWiggle..One
  <2>1. i \in Nat /\ i * Stepsize \in Nat
    BY <1>1, <1>2
  <2> QED BY <1>1, <2>1 DEF Wiggle, Minimum
<1>4. Tried \subseteq settings.minWiggle..One
  BY <1>1, <1>3 DEF Tried, Grid
<1>5. settings.minWiggle..One \subseteq WiggleFactors /\ settings.minWiggle..One \subseteq 1..One
  BY <1>1 DEF WiggleFactors
<1> QED BY <1>2, <1>4, <1>5 DEF Grid, Tried

\* The ids computed without the cache, with the rule enforced.
Enforced(wiggle) == GreatestBelow(ComputeClusterIds(wiggle))

LEMMA ComputedIds ==
    ASSUME Given, NEW w \in Tried
    PROVE  ComputeClusterIds(w) \in Ids /\ Enforced(w) \in Ids /\ Fresh(w) \in Ids
<1>1. w \in WiggleFactors
  BY TriedFacts
<1>2. \A c \in Cells : timestep[c] \in TimeSteps /\ LeastStep <= timestep[c]
  BY LeastStepFacts DEF Given
<1>3. \A c \in Cells : GetCluster(timestep[c], w) \in 0..MaxClusterId
  BY <1>1, <1>2, GetClusterFacts DEF Given
<1>4. ComputeClusterIds(w) \in Ids
  BY <1>3 DEF ComputeClusterIds, Ids
<1>5. Enforced(w) \in Ids
  BY <1>4, GreatestBelowIsGreatest DEF Enforced, IsGreatestBelow, AdmissibleIds
<1> QED BY <1>4, <1>5 DEF Fresh, Enforced

\* A larger wiggle factor gives smaller ids.
LEMMA ComputedIdsDecrease ==
    ASSUME Given, NEW v \in Tried, NEW w \in Tried, v <= w
    PROVE  Below(ComputeClusterIds(w), ComputeClusterIds(v))
<1>1. v \in WiggleFactors /\ w \in WiggleFactors
  BY TriedFacts
<1>2. ASSUME NEW c \in Cells PROVE GetCluster(timestep[c], w) <= GetCluster(timestep[c], v)
  <2>1. timestep[c] \in TimeSteps /\ LeastStep <= timestep[c] /\ timestep[c] \in Nat
    BY LeastStepFacts, CellsAssumption DEF Given
  <2>2. timestep[c] <= timestep[c]
    BY <2>1
  <2> QED BY <1>1, <2>1, <2>2, GetClusterMonotonic DEF Given
<1> QED BY <1>2 DEF Below, ComputeClusterIds

\* Every cached clustering is the one that would be computed.
Exact(cache) ==
    DOMAIN cache \subseteq Tried /\ \A w \in DOMAIN cache : cache[w] = Fresh(w)

\* Then so is the next one, from the cache or with its help.
LEMMA NextClusteringIsExact ==
    ASSUME Given, NEW cache, Exact(cache), NEW w \in Tried
    PROVE  Clustering(cache, w) = Fresh(w)
<1> DEFINE new == ComputeClusterIds(w)
           lb == Nearest(cache, w)
           v == Max(lb)
           begin == IF lb = {} THEN new ELSE [c \in Cells |-> Minimum(cache[v][c], new[c])]
<1>1. new \in Ids /\ Fresh(w) = IF settings.enforce THEN GreatestBelow(new) ELSE new
  BY ComputedIds DEF Fresh
<1>2. Clustering(cache, w) =
        IF w \in DOMAIN cache THEN cache[w]
        ELSE IF settings.enforce /\ (lb = {} \/ begin # cache[v]) THEN GreatestBelow(begin) ELSE begin
  BY DEF Clustering
<1>3. CASE w \in DOMAIN cache
  BY <1>2, <1>3 DEF Exact
<1>4. CASE w \notin DOMAIN cache /\ lb = {}
  BY <1>1, <1>2, <1>4
<1>5. CASE w \notin DOMAIN cache /\ lb # {}
  <2>1. v \in lb
    <3>1. lb \subseteq DOMAIN cache /\ DOMAIN cache \subseteq 1..One
      BY TriedFacts DEF Nearest, Exact
    <3>2. IsFiniteSet(1..One)
      BY FS_Interval, WiggleAssumption
    <3> HIDE DEF lb
    <3>3. IsFiniteSet(lb) /\ lb \subseteq Nat
      <4>1. lb \in SUBSET (1..One) /\ lb \subseteq Nat
        BY <3>1
      <4> QED BY <3>2, <4>1, FS_Subset
    <3> QED BY <1>5, <3>3, MaxFacts
  <2> HIDE DEF v
  <2>2. v \in DOMAIN cache /\ v <= w /\ v \in Tried
    BY <2>1 DEF Nearest, Exact
  <2> DEFINE old == ComputeClusterIds(v)
  <2>3. old \in Ids /\ Below(new, old)
    BY <2>2, ComputedIds, ComputedIdsDecrease
  <2>4. cache[v] = IF settings.enforce THEN GreatestBelow(old) ELSE old
    BY <2>2 DEF Exact, Fresh
  <2> HIDE DEF lb, old, new
  <2>5. begin = [c \in Cells |-> Minimum(cache[v][c], new[c])]
    BY <1>5
  <2>6. CASE ~settings.enforce
    <3>1. ASSUME NEW c \in Cells PROVE Minimum(old[c], new[c]) = new[c]
      <4>1. old[c] \in Int /\ new[c] \in Int /\ new[c] <= old[c]
        BY <1>1, <2>3, FacesAssumption DEF Ids, Below
      <4> QED BY <4>1 DEF Minimum
    <3>2. begin = [c \in Cells |-> new[c]]
      BY <2>4, <2>5, <2>6, <3>1
    <3>3. begin = new
      BY <1>1, <3>2 DEF Ids
    <3> QED BY <1>1, <1>2, <1>5, <2>6, <3>3
  <2>7. CASE settings.enforce
    <3>1. begin = [c \in Cells |-> Minimum(GreatestBelow(old)[c], new[c])]
      BY <2>4, <2>5, <2>7
    <3> HIDE DEF begin
    <3>2. GreatestBelow(begin) = GreatestBelow(new)
      BY <1>1, <2>3, <3>1, CombiningWithCache
    <3>3. begin = GreatestBelow(old) => begin = GreatestBelow(new)
      BY <1>1, <2>3, <3>1, CombiningWithCache
    <3> QED BY <1>1, <1>2, <1>5, <2>4, <2>7, <3>2, <3>3
  <2> QED BY <2>6, <2>7
<1> QED BY <1>3, <1>4, <1>5

LEMMA CacheStaysExact ==
    ASSUME Given, NEW cache, Exact(cache), NEW w \in Tried
    PROVE  Exact(Cached(cache, w)) /\ Cached(cache, w)[w] = Fresh(w)
BY NextClusteringIsExact DEF Exact, Cached, Assign

(***************************************************************************)
(* Types and the cache are an invariant.                                   *)
(***************************************************************************)

\* Ids that are cut off at a largest id.
LEMMA EnforcedMaximum ==
    ASSUME NEW ids \in Ids, NEW m \in Nat
    PROVE  /\ EnforceMaxClusterId(ids, m) \in Ids
           /\ \A c \in Cells : EnforceMaxClusterId(ids, m)[c] <= ids[c]
           /\ \A c \in Cells : EnforceMaxClusterId(ids, m)[c] <= m
<1>1. ASSUME NEW c \in Cells
      PROVE  /\ Minimum(ids[c], m) \in 0..MaxClusterId
             /\ Minimum(ids[c], m) <= ids[c] /\ Minimum(ids[c], m) <= m
  <2>1. ids[c] \in Nat /\ ids[c] <= MaxClusterId /\ MaxClusterId \in Nat
    BY FacesAssumption DEF Ids
  <2> QED BY <2>1 DEF Minimum
<1> QED BY <1>1 DEF EnforceMaxClusterId, Ids

\* The largest id.
LEMMA LargestIdFacts ==
    ASSUME NEW ids \in Ids
    PROVE  /\ LargestId(ids) \in 0..MaxClusterId
           /\ \E c \in Cells : LargestId(ids) = ids[c]
           /\ \A c \in Cells : ids[c] <= LargestId(ids)
<1> DEFINE values == {ids[c] : c \in Cells}
<1>1. values \subseteq 0..MaxClusterId /\ values # {}
  BY CellsAssumption DEF Ids
<1>2. IsFiniteSet(0..MaxClusterId) /\ 0..MaxClusterId \subseteq Nat
  BY FacesAssumption, FS_Interval
<1>3. Max(values) \in values /\ \A y \in values : y <= Max(values)
  <2> HIDE DEF values
  <2>1. IsFiniteSet(values) /\ values \subseteq Nat
    BY <1>1, <1>2, FS_Subset
  <2> QED BY <1>1, <2>1, MaxFacts
<1>4. LargestId(ids) = Max(values) /\ \A c \in Cells : ids[c] \in values
  BY DEF LargestId
<1>5. PICK c \in Cells : Max(values) = ids[c]
  BY <1>3
<1> HIDE DEF values
<1> QED BY <1>1, <1>3, <1>4, <1>5

LEMMA LimitIsNatural ==
    ASSUME Given, NEW ids \in Ids, NEW w
    PROVE  LimitOf(ids, w) \in Nat /\ LimitOf(ids, w) <= settings.maxClusters - 1
<1>1. settings.maxClusters - 1 \in Nat
  <2>1. settings.maxClusters \in MaxNumbersOfClusters
    BY DEF Given, SettingsOK
  <2>2. settings.maxClusters \in Nat \ {0}
    BY <2>1, CellsAssumption
  <2> QED BY <2>2
<1>2. MaxClusterIdAfterAutoMerge(ids, Budget(baseline), w) \in Nat
  <2> DEFINE enough == {m \in 0..LargestId(ids) : \A k \in m..LargestId(ids) :
                  NotAbove(Cost(EnforceMaxClusterId(ids, k), w), Budget(baseline))}
  <2>1. LargestId(ids) \in Nat
    BY LargestIdFacts
  <2>2. enough \subseteq Nat
    BY <2>1
  <2>3. MaxClusterIdAfterAutoMerge(ids, Budget(baseline), w)
          = IF enough = {} THEN LargestId(ids) ELSE Min(enough)
    BY DEF MaxClusterIdAfterAutoMerge
  <2> HIDE DEF enough
  <2>4. enough # {} => Min(enough) \in Nat
    BY <2>2, MinFacts
  <2> QED BY <2>1, <2>3, <2>4
<1> QED BY <1>1, <1>2 DEF LimitOf, Minimum

\* Types, and the clusterings in the cache.
SearchInv ==
    /\ Given
    /\ pc \in {"computeWeights", "search", "finish", "done", "aborted"}
    /\ merge \in BOOLEAN
    /\ ith \in 0..NumberOfSteps
    /\ Exact(clusteringCache)
    /\ clusterIds \in Ids
    /\ wiggleFactor \in Tried /\ maxClusterId \in Nat
    /\ DOMAIN bestWiggle = DOMAIN lowestCost /\ DOMAIN lowestCost \subseteq 0..MaxClusterId
    /\ \A m \in DOMAIN bestWiggle : bestWiggle[m] \in Grid

\* At the end the ids are those of the wiggle factor found.
EndInv ==
    pc = "done" =>
        /\ clusterIds = EnforceMaxClusterId(Enforced(wiggleFactor), maxClusterId)
        /\ ncon = NumberOfConstraints

\* What depends only on what the search is given stays.
LEMMA GivenStays ==
    ASSUME [WiggleNext]_wiggleVars
    PROVE  timestep' = timestep /\ settings' = settings
BY DEF WiggleNext, ComputeWeights, ComputeBaseline, Evaluate, SearchEnds, Finish, Over, wiggleVars

LEMMA DerivedStays ==
    ASSUME timestep' = timestep, settings' = settings
    PROVE  /\ Given' <=> Given
           /\ NumberOfSteps' = NumberOfSteps /\ Grid' = Grid /\ Tried' = Tried
           /\ \A w : Fresh(w)' = Fresh(w) /\ Enforced(w)' = Enforced(w)
           /\ \A cache : Exact(cache)' <=> Exact(cache)
<1>1. Given' <=> Given
  BY DEF Given, SettingsOK
<1>2. NumberOfSteps' = NumberOfSteps
  BY DEF NumberOfSteps
<1>3. Grid' = Grid
  BY <1>2 DEF Grid, Wiggle
<1>4. Tried' = Tried
  BY <1>3 DEF Tried
<1>5. LeastStep' = LeastStep
  BY DEF LeastStep
<1>6. ASSUME NEW w PROVE ComputeClusterIds(w)' = ComputeClusterIds(w)
  BY <1>5 DEF ComputeClusterIds, GetCluster
<1>7. ASSUME NEW w PROVE Fresh(w)' = Fresh(w) /\ Enforced(w)' = Enforced(w)
  BY <1>6 DEF Fresh, Enforced
<1>8. ASSUME NEW cache PROVE Exact(cache)' <=> Exact(cache)
  BY <1>4, <1>7 DEF Exact
<1> QED BY <1>1, <1>2, <1>3, <1>4, <1>7, <1>8

\* They hold initially,
LEMMA SearchInit == WiggleInit => SearchInv /\ EndInv
<1> SUFFICES ASSUME WiggleInit PROVE SearchInv /\ EndInv
  OBVIOUS
<1>1. Given
  BY DEF WiggleInit, Given, SettingsOK
<1>2. 0 \in 0..NumberOfSteps /\ One \in Tried
  BY <1>1, TriedFacts
<1>3. clusterIds \in Ids
  BY FacesAssumption DEF WiggleInit, Ids
<1>4. Exact(clusteringCache) /\ DOMAIN bestWiggle = DOMAIN lowestCost /\ DOMAIN lowestCost = {}
  BY DEF WiggleInit, Exact
<1>5. maxClusterId \in Nat
  <2>1. settings.maxClusters \in MaxNumbersOfClusters
    BY <1>1 DEF Given, SettingsOK
  <2>2. settings.maxClusters \in Nat \ {0}
    BY <2>1, CellsAssumption
  <2> QED BY <2>2 DEF WiggleInit
<1> QED BY <1>1, <1>2, <1>3, <1>4, <1>5 DEF WiggleInit, SearchInv, EndInv

\* and after every step.
LEMMA EvaluateStep ==
    ASSUME SearchInv, Evaluate
    PROVE  SearchInv' /\ EndInv'
<1> DEFINE w == Wiggle(ith)
           ids == Clustering(clusteringCache, w)
           merged == EnforceMaxClusterId(ids, LimitOf(ids, w))
           m == LargestId(merged)
<1>1. Given /\ Given' /\ NumberOfSteps' = NumberOfSteps /\ Grid' = Grid /\ Tried' = Tried
  BY DerivedStays DEF SearchInv, Evaluate
<1>2. w \in Grid /\ w \in Tried /\ ith' \in 0..NumberOfSteps
  <2>1. ith \in 0..(NumberOfSteps - 1) /\ ith' = ith + 1
    BY <1>1, TriedFacts DEF Evaluate, SearchInv
  <2> QED BY <1>1, <2>1, TriedFacts
<1>3. /\ clusteringCache' = Cached(clusteringCache, w) /\ clusterIds' = merged
      /\ IF m \notin DOMAIN lowestCost \/ NotAbove(Cost(merged, w), lowestCost[m])
         THEN /\ lowestCost' = Assign(lowestCost, m, Cost(merged, w))
              /\ bestWiggle' = Assign(bestWiggle, m, w)
         ELSE UNCHANGED <<lowestCost, bestWiggle>>
  BY DEF Evaluate
<1> HIDE DEF w
<1>4. ids \in Ids
  BY <1>1, <1>2, NextClusteringIsExact, ComputedIds DEF SearchInv
<1> HIDE DEF ids
<1>5. merged \in Ids
  BY <1>1, <1>4, LimitIsNatural, EnforcedMaximum
<1> HIDE DEF merged
<1>6. m \in 0..MaxClusterId
  BY <1>5, LargestIdFacts
<1> HIDE DEF m
<1>7. /\ DOMAIN bestWiggle' = DOMAIN lowestCost' /\ DOMAIN lowestCost' \subseteq 0..MaxClusterId
      /\ \A k \in DOMAIN bestWiggle' : bestWiggle'[k] \in Grid
  BY <1>2, <1>3, <1>6 DEF SearchInv, Assign
<1>8. Exact(clusteringCache)'
  <2>1. Exact(Cached(clusteringCache, w))
    BY <1>1, <1>2, CacheStaysExact DEF SearchInv
  <2>2. \A v : Fresh(v)' = Fresh(v)
    BY DerivedStays DEF Evaluate
  <2> QED BY <1>1, <1>3, <2>1, <2>2 DEF Exact
<1> QED BY <1>1, <1>2, <1>3, <1>5, <1>7, <1>8 DEF SearchInv, EndInv, Evaluate

LEMMA SearchEndsStep ==
    ASSUME SearchInv, SearchEnds
    PROVE  SearchInv' /\ EndInv'
<1> DEFINE best == Min(Eligible)
<1>1. Given' /\ NumberOfSteps' = NumberOfSteps /\ Grid' = Grid /\ Tried' = Tried
  BY DerivedStays DEF SearchInv, SearchEnds
<1>2. Exact(clusteringCache)'
  BY DerivedStays DEF SearchInv, SearchEnds, Exact
<1>3. 0 \in 0..NumberOfSteps
  BY TriedFacts DEF SearchInv
<1>4. Eligible # {} => best \in DOMAIN lowestCost /\ best \in Nat
  <2>1. Eligible \subseteq DOMAIN lowestCost /\ DOMAIN lowestCost \subseteq Nat
    BY FacesAssumption DEF Eligible, SearchInv
  <2>2. Eligible # {} => Min(Eligible) \in Eligible
    BY <2>1, MinFacts
  <2> QED BY <2>1, <2>2
<1>5. Eligible # {} => bestWiggle[best] \in Tried
  BY <1>4, TriedFacts DEF SearchInv
<1>6. /\ pc' \in {"search", "finish", "aborted"} /\ merge' \in BOOLEAN
      /\ wiggleFactor' \in Tried /\ maxClusterId' \in Nat
  <2> HIDE DEF best
  <2>1. CASE Eligible = {}
    BY <2>1 DEF SearchEnds, SearchInv
  <2>2. CASE Eligible # {} /\ TwoSearches /\ ~merge
    BY <2>2 DEF SearchEnds, SearchInv
  <2>3. CASE Eligible # {} /\ ~(TwoSearches /\ ~merge)
    <3>1. /\ pc' = "finish" /\ wiggleFactor' = bestWiggle[best]
          /\ maxClusterId' = IF settings.autoMerge THEN Minimum(maxClusterId, best) ELSE maxClusterId
          /\ merge' = merge
      BY <2>3 DEF SearchEnds, best
    <3> QED BY <1>4, <1>5, <2>3, <3>1 DEF SearchInv, Minimum
  <2> QED BY <2>1, <2>2, <2>3
<1> QED BY <1>1, <1>2, <1>3, <1>6 DEF SearchInv, EndInv, SearchEnds

LEMMA FinishStep ==
    ASSUME SearchInv, Finish
    PROVE  SearchInv' /\ EndInv'
<1> DEFINE ids == Clustering(clusteringCache, wiggleFactor)
           enforced == IF settings.enforce THEN ids ELSE GreatestBelow(ids)
<1>1. Given /\ Given' /\ NumberOfSteps' = NumberOfSteps /\ Grid' = Grid /\ Tried' = Tried
  BY DerivedStays DEF SearchInv, Finish
<1>2. ids = Fresh(wiggleFactor)
  BY NextClusteringIsExact DEF SearchInv
<1>3. enforced = Enforced(wiggleFactor)
  BY <1>2 DEF Fresh, Enforced
<1>4. clusterIds' = EnforceMaxClusterId(Enforced(wiggleFactor), maxClusterId)
  BY <1>3 DEF Finish
<1>5. clusterIds' \in Ids
  BY <1>1, <1>4, ComputedIds, EnforcedMaximum DEF SearchInv
<1>6. Exact(clusteringCache)'
  <2>1. Exact(Cached(clusteringCache, wiggleFactor))
    BY CacheStaysExact DEF SearchInv
  <2>2. \A v : Fresh(v)' = Fresh(v)
    BY DerivedStays DEF Finish
  <2> QED BY <1>1, <2>1, <2>2 DEF Exact, Finish
<1>7. Enforced(wiggleFactor)' = Enforced(wiggleFactor) /\ NumberOfConstraints' = NumberOfConstraints
  BY DEF Finish, Enforced, ComputeClusterIds, GetCluster, LeastStep, NumberOfConstraints
<1>8. EndInv'
  <2>1. wiggleFactor' = wiggleFactor /\ maxClusterId' = maxClusterId /\ ncon' = NumberOfConstraints
    BY DEF Finish
  <2>2. EnforceMaxClusterId(Enforced(wiggleFactor), maxClusterId)'
          = EnforceMaxClusterId(Enforced(wiggleFactor)', maxClusterId')
    BY DEF EnforceMaxClusterId
  <2> QED BY <1>4, <1>7, <2>1, <2>2 DEF EndInv
<1> QED BY <1>1, <1>5, <1>6, <1>8 DEF SearchInv, Finish

LEMMA SearchStep ==
    ASSUME SearchInv, EndInv, [WiggleNext]_wiggleVars
    PROVE  SearchInv' /\ EndInv'
<1>1. Given /\ Given' /\ NumberOfSteps' = NumberOfSteps /\ Grid' = Grid /\ Tried' = Tried
  BY GivenStays, DerivedStays DEF SearchInv
<1>2. CASE ComputeWeights
  <2>1. Exact(clusteringCache)'
    BY <1>2, GivenStays, DerivedStays DEF ComputeWeights, SearchInv, Exact
  <2> QED BY <1>1, <1>2, <2>1 DEF ComputeWeights, SearchInv, EndInv
<1>3. CASE ComputeBaseline
  <2>1. One \in Tried
    BY <1>1, TriedFacts
  <2>2. Exact(Cached(clusteringCache, One)) /\ Cached(clusteringCache, One)[One] = Fresh(One)
    BY <2>1, CacheStaysExact DEF SearchInv
  <2>3. \A v : Fresh(v)' = Fresh(v)
    BY <1>3, DerivedStays DEF ComputeBaseline
  <2>4. Exact(clusteringCache)'
    BY <1>1, <1>3, <2>2, <2>3 DEF Exact, ComputeBaseline
  <2>5. clusterIds' \in Ids
    BY <1>1, <1>3, <2>1, <2>2, ComputedIds DEF ComputeBaseline
  <2> QED BY <1>1, <1>3, <2>4, <2>5 DEF ComputeBaseline, SearchInv, EndInv
<1>4. CASE Evaluate
  BY <1>4, EvaluateStep
<1>5. CASE SearchEnds
  BY <1>5, SearchEndsStep
<1>6. CASE Finish
  BY <1>6, FinishStep
<1>7. CASE UNCHANGED wiggleVars
  <2>1. Exact(clusteringCache)'
    BY <1>7, GivenStays, DerivedStays DEF wiggleVars, SearchInv, Exact
  <2>2. SearchInv'
    BY <1>1, <1>7, <2>1 DEF wiggleVars, SearchInv
  <2>3. Enforced(wiggleFactor)' = Enforced(wiggleFactor) /\ NumberOfConstraints' = NumberOfConstraints
    BY <1>7 DEF wiggleVars, Enforced, ComputeClusterIds, GetCluster, LeastStep, NumberOfConstraints
  <2>4. EndInv'
    <3>1. EnforceMaxClusterId(Enforced(wiggleFactor), maxClusterId)'
            = EnforceMaxClusterId(Enforced(wiggleFactor)', maxClusterId')
      BY DEF EnforceMaxClusterId
    <3> QED BY <1>7, <2>3, <3>1 DEF EndInv, wiggleVars
  <2> QED BY <2>2, <2>4
<1> QED BY <1>2, <1>3, <1>4, <1>5, <1>6, <1>7 DEF WiggleNext, Over

LEMMA SearchInvHolds == WiggleSpec => [](SearchInv /\ EndInv)
BY SearchInit, SearchStep, PTL DEF WiggleSpec

\* Every clustering that was made with the help of the cache, or not enforced
\* because it lowered nothing, is the one that would have been computed without
\* the cache (LtsWeights.cpp:406-447), for any mesh and any grid.
THEOREM CachedClusteringsAreExact == WiggleSpec => []CacheIsExact
<1>1. ASSUME SearchInv PROVE CacheIsExact
  <2>1. Tried = {Wiggle(i) : i \in 0..(NumberOfSteps - 1)} \cup {One}
    BY DEF Tried, Grid
  <2>2. Given /\ wiggleFactor \in settings.minWiggle..One
    BY <1>1, TriedFacts DEF SearchInv
  <2>3. \A w \in DOMAIN clusteringCache : clusteringCache[w] = Fresh(w) /\ clusteringCache[w] \in Ids
    BY <1>1, <2>2, ComputedIds DEF SearchInv, Exact
  <2> QED BY <1>1, <2>1, <2>2, <2>3 DEF CacheIsExact, WiggleTypeOK, SearchInv, Exact
<1> QED BY <1>1, SearchInvHolds, PTL

\* What computeWeights returns is admissible although clusters were merged after
\* the rule had been enforced, and no cell makes longer steps than it may
\* (LtsWeights.cpp:173-189).
THEOREM FinalClusteringIsValid == WiggleSpec => []ClusteringIsValid
<1>1. ASSUME SearchInv, EndInv, pc = "done"
      PROVE  /\ Admissible(clusterIds)
             /\ \A c \in Cells : wiggleFactor * LeastStep * ClusterRate[clusterIds[c]] <= One * timestep[c]
  <2> DEFINE computed == ComputeClusterIds(wiggleFactor)
             enforced == Enforced(wiggleFactor)
  <2>1. clusterIds = EnforceMaxClusterId(enforced, maxClusterId) /\ maxClusterId \in Nat
    BY <1>1 DEF EndInv, SearchInv
  <2>2. Given /\ wiggleFactor \in Tried /\ wiggleFactor \in WiggleFactors /\ wiggleFactor \in 1..One
    BY <1>1, TriedFacts DEF SearchInv
  <2>3. computed \in Ids /\ IsGreatestBelow(enforced, computed)
    BY <2>2, ComputedIds, GreatestBelowIsGreatest DEF Enforced
  <2>4. enforced \in Ids /\ Admissible(enforced) /\ Below(enforced, computed)
    BY <2>3 DEF IsGreatestBelow, AdmissibleIds
  <2>5. Admissible(clusterIds)
    <3> HIDE DEF enforced
    <3> QED BY <2>1, <2>4, MergingKeepsAdmissible
  <2>6. ASSUME NEW c \in Cells
        PROVE  wiggleFactor * LeastStep * ClusterRate[clusterIds[c]] <= One * timestep[c]
    <3> DEFINE k == GetCluster(timestep[c], wiggleFactor)
               id == clusterIds[c]
    <3>1. timestep[c] \in TimeSteps /\ LeastStep <= timestep[c] /\ LeastStep \in Nat /\ timestep[c] \in Nat
      BY <2>2, LeastStepFacts, CellsAssumption DEF Given
    <3>2. k \in Nat /\ \A j \in 1..k : wiggleFactor * LeastStep * ClusterRate[j] <= One * timestep[c]
      BY <2>2, <3>1, GetClusterFacts DEF Given
    <3>3. id \in Nat /\ id <= k
      <4>1. enforced[c] \in Nat /\ computed[c] = k /\ enforced[c] <= computed[c]
        BY <2>4, FacesAssumption DEF Ids, Below, ComputeClusterIds
      <4> HIDE DEF enforced, computed, k
      <4>2. clusterIds[c] <= enforced[c] /\ clusterIds[c] \in Nat
        BY <2>1, <2>4, EnforcedMaximum, FacesAssumption DEF Ids
      <4> QED BY <3>2, <4>1, <4>2
    <3>4. CASE id # 0
      <4>1. id \in 1..k
        BY <3>2, <3>3, <3>4
      <4> QED BY <3>2, <4>1
    <3>5. CASE id = 0
      <4>1. ClusterRate[id] = 1
        BY <3>5, ClusterRateStep
      <4>2. wiggleFactor \in Nat /\ One \in Nat /\ wiggleFactor <= One
        BY <2>2, WiggleAssumption
      <4>3. wiggleFactor * LeastStep <= One * LeastStep
        BY <3>1, <4>2, ProductGrows
      <4>4. LeastStep * One <= timestep[c] * One
        BY <3>1, <4>2, ProductGrows
      <4>5. wiggleFactor * LeastStep \in Nat /\ One * LeastStep \in Nat /\ One * timestep[c] \in Nat
        BY <3>1, <4>2
      <4> HIDE DEF id
      <4>6. wiggleFactor * LeastStep * ClusterRate[id] = wiggleFactor * LeastStep
        BY <4>1, <4>5
      <4>7. LeastStep * One = One * LeastStep /\ timestep[c] * One = One * timestep[c]
        BY <3>1, <4>2
      <4>8. wiggleFactor * LeastStep * ClusterRate[id] <= One * timestep[c]
        BY <4>3, <4>4, <4>5, <4>6, <4>7
      <4> QED BY <4>8 DEF id
    <3> QED BY <3>4, <3>5
  <2> QED BY <2>5, <2>6
<1>2. ASSUME SearchInv, EndInv PROVE ClusteringIsValid
  BY <1>1, <1>2 DEF ClusteringIsValid
<1> QED BY <1>2, SearchInvHolds, PTL

\* The cluster id of every cell has its constraint, whatever wiggle factor the
\* number of constraints was computed with during the search
\* (WeightsModels.cpp:62-66).
THEOREM ConstraintsCoverIds == WiggleSpec => []EveryIdHasAConstraint
<1>1. ASSUME SearchInv, EndInv, pc = "done" PROVE LargestId(clusterIds) < ncon
  <2> DEFINE steps == {timestep[c] : c \in Cells}
             longest == Max(steps)
             k == GetCluster(longest, wiggleFactor)
             enforced == Enforced(wiggleFactor)
             computed == ComputeClusterIds(wiggleFactor)
  <2>1. Given /\ wiggleFactor \in Tried /\ wiggleFactor \in WiggleFactors /\ wiggleFactor <= wiggleFactor
    BY <1>1, TriedFacts DEF SearchInv
  <2>2. longest \in steps /\ \A t \in steps : t <= longest
    <3>1. steps # {} /\ steps \subseteq Nat
      BY <2>1, CellsAssumption DEF Given
    <3>2. IsFiniteSet(steps)
      <4>1. [c \in Cells |-> timestep[c]] \in Surjection(Cells, steps)
        BY DEF Surjection
      <4> HIDE DEF steps
      <4> QED BY <4>1, CellsAssumption, FS_Surjection
    <3> HIDE DEF steps
    <3> QED BY <3>1, <3>2, MaxFacts
  <2>3. \A c \in Cells : timestep[c] \in TimeSteps /\ timestep[c] \in steps /\ LeastStep <= timestep[c]
    BY <2>1, LeastStepFacts DEF Given
  <2>4. longest \in TimeSteps /\ LeastStep <= longest
    <3>1. PICK c \in Cells : longest = timestep[c]
      BY <2>2
    <3> HIDE DEF longest
    <3> QED BY <2>3, <3>1
  <2>5. ncon = k + 1
    BY <1>1 DEF EndInv, NumberOfConstraints
  <2> HIDE DEF steps, longest
  <2>6. k \in Nat
    BY <2>1, <2>4, GetClusterFacts DEF Given
  <2>7. \A c \in Cells : computed[c] <= k
    <3>1. ASSUME NEW c \in Cells PROVE GetCluster(timestep[c], wiggleFactor) <= k
      <4>1. timestep[c] <= longest
        BY <2>2, <2>3
      <4> QED BY <2>1, <2>3, <2>4, <4>1, GetClusterMonotonic DEF Given
    <3> QED BY <3>1 DEF ComputeClusterIds
  <2>8. computed \in Ids /\ enforced \in Ids /\ Below(enforced, computed)
    <3>1. computed \in Ids /\ enforced \in Ids
      BY <2>1, ComputedIds
    <3>2. IsGreatestBelow(enforced, computed)
      BY <3>1, GreatestBelowIsGreatest DEF Enforced
    <3> QED BY <3>1, <3>2 DEF IsGreatestBelow
  <2>9. clusterIds = EnforceMaxClusterId(enforced, maxClusterId) /\ maxClusterId \in Nat
    BY <1>1 DEF EndInv, SearchInv
  <2> HIDE DEF enforced, computed, k
  <2>10. PICK c \in Cells : LargestId(clusterIds) = clusterIds[c]
    BY <2>8, <2>9, EnforcedMaximum, LargestIdFacts
  <2>11. clusterIds[c] <= enforced[c] /\ enforced[c] <= computed[c] /\ computed[c] <= k
    BY <2>7, <2>8, <2>9, EnforcedMaximum DEF Below
  <2>12. clusterIds[c] \in Nat /\ enforced[c] \in Nat /\ computed[c] \in Nat
    BY <2>8, <2>9, EnforcedMaximum, FacesAssumption DEF Ids
  <2> QED BY <2>5, <2>6, <2>10, <2>11, <2>12
<1>2. ASSUME SearchInv, EndInv PROVE EveryIdHasAConstraint
  BY <1>1, <1>2 DEF EveryIdHasAConstraint
<1> QED BY <1>2, SearchInvHolds, PTL

(***************************************************************************)
(* The cost of a clustering.                                               *)
(***************************************************************************)

\* The function the sum over a set of cells is computed by.
IsSum(F, h) ==
    h = [s \in SUBSET Cells |->
            IF s = {} THEN 0
            ELSE F[CHOOSE x \in s : TRUE] + h[s \ {CHOOSE x \in s : TRUE}]]

SmallSets(n) == {s \in SUBSET Cells : Cardinality(s) <= n}

\* The function restricted to sets of at most n cells.
SumsOfSmallSets(F, n) ==
    {h \in [SmallSets(n) -> Nat] :
        \A s \in SmallSets(n) :
            h[s] = IF s = {} THEN 0
                   ELSE F[CHOOSE x \in s : TRUE] + h[s \ {CHOOSE x \in s : TRUE}]}

\* A set of cells without the element that is taken first.
LEMMA SetFacts ==
    /\ \A s \in SUBSET Cells : IsFiniteSet(s) /\ Cardinality(s) \in Nat
    /\ \A s \in SUBSET Cells : Cardinality(s) = 0 <=> s = {}
    /\ \A s \in SUBSET Cells : s # {} =>
          /\ (CHOOSE x \in s : TRUE) \in Cells
          /\ s \ {CHOOSE x \in s : TRUE} \in SUBSET Cells
          /\ Cardinality(s \ {CHOOSE x \in s : TRUE}) = Cardinality(s) - 1
<1>1. \A s \in SUBSET Cells : IsFiniteSet(s) /\ Cardinality(s) \in Nat
  BY CellsAssumption, FS_Subset, FS_CardinalityType
<1>2. \A s \in SUBSET Cells : Cardinality(s) = 0 <=> s = {}
  BY <1>1, FS_EmptySet
<1>3. ASSUME NEW s \in SUBSET Cells, s # {}
      PROVE  /\ (CHOOSE x \in s : TRUE) \in Cells
             /\ s \ {CHOOSE x \in s : TRUE} \in SUBSET Cells
             /\ Cardinality(s \ {CHOOSE x \in s : TRUE}) = Cardinality(s) - 1
  <2> DEFINE e == CHOOSE x \in s : TRUE
  <2>1. e \in s
    BY <1>3
  <2> HIDE DEF e
  <2>2. Cardinality(s \ {e}) = Cardinality(s) - 1
    BY <1>1, <2>1, FS_RemoveElement
  <2>3. e \in Cells /\ s \ {e} \in SUBSET Cells
    BY <2>1
  <2> QED BY <2>2, <2>3 DEF e
<1> QED BY <1>1, <1>2, <1>3

LEMMA SumsOfSmallSetsExist ==
    ASSUME NEW F \in [Cells -> Nat]
    PROVE  \A n \in Nat : SumsOfSmallSets(F, n) # {}
<1> DEFINE Bad == {n \in Nat : SumsOfSmallSets(F, n) = {}}
           e(s) == CHOOSE x \in s : TRUE
<1>1. SUFFICES ASSUME Bad # {} PROVE FALSE
  OBVIOUS
<1>2. PICK n \in Bad : \A m \in Bad : n <= m
  <2>1. Bad \subseteq Nat
    OBVIOUS
  <2> HIDE DEF Bad
  <2> QED BY <1>1, <2>1, FirstExists
<1>3. /\ \A s \in SUBSET Cells : Cardinality(s) \in Nat /\ (Cardinality(s) = 0 <=> s = {})
      /\ \A s \in SUBSET Cells : s # {} =>
            /\ e(s) \in Cells /\ s \ {e(s)} \in SUBSET Cells
            /\ Cardinality(s \ {e(s)}) = Cardinality(s) - 1
  BY SetFacts
<1> HIDE DEF e
<1>4. CASE n = 0
  <2> DEFINE h == [s \in SmallSets(0) |-> 0]
  <2>1. \A s \in SmallSets(0) : s = {}
    BY <1>3 DEF SmallSets
  <2>2. h \in SumsOfSmallSets(F, 0)
    BY <2>1 DEF SumsOfSmallSets
  <2> QED BY <1>4, <2>2
<1>5. CASE n # 0
  <2>1. n - 1 \in Nat /\ n - 1 \notin Bad
    BY <1>2, <1>5
  <2>2. PICK f \in SumsOfSmallSets(F, n - 1) : TRUE
    BY <2>1
  <2>3. /\ f \in [SmallSets(n - 1) -> Nat]
        /\ \A s \in SmallSets(n - 1) : f[s] = IF s = {} THEN 0 ELSE F[e(s)] + f[s \ {e(s)}]
    BY <2>2 DEF SumsOfSmallSets, e
  <2> DEFINE g == [s \in SmallSets(n) |->
                     IF s \in SmallSets(n - 1) THEN f[s] ELSE F[e(s)] + f[s \ {e(s)}]]
  <2>4. ASSUME NEW s \in SmallSets(n), s # {}
        PROVE  s \ {e(s)} \in SmallSets(n - 1) /\ s \ {e(s)} \in SmallSets(n) /\ F[e(s)] \in Nat
    <3>1. s \in SUBSET Cells /\ Cardinality(s) <= n /\ Cardinality(s) \in Nat
      BY <1>3 DEF SmallSets
    <3>2. e(s) \in Cells /\ s \ {e(s)} \in SUBSET Cells /\ Cardinality(s \ {e(s)}) = Cardinality(s) - 1
      BY <1>3, <2>4, <3>1
    <3>3. Cardinality(s \ {e(s)}) <= n - 1 /\ Cardinality(s \ {e(s)}) <= n
      BY <3>1, <3>2
    <3> QED BY <3>2, <3>3 DEF SmallSets
  <2>5. {} \in SmallSets(n - 1)
    <3>1. Cardinality({}) = 0
      BY FS_EmptySet
    <3> QED BY <2>1, <3>1 DEF SmallSets
  <2>6. ASSUME NEW s \in SmallSets(n)
        PROVE  g[s] \in Nat /\ g[s] = IF s = {} THEN 0 ELSE F[e(s)] + g[s \ {e(s)}]
    <3>1. CASE s = {}
      BY <2>3, <2>5, <3>1
    <3>2. CASE s # {}
      <4>1. g[s \ {e(s)}] = f[s \ {e(s)}] /\ f[s \ {e(s)}] \in Nat /\ F[e(s)] \in Nat
        BY <2>3, <2>4, <3>2
      <4>2. g[s] = F[e(s)] + f[s \ {e(s)}]
        BY <2>3, <3>2
      <4> HIDE DEF g
      <4> QED BY <3>2, <4>1, <4>2
    <3> QED BY <3>1, <3>2
  <2>7. g = [s \in SmallSets(n) |-> g[s]]
    OBVIOUS
  <2> HIDE DEF g
  <2>8. g \in [SmallSets(n) -> Nat]
    BY <2>6, <2>7
  <2>9. g \in SumsOfSmallSets(F, n)
    BY <2>6, <2>8 DEF SumsOfSmallSets, e
  <2> QED BY <2>9
<1> QED BY <1>4, <1>5

LEMMA SumExists == ASSUME NEW F \in [Cells -> Nat] PROVE \E h : IsSum(F, h)
<1> DEFINE n == Cardinality(Cells)
<1>1. n \in Nat /\ SmallSets(n) = SUBSET Cells
  <2>1. \A s \in SUBSET Cells : Cardinality(s) <= n
    BY CellsAssumption, FS_Subset
  <2> QED BY <2>1, CellsAssumption, FS_CardinalityType DEF SmallSets
<1>2. PICK h \in SumsOfSmallSets(F, n) : TRUE
  BY <1>1, SumsOfSmallSetsExist
<1> HIDE DEF n
<1>3. IsSum(F, h)
  BY <1>1, <1>2 DEF SumsOfSmallSets, IsSum
<1> QED BY <1>3

\* Sums are natural numbers and grow with the terms.
LEMMA SumsCompare ==
    ASSUME NEW F \in [Cells -> Nat], NEW G \in [Cells -> Nat], \A c \in Cells : F[c] <= G[c],
           NEW f, NEW g, IsSum(F, f), IsSum(G, g)
    PROVE  \A s \in SUBSET Cells : f[s] \in Nat /\ g[s] \in Nat /\ f[s] <= g[s]
<1> DEFINE Good(s) == f[s] \in Nat /\ g[s] \in Nat /\ f[s] <= g[s]
           Bad == {s \in SUBSET Cells : ~Good(s)}
           sizes == {Cardinality(s) : s \in Bad}
           e(s) == CHOOSE x \in s : TRUE
<1>1. SUFFICES ASSUME Bad # {} PROVE FALSE
  OBVIOUS
<1>2. /\ \A s \in SUBSET Cells : Cardinality(s) \in Nat
      /\ \A s \in SUBSET Cells : s # {} =>
            /\ e(s) \in Cells /\ s \ {e(s)} \in SUBSET Cells
            /\ Cardinality(s \ {e(s)}) = Cardinality(s) - 1
  BY SetFacts
<1>3. \A s \in Bad : s \in SUBSET Cells
  OBVIOUS
<1>4. PICK s \in Bad : \A t \in Bad : Cardinality(s) <= Cardinality(t)
  <2> HIDE DEF Bad
  <2>1. sizes \subseteq Nat /\ sizes # {}
    BY <1>1, <1>2, <1>3
  <2>2. PICK n \in sizes : \A m \in sizes : n <= m
    <3> HIDE DEF sizes
    <3> QED BY <2>1, FirstExists
  <2>3. PICK s \in Bad : n = Cardinality(s)
    BY <2>2
  <2>4. \A t \in Bad : Cardinality(t) \in sizes
    OBVIOUS
  <2> HIDE DEF sizes
  <2> QED BY <2>2, <2>3, <2>4
<1>5. /\ f[s] = IF s = {} THEN 0 ELSE F[e(s)] + f[s \ {e(s)}]
      /\ g[s] = IF s = {} THEN 0 ELSE G[e(s)] + g[s \ {e(s)}]
  BY <1>3 DEF IsSum
<1> HIDE DEF e
<1>6. CASE s = {}
  BY <1>5, <1>6
<1>7. CASE s # {}
  <2>1. /\ e(s) \in Cells /\ s \ {e(s)} \in SUBSET Cells
        /\ ~(Cardinality(s) <= Cardinality(s \ {e(s)}))
    BY <1>2, <1>3, <1>7
  <2>2. s \ {e(s)} \notin Bad
    <3> HIDE DEF Bad
    <3> QED BY <1>4, <2>1
  <2>3. Good(s \ {e(s)}) /\ F[e(s)] \in Nat /\ G[e(s)] \in Nat /\ F[e(s)] <= G[e(s)]
    BY <2>1, <2>2
  <2>4. Good(s)
    BY <1>5, <1>7, <2>3
  <2> QED BY <2>4
<1> QED BY <1>6, <1>7

\* What a cell adds to the cost.
CostOfCells(ids) ==
    [c \in Cells |-> CellCost[c] * (ClusterRate[MaxClusterId] \div ClusterRate[ids[c]])]

\* The sum of the library is such a sum.
LEMMA CostIsSum ==
    ASSUME NEW ids, CostOfCells(ids) \in [Cells -> Nat], NEW w
    PROVE  \E h : IsSum(CostOfCells(ids), h) /\ Cost(ids, w) = <<h[Cells], w>>
<1> DEFINE term(c) == CellCost[c] * (ClusterRate[MaxClusterId] \div ClusterRate[ids[c]])
           e(s) == CHOOSE x \in s : TRUE
           IsIt(h) == h = [s \in SUBSET Cells |-> IF s = {} THEN 0 ELSE term(e(s)) + h[s \ {e(s)}]]
<1>1. ASSUME NEW h PROVE IsIt(h) <=> IsSum(CostOfCells(ids), h)
  <2>1. ASSUME NEW s \in SUBSET Cells
        PROVE  (IF s = {} THEN 0 ELSE term(e(s)) + h[s \ {e(s)}])
                 = (IF s = {} THEN 0 ELSE CostOfCells(ids)[e(s)] + h[s \ {e(s)}])
    <3>1. s # {} => e(s) \in Cells
      BY SetFacts
    <3>2. \A c \in Cells : CostOfCells(ids)[c] = term(c)
      BY DEF CostOfCells
    <3> HIDE DEF term, e
    <3> QED BY <3>1, <3>2
  <2>2. [s \in SUBSET Cells |-> IF s = {} THEN 0 ELSE term(e(s)) + h[s \ {e(s)}]]
          = [s \in SUBSET Cells |-> IF s = {} THEN 0 ELSE CostOfCells(ids)[e(s)] + h[s \ {e(s)}]]
    <3> HIDE DEF term, e
    <3> QED BY <2>1, Zenon
  <2> HIDE DEF term
  <2> QED BY <2>2 DEF IsSum
<1>2. PICK g : IsIt(g)
  <2> HIDE DEF IsIt
  <2> QED BY <1>1, SumExists
<1>3. \E h : IsIt(h) /\ Cost(ids, w) = <<h[Cells], w>>
  BY <1>2, Zenon DEF Cost, MapThenSumSet, MapThenFoldSet
<1> HIDE DEF IsIt
<1> QED BY <1>1, <1>3

\* A quotient gets smaller when the divisor grows.
LEMMA QuotientShrinks ==
    ASSUME NEW a \in Nat, NEW b \in Nat \ {0}, NEW c \in Nat \ {0}, b <= c
    PROVE  a \div c \in Nat /\ a \div b \in Nat /\ a \div c <= a \div b
<1> DEFINE p == a \div c
           q == a \div b
<1>1. p \in Nat /\ q \in Nat /\ c * p <= a /\ a < b * (q + 1)
  OBVIOUS
<1> HIDE DEF p, q
<1>2. SUFFICES ASSUME q + 1 <= p PROVE FALSE
  BY <1>1 DEF p, q
<1>3. (q + 1) * b <= p * b /\ b * p <= c * p
  BY <1>1, <1>2, ProductGrows
<1>4. (q + 1) * b = b * (q + 1) /\ p * b = b * p /\ b * (q + 1) \in Nat /\ b * p \in Nat /\ c * p \in Nat
  BY <1>1
<1> QED BY <1>1, <1>3, <1>4

\* Costs are fractions.
Costs == Nat \X (Nat \ {0})

\* The cost of later clusters is not above that of earlier ones.
LEMMA CostDecreases ==
    ASSUME NEW a \in Ids, NEW b \in Ids, Below(a, b), NEW w \in Nat \ {0}
    PROVE  Cost(a, w) \in Costs /\ Cost(b, w) \in Costs /\ NotAbove(Cost(b, w), Cost(a, w))
<1>1. ASSUME NEW ids \in Ids, NEW c \in Cells
      PROVE  /\ ids[c] \in Nat /\ ClusterRate[ids[c]] \in Nat \ {0} /\ ClusterRate[MaxClusterId] \in Nat
             /\ ClusterRate[MaxClusterId] \div ClusterRate[ids[c]] \in Nat
             /\ CostOfCells(ids)[c] \in Nat
  <2>1. ids[c] \in Nat
    BY FacesAssumption DEF Ids
  <2>2. ClusterRate[ids[c]] \in Nat \ {0} /\ ClusterRate[MaxClusterId] \in Nat
    BY <2>1, ClusterRateType, FacesAssumption
  <2>3. ClusterRate[MaxClusterId] \div ClusterRate[ids[c]] \in Nat
    <3>1. ClusterRate[ids[c]] <= ClusterRate[ids[c]]
      BY <2>2
    <3> QED BY <2>2, <3>1, QuotientShrinks
  <2>4. CellCost[c] \in Nat
    BY CellsAssumption
  <2>5. CellCost[c] * (ClusterRate[MaxClusterId] \div ClusterRate[ids[c]]) \in Nat
    BY <2>3, <2>4
  <2> QED BY <2>1, <2>2, <2>3, <2>5 DEF CostOfCells
<1>2. CostOfCells(a) \in [Cells -> Nat] /\ CostOfCells(b) \in [Cells -> Nat]
  <2>1. ASSUME NEW ids \in Ids PROVE CostOfCells(ids) \in [Cells -> Nat]
    <3>1. CostOfCells(ids) = [c \in Cells |-> CostOfCells(ids)[c]]
      BY DEF CostOfCells
    <3> QED BY <1>1, <3>1
  <2> QED BY <2>1
<1>3. ASSUME NEW c \in Cells PROVE CostOfCells(b)[c] <= CostOfCells(a)[c]
  <2> DEFINE pa == ClusterRate[MaxClusterId] \div ClusterRate[a[c]]
             pb == ClusterRate[MaxClusterId] \div ClusterRate[b[c]]
  <2>1. a[c] <= b[c]
    BY DEF Below
  <2>2. ClusterRate[a[c]] <= ClusterRate[b[c]]
    BY <1>1, <2>1, ClusterRateGrows
  <2>3. pa \in Nat /\ pb \in Nat /\ pb <= pa
    BY <1>1, <2>2, QuotientShrinks
  <2>4. CellCost[c] \in Nat
    BY CellsAssumption
  <2>5. CostOfCells(a)[c] = CellCost[c] * pa /\ CostOfCells(b)[c] = CellCost[c] * pb
    BY DEF CostOfCells
  <2> HIDE DEF pa, pb
  <2>6. pb * CellCost[c] <= pa * CellCost[c]
    BY <2>3, <2>4, ProductGrows
  <2>7. pb * CellCost[c] = CellCost[c] * pb /\ pa * CellCost[c] = CellCost[c] * pa
    BY <2>3, <2>4
  <2> QED BY <2>5, <2>6, <2>7
<1>4. PICK f : IsSum(CostOfCells(b), f) /\ Cost(b, w) = <<f[Cells], w>>
  BY <1>2, CostIsSum
<1>5. PICK g : IsSum(CostOfCells(a), g) /\ Cost(a, w) = <<g[Cells], w>>
  BY <1>2, CostIsSum
<1>6. f[Cells] \in Nat /\ g[Cells] \in Nat /\ f[Cells] <= g[Cells]
  <2>1. Cells \in SUBSET Cells
    OBVIOUS
  <2> QED BY <1>2, <1>3, <1>4, <1>5, <2>1, SumsCompare
<1>7. f[Cells] * w <= g[Cells] * w
  BY <1>6, ProductGrows
<1> QED BY <1>4, <1>5, <1>6, <1>7 DEF NotAbove, Costs

LEMMA CostType == ASSUME NEW a \in Ids, NEW w \in Nat \ {0} PROVE Cost(a, w) \in Costs
<1>1. Below(a, a)
  BY FacesAssumption DEF Below, Ids
<1> QED BY <1>1, CostDecreases

\* The order of fractions is total and transitive.
LEMMA NotAboveIsTotal ==
    ASSUME NEW a \in Costs, NEW b \in Costs
    PROVE  NotAbove(a, b) \/ NotAbove(b, a)
<1>1. a[1] \in Nat /\ a[2] \in Nat /\ b[1] \in Nat /\ b[2] \in Nat
  BY DEF Costs
<1>2. a[1] * b[2] \in Nat /\ b[1] * a[2] \in Nat
  BY <1>1
<1> QED BY <1>2 DEF NotAbove

LEMMA FractionsAreTransitive ==
    ASSUME NEW p \in Nat, NEW q \in Nat \ {0}, NEW r \in Nat, NEW s \in Nat \ {0},
           NEW t \in Nat, NEW u \in Nat \ {0}, p * s <= r * q, r * u <= t * s
    PROVE  p * u <= t * q
<1>1. (p * s) * u <= (r * q) * u /\ (r * u) * q <= (t * s) * q
  <2>1. p * s \in Nat /\ r * q \in Nat /\ r * u \in Nat /\ t * s \in Nat
    OBVIOUS
  <2> QED BY <2>1, ProductGrows
<1>2. /\ (p * s) * u = (p * u) * s /\ (r * q) * u = (r * u) * q /\ (t * s) * q = (t * q) * s
      /\ p * u \in Nat /\ t * q \in Nat
  OBVIOUS
<1> DEFINE x == p * u
           y == t * q
<1>3. x \in Nat /\ y \in Nat /\ x * s <= y * s
  <2>1. (p * u) * s \in Nat /\ (r * u) * q \in Nat /\ (t * q) * s \in Nat
    OBVIOUS
  <2> QED BY <1>1, <1>2, <2>1
<1> HIDE DEF x, y
<1>4. SUFFICES ASSUME y + 1 <= x PROVE FALSE
  BY <1>3 DEF x, y
<1>5. (y + 1) * s <= x * s
  BY <1>3, <1>4, ProductGrows
<1>6. (y + 1) * s = y * s + s /\ y * s \in Nat /\ x * s \in Nat
  BY <1>3
<1> QED BY <1>3, <1>5, <1>6

LEMMA NotAboveIsTransitive ==
    ASSUME NEW a \in Costs, NEW b \in Costs, NEW c \in Costs, NotAbove(a, b), NotAbove(b, c)
    PROVE  NotAbove(a, c)
<1> DEFINE p == a[1]
           q == a[2]
           r == b[1]
           s == b[2]
           t == c[1]
           u == c[2]
<1>1. /\ p \in Nat /\ q \in Nat \ {0} /\ r \in Nat /\ s \in Nat \ {0}
      /\ t \in Nat /\ u \in Nat \ {0}
  BY DEF Costs
<1>2. p * s <= r * q /\ r * u <= t * s
  BY DEF NotAbove
<1>3. SUFFICES p * u <= t * q
  BY DEF NotAbove
<1> HIDE DEF p, q, r, s, t, u
<1> QED BY <1>1, <1>2, FractionsAreTransitive

(***************************************************************************)
(* Cutting off ids.                                                        *)
(***************************************************************************)

LEMMA CutTwice ==
    ASSUME NEW ids \in Ids, NEW a \in Nat, NEW b \in Nat
    PROVE  /\ EnforceMaxClusterId(EnforceMaxClusterId(ids, a), b)
                = EnforceMaxClusterId(ids, Minimum(a, b))
           /\ a <= b => Below(EnforceMaxClusterId(ids, a), EnforceMaxClusterId(ids, b))
           /\ LargestId(ids) <= a => EnforceMaxClusterId(ids, a) = ids
           /\ LargestId(EnforceMaxClusterId(ids, a)) <= a
<1>1. \A c \in Cells : ids[c] \in Nat
  BY FacesAssumption DEF Ids
<1>2. \A x, y, z \in Nat : Minimum(Minimum(x, y), z) = Minimum(x, Minimum(y, z))
  BY DEF Minimum
<1>3. EnforceMaxClusterId(EnforceMaxClusterId(ids, a), b) = EnforceMaxClusterId(ids, Minimum(a, b))
  BY <1>1, <1>2 DEF EnforceMaxClusterId
<1>4. a <= b => Below(EnforceMaxClusterId(ids, a), EnforceMaxClusterId(ids, b))
  <2>1. ASSUME a <= b, NEW x \in Nat PROVE Minimum(x, a) <= Minimum(x, b)
    BY <2>1 DEF Minimum
  <2> QED BY <1>1, <2>1 DEF EnforceMaxClusterId, Below
<1>5. ASSUME LargestId(ids) <= a PROVE EnforceMaxClusterId(ids, a) = ids
  <2>1. ASSUME NEW c \in Cells PROVE Minimum(ids[c], a) = ids[c]
    <3>1. ids[c] <= LargestId(ids) /\ LargestId(ids) \in Nat
      BY LargestIdFacts, FacesAssumption
    <3> QED BY <1>1, <1>5, <3>1 DEF Minimum
  <2> QED BY <2>1 DEF EnforceMaxClusterId, Ids
<1>6. LargestId(EnforceMaxClusterId(ids, a)) <= a
  <2> DEFINE cut == EnforceMaxClusterId(ids, a)
  <2>1. cut \in Ids /\ \A c \in Cells : cut[c] <= a
    BY EnforcedMaximum
  <2> HIDE DEF cut
  <2>2. \E c \in Cells : LargestId(cut) = cut[c]
    BY <2>1, LargestIdFacts
  <2>3. LargestId(cut) <= a
    BY <2>1, <2>2
  <2> QED BY <2>3 DEF cut
<1> QED BY <1>3, <1>4, <1>5, <1>6

\* The cut-off ids can be had from their largest id.
LEMMA CutAtLargest ==
    ASSUME NEW ids \in Ids, NEW l \in Nat, NEW m \in Nat, l <= m
    PROVE  EnforceMaxClusterId(ids, Minimum(m, LargestId(EnforceMaxClusterId(ids, l))))
             = EnforceMaxClusterId(ids, l)
<1> DEFINE cut == EnforceMaxClusterId(ids, l)
           k == LargestId(cut)
<1>1. cut \in Ids /\ \A c \in Cells : cut[c] = Minimum(ids[c], l)
  BY EnforcedMaximum DEF EnforceMaxClusterId
<1>2. k <= l
  BY CutTwice
<1> HIDE DEF cut
<1>3. k \in Nat /\ \A c \in Cells : cut[c] <= k
  BY <1>1, LargestIdFacts, FacesAssumption
<1> HIDE DEF k
<1>4. Minimum(m, k) = k
  BY <1>2, <1>3 DEF Minimum
<1>5. ASSUME NEW c \in Cells PROVE Minimum(ids[c], k) = Minimum(ids[c], l)
  <2>1. ids[c] \in Nat /\ Minimum(ids[c], l) <= k
    BY <1>1, <1>3, FacesAssumption DEF Ids
  <2> QED BY <1>2, <1>3, <2>1 DEF Minimum
<1>6. EnforceMaxClusterId(ids, Minimum(m, k)) = EnforceMaxClusterId(ids, l)
  BY <1>4, <1>5 DEF EnforceMaxClusterId
<1> QED BY <1>6 DEF cut, k

(***************************************************************************)
(* Merging.                                                                *)
(***************************************************************************)

\* The ids that are compared for a wiggle factor.
MergedAt(w) == EnforceMaxClusterId(Fresh(w), LimitOf(Fresh(w), w))

CostAt(w) == Cost(MergedAt(w), w)

LEMMA MergedFacts ==
    ASSUME Given, NEW w \in Tried
    PROVE  /\ w \in Nat \ {0} /\ settings.maxClusters - 1 \in Nat
           /\ Fresh(w) \in Ids /\ LimitOf(Fresh(w), w) \in Nat
           /\ LimitOf(Fresh(w), w) <= settings.maxClusters - 1
           /\ MergedAt(w) \in Ids /\ CostAt(w) \in Costs
           /\ Limited(w) \in Ids
           /\ ~merge => MergedAt(w) = Limited(w)
<1>1. w \in Nat \ {0}
  BY TriedFacts, WiggleAssumption
<1>2. settings.maxClusters - 1 \in Nat
  <2>1. settings.maxClusters \in MaxNumbersOfClusters
    BY DEF Given, SettingsOK
  <2>2. settings.maxClusters \in Nat \ {0}
    BY <2>1, CellsAssumption
  <2> QED BY <2>2
<1>3. Fresh(w) \in Ids
  BY ComputedIds
<1>4. LimitOf(Fresh(w), w) \in Nat /\ LimitOf(Fresh(w), w) <= settings.maxClusters - 1
  BY <1>3, LimitIsNatural
<1>5. MergedAt(w) \in Ids
  BY <1>3, <1>4, EnforcedMaximum DEF MergedAt
<1>6. CostAt(w) \in Costs
  BY <1>1, <1>5, CostType DEF CostAt
<1>7. Limited(w) \in Ids
  BY <1>2, <1>3, EnforcedMaximum DEF Limited
<1>8. ~merge => MergedAt(w) = Limited(w)
  BY DEF MergedAt, Limited, LimitOf
<1> QED BY <1>1, <1>2, <1>3, <1>4, <1>5, <1>6, <1>7, <1>8

LEMMA BudgetType == ASSUME NEW cost \in Costs PROVE Budget(cost) \in Costs
<1>1. cost[1] \in Nat /\ cost[2] \in Nat \ {0} /\ 100 + Allowed \in Nat
  BY CellsAssumption DEF Costs
<1>2. cost[1] * (100 + Allowed) \in Nat /\ cost[2] * 100 \in Nat \ {0}
  BY <1>1
<1> QED BY <1>2 DEF Budget, Costs

\* If some number of clusters keeps the cost in the budget, merging finds one that
\* does, with no more clusters.
LEMMA MergingFindsTheFewest ==
    ASSUME Given, merge = TRUE, baseline \in Costs, NEW w \in Tried, NEW k \in Nat,
           NotAbove(Cost(EnforceMaxClusterId(Limited(w), k), w), Budget(baseline))
    PROVE  NotAbove(CostAt(w), Budget(baseline)) /\ LargestId(MergedAt(w)) <= k
<1> DEFINE ids == Fresh(w)
           budget == Budget(baseline)
           l == LargestId(ids)
           top == settings.maxClusters - 1
           admissible(m) == NotAbove(Cost(EnforceMaxClusterId(ids, m), w), budget)
           enough == {m \in 0..l : \A i \in m..l : admissible(i)}
           auto == MaxClusterIdAfterAutoMerge(ids, budget, w)
           j == Minimum(top, k)
           n == Minimum(j, l)
<1>1. ids \in Ids /\ w \in Nat \ {0} /\ top \in Nat /\ budget \in Costs
  BY MergedFacts, BudgetType
<1>2. l \in Nat
  BY <1>1, LargestIdFacts, FacesAssumption
<1>3. auto = IF enough = {} THEN l ELSE Min(enough)
  BY DEF MaxClusterIdAfterAutoMerge
<1>4. MergedAt(w) = EnforceMaxClusterId(ids, Minimum(auto, top))
  BY DEF MergedAt, LimitOf
<1>5. NotAbove(Cost(EnforceMaxClusterId(ids, j), w), budget)
  <2>1. Limited(w) = EnforceMaxClusterId(ids, top)
    BY DEF Limited
  <2> HIDE DEF ids, top, budget
  <2>2. EnforceMaxClusterId(Limited(w), k) = EnforceMaxClusterId(ids, j)
    BY <1>1, <2>1, CutTwice
  <2> QED BY <2>2 DEF budget
<1> HIDE DEF ids, budget, l, top, auto
<1>6. j \in Nat /\ n \in 0..l /\ n <= j /\ j <= k /\ j <= top /\ (j <= l => n = j) /\ (l <= j => n = l)
  BY <1>1, <1>2 DEF Minimum
<1> HIDE DEF j, n
<1>7. EnforceMaxClusterId(ids, n) = EnforceMaxClusterId(ids, j)
  <2>1. CASE j <= l
    BY <1>6, <2>1
  <2>2. CASE l <= j
    <3>1. EnforceMaxClusterId(ids, j) = ids /\ EnforceMaxClusterId(ids, l) = ids
      <4>1. l <= l
        BY <1>2
      <4> QED BY <1>1, <1>2, <1>6, <2>2, <4>1, CutTwice DEF l
    <3> QED BY <1>6, <2>2, <3>1
  <2> QED BY <1>2, <1>6, <2>1, <2>2
<1>8. ASSUME NEW i \in n..l PROVE admissible(i)
  <2> DEFINE a == EnforceMaxClusterId(ids, n)
             b == EnforceMaxClusterId(ids, i)
  <2>1. i \in Nat /\ n \in Nat /\ n <= i
    BY <1>2, <1>6
  <2>2. a \in Ids /\ b \in Ids /\ Below(a, b)
    BY <1>1, <2>1, EnforcedMaximum, CutTwice
  <2>3. Cost(a, w) \in Costs /\ Cost(b, w) \in Costs /\ NotAbove(Cost(b, w), Cost(a, w))
    <3> HIDE DEF a, b
    <3> QED BY <1>1, <2>2, CostDecreases
  <2>4. NotAbove(Cost(a, w), budget)
    BY <1>5, <1>7
  <2> HIDE DEF a, b
  <2>5. NotAbove(Cost(b, w), budget)
    BY <1>1, <2>3, <2>4, NotAboveIsTransitive
  <2> QED BY <2>5 DEF b
<1>9. n \in enough
  <2> HIDE DEF admissible
  <2> QED BY <1>6, <1>8
<1>10. enough \subseteq Nat
  BY <1>2
<1>11. auto \in enough /\ auto <= n
  <2> HIDE DEF enough
  <2> QED BY <1>3, <1>9, <1>10, MinFacts
<1>12. auto \in Nat /\ auto <= l /\ admissible(auto)
  <2>1. auto \in 0..l /\ \A i \in auto..l : admissible(i)
    BY <1>11
  <2>2. auto \in auto..l
    BY <1>2, <2>1
  <2> HIDE DEF admissible
  <2> QED BY <1>2, <2>1, <2>2
<1>13. Minimum(auto, top) = auto /\ auto <= k
  BY <1>1, <1>2, <1>6, <1>11, <1>12 DEF Minimum
<1>14. MergedAt(w) = EnforceMaxClusterId(ids, auto)
  BY <1>4, <1>13
<1>15. LargestId(MergedAt(w)) <= auto /\ LargestId(MergedAt(w)) \in Nat
  <2>1. MergedAt(w) \in Ids
    BY MergedFacts
  <2>2. LargestId(MergedAt(w)) \in Nat
    BY <2>1, LargestIdFacts, FacesAssumption
  <2> QED BY <1>1, <1>12, <1>14, <2>2, CutTwice
<1> QED BY <1>12, <1>13, <1>14, <1>15 DEF CostAt, budget

(***************************************************************************)
(* What the search has found.                                              *)
(***************************************************************************)

\* Every wiggle factor of the grid is represented by one that has the same number
\* of clusters and is not more expensive.
AllSeen(n) ==
    \A i \in 0..(n - 1) :
        /\ LargestId(MergedAt(Wiggle(i))) \in DOMAIN lowestCost
        /\ NotAbove(lowestCost[LargestId(MergedAt(Wiggle(i)))], CostAt(Wiggle(i)))

Recorded ==
    \A m \in DOMAIN lowestCost :
        /\ m = LargestId(MergedAt(bestWiggle[m]))
        /\ lowestCost[m] = CostAt(bestWiggle[m])

\* After a search the costs have an eligible one.  Without merging it is not above
\* the cost of any wiggle factor of the grid,
LEMMA CheapestIsFound ==
    ASSUME SearchInv, AllSeen(NumberOfSteps), Recorded, ~merge
    PROVE  /\ Eligible # {}
           /\ \A m \in Eligible : \A w \in Grid : NotAbove(lowestCost[m], Cost(Limited(w), w))
<1>1. Given
  BY DEF SearchInv
<1>2. \A m \in DOMAIN lowestCost : bestWiggle[m] \in Tried /\ lowestCost[m] \in Costs
  <2>1. \A m \in DOMAIN lowestCost : bestWiggle[m] \in Tried
    BY <1>1, TriedFacts DEF SearchInv
  <2> QED BY <1>1, <2>1, MergedFacts DEF Recorded
<1> DEFINE D == DOMAIN lowestCost
           R == {p \in D \X D : \E x, y \in D : p = <<x, y>> /\ NotAbove(lowestCost[x], lowestCost[y])}
<1>3. \A x, y \in DOMAIN lowestCost : <<x, y>> \in R <=> NotAbove(lowestCost[x], lowestCost[y])
  OBVIOUS
<1>4. Eligible = {m \in DOMAIN lowestCost :
                    \A k \in DOMAIN lowestCost : NotAbove(lowestCost[m], lowestCost[k])}
  BY DEF Eligible
<1>5. DOMAIN lowestCost # {}
  <2>1. 0 \in 0..(NumberOfSteps - 1)
    BY <1>1, TriedFacts
  <2> QED BY <2>1 DEF AllSeen
<1>6. IsFiniteSet(DOMAIN lowestCost)
  <2>1. IsFiniteSet(0..MaxClusterId)
    BY FacesAssumption, FS_Interval
  <2> QED BY <2>1, FS_Subset DEF SearchInv
<1>7. \E m \in DOMAIN lowestCost : \A k \in DOMAIN lowestCost : <<m, k>> \in R
  <2> HIDE DEF R
  <2>1. \A x, y \in DOMAIN lowestCost : <<x, y>> \in R \/ <<y, x>> \in R
    BY <1>2, <1>3, NotAboveIsTotal
  <2>2. \A x, y, z \in DOMAIN lowestCost : <<x, y>> \in R /\ <<y, z>> \in R => <<x, z>> \in R
    BY <1>2, <1>3, NotAboveIsTransitive
  <2> QED BY <1>5, <1>6, <2>1, <2>2, FiniteHasFirst
<1> HIDE DEF R
<1>8. Eligible # {}
  BY <1>3, <1>4, <1>7
<1>9. ASSUME NEW m \in Eligible, NEW w \in Grid PROVE NotAbove(lowestCost[m], Cost(Limited(w), w))
  <2>1. PICK i \in 0..(NumberOfSteps - 1) : w = Wiggle(i)
    BY DEF Grid
  <2> DEFINE k == LargestId(MergedAt(w))
  <2>2. k \in DOMAIN lowestCost /\ NotAbove(lowestCost[k], CostAt(w))
    BY <2>1 DEF AllSeen
  <2> HIDE DEF k
  <2>3. m \in DOMAIN lowestCost /\ NotAbove(lowestCost[m], lowestCost[k])
    BY <1>4, <2>2
  <2>4. w \in Tried
    BY <1>1, TriedFacts
  <2>5. CostAt(w) \in Costs /\ CostAt(w) = Cost(Limited(w), w)
    BY <1>1, <2>4, MergedFacts DEF CostAt
  <2> QED BY <1>2, <2>2, <2>3, <2>5, NotAboveIsTransitive
<1> QED BY <1>8, <1>9

\* with merging it is in the budget, and a wiggle factor of the grid that stays in
\* the budget makes one of no more clusters eligible.
LEMMA FewestAreFound ==
    ASSUME SearchInv, AllSeen(NumberOfSteps), Recorded, merge = TRUE, baseline \in Costs,
           NEW w \in Grid, NEW k \in Nat,
           NotAbove(Cost(EnforceMaxClusterId(Limited(w), k), w), Budget(baseline))
    PROVE  \E m \in Eligible : m <= k
<1>1. Given /\ w \in Tried
  BY TriedFacts DEF SearchInv
<1> DEFINE m == LargestId(MergedAt(w))
<1>2. NotAbove(CostAt(w), Budget(baseline)) /\ m <= k
  BY <1>1, MergingFindsTheFewest
<1>3. PICK i \in 0..(NumberOfSteps - 1) : w = Wiggle(i)
  BY DEF Grid
<1>4. m \in DOMAIN lowestCost /\ NotAbove(lowestCost[m], CostAt(w))
  BY <1>3 DEF AllSeen
<1> HIDE DEF m
<1>5. bestWiggle[m] \in Tried
  BY <1>1, <1>4, TriedFacts DEF SearchInv
<1>6. lowestCost[m] \in Costs /\ CostAt(w) \in Costs /\ Budget(baseline) \in Costs
  BY <1>1, <1>4, <1>5, MergedFacts, BudgetType DEF Recorded
<1>7. NotAbove(lowestCost[m], Budget(baseline))
  BY <1>2, <1>4, <1>6, NotAboveIsTransitive
<1> QED BY <1>2, <1>4, <1>7 DEF Eligible

(***************************************************************************)
(* The search finds the best wiggle factor.                                *)
(***************************************************************************)

\* The ids the search decides for.
Final == EnforceMaxClusterId(Fresh(wiggleFactor), maxClusterId)

BaselineIsBest == \A w \in Grid : NotAbove(baseline, Cost(Limited(w), w))

FinalIsCheapest == \A w \in Grid : NotAbove(Cost(Final, wiggleFactor), Cost(Limited(w), w))

\* No wiggle factor stays in the budget with cluster ids up to m.
OutOfBudget(m) ==
    \A w \in Grid : ~NotAbove(Cost(EnforceMaxClusterId(Limited(w), m), w), Budget(baseline))

FinalIsFewest ==
    /\ NotAbove(Cost(Final, wiggleFactor), Budget(baseline))
    /\ \A m \in 0..(LargestId(Final) - 1) : OutOfBudget(m)

\* While searching, every wiggle factor looked at is represented; before the first
\* one there is a baseline; without merging the baseline is still to be found.
Searching ==
    /\ maxClusterId = settings.maxClusters - 1
    /\ merge => settings.autoMerge
    /\ ~merge => ~settings.autoMerge \/ TwoSearches
    /\ IF baseline = NoCost THEN ith = 0 /\ DOMAIN lowestCost = {} ELSE baseline \in Costs
    /\ AllSeen(ith) /\ Recorded

BestInv ==
    /\ pc = "computeWeights" =>
          /\ maxClusterId = settings.maxClusters - 1
          /\ baseline = NoCost /\ ith = 0 /\ DOMAIN lowestCost = {} /\ merge = FALSE
    /\ pc = "search" => Searching
    /\ merge /\ TwoSearches => baseline \in Costs /\ BaselineIsBest
    /\ pc \in {"finish", "done"} /\ Searched =>
          IF settings.autoMerge THEN FinalIsFewest ELSE FinalIsCheapest
    /\ pc = "aborted" /\ Searched /\ settings.autoMerge => OutOfBudget(MaxClusterId)

\* What depends only on what the search is given, on whether it merges and on the
\* baseline stays.
LEMMA ComparedStays ==
    ASSUME timestep' = timestep, settings' = settings
    PROVE  /\ TwoSearches' = TwoSearches /\ Searched' = Searched /\ Grid' = Grid
           /\ \A w : Limited(w)' = Limited(w) /\ Fresh(w)' = Fresh(w)
           /\ \A i : Wiggle(i)' = Wiggle(i)
           /\ merge' = merge /\ baseline' = baseline =>
                /\ \A w : MergedAt(w)' = MergedAt(w) /\ CostAt(w)' = CostAt(w)
                /\ BaselineIsBest' = BaselineIsBest
                /\ \A m : OutOfBudget(m)' = OutOfBudget(m)
<1>1. TwoSearches' = TwoSearches /\ Searched' = Searched
  BY DEF TwoSearches, Searched, WiggleFactorUsed
<1>2. Grid' = Grid /\ \A w : Fresh(w)' = Fresh(w)
  BY DerivedStays
<1>3. \A w : Limited(w)' = Limited(w)
  BY <1>2 DEF Limited
<1>4. \A i : Wiggle(i)' = Wiggle(i)
  BY DEF Wiggle
<1>5. ASSUME merge' = merge, baseline' = baseline
      PROVE  /\ \A w : MergedAt(w)' = MergedAt(w) /\ CostAt(w)' = CostAt(w)
             /\ BaselineIsBest' = BaselineIsBest
             /\ \A m : OutOfBudget(m)' = OutOfBudget(m)
  <2>1. \A ids, w : LimitOf(ids, w)' = LimitOf(ids, w)
    BY <1>5 DEF LimitOf
  <2>2. \A w : MergedAt(w)' = MergedAt(w)
    BY <1>2, <2>1 DEF MergedAt
  <2>3. \A w : CostAt(w)' = CostAt(w)
    BY <2>2 DEF CostAt
  <2>4. BaselineIsBest' = BaselineIsBest
    BY <1>2, <1>3, <1>5 DEF BaselineIsBest
  <2>5. \A m : OutOfBudget(m)' = OutOfBudget(m)
    BY <1>2, <1>3, <1>5 DEF OutOfBudget
  <2> QED BY <2>2, <2>3, <2>4, <2>5
<1> QED BY <1>1, <1>2, <1>3, <1>4, <1>5

LEMMA BestInit == WiggleInit => BestInv
BY DEF WiggleInit, BestInv, Searching

LEMMA ComputeWeightsKeepsBest ==
    ASSUME SearchInv, BestInv, ComputeWeights
    PROVE  BestInv'
<1>1. /\ TwoSearches' = TwoSearches /\ Searched' = Searched
      /\ baseline' = baseline /\ ith' = ith /\ lowestCost' = lowestCost /\ settings' = settings
  BY ComparedStays DEF ComputeWeights
<1>2. /\ maxClusterId = settings.maxClusters - 1
      /\ baseline = NoCost /\ ith = 0 /\ DOMAIN lowestCost = {}
  BY DEF BestInv, ComputeWeights
<1>3. merge' = (settings.autoMerge /\ ~TwoSearches)
  BY DEF ComputeWeights
<1>4. pc' \in {"finish", "search"} /\ (pc' = "finish" => ~Searched)
  BY DEF ComputeWeights, Searched
<1>5. pc' = "search" => maxClusterId' = maxClusterId
  BY DEF ComputeWeights
<1>6. AllSeen(ith)' /\ Recorded'
  BY <1>1, <1>2 DEF AllSeen, Recorded
<1>7. ~(merge' /\ TwoSearches')
  BY <1>1, <1>3
<1>8. pc' = "search" => Searching'
  <2>1. ~merge' => ~settings'.autoMerge \/ TwoSearches'
    BY <1>1, <1>3
  <2>2. merge' => settings'.autoMerge
    BY <1>1, <1>3
  <2> QED BY <1>1, <1>2, <1>5, <1>6, <2>1, <2>2 DEF Searching
<1> QED BY <1>1, <1>4, <1>7, <1>8 DEF BestInv

LEMMA ComputeBaselineKeepsBest ==
    ASSUME SearchInv, BestInv, ComputeBaseline
    PROVE  BestInv'
<1>1. /\ TwoSearches' = TwoSearches /\ Searched' = Searched /\ pc = "search" /\ pc' = pc
      /\ baseline = NoCost /\ ith' = ith /\ lowestCost' = lowestCost /\ settings' = settings
      /\ merge' = merge /\ maxClusterId' = maxClusterId
  BY ComparedStays DEF ComputeBaseline
<1>2. Searching
  BY <1>1 DEF BestInv
<1>3. baseline' \in Costs /\ baseline' # NoCost
  <2>1. One \in Tried /\ One \in Nat \ {0}
    BY TriedFacts, WiggleAssumption DEF SearchInv
  <2>2. clusterIds' = Fresh(One) /\ baseline' = Cost(clusterIds', One)
    BY <2>1, CacheStaysExact DEF SearchInv, ComputeBaseline
  <2>3. Fresh(One) \in Ids
    BY <2>1, ComputedIds DEF SearchInv
  <2>4. baseline' \in Costs
    BY <2>1, <2>2, <2>3, CostType
  <2> QED BY <2>4 DEF Costs, NoCost
<1>4. ~(merge /\ TwoSearches)
  BY <1>1 DEF BestInv, Costs, NoCost
<1>5. AllSeen(ith)' /\ Recorded'
  BY <1>1, <1>2 DEF Searching, AllSeen, Recorded
<1>6. Searching'
  BY <1>1, <1>2, <1>3, <1>5 DEF Searching
<1> QED BY <1>1, <1>4, <1>6 DEF BestInv

LEMMA EvaluateKeepsBest ==
    ASSUME SearchInv, BestInv, Evaluate
    PROVE  BestInv'
<1> DEFINE w == Wiggle(ith)
           k == LargestId(MergedAt(w))
<1>1. /\ TwoSearches' = TwoSearches /\ Searched' = Searched /\ pc = "search" /\ pc' = pc
      /\ baseline' = baseline /\ settings' = settings /\ timestep' = timestep
      /\ merge' = merge /\ maxClusterId' = maxClusterId /\ baseline # NoCost /\ ith' = ith + 1
  BY ComparedStays DEF Evaluate
<1>2. /\ \A i : Wiggle(i)' = Wiggle(i)
      /\ \A v : MergedAt(v)' = MergedAt(v) /\ CostAt(v)' = CostAt(v)
      /\ BaselineIsBest' = BaselineIsBest
  BY <1>1, ComparedStays
<1>3. Searching /\ Given
  BY <1>1 DEF BestInv, SearchInv
<1>4. w \in Grid /\ w \in Tried /\ ith \in Nat
  <2>1. ith \in 0..(NumberOfSteps - 1)
    BY <1>3, TriedFacts DEF Evaluate, SearchInv
  <2> QED BY <1>3, <2>1, TriedFacts
<1>5. IF k \notin DOMAIN lowestCost \/ NotAbove(CostAt(w), lowestCost[k])
      THEN lowestCost' = Assign(lowestCost, k, CostAt(w)) /\ bestWiggle' = Assign(bestWiggle, k, w)
      ELSE UNCHANGED <<lowestCost, bestWiggle>>
  <2>1. Clustering(clusteringCache, w) = Fresh(w)
    BY <1>4, NextClusteringIsExact DEF SearchInv
  <2> QED BY <2>1 DEF Evaluate, MergedAt, CostAt
<1>6. DOMAIN bestWiggle = DOMAIN lowestCost
  BY DEF SearchInv
<1>7. CostAt(w) \in Costs /\ NotAbove(CostAt(w), CostAt(w))
  BY <1>3, <1>4, MergedFacts, NotAboveIsTotal
<1>8. \A m \in DOMAIN lowestCost : lowestCost[m] \in Costs /\ bestWiggle[m] \in Tried
  <2>1. \A m \in DOMAIN lowestCost : bestWiggle[m] \in Tried
    BY <1>3, TriedFacts DEF SearchInv
  <2> QED BY <1>3, <2>1, MergedFacts DEF Searching, Recorded
<1> HIDE DEF w, k
<1>9. /\ k \in DOMAIN lowestCost' /\ NotAbove(lowestCost'[k], CostAt(w))
      /\ \A m \in DOMAIN lowestCost : m \in DOMAIN lowestCost' /\ NotAbove(lowestCost'[m], lowestCost[m])
  <2>1. CASE k \notin DOMAIN lowestCost \/ NotAbove(CostAt(w), lowestCost[k])
    BY <1>5, <1>7, <1>8, <2>1, NotAboveIsTotal DEF Assign
  <2>2. CASE k \in DOMAIN lowestCost /\ ~NotAbove(CostAt(w), lowestCost[k])
    BY <1>5, <1>7, <1>8, <2>2, NotAboveIsTotal
  <2> QED BY <2>1, <2>2
<1>10. Recorded'
  <2>1. k = LargestId(MergedAt(w))
    BY DEF k
  <2>2. ASSUME NEW m \in DOMAIN lowestCost'
        PROVE  m = LargestId(MergedAt(bestWiggle'[m])) /\ lowestCost'[m] = CostAt(bestWiggle'[m])
    BY <1>3, <1>5, <1>6, <2>1 DEF Searching, Recorded, Assign
  <2> QED BY <1>2, <2>2 DEF Recorded
<1>11. ASSUME NEW i \in 0..ith
       PROVE  /\ LargestId(MergedAt(Wiggle(i))) \in DOMAIN lowestCost'
              /\ NotAbove(lowestCost'[LargestId(MergedAt(Wiggle(i)))], CostAt(Wiggle(i)))
  <2>1. CASE i = ith
    BY <1>9, <2>1 DEF w, k
  <2>2. CASE i # ith
    <3> DEFINE m == LargestId(MergedAt(Wiggle(i)))
    <3>1. i \in 0..(ith - 1)
      BY <1>4, <2>2
    <3>2. m \in DOMAIN lowestCost /\ NotAbove(lowestCost[m], CostAt(Wiggle(i)))
      BY <1>3, <3>1 DEF Searching, AllSeen
    <3> HIDE DEF m
    <3>3. m \in DOMAIN lowestCost' /\ NotAbove(lowestCost'[m], lowestCost[m])
      BY <1>9, <3>2
    <3>4. lowestCost'[m] \in Costs
      BY <1>5, <1>7, <1>8, <3>2 DEF Assign
    <3>5. CostAt(Wiggle(i)) \in Costs
      <4>1. i \in 0..(NumberOfSteps - 1)
        BY <1>3, <1>4, TriedFacts DEF Evaluate, SearchInv
      <4>2. Wiggle(i) \in Tried
        BY <1>3, <4>1, TriedFacts
      <4> QED BY <1>3, <4>2, MergedFacts
    <3>6. NotAbove(lowestCost'[m], CostAt(Wiggle(i)))
      BY <1>8, <3>2, <3>3, <3>4, <3>5, NotAboveIsTransitive
    <3> QED BY <3>3, <3>6 DEF m
  <2> QED BY <2>1, <2>2
<1>12. AllSeen(ith)'
  <2>1. 0..(ith' - 1) = 0..ith
    BY <1>1, <1>4
  <2> QED BY <1>2, <1>11, <2>1 DEF AllSeen
<1>13. Searching'
  BY <1>1, <1>3, <1>10, <1>12 DEF Searching
<1> QED BY <1>1, <1>2, <1>13 DEF BestInv

LEMMA SearchEndsKeepsBest ==
    ASSUME SearchInv, BestInv, SearchEnds
    PROVE  BestInv'
<1> DEFINE best == Min(Eligible)
           bw == bestWiggle[best]
<1>1. /\ TwoSearches' = TwoSearches /\ Searched' = Searched /\ pc = "search"
      /\ settings' = settings /\ timestep' = timestep /\ Grid' = Grid
      /\ baseline # NoCost /\ ith = NumberOfSteps
      /\ ith' = 0 /\ DOMAIN lowestCost' = {}
  BY ComparedStays DEF SearchEnds
<1>2. Searching /\ Given /\ baseline \in Costs /\ AllSeen(NumberOfSteps) /\ Recorded
  BY <1>1 DEF BestInv, SearchInv, Searching
<1>3. \A w : Limited(w)' = Limited(w) /\ Fresh(w)' = Fresh(w)
  BY <1>1, ComparedStays
<1>4. merge' = merge /\ baseline' = baseline =>
        BaselineIsBest' = BaselineIsBest /\ \A m : OutOfBudget(m)' = OutOfBudget(m)
  BY <1>1, ComparedStays
<1>5. merge \in BOOLEAN /\ settings.autoMerge \in BOOLEAN
  BY DEF SearchInv, Given, SettingsOK
<1>6. AllSeen(ith)' /\ Recorded'
  BY <1>1 DEF AllSeen, Recorded
<1>7. Eligible # {} => /\ best \in Eligible /\ best \in DOMAIN lowestCost /\ best \in Nat
                       /\ \A m \in Eligible : best <= m
  <2>1. Eligible \subseteq DOMAIN lowestCost /\ DOMAIN lowestCost \subseteq Nat
    BY FacesAssumption DEF Eligible, SearchInv
  <2> QED BY <2>1, MinFacts
<1>8. Eligible # {} => /\ bw \in Tried /\ best = LargestId(MergedAt(bw)) /\ lowestCost[best] = CostAt(bw)
                       /\ lowestCost[best] \in Costs
  <2>1. Eligible # {} => bw \in Tried /\ best = LargestId(MergedAt(bw)) /\ lowestCost[best] = CostAt(bw)
    BY <1>2, <1>7, TriedFacts DEF SearchInv, Recorded
  <2> QED BY <1>2, <2>1, MergedFacts
<1>9. CASE Eligible = {}
  <2>1. /\ pc' = "aborted" /\ merge' = merge /\ baseline' = baseline
        /\ wiggleFactor' = wiggleFactor /\ maxClusterId' = maxClusterId
    BY <1>9 DEF SearchEnds
  <2>2. merge = TRUE
    BY <1>2, <1>5, <1>9, CheapestIsFound
  <2>3. OutOfBudget(MaxClusterId)
    BY <1>2, <1>9, <2>2, FewestAreFound, FacesAssumption DEF OutOfBudget
  <2> QED BY <1>1, <1>4, <2>1, <2>3 DEF BestInv
<1>10. CASE Eligible # {} /\ TwoSearches /\ ~merge
  <2>1. /\ merge' = TRUE /\ baseline' = lowestCost[best] /\ pc' = pc
        /\ maxClusterId' = maxClusterId
    BY <1>10 DEF SearchEnds
  <2>2. \A w \in Grid : NotAbove(lowestCost[best], Cost(Limited(w), w))
    BY <1>2, <1>7, <1>10, CheapestIsFound
  <2>3. baseline' \in Costs /\ BaselineIsBest'
    BY <1>1, <1>3, <1>8, <1>10, <2>1, <2>2 DEF BaselineIsBest
  <2>4. baseline' # NoCost
    BY <2>3 DEF Costs, NoCost
  <2>5. settings.autoMerge
    BY <1>10 DEF TwoSearches
  <2>6. Searching'
    BY <1>1, <1>2, <1>6, <2>1, <2>3, <2>4, <2>5 DEF Searching
  <2> QED BY <1>1, <2>1, <2>3, <2>6 DEF BestInv
<1>11. CASE Eligible # {} /\ ~(TwoSearches /\ ~merge)
  <2>1. /\ merge' = merge /\ baseline' = baseline /\ pc' = "finish"
        /\ wiggleFactor' = bw
        /\ maxClusterId' = IF settings.autoMerge THEN Minimum(maxClusterId, best) ELSE maxClusterId
    BY <1>11 DEF SearchEnds
  <2>2. Final' = EnforceMaxClusterId(Fresh(bw), maxClusterId')
    BY <1>1, <2>1 DEF Final, Fresh, ComputeClusterIds, GetCluster, LeastStep
  <2>3. merge <=> settings.autoMerge
    BY <1>2, <1>5, <1>11 DEF Searching
  <2>4. Final' = MergedAt(bw)
    <3>1. CASE settings.autoMerge
      <4>1. maxClusterId' = Minimum(settings.maxClusters - 1, LargestId(MergedAt(bw)))
        BY <1>2, <1>8, <1>11, <2>1, <3>1 DEF Searching
      <4>2. /\ Fresh(bw) \in Ids /\ LimitOf(Fresh(bw), bw) \in Nat /\ settings.maxClusters - 1 \in Nat
            /\ LimitOf(Fresh(bw), bw) <= settings.maxClusters - 1
        BY <1>2, <1>8, <1>11, MergedFacts
      <4> HIDE DEF bw
      <4> QED BY <2>2, <4>1, <4>2, CutAtLargest DEF MergedAt
    <3>2. CASE ~settings.autoMerge
      <4>1. MergedAt(bw) = Limited(bw)
        BY <1>2, <1>8, <1>11, <2>3, <3>2, MergedFacts
      <4> QED BY <1>2, <2>1, <2>2, <3>2, <4>1 DEF Limited, Searching
    <3> QED BY <3>1, <3>2
  <2>5. Cost(Final, wiggleFactor)' = lowestCost[best]
    BY <1>8, <1>11, <2>1, <2>4 DEF CostAt
  <2>6. CASE ~settings.autoMerge
    <3>1. FinalIsCheapest'
      <4>1. \A w \in Grid : NotAbove(lowestCost[best], Cost(Limited(w), w))
        BY <1>2, <1>7, <1>11, <2>3, <2>6, CheapestIsFound
      <4> QED BY <1>1, <1>3, <2>5, <4>1 DEF FinalIsCheapest
    <3> QED BY <1>1, <1>4, <2>1, <2>3, <2>6, <3>1 DEF BestInv
  <2>7. CASE settings.autoMerge
    <3>1. merge = TRUE
      BY <1>5, <2>3, <2>7
    <3>2. NotAbove(lowestCost[best], Budget(baseline))
      BY <1>7, <1>11, <3>1 DEF Eligible
    <3>3. LargestId(Final') = best
      BY <1>8, <1>11, <2>4
    <3>4. ASSUME NEW m \in 0..(best - 1) PROVE OutOfBudget(m)
      <4>1. SUFFICES ASSUME NEW w \in Grid,
                            NotAbove(Cost(EnforceMaxClusterId(Limited(w), m), w), Budget(baseline))
                     PROVE  FALSE
        BY DEF OutOfBudget
      <4>2. m \in Nat /\ ~(best <= m)
        BY <1>7, <1>11
      <4>3. \E k \in Eligible : k <= m
        BY <1>2, <3>1, <4>1, <4>2, FewestAreFound
      <4>4. Eligible \subseteq Nat
        BY FacesAssumption DEF Eligible, SearchInv
      <4> HIDE DEF best
      <4> QED BY <1>7, <1>11, <4>2, <4>3, <4>4
    <3>5. FinalIsFewest'
      <4>1. NotAbove(Cost(Final, wiggleFactor)', Budget(baseline)')
        BY <2>1, <2>5, <3>2 DEF Budget
      <4>2. \A m \in 0..(LargestId(Final') - 1) : OutOfBudget(m)'
        BY <1>4, <2>1, <3>3, <3>4
      <4> QED BY <4>1, <4>2 DEF FinalIsFewest
    <3> QED BY <1>1, <1>4, <2>1, <2>7, <3>5 DEF BestInv
  <2> QED BY <2>6, <2>7
<1> QED BY <1>9, <1>10, <1>11

\* The steps that end the program change nothing the search has decided.
LEMMA EndKeepsBest ==
    ASSUME SearchInv, BestInv, Finish \/ UNCHANGED wiggleVars
    PROVE  BestInv'
<1>1. /\ settings' = settings /\ timestep' = timestep /\ merge' = merge /\ baseline' = baseline
      /\ wiggleFactor' = wiggleFactor /\ maxClusterId' = maxClusterId /\ ith' = ith
      /\ lowestCost' = lowestCost /\ bestWiggle' = bestWiggle
      /\ pc' = pc \/ (pc = "finish" /\ pc' = "done")
  BY DEF Finish, wiggleVars
<1>2. /\ TwoSearches' = TwoSearches /\ Searched' = Searched /\ Grid' = Grid
      /\ \A w : Limited(w)' = Limited(w)
      /\ \A i : Wiggle(i)' = Wiggle(i)
      /\ \A w : MergedAt(w)' = MergedAt(w) /\ CostAt(w)' = CostAt(w)
      /\ BaselineIsBest' = BaselineIsBest
      /\ \A m : OutOfBudget(m)' = OutOfBudget(m)
  BY <1>1, ComparedStays
<1>3. Final' = Final
  BY <1>1 DEF Final, Fresh, ComputeClusterIds, GetCluster, LeastStep
<1>4. FinalIsCheapest' = FinalIsCheapest
  BY <1>1, <1>2, <1>3 DEF FinalIsCheapest
<1>5. FinalIsFewest' = FinalIsFewest
  BY <1>1, <1>2, <1>3 DEF FinalIsFewest
<1>6. AllSeen(ith)' = AllSeen(ith) /\ Recorded' = Recorded
  BY <1>1, <1>2 DEF AllSeen, Recorded
<1>7. Searching' = Searching
  BY <1>1, <1>2, <1>6 DEF Searching
<1> QED BY <1>1, <1>2, <1>4, <1>5, <1>7 DEF BestInv

\* When the maximum difference is enforced during the search, it finds the best
\* wiggle factor of the grid by either measure, although it reuses clusterings,
\* keeps one wiggle factor of each number of clusters and may search twice
\* (LtsWeights.cpp:161-360), for any mesh, costs, rates and budget.
THEOREM SearchFindsTheBest == WiggleSpec => []BestWiggleFactor
<1>1. ASSUME SearchInv, BestInv, [WiggleNext]_wiggleVars PROVE BestInv'
  BY <1>1, ComputeWeightsKeepsBest, ComputeBaselineKeepsBest, EvaluateKeepsBest,
     SearchEndsKeepsBest, EndKeepsBest DEF WiggleNext, Over
<1>2. ASSUME SearchInv, EndInv, BestInv PROVE BestWiggleFactor
  <2>1. SUFFICES ASSUME Searched PROVE NoneIsCheaper /\ NoneNeedsFewerClusters
    BY DEF BestWiggleFactor
  <2>2. pc = "done" => clusterIds = Final
    BY <1>2, <2>1 DEF EndInv, Final, Fresh, Enforced, Searched
  <2>3. NoneIsCheaper
    BY <1>2, <2>1, <2>2 DEF NoneIsCheaper, BestInv, BaselineIsBest, FinalIsCheapest
  <2>4. NoneNeedsFewerClusters
    BY <1>2, <2>1, <2>2 DEF NoneNeedsFewerClusters, BestInv, FinalIsFewest, OutOfBudget
  <2> QED BY <2>3, <2>4
<1> QED BY <1>1, <1>2, SearchInvHolds, BestInit, PTL DEF WiggleSpec

(***************************************************************************)
(* The enforcement of the maximum difference.                              *)
(***************************************************************************)

USE FacesAssumption, RanksAssumption

LEMMA NeighborsAreCells ==
    ASSUME NEW c \in Cells, NEW n \in LocalNeighbors(c) \cup GhostNeighbors(c)
    PROVE  n \in Cells /\ <<c, n>> \in Faces /\ Difference(c, n) \in 0..1
BY DEF LocalNeighbors, GhostNeighbors, Difference

\* The least element of a set is an element and below the others.
LEMMA LeastFacts ==
    ASSUME NEW S, NEW v \in Least(S)
    PROVE  v \in S /\ \A w \in S : v <= w
BY DEF Least

\* Types are preserved.
LEMMA TypeStep ==
    ASSUME DifferenceTypeOK, [DifferenceNext]_differenceVars
    PROVE  DifferenceTypeOK'
<1> USE DEF DifferenceTypeOK, Ids
<1>1. ASSUME NEW c \in Cells, EnforceLocal(c) PROVE DifferenceTypeOK'
  <2>1. PICK fresh \in SUBSET LocalNeighbors(c) :
          \E v \in Least({m_clusterIds[c]} \cup
               {(IF n \in fresh THEN m_clusterIds[n] ELSE before[n]) + Difference(c, n) :
                    n \in LocalNeighbors(c)}) :
             /\ m_clusterIds' = [m_clusterIds EXCEPT ![c] = v]
             /\ reduced' = [reduced EXCEPT ![RankOf[c]] = @ \/ v < m_clusterIds[c]]
    BY <1>1 DEF EnforceLocal
  <2>2. PICK v \in Least({m_clusterIds[c]} \cup
               {(IF n \in fresh THEN m_clusterIds[n] ELSE before[n]) + Difference(c, n) :
                    n \in LocalNeighbors(c)}) :
             /\ m_clusterIds' = [m_clusterIds EXCEPT ![c] = v]
             /\ reduced' = [reduced EXCEPT ![RankOf[c]] = @ \/ v < m_clusterIds[c]]
    BY <2>1
  <2>3. v \in Nat /\ v <= m_clusterIds[c]
    <3>1. /\ v = m_clusterIds[c] \/ \E n \in LocalNeighbors(c) :
                v = (IF n \in fresh THEN m_clusterIds[n] ELSE before[n]) + Difference(c, n)
          /\ v <= m_clusterIds[c]
      BY LeastFacts
    <3>2. \A n \in LocalNeighbors(c) : n \in Cells /\ Difference(c, n) \in 0..1
      BY NeighborsAreCells
    <3> QED BY <3>1, <3>2
  <2>4. v \in 0..MaxClusterId
    BY <2>3
  <2>5. m_clusterIds' \in [Cells -> 0..MaxClusterId]
    BY <2>2, <2>4
  <2>6. reduced' \in [Ranks -> BOOLEAN]
    BY <2>2
  <2> QED BY <1>1, <2>5, <2>6 DEF EnforceLocal
<1>2. ASSUME NEW r \in Ranks, Send(r) PROVE DifferenceTypeOK'
  <2>1. copy' \in [Cells -> 0..MaxClusterId]
    BY <1>2 DEF Send
  <2>2. phase' \in [Ranks -> {"local", "exchange", "reduce", "done"}]
    BY <1>2 DEF Send
  <2> QED BY <1>2, <2>1, <2>2 DEF Send
<1>3. ASSUME NEW r \in Ranks, EnforceGhost(r) PROVE DifferenceTypeOK'
  <2>1. PICK new \in [CellsOf(r) -> 0..MaxClusterId] :
          /\ m_clusterIds' = [c \in Cells |-> IF RankOf[c] = r THEN new[c] ELSE m_clusterIds[c]]
          /\ reduced' = [reduced EXCEPT ![r] = @ \/ \E c \in CellsOf(r) : new[c] < m_clusterIds[c]]
    BY <1>3 DEF EnforceGhost
  <2>2. m_clusterIds' \in [Cells -> 0..MaxClusterId]
    BY <2>1 DEF CellsOf
  <2>3. reduced' \in [Ranks -> BOOLEAN]
    BY <2>1
  <2>4. phase' \in [Ranks -> {"local", "exchange", "reduce", "done"}]
    BY <1>3 DEF EnforceGhost
  <2> QED BY <1>3, <2>2, <2>3, <2>4 DEF EnforceGhost
<1>4. CASE Allreduce
  BY <1>4 DEF Allreduce, NoReductions
<1>5. CASE UNCHANGED differenceVars
  BY <1>5 DEF differenceVars
<1> QED BY <1>1, <1>2, <1>3, <1>4, <1>5 DEF DifferenceNext, Returned

\* What a rank reads and writes, of each cell: at most what it had, and at most
\* the difference above what some id of each neighbour, old or new, allows.
LEMMA LocalLowers ==
    ASSUME DifferenceTypeOK, NEW c \in Cells, EnforceLocal(c), Below(m_clusterIds, before)
    PROVE  /\ \A d \in Cells \ {c} : m_clusterIds'[d] = m_clusterIds[d]
           /\ m_clusterIds'[c] \in Nat /\ m_clusterIds'[c] <= m_clusterIds[c]
           /\ \A n \in LocalNeighbors(c) : m_clusterIds'[c] <= before[n] + Difference(c, n)
           /\ \/ m_clusterIds'[c] = m_clusterIds[c]
              \/ \E n \in LocalNeighbors(c) : \/ m_clusterIds'[c] = m_clusterIds[n] + Difference(c, n)
                                              \/ m_clusterIds'[c] = before[n] + Difference(c, n)
           /\ reduced'[RankOf[c]] = FALSE =>
                  reduced[RankOf[c]] = FALSE /\ m_clusterIds'[c] = m_clusterIds[c]
           /\ \A r \in Ranks : r # RankOf[c] => reduced'[r] = reduced[r]
<1> USE DEF DifferenceTypeOK, Ids
<1>1. PICK fresh \in SUBSET LocalNeighbors(c) :
        \E v \in Least({m_clusterIds[c]} \cup
             {(IF n \in fresh THEN m_clusterIds[n] ELSE before[n]) + Difference(c, n) :
                  n \in LocalNeighbors(c)}) :
           /\ m_clusterIds' = [m_clusterIds EXCEPT ![c] = v]
           /\ reduced' = [reduced EXCEPT ![RankOf[c]] = @ \/ v < m_clusterIds[c]]
  BY DEF EnforceLocal
<1> DEFINE read(n) == IF n \in fresh THEN m_clusterIds[n] ELSE before[n]
<1>2. PICK v :
           /\ v \in Least({m_clusterIds[c]} \cup
                {read(n) + Difference(c, n) : n \in LocalNeighbors(c)})
           /\ m_clusterIds' = [m_clusterIds EXCEPT ![c] = v]
           /\ reduced' = [reduced EXCEPT ![RankOf[c]] = @ \/ v < m_clusterIds[c]]
  BY <1>1
<1>3. \A n \in LocalNeighbors(c) : n \in Cells /\ Difference(c, n) \in 0..1
  BY NeighborsAreCells
<1>4. \A n \in LocalNeighbors(c) : read(n) \in Nat /\ read(n) <= before[n]
  <2>1. \A n \in Cells : m_clusterIds[n] \in Nat /\ before[n] \in Nat /\ m_clusterIds[n] <= before[n]
    BY DEF Below
  <2>2. ASSUME NEW n \in LocalNeighbors(c)
        PROVE  read(n) \in Nat /\ read(n) <= before[n]
    <3>1. CASE n \in fresh
      BY <1>3, <2>1, <3>1
    <3>2. CASE n \notin fresh
      BY <1>3, <2>1, <3>2
    <3> QED BY <3>1, <3>2
  <2> QED BY <2>2
<1>5. /\ v = m_clusterIds[c] \/ \E n \in LocalNeighbors(c) : v = read(n) + Difference(c, n)
      /\ v <= m_clusterIds[c]
      /\ \A n \in LocalNeighbors(c) : v <= read(n) + Difference(c, n)
  BY <1>2, LeastFacts
<1>6. v \in Nat
  BY <1>3, <1>4, <1>5
<1>7. m_clusterIds'[c] = v
  BY <1>2
<1>8. \A n \in LocalNeighbors(c) : v <= before[n] + Difference(c, n)
  BY <1>3, <1>4, <1>5, <1>6
<1>9. reduced'[RankOf[c]] = (reduced[RankOf[c]] \/ v < m_clusterIds[c])
  BY <1>2
<1>10. ASSUME reduced'[RankOf[c]] = FALSE
       PROVE  reduced[RankOf[c]] = FALSE /\ v = m_clusterIds[c]
  <2>1. reduced[RankOf[c]] \in BOOLEAN
    OBVIOUS
  <2>2. reduced[RankOf[c]] = FALSE /\ ~(v < m_clusterIds[c])
    BY <1>9, <1>10, <2>1, Zenon
  <2> QED BY <2>2, <1>5, <1>6
<1>11. \A r \in Ranks : r # RankOf[c] => reduced'[r] = reduced[r]
  BY <1>2
<1>12. \/ v = m_clusterIds[c]
       \/ \E n \in LocalNeighbors(c) : \/ v = m_clusterIds[n] + Difference(c, n)
                                       \/ v = before[n] + Difference(c, n)
  BY <1>5
<1>13. \A d \in Cells \ {c} : m_clusterIds'[d] = m_clusterIds[d]
  BY <1>2
<1> QED BY <1>5, <1>6, <1>7, <1>8, <1>10, <1>11, <1>12, <1>13

LEMMA GhostLowers ==
    ASSUME DifferenceTypeOK, NEW r \in Ranks, EnforceGhost(r)
    PROVE  /\ \A d \in Cells : RankOf[d] # r => m_clusterIds'[d] = m_clusterIds[d]
           /\ \A c \in CellsOf(r) :
                /\ m_clusterIds'[c] \in Nat /\ m_clusterIds'[c] <= m_clusterIds[c]
                /\ \A n \in GhostNeighbors(c) : m_clusterIds'[c] <= copy[n] + Difference(c, n)
                /\ \/ m_clusterIds'[c] = m_clusterIds[c]
                   \/ \E n \in GhostNeighbors(c) : m_clusterIds'[c] = copy[n] + Difference(c, n)
           /\ reduced'[r] = FALSE =>
                  reduced[r] = FALSE /\ \A c \in CellsOf(r) : m_clusterIds'[c] = m_clusterIds[c]
           /\ \A q \in Ranks : q # r => reduced'[q] = reduced[q]
<1> USE DEF DifferenceTypeOK, Ids
<1>1. PICK new \in [CellsOf(r) -> 0..MaxClusterId] :
        /\ \A c \in CellsOf(r) :
               new[c] \in Least({m_clusterIds[c]} \cup
                             {copy[n] + Difference(c, n) : n \in GhostNeighbors(c)})
        /\ m_clusterIds' = [c \in Cells |-> IF RankOf[c] = r THEN new[c] ELSE m_clusterIds[c]]
        /\ reduced' = [reduced EXCEPT ![r] = @ \/ \E c \in CellsOf(r) : new[c] < m_clusterIds[c]]
  BY DEF EnforceGhost
<1>2. \A c \in CellsOf(r) : c \in Cells /\ m_clusterIds'[c] = new[c]
  BY <1>1 DEF CellsOf
<1>3. ASSUME NEW c \in CellsOf(r)
      PROVE  /\ new[c] \in Nat /\ new[c] <= m_clusterIds[c]
             /\ \A n \in GhostNeighbors(c) : new[c] <= copy[n] + Difference(c, n)
             /\ \/ new[c] = m_clusterIds[c]
                \/ \E n \in GhostNeighbors(c) : new[c] = copy[n] + Difference(c, n)
  <2>1. new[c] \in Least({m_clusterIds[c]} \cup
                      {copy[n] + Difference(c, n) : n \in GhostNeighbors(c)})
    BY <1>1
  <2>2. new[c] \in Nat
    BY <1>1
  <2> QED BY <2>1, <2>2, LeastFacts
<1>4. reduced'[r] = (reduced[r] \/ \E c \in CellsOf(r) : new[c] < m_clusterIds[c])
  BY <1>1
<1>5. ASSUME reduced'[r] = FALSE
      PROVE  reduced[r] = FALSE /\ \A c \in CellsOf(r) : new[c] = m_clusterIds[c]
  <2>1. reduced[r] \in BOOLEAN
    OBVIOUS
  <2>2. reduced[r] = FALSE /\ \A c \in CellsOf(r) : ~(new[c] < m_clusterIds[c])
    BY <1>4, <1>5, <2>1, Zenon
  <2>3. \A c \in CellsOf(r) : m_clusterIds[c] \in Nat
    BY <1>2
  <2> QED BY <2>2, <2>3, <1>3
<1>6. \A q \in Ranks : q # r => reduced'[q] = reduced[q]
  BY <1>1
<1>7. \A d \in Cells : RankOf[d] # r => m_clusterIds'[d] = m_clusterIds[d]
  BY <1>1
<1>8. ASSUME NEW c \in CellsOf(r)
      PROVE  /\ m_clusterIds'[c] \in Nat /\ m_clusterIds'[c] <= m_clusterIds[c]
             /\ \A n \in GhostNeighbors(c) : m_clusterIds'[c] <= copy[n] + Difference(c, n)
             /\ \/ m_clusterIds'[c] = m_clusterIds[c]
                \/ \E n \in GhostNeighbors(c) : m_clusterIds'[c] = copy[n] + Difference(c, n)
  <2>1. m_clusterIds'[c] = new[c]
    BY <1>2
  <2> QED BY <1>3, <2>1, Zenon
<1>9. reduced'[r] = FALSE =>
          reduced[r] = FALSE /\ \A c \in CellsOf(r) : m_clusterIds'[c] = m_clusterIds[c]
  BY <1>2, <1>5, Zenon
<1> QED BY <1>6, <1>7, <1>8, <1>9, Zenon

----------------------------------------------------------------------------

\* Whatever admissible ids are below the initial ones are below all that the
\* threads and ranks read.
LowerInv ==
    /\ \A ids \in AdmissibleIds : Below(ids, initial) =>
           Below(ids, m_clusterIds) /\ Below(ids, before) /\ Below(ids, copy)
    /\ Below(m_clusterIds, initial)
    /\ Below(m_clusterIds, before)

LEMMA LowerStep ==
    ASSUME DifferenceTypeOK, DifferenceTypeOK', LowerInv, [DifferenceNext]_differenceVars
    PROVE  LowerInv'
<1> USE DEF DifferenceTypeOK, Ids
<1>1. ASSUME NEW c \in Cells, EnforceLocal(c) PROVE LowerInv'
  <2>1. /\ \A d \in Cells \ {c} : m_clusterIds'[d] = m_clusterIds[d]
        /\ m_clusterIds'[c] \in Nat /\ m_clusterIds'[c] <= m_clusterIds[c]
        /\ \/ m_clusterIds'[c] = m_clusterIds[c]
           \/ \E n \in LocalNeighbors(c) : \/ m_clusterIds'[c] = m_clusterIds[n] + Difference(c, n)
                                           \/ m_clusterIds'[c] = before[n] + Difference(c, n)
    BY <1>1, LocalLowers DEF LowerInv
  <2>2. UNCHANGED <<initial, before, copy>>
    BY <1>1 DEF EnforceLocal
  <2>3. Below(m_clusterIds', initial) /\ Below(m_clusterIds', before)
    BY <2>1 DEF LowerInv, Below
  <2>4. ASSUME NEW ids \in AdmissibleIds, Below(ids, initial)
        PROVE  Below(ids, m_clusterIds')
    <3>1. ids \in Ids /\ Below(ids, m_clusterIds) /\ Below(ids, before)
      BY <2>4 DEF LowerInv, AdmissibleIds
    <3>2. \A n \in LocalNeighbors(c) : n \in Cells /\ ids[c] <= ids[n] + Difference(c, n)
      BY DEF AdmissibleIds, Admissible, LocalNeighbors, Difference
    <3>3. \A n \in LocalNeighbors(c) : /\ ids[c] <= m_clusterIds[n] + Difference(c, n)
                                       /\ ids[c] <= before[n] + Difference(c, n)
      BY <3>1, <3>2 DEF Below, Difference
    <3>4. ids[c] <= m_clusterIds'[c]
      BY <2>1, <3>1, <3>3 DEF Below
    <3> QED BY <2>1, <3>1, <3>4 DEF Below
  <2> QED BY <2>2, <2>3, <2>4 DEF LowerInv
<1>2. ASSUME NEW r \in Ranks, Send(r) PROVE LowerInv'
  <2>1. UNCHANGED <<m_clusterIds, initial, before>>
    BY <1>2 DEF Send
  <2>2. \A c \in Cells : copy'[c] = m_clusterIds[c] \/ copy'[c] = copy[c]
    BY <1>2 DEF Send
  <2>3. \A ids \in AdmissibleIds : Below(ids, initial) => Below(ids, copy')
    BY <2>2 DEF LowerInv, Below
  <2> QED BY <2>1, <2>3 DEF LowerInv
<1>3. ASSUME NEW r \in Ranks, EnforceGhost(r) PROVE LowerInv'
  <2>1. /\ \A d \in Cells : RankOf[d] # r => m_clusterIds'[d] = m_clusterIds[d]
        /\ \A c \in CellsOf(r) :
             /\ m_clusterIds'[c] \in Nat /\ m_clusterIds'[c] <= m_clusterIds[c]
             /\ \/ m_clusterIds'[c] = m_clusterIds[c]
                \/ \E n \in GhostNeighbors(c) : m_clusterIds'[c] = copy[n] + Difference(c, n)
    BY <1>3, GhostLowers
  <2>2. UNCHANGED <<initial, before, copy>>
    BY <1>3 DEF EnforceGhost
  <2>3. \A c \in Cells : m_clusterIds'[c] \in Nat /\ m_clusterIds'[c] <= m_clusterIds[c]
    BY <2>1 DEF CellsOf
  <2>4. Below(m_clusterIds', initial) /\ Below(m_clusterIds', before)
    BY <2>3 DEF LowerInv, Below
  <2>5. ASSUME NEW ids \in AdmissibleIds, Below(ids, initial), NEW c \in Cells
        PROVE  ids[c] <= m_clusterIds'[c]
    <3>1. ids \in Ids /\ Below(ids, m_clusterIds) /\ Below(ids, copy)
      BY <2>5 DEF LowerInv, AdmissibleIds
    <3>2. \A n \in GhostNeighbors(c) : n \in Cells /\ ids[c] <= ids[n] + Difference(c, n)
      BY DEF AdmissibleIds, Admissible, GhostNeighbors, Difference
    <3>3. \A n \in GhostNeighbors(c) : ids[c] <= copy[n] + Difference(c, n)
      BY <3>1, <3>2 DEF Below, Difference
    <3> QED BY <2>1, <3>1, <3>3 DEF Below, CellsOf
  <2> QED BY <2>2, <2>4, <2>5 DEF LowerInv, Below
<1>4. CASE Allreduce
  BY <1>4 DEF Allreduce, LowerInv, Below
<1>5. CASE UNCHANGED differenceVars
  BY <1>5 DEF differenceVars, LowerInv
<1> QED BY <1>1, <1>2, <1>3, <1>4, <1>5 DEF DifferenceNext, Returned

\* Types of the enforcement.
THEOREM DifferenceTypesHold == DifferenceSpec => []DifferenceTypeOK
<1>1. DifferenceInit => DifferenceTypeOK
  BY DEF DifferenceInit, DifferenceTypeOK, Ids
<1>2. DifferenceTypeOK /\ [DifferenceNext]_differenceVars => DifferenceTypeOK'
  BY TypeStep
<1> QED BY <1>1, <1>2, PTL DEF DifferenceSpec

\* No cell is lowered below an admissible clustering, for every mesh and any order
\* of reads (LtsWeights.cpp:548-651).
THEOREM NoCellIsLoweredTooFar == DifferenceSpec => []NothingLoweredTooFar
<1>1. DifferenceInit => LowerInv
  BY DEF DifferenceInit, LowerInv, Below, Ids
<1>2. DifferenceTypeOK /\ DifferenceTypeOK' /\ LowerInv /\ [DifferenceNext]_differenceVars => LowerInv'
  BY LowerStep
<1>3. LowerInv => NothingLoweredTooFar
  BY DEF LowerInv, NothingLoweredTooFar
<1> QED BY <1>1, <1>2, <1>3, DifferenceTypesHold, PTL DEF DifferenceSpec

----------------------------------------------------------------------------

\* Within a round: a rank without reductions still has the ids of its begin, and
\* what a loop has finished fits to the ids its neighbours had at the begin.
RoundInv ==
    /\ Below(m_clusterIds, before)
    /\ \A c \in Cells : reduced[RankOf[c]] = FALSE => m_clusterIds[c] = before[c]
    /\ \A c \in Cells \ todo : \A n \in LocalNeighbors(c) : m_clusterIds[c] <= before[n] + Difference(c, n)
    /\ \A c \in Cells : phase[RankOf[c]] \in {"exchange", "reduce"} => c \notin todo /\ copy[c] <= before[c]
    /\ \A c \in Cells : phase[RankOf[c]] = "reduce" =>
           \A n \in GhostNeighbors(c) : m_clusterIds[c] <= before[n] + Difference(c, n)
    /\ \A r, q \in Ranks : phase[r] = "done" => phase[q] = "done"

\* Without a reduction the ids at the end of the round are admissible.
LEMMA NoReductionsMeansAdmissible ==
    ASSUME DifferenceTypeOK, RoundInv, Allreduce, ~GlobalReductions
    PROVE  Admissible(m_clusterIds)
<1> USE DEF DifferenceTypeOK, Ids
<1>1. \A r \in Ranks : phase[r] = "reduce"
  BY DEF Allreduce
<1>2. \A r \in Ranks : reduced[r] = FALSE
  BY DEF GlobalReductions
<1>3. \A c \in Cells : m_clusterIds[c] = before[c] /\ c \notin todo
  BY <1>1, <1>2 DEF RoundInv
<1>4. ASSUME NEW f \in Faces
      PROVE  m_clusterIds[f[1]] <= m_clusterIds[f[2]] + (IF f \in DynamicRupture THEN 0 ELSE 1)
  <2>1. f[1] \in Cells /\ f[2] \in Cells /\ f = <<f[1], f[2]>>
    OBVIOUS
  <2>2. f[2] \in LocalNeighbors(f[1]) \/ f[2] \in GhostNeighbors(f[1])
    BY <2>1 DEF LocalNeighbors, GhostNeighbors
  <2>3. m_clusterIds[f[1]] <= before[f[2]] + Difference(f[1], f[2])
    BY <1>1, <1>3, <2>1, <2>2 DEF RoundInv
  <2> QED BY <1>3, <2>1, <2>3 DEF Difference
<1> QED BY <1>4 DEF Admissible

LEMMA RoundStep ==
    ASSUME DifferenceTypeOK, DifferenceTypeOK', RoundInv, ReturnsAdmissible,
           [DifferenceNext]_differenceVars
    PROVE  RoundInv' /\ ReturnsAdmissible'
<1> USE DEF DifferenceTypeOK, Ids
<1>1. ASSUME NEW c \in Cells, EnforceLocal(c) PROVE RoundInv' /\ ReturnsAdmissible'
  <2>1. /\ \A d \in Cells \ {c} : m_clusterIds'[d] = m_clusterIds[d]
        /\ m_clusterIds'[c] \in Nat /\ m_clusterIds'[c] <= m_clusterIds[c]
        /\ \A n \in LocalNeighbors(c) : m_clusterIds'[c] <= before[n] + Difference(c, n)
        /\ reduced'[RankOf[c]] = FALSE =>
               reduced[RankOf[c]] = FALSE /\ m_clusterIds'[c] = m_clusterIds[c]
        /\ \A r \in Ranks : r # RankOf[c] => reduced'[r] = reduced[r]
    BY <1>1, LocalLowers DEF RoundInv
  <2>2. UNCHANGED <<before, copy, phase>> /\ todo' = todo \ {c} /\ phase[RankOf[c]] = "local"
    BY <1>1 DEF EnforceLocal
  <2>3. \A d \in Cells : m_clusterIds'[d] \in Nat /\ m_clusterIds'[d] <= m_clusterIds[d]
    BY <2>1
  <2>4. Below(m_clusterIds', before)
    BY <2>3 DEF RoundInv, Below
  <2>5. ASSUME NEW d \in Cells, reduced'[RankOf[d]] = FALSE
        PROVE  m_clusterIds'[d] = before[d]
    <3>1. RankOf[d] \in Ranks
      OBVIOUS
    <3>2. reduced[RankOf[d]] = FALSE
      BY <2>1, <2>5, <3>1
    <3>3. m_clusterIds[d] = before[d]
      BY <3>2 DEF RoundInv
    <3>4. m_clusterIds'[d] = m_clusterIds[d]
      BY <2>1, <2>5
    <3> QED BY <3>3, <3>4
  <2>6. ASSUME NEW d \in Cells \ todo', NEW n \in LocalNeighbors(d)
        PROVE  m_clusterIds'[d] <= before[n] + Difference(d, n)
    BY <2>1, <2>2, <2>6 DEF RoundInv
  <2>7. \A d \in Cells : phase'[RankOf[d]] \in {"exchange", "reduce"} => d \notin todo' /\ copy'[d] <= before'[d]
    BY <2>2 DEF RoundInv
  <2>8. ASSUME NEW d \in Cells, phase'[RankOf[d]] = "reduce", NEW n \in GhostNeighbors(d)
        PROVE  m_clusterIds'[d] <= before[n] + Difference(d, n)
    <3>1. m_clusterIds[d] <= before[n] + Difference(d, n)
      BY <2>2, <2>8 DEF RoundInv
    <3> QED BY <3>1, <2>1, <2>2, <2>8
  <2>9. \A r, q \in Ranks : phase'[r] = "done" => phase'[q] = "done"
    BY <2>2 DEF RoundInv
  <2>10. \A r \in Ranks : phase'[r] # "done"
    BY <2>2 DEF RoundInv
  <2>11. RoundInv'
    BY <2>2, <2>4, <2>5, <2>6, <2>7, <2>8, <2>9 DEF RoundInv, LocalNeighbors, GhostNeighbors, Difference
  <2> QED BY <2>10, <2>11 DEF ReturnsAdmissible
<1>2. ASSUME NEW r \in Ranks, Send(r) PROVE RoundInv' /\ ReturnsAdmissible'
  <2>1. /\ UNCHANGED <<m_clusterIds, before, todo, reduced>>
        /\ phase[r] = "local" /\ phase' = [phase EXCEPT ![r] = "exchange"]
        /\ \A c \in CellsOf(r) : c \notin todo
        /\ \A c \in Cells : copy'[c] = IF RankOf[c] = r THEN m_clusterIds[c] ELSE copy[c]
    BY <1>2 DEF Send
  <2>2. \A c \in Cells : phase'[RankOf[c]] \in {"exchange", "reduce"} => c \notin todo /\ copy'[c] <= before[c]
    BY <2>1 DEF RoundInv, Below, CellsOf
  <2>3. \A c \in Cells : phase'[RankOf[c]] = "reduce" => phase[RankOf[c]] = "reduce"
    BY <2>1
  <2>4. \A q \in Ranks : phase'[q] # "done"
    BY <2>1 DEF RoundInv
  <2>5. RoundInv'
    BY <2>1, <2>2, <2>3, <2>4 DEF RoundInv, LocalNeighbors, GhostNeighbors, Difference
  <2> QED BY <2>4, <2>5 DEF ReturnsAdmissible
<1>3. ASSUME NEW r \in Ranks, EnforceGhost(r) PROVE RoundInv' /\ ReturnsAdmissible'
  <2>1. /\ \A d \in Cells : RankOf[d] # r => m_clusterIds'[d] = m_clusterIds[d]
        /\ \A c \in CellsOf(r) :
             /\ m_clusterIds'[c] \in Nat /\ m_clusterIds'[c] <= m_clusterIds[c]
             /\ \A n \in GhostNeighbors(c) : m_clusterIds'[c] <= copy[n] + Difference(c, n)
        /\ reduced'[r] = FALSE =>
               reduced[r] = FALSE /\ \A c \in CellsOf(r) : m_clusterIds'[c] = m_clusterIds[c]
        /\ \A q \in Ranks : q # r => reduced'[q] = reduced[q]
    BY <1>3, GhostLowers
  <2>2. /\ UNCHANGED <<before, copy, todo>>
        /\ phase[r] = "exchange" /\ phase' = [phase EXCEPT ![r] = "reduce"]
        /\ \A c \in CellsOf(r) : \A n \in GhostNeighbors(c) : phase[RankOf[n]] # "local"
    BY <1>3 DEF EnforceGhost
  <2>3. \A d \in Cells : m_clusterIds'[d] \in Nat /\ m_clusterIds'[d] <= m_clusterIds[d]
    BY <2>1 DEF CellsOf
  <2>4. \A q \in Ranks : phase[q] # "done" /\ phase'[q] # "done"
    BY <2>2 DEF RoundInv
  <2>5. ASSUME NEW d \in Cells, reduced'[RankOf[d]] = FALSE
        PROVE  m_clusterIds'[d] = before[d]
    <3>1. RankOf[d] \in Ranks
      OBVIOUS
    <3>2. reduced[RankOf[d]] = FALSE
      BY <2>1, <2>5, <3>1
    <3>3. m_clusterIds[d] = before[d]
      BY <3>2 DEF RoundInv
    <3>4. m_clusterIds'[d] = m_clusterIds[d]
      BY <2>1, <2>5 DEF CellsOf
    <3> QED BY <3>3, <3>4
  <2>6. ASSUME NEW d \in Cells \ todo, NEW n \in LocalNeighbors(d)
        PROVE  m_clusterIds'[d] <= before[n] + Difference(d, n)
    <3>1. m_clusterIds[d] <= before[n] + Difference(d, n)
      BY <2>6 DEF RoundInv
    <3>2. n \in Cells /\ Difference(d, n) \in 0..1
      BY NeighborsAreCells
    <3> QED BY <2>3, <3>1, <3>2
  <2>7. \A d \in Cells : phase'[RankOf[d]] \in {"exchange", "reduce"} => d \notin todo /\ copy[d] <= before[d]
    BY <2>2 DEF RoundInv
  <2>8. ASSUME NEW d \in Cells, phase'[RankOf[d]] = "reduce", NEW n \in GhostNeighbors(d)
        PROVE  m_clusterIds'[d] <= before[n] + Difference(d, n)
    <3>1. n \in Cells /\ Difference(d, n) \in 0..1
      BY NeighborsAreCells
    <3>2. CASE RankOf[d] = r
      <4>1. phase[RankOf[n]] \in {"exchange", "reduce"}
        BY <2>2, <2>4, <3>1, <3>2 DEF CellsOf
      <4>2. copy[n] <= before[n]
        BY <3>1, <4>1 DEF RoundInv
      <4>3. m_clusterIds'[d] <= copy[n] + Difference(d, n)
        BY <2>1, <3>2 DEF CellsOf
      <4> QED BY <2>3, <3>1, <4>2, <4>3
    <3>3. CASE RankOf[d] # r
      <4>1. m_clusterIds[d] <= before[n] + Difference(d, n)
        BY <2>2, <2>8, <3>3 DEF RoundInv
      <4> QED BY <2>1, <3>3, <4>1
    <3> QED BY <3>2, <3>3
  <2>9. Below(m_clusterIds', before)
    BY <2>3 DEF RoundInv, Below
  <2>10. RoundInv'
    BY <2>2, <2>4, <2>5, <2>6, <2>7, <2>8, <2>9 DEF RoundInv, LocalNeighbors, GhostNeighbors, Difference
  <2> QED BY <2>4, <2>10 DEF ReturnsAdmissible
<1>4. CASE Allreduce
  <2>1. UNCHANGED m_clusterIds /\ before' = m_clusterIds /\ Ranks # {}
    BY <1>4 DEF Allreduce
  <2>2. CASE GlobalReductions
    <3>1. todo' = Cells /\ \A r \in Ranks : phase'[r] = "local"
      BY <1>4, <2>2 DEF Allreduce
    <3> QED BY <2>1, <3>1 DEF RoundInv, ReturnsAdmissible, Below
  <2>3. CASE ~GlobalReductions
    <3>1. todo' = {} /\ \A r \in Ranks : phase'[r] = "done"
      BY <1>4, <2>3 DEF Allreduce
    <3>2. Admissible(m_clusterIds)
      BY <1>4, <2>3, NoReductionsMeansAdmissible
    <3>3. ASSUME NEW c \in Cells, NEW n \in LocalNeighbors(c)
          PROVE  m_clusterIds[c] <= m_clusterIds[n] + Difference(c, n)
      BY <3>2, NeighborsAreCells DEF Admissible, Difference
    <3> QED BY <2>1, <3>1, <3>2, <3>3 DEF RoundInv, ReturnsAdmissible, Below, LocalNeighbors, Difference
  <2> QED BY <2>2, <2>3
<1>5. CASE UNCHANGED differenceVars
  BY <1>5 DEF differenceVars, RoundInv, ReturnsAdmissible
<1> QED BY <1>1, <1>2, <1>3, <1>4, <1>5 DEF DifferenceNext, Returned

\* When enforceMaximumDifference returns, the ids are admissible, for every mesh
\* and any order of reads (LtsWeights.cpp:486-501).
THEOREM ReturnedIdsAreAdmissible == DifferenceSpec => []ReturnsAdmissible
<1>1. DifferenceInit => RoundInv /\ ReturnsAdmissible
  BY DEF DifferenceInit, RoundInv, ReturnsAdmissible, Below, Ids
<1>2. /\ DifferenceTypeOK /\ DifferenceTypeOK' /\ RoundInv /\ ReturnsAdmissible
      /\ [DifferenceNext]_differenceVars
      => RoundInv' /\ ReturnsAdmissible'
  BY RoundStep
<1> QED BY <1>1, <1>2, DifferenceTypesHold, PTL DEF DifferenceSpec

=============================================================================
