------------------------- MODULE Percentiles_proofs -------------------------
(***************************************************************************)
(* The indices of Percentiles, for series of every length: `values[index]` *)
(* never panics, the percentiles of a row are in order, and the index is   *)
(* the one nearest to the quantile.  The rank among recorded latencies     *)
(* exists in every histogram that is not empty, and its quantiles are      *)
(* recorded latencies, in order.                                           *)
(*                                                                         *)
(* Sums over finite sets are folds, and what they are is shown by the      *)
(* least number principle: no backend can instantiate an induction schema. *)
(***************************************************************************)
EXTENDS Percentiles, FiniteSetTheorems, WellFoundedInduction, TLAPS

(* A quantile, in thousandths. *)
PerMille == 0 .. 1000

(* A quotient, as the greatest number whose product does not exceed the     *)
(* dividend.                                                                *)
LEMMA Quotient ==
  ASSUME NEW a \in Nat, NEW d \in Nat \ {0}
  PROVE  /\ a \div d \in Nat
         /\ d * (a \div d) <= a /\ a < d * (a \div d) + d
  BY Z3

LEMMA Products == \A a, b \in Nat : a * b \in Nat
  OBVIOUS

(* `summarize_values` and `distribution_from_values` index a series that is *)
(* not empty within its bounds, however short it is.                        *)
THEOREM PercentileInBounds ==
  ASSUME NEW k \in PerMille, NEW n \in Nat \ {0}
  PROVE  PercentileIndex(k, n) \in 0 .. (n - 1)
<1> USE DEF PerMille
<1> DEFINE i == PercentileIndex(k, n)
           p == k * (n - 1)
<1>1. p \in Nat /\ p <= 1000 * (n - 1)
  <2>1. p \in Nat
    OBVIOUS
  <2>2. (1000 - k) * (n - 1) >= 0
    OBVIOUS
  <2> QED BY <2>1, <2>2
<1>2. i = (2 * p + 1000) \div 2000
  BY DEF PercentileIndex
<1>3. i \in Nat /\ 2000 * i <= 2 * p + 1000
  BY <1>1, <1>2, Quotient, 2 * p + 1000 \in Nat, 2000 \in Nat \ {0}
<1> HIDE DEF i, p
<1>4. i <= n - 1
  BY <1>1, <1>3
<1> QED BY <1>3, <1>4 DEF i

(* A higher quantile never has the lower index.                             *)
THEOREM PercentileMonotone ==
  ASSUME NEW k \in PerMille, NEW m \in PerMille, NEW n \in Nat \ {0}, k <= m
  PROVE  PercentileIndex(k, n) <= PercentileIndex(m, n)
<1> USE DEF PerMille
<1> DEFINE i == PercentileIndex(k, n)
           j == PercentileIndex(m, n)
           p == k * (n - 1)
           q == m * (n - 1)
<1>1. p \in Nat /\ q \in Nat /\ p <= q
  <2>1. p \in Nat /\ q \in Nat
    OBVIOUS
  <2>2. m - k \in Nat /\ n - 1 \in Nat
    OBVIOUS
  <2>3. (m - k) * (n - 1) \in Nat
    <3>1. PICK a \in Nat, b \in Nat : a = m - k /\ b = n - 1
      BY <2>2
    <3>2. a * b \in Nat
      BY Products
    <3> QED BY <3>1, <3>2
  <2>4. (m - k) * (n - 1) = q - p
    OBVIOUS
  <2> QED BY <2>1, <2>3, <2>4
<1>2. i = (2 * p + 1000) \div 2000 /\ j = (2 * q + 1000) \div 2000
  BY DEF PercentileIndex
<1>3. i \in Nat /\ 2000 * i <= 2 * p + 1000
  BY <1>1, <1>2, Quotient, 2 * p + 1000 \in Nat, 2000 \in Nat \ {0}
<1>4. j \in Nat /\ 2 * q + 1000 < 2000 * j + 2000
  BY <1>1, <1>2, Quotient, 2 * q + 1000 \in Nat, 2000 \in Nat \ {0}
<1> HIDE DEF i, j, p, q
<1>5. i <= j
  BY <1>1, <1>3, <1>4
<1> QED BY <1>5 DEF i, j

(* The index is the quantile's position among the n - 1 gaps, rounded: it   *)
(* is off by half a position at most.                                       *)
THEOREM PercentileNearest ==
  ASSUME NEW k \in PerMille, NEW n \in Nat \ {0}
  PROVE  /\ 2000 * PercentileIndex(k, n) <= 2 * (k * (n - 1)) + 1000
         /\ 2 * (k * (n - 1)) < 2000 * PercentileIndex(k, n) + 1000
<1> USE DEF PerMille
<1> DEFINE i == PercentileIndex(k, n)
           p == k * (n - 1)
<1>1. p \in Nat
  OBVIOUS
<1>2. i = (2 * p + 1000) \div 2000
  BY DEF PercentileIndex
<1>3. i \in Nat /\ 2000 * i <= 2 * p + 1000 /\ 2 * p + 1000 < 2000 * i + 2000
  BY <1>1, <1>2, Quotient, 2 * p + 1000 \in Nat, 2000 \in Nat \ {0}
<1> HIDE DEF i, p
<1>4. 2000 * i <= 2 * p + 1000 /\ 2 * p < 2000 * i + 1000
  BY <1>1, <1>3
<1> QED BY <1>4 DEF i, p

(* In a series that is sorted the percentiles are in order: `validate_ordered` *)
(* accepts what `summarize_values` computes, for series of every length.    *)
THEOREM PercentilesOrdered ==
  ASSUME NEW values \in Seq(Nat), values # <<>>,
         \A i, j \in 1 .. Len(values) : i <= j => values[i] <= values[j],
         NEW k \in PerMille, NEW m \in PerMille, k <= m
  PROVE  /\ values[1] <= values[PercentileIndex(k, Len(values)) + 1]
         /\ values[PercentileIndex(k, Len(values)) + 1]
              <= values[PercentileIndex(m, Len(values)) + 1]
         /\ values[PercentileIndex(m, Len(values)) + 1] <= values[Len(values)]
<1>1. PICK n \in Nat \ {0} : n = Len(values)
  OBVIOUS
<1>2. /\ PercentileIndex(k, n) \in 0 .. (n - 1)
      /\ PercentileIndex(m, n) \in 0 .. (n - 1)
  BY PercentileInBounds, Zenon
<1>3. PercentileIndex(k, n) <= PercentileIndex(m, n)
  BY PercentileMonotone, Zenon
<1>4. PICK low \in 0 .. (n - 1), high \in 0 .. (n - 1) :
        /\ low = PercentileIndex(k, n) /\ high = PercentileIndex(m, n)
        /\ low <= high
  BY <1>2, <1>3, Zenon
<1>5. /\ low + 1 \in 1 .. n /\ high + 1 \in 1 .. n /\ 1 \in 1 .. n /\ n \in 1 .. n
      /\ 1 <= low + 1 /\ low + 1 <= high + 1 /\ high + 1 <= n
  BY <1>4
<1>6. \A a, b \in 1 .. n : a <= b => values[a] <= values[b]
  BY <1>1
<1>7. /\ values[1] <= values[low + 1] /\ values[low + 1] <= values[high + 1]
      /\ values[high + 1] <= values[n]
  BY <1>5, <1>6
<1> QED BY <1>1, <1>4, <1>7, Zenon

(* `value_at_quantile` and `histogram_quantile` look for a rank that exists *)
(* among the recorded latencies.                                            *)
THEOREM RankInBounds ==
  ASSUME NEW k \in PerMille, NEW n \in Nat \ {0}
  PROVE  QuantileRank(k, n) \in 1 .. n
<1> USE DEF PerMille
<1> DEFINE r == (k * n + 999) \div 1000
           p == k * n
<1>1. p \in Nat /\ p <= 1000 * n
  <2>1. p \in Nat
    OBVIOUS
  <2>2. (1000 - k) * n >= 0
    OBVIOUS
  <2> QED BY <2>1, <2>2
<1>2. r \in Nat /\ 1000 * r <= p + 999
  BY <1>1, Quotient, p + 999 \in Nat, 1000 \in Nat \ {0}
<1>3. QuantileRank(k, n) = IF r > 1 THEN r ELSE 1
  BY DEF QuantileRank
<1> HIDE DEF r, p
<1> QED BY <1>1, <1>2, <1>3

-----------------------------------------------------------------------------
(* Induction.  The library's principles are schemas; this is the least number *)
(* principle of the subsets of Nat, which it proves as a fact about a relation. *)

LEMMA LeastNumber ==
  ASSUME NEW S \in SUBSET Nat, S # {}
  PROVE  \E n \in S : \A m \in S : n <= m
<1> DEFINE T == {1 .. n : n \in S}
<1>1. T \subseteq FiniteSubsetsOf(Nat) /\ T # {}
  <2>1. \A n \in Nat : IsFiniteSet(1 .. n)
    BY FS_Interval
  <2>2. \A n \in S : 1 .. n \subseteq Nat
    OBVIOUS
  <2> QED
    BY <2>1, <2>2 DEF FiniteSubsetsOf
<1>2. PICK t \in T : \A u \in T : ~ (<<u, t>> \in StrictSubsetOrdering(Nat))
  <2> HIDE DEF T
  <2> QED
    BY <1>1, WFMin, FS_StrictSubsetOrderingWellFounded
<1>3. PICK n \in S : t = 1 .. n
  OBVIOUS
<1>4. ASSUME NEW m \in S, m < n PROVE FALSE
  <2>1. 1 .. m \in T /\ 1 .. m \subseteq 1 .. n /\ 1 .. m # 1 .. n
    BY <1>4
  <2>2. <<1 .. m, 1 .. n>> \in StrictSubsetOrdering(Nat)
    BY <2>1 DEF StrictSubsetOrdering
  <2> QED
    BY <1>2, <1>3, <2>1, <2>2
<1> QED
  BY <1>4

(* A set of numbers with 0, closed under successor, has all of them. *)
LEMMA AllNumbers ==
  ASSUME NEW P \in SUBSET Nat, 0 \in P, \A n \in P : n + 1 \in P
  PROVE  \A n \in Nat : n \in P
<1> SUFFICES ASSUME Nat \ P # {} PROVE FALSE
  OBVIOUS
<1>1. PICK n \in Nat \ P : \A m \in Nat \ P : n <= m
  BY LeastNumber
<1>2. n # 0 /\ n - 1 \in Nat
  BY <1>1
<1>3. n - 1 \in P
  BY <1>1, <1>2
<1> QED
  BY <1>1, <1>2, <1>3

LEMMA GreatestNumber ==
  ASSUME NEW S \in SUBSET Nat, S # {}, NEW n \in Nat, \A s \in S : s <= n
  PROVE  \E m \in S : \A s \in S : s <= m
<1> DEFINE T == {k \in Nat : n - k \in S}
<1>1. T # {}
  <2>1. PICK s \in S : TRUE
    OBVIOUS
  <2>2. n - s \in Nat /\ n - (n - s) = s
    OBVIOUS
  <2> QED
    BY <2>1, <2>2
<1>2. PICK k \in T : \A j \in T : k <= j
  BY <1>1, LeastNumber
<1>3. ASSUME NEW s \in S PROVE s <= n - k
  <2>1. n - s \in T
    <3>1. n - s \in Nat /\ n - (n - s) = s
      OBVIOUS
    <3> QED
      BY <3>1
  <2>2. k <= n - s
    BY <1>2, <2>1
  <2> QED
    BY <1>2, <2>2
<1> QED
  BY <1>2, <1>3

-----------------------------------------------------------------------------
(* Sums over finite sets *)

Pick(s) == CHOOSE x \in s : TRUE

(* What the definition of SumFunctionOnSet says of the sums over a family of sets. *)
Sums(f, family, iter) ==
  iter = [s \in family |-> IF s = {} THEN 0 ELSE f[Pick(s)] + iter[s \ {Pick(s)}]]

LEMMA SumIs ==
  ASSUME NEW f, NEW S
  PROVE  SumFunctionOnSet(f, S) = (CHOOSE iter : Sums(f, SUBSET S, iter))[S]
BY DEF SumFunctionOnSet, FoldFunctionOnSet, MapThenFoldSet, Pick, Sums

Sized(S, n) == {T \in SUBSET S : Cardinality(T) <= n}

LEMMA PickIs ==
  ASSUME NEW S, S # {}
  PROVE  Pick(S) \in S
BY DEF Pick

LEMMA PickLeaves ==
  ASSUME NEW S, IsFiniteSet(S), S # {}
  PROVE  /\ IsFiniteSet(S \ {Pick(S)}) /\ Cardinality(S) \in Nat
         /\ Cardinality(S \ {Pick(S)}) = Cardinality(S) - 1
         /\ Cardinality(S \ {Pick(S)}) \in Nat
<1>1. Pick(S) \in S
  BY PickIs
<1>2. /\ IsFiniteSet(S \ {Pick(S)})
      /\ Cardinality(S \ {Pick(S)}) = Cardinality(S) - 1
  BY <1>1, FS_RemoveElement
<1> QED
  BY <1>2, FS_CardinalityType

(* There are such sums: those over the sets of a size are made from smaller ones. *)
LEMMA SumsExist ==
  ASSUME NEW f, NEW S, IsFiniteSet(S)
  PROVE  \E iter : Sums(f, SUBSET S, iter)
<1> DEFINE P == {n \in Nat : \E iter : Sums(f, Sized(S, n), iter)}
<1>1. 0 \in P
  <2> DEFINE iter == [s \in Sized(S, 0) |-> 0]
  <2>1. \A s \in Sized(S, 0) : s = {}
    <3>1. ASSUME NEW s \in Sized(S, 0) PROVE s = {}
      <4>1. IsFiniteSet(s) /\ Cardinality(s) \in Nat /\ Cardinality(s) <= 0
        BY FS_Subset, FS_CardinalityType DEF Sized
      <4> QED
        BY <4>1, FS_EmptySet
    <3> QED
      BY <3>1
  <2>2. Sums(f, Sized(S, 0), iter)
    BY <2>1 DEF Sums
  <2> QED
    BY <2>2
<1>2. ASSUME NEW n \in P PROVE n + 1 \in P
  <2>1. n \in Nat
    OBVIOUS
  <2>2. PICK g : Sums(f, Sized(S, n), g)
    OBVIOUS
  <2> DEFINE h == [s \in Sized(S, n + 1) |->
                     IF s = {} THEN 0 ELSE f[Pick(s)] + g[s \ {Pick(s)}]]
  <2>3. \A s \in Sized(S, n) : g[s] = h[s]
    <3>1. \A s \in Sized(S, n) : s \in Sized(S, n + 1)
      <4>1. ASSUME NEW s \in Sized(S, n) PROVE s \in Sized(S, n + 1)
        <5>1. s \in SUBSET S /\ Cardinality(s) <= n /\ Cardinality(s) \in Nat
          BY FS_Subset, FS_CardinalityType DEF Sized
        <5> QED
          BY <2>1, <5>1 DEF Sized
      <4> QED
        BY <4>1
    <3>2. \A s \in Sized(S, n) : g[s] = IF s = {} THEN 0 ELSE f[Pick(s)] + g[s \ {Pick(s)}]
      BY <2>2 DEF Sums
    <3> QED
      BY <3>1, <3>2
  <2>4. ASSUME NEW s \in Sized(S, n + 1), s # {}
        PROVE  s \ {Pick(s)} \in Sized(S, n)
    <3>1. s \in SUBSET S /\ IsFiniteSet(s) /\ Cardinality(s) <= n + 1
      BY FS_Subset DEF Sized
    <3>2. /\ Cardinality(s \ {Pick(s)}) = Cardinality(s) - 1
          /\ Cardinality(s) \in Nat
      BY <2>4, <3>1, PickLeaves
    <3>3. Cardinality(s \ {Pick(s)}) <= n
      BY <2>1, <3>1, <3>2
    <3> QED
      BY <3>1, <3>3 DEF Sized
  <2>5. Sums(f, Sized(S, n + 1), h)
    <3>1. ASSUME NEW s \in Sized(S, n + 1)
          PROVE  h[s] = IF s = {} THEN 0 ELSE f[Pick(s)] + h[s \ {Pick(s)}]
      <4>1. CASE s = {}
        BY <4>1
      <4>2. CASE s # {}
        <5>1. g[s \ {Pick(s)}] = h[s \ {Pick(s)}]
          BY <2>3, <2>4, <4>2, Zenon
        <5>2. h[s] = f[Pick(s)] + g[s \ {Pick(s)}]
          BY <4>2
        <5> HIDE DEF h
        <5> QED
          BY <4>2, <5>1, <5>2
      <4> QED
        BY <4>1, <4>2
    <3>2. h = [s \in Sized(S, n + 1) |-> h[s]]
      OBVIOUS
    <3> HIDE DEF h
    <3> QED
      BY <3>1, <3>2, Zenon DEF Sums
  <2> HIDE DEF h
  <2> QED
    BY <2>1, <2>5
<1>3. \A n \in Nat : n \in P
  <2> HIDE DEF P
  <2> QED
    BY <1>1, <1>2, AllNumbers, P \in SUBSET Nat DEF P
<1>4. Cardinality(S) \in Nat /\ Sized(S, Cardinality(S)) = SUBSET S
  <2>1. Cardinality(S) \in Nat
    BY FS_CardinalityType
  <2>2. \A T \in SUBSET S : Cardinality(T) <= Cardinality(S)
    BY FS_Subset
  <2> QED
    BY <2>1, <2>2 DEF Sized
<1> QED
  BY <1>3, <1>4

AgreeOn(i, j, V) == \A U \in SUBSET V : i[U] = j[U]

(* Sums of the same numbers are the same, over whichever sets they were made. *)
LEMMA SumsAgree ==
  ASSUME NEW f, NEW g, NEW S, NEW T, IsFiniteSet(S), NEW i, NEW j,
         Sums(f, SUBSET S, i), Sums(g, SUBSET T, j),
         NEW V \in SUBSET S, V \in SUBSET T, \A x \in V : f[x] = g[x]
  PROVE  AgreeOn(i, j, V)
<1> DEFINE Agree(U, n) == Cardinality(U) <= n => i[U] = j[U]
           P == {n \in Nat : \A U \in SUBSET V : Agree(U, n)}
<1>1. ASSUME NEW U \in SUBSET V
      PROVE  IsFiniteSet(U) /\ Cardinality(U) \in Nat
  BY FS_Subset, FS_CardinalityType
<1>6. ASSUME NEW U \in SUBSET V
      PROVE  /\ i[U] = IF U = {} THEN 0 ELSE f[Pick(U)] + i[U \ {Pick(U)}]
             /\ j[U] = IF U = {} THEN 0 ELSE g[Pick(U)] + j[U \ {Pick(U)}]
  <2>1. U \in SUBSET S /\ U \in SUBSET T
    OBVIOUS
  <2> QED
    BY <2>1 DEF Sums
<1>2. 0 \in P
  <2>1. ASSUME NEW U \in SUBSET V, Cardinality(U) <= 0
        PROVE  i[U] = j[U]
    <3>1. IsFiniteSet(U) /\ Cardinality(U) = 0
      BY <1>1, <2>1
    <3>2. U = {}
      BY <3>1, FS_EmptySet
    <3> QED
      BY <1>6, <3>2
  <2> QED
    BY <2>1
<1>3. ASSUME NEW n \in P PROVE n + 1 \in P
  <2>1. ASSUME NEW U \in SUBSET V, Cardinality(U) <= n + 1
        PROVE  i[U] = j[U]
    <3>1. CASE U = {}
      BY <1>6, <3>1
    <3>2. CASE U # {}
      <4>1. PICK x : x = Pick(U)
        OBVIOUS
      <4>2. x \in U /\ f[x] = g[x]
        BY <3>2, <4>1, PickIs
      <4>3. U \ {x} \in SUBSET V /\ Cardinality(U \ {x}) <= n
        <5>1. /\ IsFiniteSet(U) /\ Cardinality(U) \in Nat
              /\ Cardinality(U \ {x}) = Cardinality(U) - 1
          BY <1>1, <3>2, <4>1, PickLeaves
        <5> QED
          BY <2>1, <5>1
      <4>4. i[U \ {x}] = j[U \ {x}]
        BY <4>3
      <4>5. /\ i[U] = f[x] + i[U \ {x}]
            /\ j[U] = g[x] + j[U \ {x}]
        BY <1>6, <3>2, <4>1, Zenon
      <4> HIDE DEF P
      <4> QED
        BY <4>2, <4>4, <4>5, Zenon
    <3> QED
      BY <3>1, <3>2
  <2>2. n + 1 \in Nat
    OBVIOUS
  <2> QED
    BY <2>1, <2>2
<1>4. \A n \in Nat : n \in P
  <2>1. P \in SUBSET Nat
    OBVIOUS
  <2> HIDE DEF P
  <2> QED
    BY <1>2, <1>3, <2>1, AllNumbers
<1>5. ASSUME NEW U \in SUBSET V
      PROVE  i[U] = j[U]
  <2>1. PICK n \in Nat : n = Cardinality(U)
    BY <1>1
  <2>2. Agree(U, n)
    BY <1>4
  <2>3. n <= n
    OBVIOUS
  <2> QED
    BY <2>1, <2>2, <2>3
<1> QED
  BY <1>5 DEF AgreeOn

LEMMA SumOf ==
  ASSUME NEW f, NEW S, IsFiniteSet(S), NEW T \in SUBSET S, NEW iter, Sums(f, SUBSET S, iter)
  PROVE  SumFunctionOnSet(f, T) = iter[T]
<1>1. IsFiniteSet(T)
  BY FS_Subset
<1> DEFINE own == CHOOSE own : Sums(f, SUBSET T, own)
<1>2. Sums(f, SUBSET T, own)
  BY <1>1, SumsExist, Zenon
<1>3. SumFunctionOnSet(f, T) = own[T]
  BY SumIs, Zenon
<1> HIDE DEF own
<1>4. own[T] = iter[T]
  <2>1. T \in SUBSET T /\ T \in SUBSET S
    OBVIOUS
  <2>2. AgreeOn(own, iter, T)
    BY <1>1, <1>2, <2>1, SumsAgree
  <2> QED
    BY <2>1, <2>2 DEF AgreeOn
<1> QED
  BY <1>3, <1>4

LEMMA SumEmpty ==
  ASSUME NEW f
  PROVE  SumFunctionOnSet(f, {}) = 0
<1>1. IsFiniteSet({})
  BY FS_EmptySet
<1>2. PICK iter : Sums(f, SUBSET {}, iter)
  BY <1>1, SumsExist
<1>3. SumFunctionOnSet(f, {}) = iter[{}]
  <2>1. {} \in SUBSET {}
    OBVIOUS
  <2> QED
    BY <1>1, <1>2, <2>1, SumOf
<1> QED
  BY <1>2, <1>3 DEF Sums

LEMMA SumPick ==
  ASSUME NEW f, NEW S, IsFiniteSet(S), S # {}
  PROVE  SumFunctionOnSet(f, S) = f[Pick(S)] + SumFunctionOnSet(f, S \ {Pick(S)})
<1>1. PICK iter : Sums(f, SUBSET S, iter)
  BY SumsExist
<1>2. SumFunctionOnSet(f, S) = iter[S]
  BY <1>1, SumOf
<1>3. SumFunctionOnSet(f, S \ {Pick(S)}) = iter[S \ {Pick(S)}]
  BY <1>1, SumOf
<1>4. iter[S] = f[Pick(S)] + iter[S \ {Pick(S)}]
  BY <1>1 DEF Sums
<1> QED
  BY <1>2, <1>3, <1>4

LEMMA SumSame ==
  ASSUME NEW f, NEW g, NEW S, IsFiniteSet(S), \A x \in S : f[x] = g[x]
  PROVE  SumFunctionOnSet(f, S) = SumFunctionOnSet(g, S)
<1>1. PICK i : Sums(f, SUBSET S, i)
  BY SumsExist
<1>2. PICK j : Sums(g, SUBSET S, j)
  BY SumsExist
<1>3. AgreeOn(i, j, S)
  <2>1. S \in SUBSET S
    OBVIOUS
  <2> QED
    BY <1>1, <1>2, <2>1, SumsAgree
<1>4. SumFunctionOnSet(f, S) = i[S] /\ SumFunctionOnSet(g, S) = j[S]
  BY <1>1, <1>2, SumOf
<1> QED
  BY <1>3, <1>4 DEF AgreeOn

(* A property of the finite sets that holds of the empty set and of each set *)
(* without whose picked element it holds: given as the family of its sets.   *)
LEMMA AllSubsets ==
  ASSUME NEW S, IsFiniteSet(S), NEW Q \in SUBSET SUBSET S, {} \in Q,
         \A T \in SUBSET S : T # {} /\ (\A x \in T : T \ {x} \in Q) => T \in Q
  PROVE  S \in Q
<1> DEFINE P == {n \in Nat : \A T \in SUBSET S : Cardinality(T) <= n => T \in Q}
<1>1. ASSUME NEW T \in SUBSET S
      PROVE  /\ IsFiniteSet(T) /\ Cardinality(T) \in Nat
             /\ \A x \in T : Cardinality(T \ {x}) = Cardinality(T) - 1
  BY FS_Subset, FS_CardinalityType, FS_RemoveElement
<1>2. 0 \in P
  <2>1. ASSUME NEW T \in SUBSET S, Cardinality(T) <= 0
        PROVE  T \in Q
    <3>1. IsFiniteSet(T) /\ Cardinality(T) = 0
      BY <1>1, <2>1
    <3> QED
      BY <3>1, FS_EmptySet
  <2> QED
    BY <2>1
<1>3. ASSUME NEW n \in P PROVE n + 1 \in P
  <2>1. ASSUME NEW T \in SUBSET S, Cardinality(T) <= n + 1
        PROVE  T \in Q
    <3>1. ASSUME NEW x \in T PROVE T \ {x} \in Q
      <4>1. Cardinality(T \ {x}) <= n
        BY <1>1, <2>1
      <4> QED
        BY <4>1
    <3> HIDE DEF P
    <3> QED
      BY <3>1
  <2>2. n + 1 \in Nat
    OBVIOUS
  <2> QED
    BY <2>1, <2>2
<1>4. \A n \in Nat : n \in P
  <2>1. P \in SUBSET Nat
    OBVIOUS
  <2> HIDE DEF P
  <2> QED
    BY <1>2, <1>3, <2>1, AllNumbers
<1> QED
  BY <1>1, <1>4

LEMMA SumNat ==
  ASSUME NEW f, NEW S, IsFiniteSet(S), \A x \in S : f[x] \in Nat
  PROVE  SumFunctionOnSet(f, S) \in Nat
<1> DEFINE Q == {T \in SUBSET S : SumFunctionOnSet(f, T) \in Nat}
<1>1. {} \in Q
  BY SumEmpty
<1>2. ASSUME NEW T \in SUBSET S, T # {}, \A x \in T : T \ {x} \in Q
      PROVE  T \in Q
  <2>1. PICK x : x = Pick(T)
    OBVIOUS
  <2>2. x \in T
    BY <1>2, <2>1, PickIs
  <2>3. SumFunctionOnSet(f, T \ {x}) \in Nat /\ f[x] \in Nat
    BY <1>2, <2>2
  <2>4. SumFunctionOnSet(f, T) = f[x] + SumFunctionOnSet(f, T \ {x})
    BY <1>2, <2>1, FS_Subset, SumPick
  <2> QED
    BY <2>3, <2>4
<1>3. S \in Q
  <2>1. Q \in SUBSET SUBSET S
    OBVIOUS
  <2> HIDE DEF Q
  <2> QED
    BY <1>1, <1>2, <2>1, AllSubsets
<1> QED
  BY <1>3

(* Any element may be taken first. *)
LEMMA SumWithout ==
  ASSUME NEW f, NEW S, IsFiniteSet(S), \A x \in S : f[x] \in Nat, NEW x \in S
  PROVE  /\ SumFunctionOnSet(f, S) = f[x] + SumFunctionOnSet(f, S \ {x})
         /\ SumFunctionOnSet(f, S \ {x}) \in Nat
<1> DEFINE Q == {T \in SUBSET S :
                  \A y \in T : SumFunctionOnSet(f, T) = f[y] + SumFunctionOnSet(f, T \ {y})}
<1>1. ASSUME NEW T \in SUBSET S
      PROVE  IsFiniteSet(T) /\ SumFunctionOnSet(f, T) \in Nat
  <2>1. IsFiniteSet(T)
    BY FS_Subset
  <2> QED
    BY <2>1, SumNat
<1>2. {} \in Q
  OBVIOUS
<1>3. ASSUME NEW T \in SUBSET S, T # {}, \A y \in T : T \ {y} \in Q
      PROVE  T \in Q
  <2>1. PICK p : p = Pick(T)
    OBVIOUS
  <2>2. p \in T /\ SumFunctionOnSet(f, T) = f[p] + SumFunctionOnSet(f, T \ {p})
    BY <1>1, <1>3, <2>1, PickIs, SumPick
  <2>3. ASSUME NEW y \in T, y # p
        PROVE  SumFunctionOnSet(f, T) = f[y] + SumFunctionOnSet(f, T \ {y})
    <3>1. PICK U \in SUBSET S : U = (T \ {p}) \ {y} /\ U = (T \ {y}) \ {p}
      OBVIOUS
    <3>2. SumFunctionOnSet(f, T \ {p}) = f[y] + SumFunctionOnSet(f, U)
      <4>1. T \ {p} \in Q /\ y \in T \ {p}
        BY <1>3, <2>2, <2>3
      <4> QED
        BY <3>1, <4>1
    <3>3. SumFunctionOnSet(f, T \ {y}) = f[p] + SumFunctionOnSet(f, U)
      <4>1. T \ {y} \in Q /\ p \in T \ {y}
        BY <1>3, <2>2, <2>3
      <4> QED
        BY <3>1, <4>1
    <3>4. f[p] \in Nat /\ f[y] \in Nat /\ SumFunctionOnSet(f, U) \in Nat
      BY <1>1, <2>2
    <3> QED
      BY <2>2, <3>2, <3>3, <3>4
  <2> QED
    BY <2>2, <2>3
<1>4. S \in Q
  <2>1. Q \in SUBSET SUBSET S
    OBVIOUS
  <2> HIDE DEF Q
  <2> QED
    BY <1>2, <1>3, <2>1, AllSubsets
<1> QED
  BY <1>1, <1>4

LEMMA SumMore ==
  ASSUME NEW f, NEW g, NEW S, IsFiniteSet(S), \A x \in S : f[x] \in Nat, NEW b \in S,
         g[b] = f[b] + 1, \A x \in S \ {b} : g[x] = f[x]
  PROVE  SumFunctionOnSet(g, S) = SumFunctionOnSet(f, S) + 1
<1>1. \A x \in S : g[x] \in Nat
  OBVIOUS
<1>2. IsFiniteSet(S \ {b})
  BY FS_RemoveElement
<1>3. SumFunctionOnSet(g, S \ {b}) = SumFunctionOnSet(f, S \ {b})
  BY <1>2, SumSame
<1>4. /\ SumFunctionOnSet(f, S) = f[b] + SumFunctionOnSet(f, S \ {b})
      /\ SumFunctionOnSet(f, S \ {b}) \in Nat
  BY SumWithout
<1>5. SumFunctionOnSet(g, S) = g[b] + SumFunctionOnSet(g, S \ {b})
  BY <1>1, SumWithout
<1>6. f[b] \in Nat
  OBVIOUS
<1> QED
  BY <1>3, <1>4, <1>5, <1>6

LEMMA SumBoth ==
  ASSUME NEW f, NEW g, NEW h, NEW S, IsFiniteSet(S),
         \A x \in S : f[x] \in Nat /\ g[x] \in Nat /\ h[x] = f[x] + g[x]
  PROVE  SumFunctionOnSet(h, S) = SumFunctionOnSet(f, S) + SumFunctionOnSet(g, S)
<1> DEFINE Q == {T \in SUBSET S : SumFunctionOnSet(h, T)
                                    = SumFunctionOnSet(f, T) + SumFunctionOnSet(g, T)}
<1>1. ASSUME NEW T \in SUBSET S
      PROVE  /\ IsFiniteSet(T)
             /\ SumFunctionOnSet(f, T) \in Nat /\ SumFunctionOnSet(g, T) \in Nat
  <2>1. IsFiniteSet(T)
    BY FS_Subset
  <2> QED
    BY <2>1, SumNat
<1>2. {} \in Q
  BY SumEmpty
<1>3. ASSUME NEW T \in SUBSET S, T # {}, \A x \in T : T \ {x} \in Q
      PROVE  T \in Q
  <2>1. PICK x : x = Pick(T)
    OBVIOUS
  <2>2. /\ x \in T /\ SumFunctionOnSet(f, T) = f[x] + SumFunctionOnSet(f, T \ {x})
        /\ SumFunctionOnSet(g, T) = g[x] + SumFunctionOnSet(g, T \ {x})
        /\ SumFunctionOnSet(h, T) = h[x] + SumFunctionOnSet(h, T \ {x})
    BY <1>1, <1>3, <2>1, PickIs, SumPick
  <2>3. /\ SumFunctionOnSet(h, T \ {x})
             = SumFunctionOnSet(f, T \ {x}) + SumFunctionOnSet(g, T \ {x})
        /\ SumFunctionOnSet(f, T \ {x}) \in Nat /\ SumFunctionOnSet(g, T \ {x}) \in Nat
    BY <1>1, <1>3, <2>2
  <2>4. f[x] \in Nat /\ g[x] \in Nat /\ h[x] = f[x] + g[x]
    BY <2>2
  <2> QED
    BY <2>2, <2>3, <2>4
<1>4. S \in Q
  <2>1. Q \in SUBSET SUBSET S
    OBVIOUS
  <2> HIDE DEF Q
  <2> QED
    BY <1>2, <1>3, <2>1, AllSubsets
<1> QED
  BY <1>4

(* The elements that a subset lacks add nothing. *)
LEMMA SumOfPart ==
  ASSUME NEW f, NEW S, IsFiniteSet(S), \A x \in S : f[x] \in Nat,
         NEW part \in SUBSET S, \A x \in S \ part : f[x] = 0
  PROVE  SumFunctionOnSet(f, S) = SumFunctionOnSet(f, part)
<1> DEFINE Q == {T \in SUBSET S :
                  SumFunctionOnSet(f, T) = SumFunctionOnSet(f, T \cap part)}
<1>1. ASSUME NEW T \in SUBSET S
      PROVE  /\ IsFiniteSet(T) /\ SumFunctionOnSet(f, T) \in Nat
             /\ \A x \in T : SumFunctionOnSet(f, T) = f[x] + SumFunctionOnSet(f, T \ {x})
  <2>1. IsFiniteSet(T)
    BY FS_Subset
  <2>2. \A x \in T : f[x] \in Nat
    OBVIOUS
  <2> QED
    BY <2>1, <2>2, SumNat, SumWithout
<1>2. {} \in Q
  <2>1. {} \cap part = {}
    OBVIOUS
  <2> QED
    BY <2>1, Zenon
<1>3. ASSUME NEW T \in SUBSET S, T # {}, \A x \in T : T \ {x} \in Q
      PROVE  T \in Q
  <2>1. PICK x \in T : TRUE
    BY <1>3
  <2>2. /\ SumFunctionOnSet(f, T) = f[x] + SumFunctionOnSet(f, T \ {x})
        /\ SumFunctionOnSet(f, T \ {x}) = SumFunctionOnSet(f, (T \ {x}) \cap part)
    BY <1>1, <1>3, <2>1
  <2>3. CASE x \in part
    <3>1. PICK U \in SUBSET S : U = T \cap part
      OBVIOUS
    <3>2. x \in U /\ (T \ {x}) \cap part = U \ {x}
      BY <2>3, <3>1
    <3>3. SumFunctionOnSet(f, U) = f[x] + SumFunctionOnSet(f, U \ {x})
      BY <1>1, <3>2
    <3> QED
      BY <2>2, <3>1, <3>2, <3>3
  <2>4. CASE x \notin part
    <3>1. (T \ {x}) \cap part = T \cap part /\ f[x] = 0
      BY <2>4
    <3>2. SumFunctionOnSet(f, T \ {x}) \in Nat
      BY <1>1, T \ {x} \in SUBSET S
    <3>3. SumFunctionOnSet(f, T) = 0 + SumFunctionOnSet(f, T \ {x})
      BY <2>2, <3>1, Zenon
    <3>4. SumFunctionOnSet(f, T) = SumFunctionOnSet(f, T \ {x})
      BY <3>2, <3>3
    <3>5. SumFunctionOnSet(f, T) = SumFunctionOnSet(f, T \cap part)
      BY <2>2, <3>1, <3>4, Zenon
    <3> QED
      BY <3>5
  <2> QED
    BY <2>3, <2>4
<1>4. S \in Q
  <2>1. Q \in SUBSET SUBSET S
    OBVIOUS
  <2> HIDE DEF Q
  <2> QED
    BY <1>2, <1>3, <2>1, AllSubsets
<1>5. S \cap part = part
  OBVIOUS
<1> QED
  BY <1>4, <1>5

LEMMA SumPositive ==
  ASSUME NEW f, NEW S, IsFiniteSet(S), \A x \in S : f[x] \in Nat,
         SumFunctionOnSet(f, S) > 0
  PROVE  \E x \in S : f[x] > 0
<1> SUFFICES ASSUME \A x \in S : ~(f[x] > 0) PROVE FALSE
  OBVIOUS
<1>1. \A x \in S \ {} : f[x] = 0
  OBVIOUS
<1>2. SumFunctionOnSet(f, S) = SumFunctionOnSet(f, {})
  BY <1>1, SumOfPart, {} \in SUBSET S
<1> QED
  BY <1>2, SumEmpty

-----------------------------------------------------------------------------
(* Histograms *)

(* A higher quantile never has the lower rank. *)
LEMMA RankMonotone ==
  ASSUME NEW k \in PerMille, NEW m \in PerMille, NEW n \in Nat, k <= m
  PROVE  QuantileRank(k, n) <= QuantileRank(m, n)
<1> USE DEF PerMille
<1> DEFINE p == k * n
           q == m * n
           i == (p + 999) \div 1000
           j == (q + 999) \div 1000
<1>1. p \in Nat /\ q \in Nat /\ p <= q
  <2>1. p \in Nat /\ q \in Nat /\ m - k \in Nat
    OBVIOUS
  <2>2. (m - k) * n \in Nat
    <3>1. PICK d \in Nat : d = m - k
      BY <2>1
    <3>2. d * n \in Nat
      BY Products
    <3> QED BY <3>1, <3>2
  <2>3. (m - k) * n = q - p
    OBVIOUS
  <2> QED BY <2>1, <2>2, <2>3
<1>2. QuantileRank(k, n) = (IF i > 1 THEN i ELSE 1) /\ QuantileRank(m, n) = IF j > 1 THEN j ELSE 1
  BY DEF QuantileRank
<1> HIDE DEF p, q
<1>3. i \in Nat /\ 1000 * i <= p + 999
  BY <1>1, Quotient, p + 999 \in Nat, 1000 \in Nat \ {0}
<1>4. j \in Nat /\ q + 999 < 1000 * j + 1000
  BY <1>1, Quotient, q + 999 \in Nat, 1000 \in Nat \ {0}
<1> HIDE DEF i, j
<1>5. i <= j
  BY <1>1, <1>3, <1>4
<1> QED BY <1>2, <1>3, <1>4, <1>5

(* A histogram over the bounds of its buckets, which are numbers up to a highest. *)
Histogram(h, bounds, top) ==
  /\ bounds \subseteq Nat /\ top \in Nat /\ \A b \in bounds : b <= top
  /\ h \in [bounds -> Nat]

LEMMA HistogramIs ==
  ASSUME NEW h, NEW bounds, NEW top, Histogram(h, bounds, top)
  PROVE  /\ IsFiniteSet(bounds) /\ DOMAIN h = bounds /\ \A b \in bounds : h[b] \in Nat
         /\ Count(h) = SumFunctionOnSet(h, bounds) /\ Count(h) \in Nat
         /\ \A b : UpTo(h, b) = SumFunctionOnSet(h, {c \in bounds : c <= b})
         /\ Recorded(h) = {b \in bounds : h[b] > 0} /\ Recorded(h) \subseteq Nat
<1>1. /\ DOMAIN h = bounds /\ \A b \in bounds : h[b] \in Nat
      /\ bounds \in SUBSET Nat /\ top \in Nat /\ \A b \in bounds : b <= top
  BY DEF Histogram
<1>2. IsFiniteSet(bounds)
  BY <1>1, FS_BoundedSetOfNaturals
<1>3. Count(h) = SumFunctionOnSet(h, bounds)
  BY <1>1 DEF Count, SumFunction
<1>4. SumFunctionOnSet(h, bounds) \in Nat
  BY <1>1, <1>2, SumNat
<1>5. \A b : UpTo(h, b) = SumFunctionOnSet(h, {c \in bounds : c <= b})
  BY <1>1 DEF UpTo
<1>6. Recorded(h) = {b \in bounds : h[b] > 0} /\ Recorded(h) \subseteq Nat
  BY <1>1 DEF Recorded
<1> QED
  BY <1>1, <1>2, <1>3, <1>4, <1>5, <1>6

(* A histogram that is not empty has a least and a greatest latency, and the *)
(* latencies up to the greatest are all of them.                             *)
LEMMA Extremes ==
  ASSUME NEW h, NEW bounds, NEW top, Histogram(h, bounds, top), Recorded(h) # {}
  PROVE  /\ \E b \in Recorded(h) : \A c \in Recorded(h) : b <= c
         /\ \E b \in Recorded(h) : /\ \A c \in Recorded(h) : c <= b
                                   /\ UpTo(h, b) = Count(h)
<1>1. /\ Recorded(h) \in SUBSET Nat /\ Recorded(h) = {b \in bounds : h[b] > 0}
      /\ top \in Nat /\ \A b \in Recorded(h) : b <= top
      /\ bounds \subseteq Nat /\ \A b \in bounds : h[b] \in Nat
      /\ IsFiniteSet(bounds)
  <2>1. /\ Recorded(h) \in SUBSET Nat /\ Recorded(h) = {b \in bounds : h[b] > 0}
        /\ \A b \in bounds : h[b] \in Nat
        /\ IsFiniteSet(bounds)
    BY HistogramIs
  <2>2. top \in Nat /\ \A b \in bounds : b <= top /\ b \in Nat
    BY DEF Histogram
  <2> QED
    BY <2>1, <2>2
<1>2. \E b \in Recorded(h) : \A c \in Recorded(h) : b <= c
  BY <1>1, LeastNumber
<1>3. PICK b \in Recorded(h) : \A c \in Recorded(h) : c <= b
  BY <1>1, GreatestNumber
<1>4. SumFunctionOnSet(h, bounds) = SumFunctionOnSet(h, {c \in bounds : c <= b})
  <2>1. PICK part \in SUBSET bounds : part = {c \in bounds : c <= b}
    OBVIOUS
  <2>2. \A c \in bounds \ part : h[c] = 0
    BY <1>1, <1>3, <2>1
  <2>3. \A c \in bounds : h[c] \in Nat
    BY <1>1
  <2>4. IsFiniteSet(bounds)
    BY <1>1
  <2>5. SumFunctionOnSet(h, bounds) = SumFunctionOnSet(h, part)
    BY <2>2, <2>3, <2>4, SumOfPart
  <2> QED
    BY <2>1, <2>5
<1>5. UpTo(h, b) = Count(h)
  BY <1>4, HistogramIs
<1> QED
  BY <1>2, <1>3, <1>5

LEMMA NotEmpty ==
  ASSUME NEW h, NEW bounds, NEW top, Histogram(h, bounds, top)
  PROVE  Recorded(h) # {} <=> Count(h) > 0
<1>1. /\ Recorded(h) = {b \in bounds : h[b] > 0} /\ \A b \in bounds : h[b] \in Nat
      /\ Count(h) = SumFunctionOnSet(h, bounds) /\ Count(h) \in Nat /\ IsFiniteSet(bounds)
  BY HistogramIs
<1>2. ASSUME NEW b \in Recorded(h) PROVE Count(h) > 0
  <2>1. /\ SumFunctionOnSet(h, bounds) = h[b] + SumFunctionOnSet(h, bounds \ {b})
        /\ SumFunctionOnSet(h, bounds \ {b}) \in Nat /\ h[b] \in Nat /\ h[b] > 0
    BY <1>1, SumWithout
  <2> QED
    BY <1>1, <2>1
<1>3. ASSUME Count(h) > 0 PROVE Recorded(h) # {}
  BY <1>1, <1>3, SumPositive
<1> QED
  BY <1>2, <1>3

(* The buckets that hold the rank of a quantile, of which value_at_quantile is the first. *)
Reaching(k, h) == {b \in Recorded(h) : UpTo(h, b) >= QuantileRank(k, Count(h))}

LEMMA QuantileIs ==
  ASSUME NEW h, NEW bounds, NEW top, Histogram(h, bounds, top), Recorded(h) # {},
         NEW k \in PerMille
  PROVE  /\ ValueAtQuantile(k, h) \in Reaching(k, h)
         /\ \A b \in Reaching(k, h) : ValueAtQuantile(k, h) <= b
<1>1. Reaching(k, h) \in SUBSET Nat /\ Reaching(k, h) # {}
  <2>1. PICK b \in Recorded(h) : UpTo(h, b) = Count(h)
    BY Extremes
  <2>2. QuantileRank(k, Count(h)) \in 1 .. Count(h)
    BY NotEmpty, HistogramIs, RankInBounds
  <2>3. Count(h) \in Nat /\ Recorded(h) \subseteq Nat
    BY HistogramIs
  <2>4. b \in Reaching(k, h)
    BY <2>1, <2>2, <2>3 DEF Reaching
  <2> QED
    BY <2>3, <2>4 DEF Reaching
<1>2. \E b \in Reaching(k, h) : \A c \in Reaching(k, h) : b <= c
  BY <1>1, LeastNumber
<1>3. \E b \in Recorded(h) :
        /\ UpTo(h, b) >= QuantileRank(k, Count(h))
        /\ \A c \in Recorded(h) : UpTo(h, c) >= QuantileRank(k, Count(h)) => b <= c
  BY <1>2 DEF Reaching
<1> QED
  BY <1>3 DEF ValueAtQuantile, Reaching

(* value_at_quantile gives the quantiles of a histogram in order, within its  *)
(* extremes: `validate_ordered` accepts them, however few the latencies are.  *)
THEOREM QuantilesOrdered ==
  ASSUME NEW h, NEW bounds, NEW top, Histogram(h, bounds, top), Recorded(h) # {},
         NEW k \in PerMille, NEW m \in PerMille, k <= m
  PROVE  /\ ValueAtQuantile(k, h) <= ValueAtQuantile(m, h)
         /\ ValueAtQuantile(k, h) \in Recorded(h)
<1>1. \A b \in Recorded(h) : UpTo(h, b) \in Nat
  <2>1. ASSUME NEW b \in Recorded(h) PROVE UpTo(h, b) \in Nat
    <3>1. PICK part \in SUBSET bounds : part = {c \in bounds : c <= b}
      OBVIOUS
    <3>2. IsFiniteSet(part) /\ \A c \in part : h[c] \in Nat
      BY HistogramIs, FS_Subset
    <3>3. SumFunctionOnSet(h, part) \in Nat
      BY <3>2, SumNat
    <3> QED
      BY <3>1, <3>3, HistogramIs
  <2> QED
    BY <2>1
<1>2. /\ QuantileRank(k, Count(h)) <= QuantileRank(m, Count(h))
      /\ QuantileRank(k, Count(h)) \in Nat /\ QuantileRank(m, Count(h)) \in Nat
  <2>1. Count(h) \in Nat \ {0}
    BY NotEmpty, HistogramIs
  <2> QED
    BY <2>1, RankMonotone, RankInBounds
<1>3. Reaching(m, h) \subseteq Reaching(k, h)
  BY <1>1, <1>2 DEF Reaching
<1>4. /\ ValueAtQuantile(m, h) \in Reaching(m, h) /\ ValueAtQuantile(k, h) \in Reaching(k, h)
      /\ \A b \in Reaching(k, h) : ValueAtQuantile(k, h) <= b
  BY QuantileIs
<1> QED
  BY <1>3, <1>4 DEF Reaching

(* Finitely many numbers have a bound. *)
LEMMA FiniteBound ==
  ASSUME NEW k \in Nat, NEW t \in [1 .. k -> Nat]
  PROVE  \E top \in Nat : \A i \in 1 .. k : t[i] <= top
<1> DEFINE P == {n \in Nat : n <= k => \E top \in Nat : \A i \in 1 .. n : t[i] <= top}
<1>1. 0 \in P
  OBVIOUS
<1>2. ASSUME NEW n \in P PROVE n + 1 \in P
  <2>1. n \in Nat /\ n + 1 \in Nat
    OBVIOUS
  <2>2. ASSUME n + 1 <= k
        PROVE  \E top \in Nat : \A i \in 1 .. (n + 1) : t[i] <= top
    <3>1. PICK low \in Nat : \A i \in 1 .. n : t[i] <= low
      <4>1. n <= k
        BY <2>1, <2>2
      <4>2. n <= k => \E top \in Nat : \A i \in 1 .. n : t[i] <= top
        BY Zenon
      <4> QED
        BY <4>1, <4>2, Zenon
    <3>2. \A i \in 1 .. (n + 1) : i \in 1 .. n \/ i = n + 1
      BY <2>1
    <3>3. t[n + 1] \in Nat /\ \A i \in 1 .. (n + 1) : t[i] \in Nat
      BY <2>1, <2>2
    <3>4. PICK last \in Nat : last = t[n + 1]
      BY <3>3
    <3>5. low + last \in Nat /\ \A i \in 1 .. (n + 1) : t[i] <= low + last
      BY <3>1, <3>2, <3>3, <3>4
    <3> QED
      BY <3>5
  <2> QED
    BY <2>1, <2>2
<1>3. \A n \in Nat : n \in P
  <2>1. P \in SUBSET Nat
    OBVIOUS
  <2> HIDE DEF P
  <2> QED
    BY <1>1, <1>2, <2>1, AllNumbers
<1>4. k <= k => \E top \in Nat : \A i \in 1 .. k : t[i] <= top
  BY <1>3, Zenon
<1> HIDE DEF P
<1> QED
  BY <1>4

-----------------------------------------------------------------------------
(* Sorting *)

(* The positions of n numbers, in the order of the numbers. *)
Sorting(p, s, n) ==
  /\ p \in Bijection(1 .. n, 1 .. n)
  /\ \A i, j \in 1 .. n : i <= j => s[p[i]] <= s[p[j]]

(* There is such an order: the greatest number comes last, and the others, with *)
(* the last in its place, in their order.                                       *)
LEMMA SortingExists ==
  ASSUME NEW n \in Nat, NEW s \in [1 .. n -> Nat]
  PROVE  \E p : Sorting(p, s, n)
<1> DEFINE P == {k \in Nat : \A t \in [1 .. k -> Nat] : \E p : Sorting(p, t, k)}
<1>1. 0 \in P
  <2>1. ASSUME NEW t \in [1 .. 0 -> Nat] PROVE \E p : Sorting(p, t, 0)
    <3> DEFINE p == [i \in 1 .. 0 |-> i]
    <3>1. p \in [1 .. 0 -> 1 .. 0] /\ IsInjective(p) /\ \A i \in 1 .. 0 : FALSE
      BY DEF IsInjective
    <3> HIDE DEF p
    <3>2. Sorting(p, t, 0)
      BY <3>1 DEF Sorting, Bijection, Injection, Surjection
    <3> QED
      BY <3>2
  <2> QED
    BY <2>1
<1>2. ASSUME NEW k \in P PROVE k + 1 \in P
  <2>0. k \in Nat /\ k + 1 \in Nat
    OBVIOUS
  <2>1. ASSUME NEW t \in [1 .. (k + 1) -> Nat] PROVE \E p : Sorting(p, t, k + 1)
    <3>1. \A i \in 1 .. k : i \in 1 .. (k + 1) /\ i # k + 1
      BY <2>0
    <3>2. \A i \in 1 .. (k + 1) : i = k + 1 \/ i \in 1 .. k
      BY <2>0
    <3>3. k + 1 \in 1 .. (k + 1)
      BY <2>0
    <3>4. PICK m \in 1 .. (k + 1) : \A i \in 1 .. (k + 1) : t[i] <= t[m]
      <4>1. PICK N \in SUBSET Nat : N = {t[i] : i \in 1 .. (k + 1)}
        OBVIOUS
      <4>2. PICK top \in Nat : \A i \in 1 .. (k + 1) : t[i] <= top
        BY <2>0, FiniteBound
      <4>3. N # {} /\ \A x \in N : x <= top
        BY <3>3, <4>1, <4>2
      <4>4. PICK x \in N : \A y \in N : y <= x
        BY <4>3, GreatestNumber
      <4> QED
        BY <4>1, <4>4
    <3> DEFINE u == [i \in 1 .. k |-> IF i = m THEN t[k + 1] ELSE t[i]]
    <3>5. u \in [1 .. k -> Nat]
      BY <3>1, <3>3
    <3>6. PICK q : Sorting(q, u, k)
      BY <3>5
    <3>7. /\ q \in [1 .. k -> 1 .. k]
          /\ \A i, j \in 1 .. k : q[i] = q[j] => i = j
          /\ \A j \in 1 .. k : \E i \in 1 .. k : q[i] = j
          /\ \A i, j \in 1 .. k : i <= j => u[q[i]] <= u[q[j]]
      BY <3>6 DEF Sorting, Bijection, Injection, Surjection, IsInjective
    <3> DEFINE p == [i \in 1 .. (k + 1) |-> IF i = k + 1 THEN m ELSE
                                            IF q[i] = m THEN k + 1 ELSE q[i]]
    <3>8. /\ p[k + 1] = m
          /\ \A i \in 1 .. k : p[i] = IF q[i] = m THEN k + 1 ELSE q[i]
          /\ p \in [1 .. (k + 1) -> 1 .. (k + 1)]
      BY <3>1, <3>2, <3>3, <3>7
    <3> HIDE DEF p
    <3>9. \A i \in 1 .. k : u[q[i]] = t[p[i]]
      BY <3>7, <3>8
    <3> HIDE DEF u
    <3>10. \A i \in 1 .. k : p[i] # m
      BY <3>1, <3>7, <3>8
    <3>11. \A i, j \in 1 .. (k + 1) : p[i] = p[j] => i = j
      <4>1. ASSUME NEW i \in 1 .. k, NEW j \in 1 .. k, p[i] = p[j]
            PROVE  i = j
        <5>1. q[i] \in 1 .. k /\ q[j] \in 1 .. k
          BY <3>7
        <5>2. q[i] # k + 1 /\ q[j] # k + 1
          BY <3>1, <5>1
        <5>3. /\ p[i] = IF q[i] = m THEN k + 1 ELSE q[i]
              /\ p[j] = IF q[j] = m THEN k + 1 ELSE q[j]
          BY <3>8
        <5>4. q[i] = q[j]
          BY <4>1, <5>2, <5>3
        <5> QED
          BY <3>7, <5>4
      <4>2. \A i \in 1 .. k : p[i] # p[k + 1]
        BY <3>8, <3>10
      <4>3. ASSUME NEW i \in 1 .. (k + 1), NEW j \in 1 .. (k + 1), p[i] = p[j]
            PROVE  i = j
        <5>1. CASE i \in 1 .. k /\ j \in 1 .. k
          BY <4>1, <4>3, <5>1
        <5>2. CASE i = k + 1 \/ j = k + 1
          BY <3>2, <4>2, <4>3, <5>2, Zenon
        <5> QED
          BY <3>2, <5>1, <5>2
      <4> QED
        BY <4>3
    <3>12. \A j \in 1 .. (k + 1) : \E i \in 1 .. (k + 1) : p[i] = j
      <4>1. ASSUME NEW j \in 1 .. (k + 1) PROVE \E i \in 1 .. (k + 1) : p[i] = j
        <5>1. CASE j = m
          BY <3>3, <3>8, <5>1
        <5>2. CASE j = k + 1 /\ j # m
          <6>1. PICK i \in 1 .. k : q[i] = m
            BY <3>2, <3>7, <5>2
          <6> QED
            BY <3>1, <3>8, <5>2, <6>1
        <5>3. CASE j # k + 1 /\ j # m
          <6>1. PICK i \in 1 .. k : q[i] = j
            BY <3>2, <3>7, <5>3
          <6> QED
            BY <3>1, <3>8, <5>3, <6>1
        <5> QED
          BY <5>1, <5>2, <5>3
      <4> QED
        BY <4>1
    <3>13. \A i, j \in 1 .. (k + 1) : i <= j => t[p[i]] <= t[p[j]]
      <4>1. ASSUME NEW i \in 1 .. (k + 1), NEW j \in 1 .. (k + 1), i <= j
            PROVE  t[p[i]] <= t[p[j]]
        <5>1. CASE j = k + 1
          BY <3>4, <3>8, <5>1
        <5>2. CASE j # k + 1
          <6>1. i \in 1 .. k /\ j \in 1 .. k
            BY <2>0, <4>1, <5>2
          <6> QED
            BY <3>7, <3>9, <4>1, <6>1
        <5> QED
          BY <5>1, <5>2
      <4> QED
        BY <4>1
    <3>14. Sorting(p, t, k + 1)
      BY <3>8, <3>11, <3>12, <3>13
         DEF Sorting, Bijection, Injection, Surjection, IsInjective
    <3> QED
      BY <3>14
  <2> QED
    BY <2>0, <2>1
<1>3. \A k \in Nat : k \in P
  <2>1. P \in SUBSET Nat
    OBVIOUS
  <2> HIDE DEF P
  <2> QED
    BY <1>1, <1>2, <2>1, AllNumbers
<1> QED
  BY <1>3

(* `values.sort_by` puts numbers in order. *)
LEMMA SortedIs ==
  ASSUME NEW values \in Seq(Nat)
  PROVE  /\ Sorted(values) \in Seq(Nat) /\ Len(Sorted(values)) = Len(values)
         /\ \A i, j \in 1 .. Len(values) : i <= j => Sorted(values)[i] <= Sorted(values)[j]
<1>1. PICK n \in Nat : n = Len(values)
  OBVIOUS
<1>2. values \in [1 .. n -> Nat] /\ DOMAIN values = 1 .. n
  BY <1>1
<1> DEFINE order == CHOOSE p \in Bijection(1 .. n, 1 .. n) :
                      \A i, j \in 1 .. n : i <= j => values[p[i]] <= values[p[j]]
<1>3. Sorting(order, values, n)
  <2>1. PICK p : Sorting(p, values, n)
    BY <1>2, SortingExists
  <2> QED
    BY <2>1 DEF Sorting
<1>4. Sorted(values) = [i \in 1 .. n |-> values[order[i]]]
  BY <1>2 DEF Sorted
<1> HIDE DEF order
<1>5. \A i \in 1 .. n : order[i] \in 1 .. n
  BY <1>3 DEF Sorting, Bijection, Injection, Surjection
<1>6. Sorted(values) \in [1 .. n -> Nat]
  BY <1>2, <1>4, <1>5
<1>7. Sorted(values) \in Seq(Nat) /\ Len(Sorted(values)) = n
  BY <1>6
<1>8. \A i, j \in 1 .. n : i <= j => Sorted(values)[i] <= Sorted(values)[j]
  BY <1>3, <1>4 DEF Sorting
<1> QED
  BY <1>1, <1>7, <1>8
=============================================================================
