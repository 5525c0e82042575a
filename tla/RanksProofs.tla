---------------------------- MODULE RanksProofs ----------------------------
(***************************************************************************)
(* Ranks are positions: a finite set of numbers has one element at each of *)
(* the positions 1 to its size, in increasing order, and so a least and a  *)
(* greatest one.                                                           *)
(***************************************************************************)
EXTENDS Ranks, FiniteSetsExt, FiniteSetTheorems, TLAPS

UpTo(S, x) == {y \in S : y <= x}

LEMMA UpToSubset ==
    ASSUME NEW S \in SUBSET Nat, IsFiniteSet(S), NEW x \in S
    PROVE  /\ UpTo(S, x) \subseteq S /\ IsFiniteSet(UpTo(S, x))
           /\ x \in UpTo(S, x) /\ Rank(S, x) = Cardinality(UpTo(S, x))
           /\ Cardinality(UpTo(S, x)) \in Nat
<1>1. UpTo(S, x) \subseteq S /\ x \in UpTo(S, x)
    BY DEF UpTo
<1>2. IsFiniteSet(UpTo(S, x))
    BY <1>1, FS_Subset
<1>3. Rank(S, x) = Cardinality(UpTo(S, x))
    BY DEF Rank, UpTo
<1> QED
    BY <1>1, <1>2, <1>3, FS_CardinalityType

LEMMA RankRange ==
    ASSUME NEW S \in SUBSET Nat, IsFiniteSet(S), NEW x \in S
    PROVE  Rank(S, x) \in 1..Cardinality(S)
<1>1. /\ UpTo(S, x) \subseteq S /\ IsFiniteSet(UpTo(S, x)) /\ x \in UpTo(S, x)
      /\ Rank(S, x) = Cardinality(UpTo(S, x)) /\ Cardinality(UpTo(S, x)) \in Nat
    BY UpToSubset
<1>2. Cardinality(UpTo(S, x)) # 0
    BY <1>1, FS_EmptySet
<1>3. Cardinality(UpTo(S, x)) <= Cardinality(S) /\ Cardinality(S) \in Nat
    BY <1>1, FS_Subset, FS_CardinalityType
<1> QED
    BY <1>1, <1>2, <1>3

\* Ranks are ordered as the elements are.
LEMMA RankLess ==
    ASSUME NEW S \in SUBSET Nat, IsFiniteSet(S), NEW x \in S, NEW y \in S, x < y
    PROVE  Rank(S, x) < Rank(S, y)
<1>1. /\ IsFiniteSet(UpTo(S, x)) /\ Rank(S, x) = Cardinality(UpTo(S, x))
      /\ Cardinality(UpTo(S, x)) \in Nat
    BY UpToSubset
<1>2. /\ IsFiniteSet(UpTo(S, y)) /\ Rank(S, y) = Cardinality(UpTo(S, y))
      /\ Cardinality(UpTo(S, y)) \in Nat
    BY UpToSubset
<1>3. UpTo(S, x) \subseteq UpTo(S, y)
    <2>1. \A z \in Nat : z <= x => z <= y
        OBVIOUS
    <2> QED
        BY <2>1 DEF UpTo
<1>4. y \in UpTo(S, y) /\ y \notin UpTo(S, x)
    <2>1. ~(y <= x) /\ y <= y
        OBVIOUS
    <2> QED
        BY <2>1 DEF UpTo
<1>5. Cardinality(UpTo(S, x)) <= Cardinality(UpTo(S, y))
    BY <1>2, <1>3, FS_Subset
<1>6. Cardinality(UpTo(S, x)) # Cardinality(UpTo(S, y))
    BY <1>2, <1>3, <1>4, FS_Subset
<1> QED
    BY <1>1, <1>2, <1>5, <1>6

LEMMA RankOneToOne ==
    ASSUME NEW S \in SUBSET Nat, IsFiniteSet(S), NEW x \in S, NEW y \in S,
           Rank(S, x) = Rank(S, y)
    PROVE  x = y
<1>1. Rank(S, x) \in Nat /\ Rank(S, y) \in Nat
    BY UpToSubset
<1>2. ~(x < y) /\ ~(y < x)
    BY <1>1, RankLess
<1> QED
    BY <1>2

\* No position is left out: as many ranks as elements.
LEMMA RankOnto ==
    ASSUME NEW S \in SUBSET Nat, IsFiniteSet(S), NEW k \in 1..Cardinality(S)
    PROVE  \E x \in S : Rank(S, x) = k
<1> DEFINE n == Cardinality(S)
           rank == [x \in S |-> Rank(S, x)]
<1>1. n \in Nat
    BY FS_CardinalityType
<1>2. rank \in [S -> 1..n]
    BY RankRange
<1>3. rank \in Injection(S, 1..n)
    BY <1>2, RankOneToOne DEF Injection, IsInjective
<1>4. IsFiniteSet(1..n) /\ Cardinality(1..n) = n
    BY <1>1, FS_Interval
<1>5. rank \in Surjection(S, 1..n)
    BY <1>3, <1>4, FS_Injection
<1> QED
    BY <1>5 DEF Surjection

LEMMA NthOf ==
    ASSUME NEW S \in SUBSET Nat, IsFiniteSet(S), NEW k \in 1..Cardinality(S)
    PROVE  Nth(S, k) \in S /\ Rank(S, Nth(S, k)) = k
BY RankOnto DEF Nth

LEMMA NthOfRank ==
    ASSUME NEW S \in SUBSET Nat, IsFiniteSet(S), NEW x \in S
    PROVE  Nth(S, Rank(S, x)) = x
<1> DEFINE y == Nth(S, Rank(S, x))
<1>1. y \in S /\ Rank(S, y) = Rank(S, x)
    <2>1. Rank(S, x) \in 1..Cardinality(S)
        BY RankRange
    <2> QED
        BY <2>1, NthOf
<1> HIDE DEF y
<1>2. y = x
    BY <1>1, RankOneToOne
<1> QED
    BY <1>2 DEF y

\* InOrder is a sequence of all the elements, in increasing order.
LEMMA InOrderSeq ==
    ASSUME NEW S \in SUBSET Nat, IsFiniteSet(S)
    PROVE  /\ Cardinality(S) \in Nat
           /\ InOrder(S) \in [1..Cardinality(S) -> S]
           /\ \A x \in S : \E k \in 1..Cardinality(S) : InOrder(S)[k] = x
           /\ \A j, k \in 1..Cardinality(S) : j < k => InOrder(S)[j] < InOrder(S)[k]
<1>1. Cardinality(S) \in Nat
    BY FS_CardinalityType
<1>2. InOrder(S) \in [1..Cardinality(S) -> S]
    BY NthOf DEF InOrder
<1>3. ASSUME NEW x \in S
      PROVE  \E k \in 1..Cardinality(S) : InOrder(S)[k] = x
    BY <1>3, RankRange, NthOfRank DEF InOrder
<1>4. ASSUME NEW j \in 1..Cardinality(S), NEW k \in 1..Cardinality(S), j < k
      PROVE  InOrder(S)[j] < InOrder(S)[k]
    <2>1. Nth(S, j) \in S /\ Nth(S, k) \in S /\ Rank(S, Nth(S, j)) = j /\ Rank(S, Nth(S, k)) = k
        BY NthOf
    <2>2. ~(Nth(S, k) < Nth(S, j))
        <3>1. Nth(S, k) < Nth(S, j) => k < j
            BY <2>1, RankLess
        <3> QED
            BY <1>1, <1>4, <3>1
    <2>3. Nth(S, k) # Nth(S, j)
        BY <1>1, <1>4, <2>1
    <2>4. Nth(S, j) < Nth(S, k)
        <3>1. Nth(S, j) \in Nat /\ Nth(S, k) \in Nat
            BY <2>1
        <3> QED
            BY <2>2, <2>3, <3>1
    <2> QED
        BY <2>4 DEF InOrder
<1> QED
    BY <1>1, <1>2, <1>3, <1>4

\* The last one is the greatest.
LEMMA MaxOf ==
    ASSUME NEW S \in SUBSET Nat, IsFiniteSet(S), S # {}
    PROVE  Max(S) \in S /\ \A x \in S : x <= Max(S)
<1> DEFINE n == Cardinality(S)
<1>1. n \in Nat /\ n # 0
    BY FS_CardinalityType, FS_EmptySet
<1>2. PICK x \in S : Rank(S, x) = n
    BY <1>1, RankOnto
<1>3. ASSUME NEW y \in S PROVE x >= y
    <2>1. Rank(S, y) \in 1..n
        BY RankRange
    <2>2. ~(x < y)
        BY <1>1, <1>2, <2>1, RankLess
    <2> QED
        BY <2>2
<1>4. \A y \in S : Max(S) >= y /\ Max(S) \in S
    BY <1>2, <1>3 DEF Max
<1> QED
    BY <1>2, <1>4

\* The first one is the least.
LEMMA MinOf ==
    ASSUME NEW S \in SUBSET Nat, IsFiniteSet(S), S # {}
    PROVE  Min(S) \in S /\ \A x \in S : Min(S) <= x
<1> DEFINE n == Cardinality(S)
<1>1. n \in Nat /\ n # 0
    BY FS_CardinalityType, FS_EmptySet
<1>2. PICK x \in S : Rank(S, x) = 1
    BY <1>1, RankOnto
<1>3. ASSUME NEW y \in S PROVE x <= y
    <2>1. Rank(S, y) \in 1..n
        BY RankRange
    <2>2. ~(y < x)
        BY <1>1, <1>2, <2>1, RankLess
    <2> QED
        BY <2>2
<1>4. \A y \in S : Min(S) <= y /\ Min(S) \in S
    BY <1>2, <1>3 DEF Min
<1> QED
    BY <1>2, <1>4

\* Images of finite sets are finite.
LEMMA ImageFinite ==
    ASSUME NEW D, NEW f \in [D -> Nat], NEW S \in SUBSET D, IsFiniteSet(S)
    PROVE  IsFiniteSet({f[x] : x \in S}) /\ {f[x] : x \in S} \subseteq Nat
<1> DEFINE T == {f[x] : x \in S}
           g == [x \in S |-> f[x]]
<1>1. g \in Surjection(S, T)
    BY DEF Surjection
<1>2. IsFiniteSet(T)
    BY <1>1, FS_Surjection
<1> QED
    BY <1>2
=============================================================================
