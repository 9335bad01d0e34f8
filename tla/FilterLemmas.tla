----------------------------- MODULE FilterLemmas -----------------------------
(* What filtering a list keeps, for every list and every set of its positions. *)
EXTENDS Filters, FiniteSetTheorems, WellFoundedInduction, TLAPS

\* How many positions there are up to n.
LEMMA Count ==
  ASSUME NEW n \in Nat
  PROVE  IsFiniteSet(1..n) /\ Cardinality(1..n) = n
<1>1. 1 \in Int /\ n \in Int
  OBVIOUS
<1>2. /\ IsFiniteSet(1..n)
      /\ Cardinality(1..n) = IF 1 > n THEN 0 ELSE n - 1 + 1
  BY <1>1, FS_Interval
<1> QED
  BY <1>2

\* The positions that are kept are finitely many, and so are those up to any of them.
LEMMA PositionsAreFinite ==
  ASSUME NEW n \in Nat, NEW set \in SUBSET (1..n)
  PROVE  /\ IsFiniteSet(set) /\ Cardinality(set) \in Nat
         /\ \A i \in Nat : IsFiniteSet(UpTo(set, i)) /\ Cardinality(UpTo(set, i)) \in Nat
<1>1. IsFiniteSet(1..n)
  BY Count
<1>2. IsFiniteSet(set)
  BY <1>1, FS_Subset
<1>3. \A i \in Nat : UpTo(set, i) \subseteq set
  BY DEF UpTo
<1> QED
  BY <1>2, <1>3, FS_Subset, FS_CardinalityType

\* One position more or none between a number and the one before it.
LEMMA UpToStep ==
  ASSUME NEW set \in SUBSET Nat, NEW m \in Nat, m # 0
  PROVE  /\ m \notin set => UpTo(set, m) = UpTo(set, m - 1)
         /\ m \in set => UpTo(set, m) = UpTo(set, m - 1) \cup {m}
         /\ m \notin UpTo(set, m - 1)
<1>1. \A j \in Nat : j <= m => j <= m - 1 \/ j = m
  OBVIOUS
<1>2. \A j \in Nat : j <= m - 1 => j <= m /\ j # m
  OBVIOUS
<1>3. \A j \in set : j \in Nat
  OBVIOUS
<1>4. m <= m
  OBVIOUS
<1> QED
  BY <1>1, <1>2, <1>3, <1>4, Zenon DEF UpTo

\* All positions are up to the last one, none is up to nought.
LEMMA UpToEnds ==
  ASSUME NEW n \in Nat, NEW set \in SUBSET (1..n)
  PROVE  UpTo(set, n) = set /\ UpTo(set, 0) = {} /\ set \in SUBSET Nat
<1>1. \A j \in 1..n : j \in Nat /\ j <= n /\ ~(j <= 0)
  OBVIOUS
<1>2. \A j \in set : j \in 1..n
  OBVIOUS
<1> QED
  BY <1>1, <1>2, Zenon DEF UpTo

\* Of two positions the higher one has more positions at or below it.
LEMMA RanksGrow ==
  ASSUME NEW n \in Nat, NEW set \in SUBSET (1..n), NEW i \in set, NEW j \in set, i < j
  PROVE  Cardinality(UpTo(set, i)) < Cardinality(UpTo(set, j))
<1>1. set \in SUBSET Nat
  BY UpToEnds
<1>2. i \in Nat /\ j \in Nat
  BY <1>1
<1>3. \A x \in Nat : x <= i => x <= j
  BY <1>2
<1>4. j <= j /\ ~(j <= i)
  BY <1>2
<1>5. UpTo(set, i) \subseteq UpTo(set, j) /\ j \in UpTo(set, j) /\ j \notin UpTo(set, i)
  BY <1>1, <1>3, <1>4, Zenon DEF UpTo
<1>6. \A m \in Nat : IsFiniteSet(UpTo(set, m)) /\ Cardinality(UpTo(set, m)) \in Nat
  BY PositionsAreFinite
<1>7. Cardinality(UpTo(set, i)) <= Cardinality(UpTo(set, j))
  BY <1>2, <1>5, <1>6, FS_Subset
<1>8. Cardinality(UpTo(set, i)) # Cardinality(UpTo(set, j))
  BY <1>2, <1>5, <1>6, FS_Subset
<1> QED
  BY <1>2, <1>6, <1>7, <1>8

\* Every k up to the number of positions is the rank of one of them: the least number that
\* has k positions below or at it.
LEMMA EveryRankIsTaken ==
  ASSUME NEW n \in Nat, NEW set \in SUBSET (1..n), NEW k \in 1..Cardinality(set)
  PROVE  \E i \in set : Cardinality(UpTo(set, i)) = k
<1> DEFINE Reach == {m \in Nat : Cardinality(UpTo(set, m)) >= k}
<1>1. /\ IsFiniteSet(set) /\ Cardinality(set) \in Nat
      /\ \A i \in Nat : IsFiniteSet(UpTo(set, i)) /\ Cardinality(UpTo(set, i)) \in Nat
  BY PositionsAreFinite
<1>2. UpTo(set, n) = set /\ UpTo(set, 0) = {} /\ set \in SUBSET Nat
  BY UpToEnds
<1>3. n \in Reach
  BY <1>1, <1>2
<1>4. PICK m \in Reach : \A j \in Reach : ~(<<j, m>> \in OpToRel(<, Nat))
  BY <1>3, NatLessThanWellFounded, WFMin, Zenon
<1>5. \A j \in Nat : j < m => j \notin Reach
  BY <1>4 DEF OpToRel
<1>6. Cardinality(UpTo(set, 0)) = 0
  BY <1>2, FS_EmptySet
<1>7. m # 0
  BY <1>6
<1>8. m - 1 \in Nat /\ m - 1 < m
  BY <1>7
<1>9. Cardinality(UpTo(set, m - 1)) < k
  BY <1>1, <1>5, <1>8
<1>10. m \in set
  <2> SUFFICES ASSUME m \notin set
               PROVE  FALSE
    OBVIOUS
  <2>1. UpTo(set, m) = UpTo(set, m - 1)
    BY <1>2, <1>7, UpToStep
  <2> QED
    BY <2>1, <1>1, <1>8, <1>9
<1>11. UpTo(set, m) = UpTo(set, m - 1) \cup {m} /\ m \notin UpTo(set, m - 1)
  BY <1>2, <1>7, <1>10, UpToStep
<1>12. Cardinality(UpTo(set, m)) = Cardinality(UpTo(set, m - 1)) + 1
  BY <1>1, <1>8, <1>11, FS_AddElement
<1>13. Cardinality(UpTo(set, m)) = k
  BY <1>1, <1>8, <1>9, <1>12
<1> QED
  BY <1>10, <1>13

\* The k-th position is a position, and k of them are at or below it.
LEMMA NthIsThere ==
  ASSUME NEW n \in Nat, NEW set \in SUBSET (1..n), NEW k \in 1..Cardinality(set)
  PROVE  Nth(set, k) \in set /\ Cardinality(UpTo(set, Nth(set, k))) = k
BY EveryRankIsTaken, Zenon DEF Nth

\* The positions are counted in their order.
LEMMA NthGrows ==
  ASSUME NEW n \in Nat, NEW set \in SUBSET (1..n),
         NEW a \in 1..Cardinality(set), NEW b \in 1..Cardinality(set), a < b
  PROVE  Nth(set, a) < Nth(set, b)
<1>0. set \in SUBSET Nat
  BY UpToEnds
<1>1. /\ Nth(set, a) \in set /\ Cardinality(UpTo(set, Nth(set, a))) = a
      /\ Nth(set, b) \in set /\ Cardinality(UpTo(set, Nth(set, b))) = b
  BY NthIsThere
<1>4. Nth(set, a) \in Nat /\ Nth(set, b) \in Nat
  BY <1>0, <1>1
<1>2. ~(Nth(set, b) < Nth(set, a))
  <2> SUFFICES ASSUME Nth(set, b) < Nth(set, a)
               PROVE  FALSE
    OBVIOUS
  <2>1. Cardinality(UpTo(set, Nth(set, b))) < Cardinality(UpTo(set, Nth(set, a)))
    BY <1>1, RanksGrow
  <2> QED
    BY <2>1, <1>0, <1>1
<1>3. Nth(set, a) # Nth(set, b)
  BY <1>1
<1> QED
  BY <1>1, <1>2, <1>3, <1>4

\* Every position is counted.
LEMMA EveryPositionIsNth ==
  ASSUME NEW n \in Nat, NEW set \in SUBSET (1..n), NEW i \in set
  PROVE  \E k \in 1..Cardinality(set) : Nth(set, k) = i
<1> DEFINE k == Cardinality(UpTo(set, i))
<1>1. /\ IsFiniteSet(set) /\ Cardinality(set) \in Nat
      /\ \A m \in Nat : IsFiniteSet(UpTo(set, m)) /\ Cardinality(UpTo(set, m)) \in Nat
  BY PositionsAreFinite
<1>0. set \in SUBSET Nat
  BY UpToEnds
<1>11. i \in Nat /\ i <= i
  BY <1>0
<1>2. UpTo(set, i) \subseteq set /\ i \in UpTo(set, i) /\ i \in Nat
  BY <1>11 DEF UpTo
<1>3. k <= Cardinality(set)
  BY <1>1, <1>2, FS_Subset
<1>4. k # 0
  BY <1>1, <1>2, FS_EmptySet
<1>5. k \in 1..Cardinality(set)
  BY <1>1, <1>2, <1>3, <1>4
<1>6. Nth(set, k) \in set /\ Cardinality(UpTo(set, Nth(set, k))) = k
  BY <1>5, NthIsThere
<1>7. k \in Nat /\ Nth(set, k) \in Nat
  BY <1>0, <1>1, <1>2, <1>6
<1> HIDE DEF k
<1>8. ASSUME Nth(set, k) < i
      PROVE  FALSE
  <2>1. Cardinality(UpTo(set, Nth(set, k))) < Cardinality(UpTo(set, i))
    BY <1>6, <1>8, RanksGrow
  <2> QED
    BY <2>1, <1>6, <1>7 DEF k
<1>9. ASSUME i < Nth(set, k)
      PROVE  FALSE
  <2>1. Cardinality(UpTo(set, i)) < Cardinality(UpTo(set, Nth(set, k)))
    BY <1>6, <1>9, RanksGrow
  <2> QED
    BY <2>1, <1>6, <1>7 DEF k
<1>10. Nth(set, k) = i
  BY <1>2, <1>7, <1>8, <1>9
<1> QED
  BY <1>5, <1>10

\* Some positions of a list have a last one.
LEMMA LastIsThere ==
  ASSUME NEW n \in Nat, NEW I \in SUBSET (1..n), I # {}
  PROVE  \E i \in I : \A j \in I : j <= i
<1> DEFINE B == {b \in Nat : \A j \in I : j <= b}
<1>1. n \in B
  OBVIOUS
<1>2. PICK m \in B : \A j \in B : ~(<<j, m>> \in OpToRel(<, Nat))
  BY <1>1, NatLessThanWellFounded, WFMin, Zenon
<1>3. \A j \in B : ~(j < m)
  BY <1>2 DEF OpToRel
<1>4. m \in Nat /\ \A j \in I : j <= m
  OBVIOUS
<1>5. SUFFICES ASSUME m \notin I PROVE FALSE
  BY <1>4
<1>6. \A j \in I : j \in Nat /\ j >= 1 /\ j <= m - 1
  BY <1>4, <1>5
<1>7. m >= 1
  <2>1. PICK j \in I : TRUE
    OBVIOUS
  <2> HIDE DEF B
  <2> QED
    BY <2>1, <1>4, <1>6
<1>8. m - 1 \in B /\ m - 1 < m
  BY <1>6, <1>7
<1> QED
  BY <1>3, <1>8

\* The last one counted is the greatest.
LEMMA LastIsGreatest ==
  ASSUME NEW n \in Nat, NEW set \in SUBSET (1..n), NEW i \in set
  PROVE  /\ Cardinality(set) \in Nat \ {0}
         /\ Nth(set, Cardinality(set)) \in set
         /\ i <= Nth(set, Cardinality(set))
<1>1. Cardinality(set) \in Nat
  BY PositionsAreFinite
<1>2. PICK k \in 1..Cardinality(set) : Nth(set, k) = i
  BY EveryPositionIsNth
<1>3. Cardinality(set) \in Nat \ {0} /\ Cardinality(set) \in 1..Cardinality(set)
  BY <1>1, <1>2
<1>4. Nth(set, Cardinality(set)) \in set
  BY <1>3, NthIsThere
<1>5. k \in 1..Cardinality(set) /\ (k = Cardinality(set) \/ k < Cardinality(set))
  BY <1>1
<1>6. k < Cardinality(set) => Nth(set, k) < Nth(set, Cardinality(set))
  BY <1>3, NthGrows
<1>7. \A x \in set : x \in Nat
  OBVIOUS
<1>8. i \in Nat /\ Nth(set, Cardinality(set)) \in Nat
  BY <1>4, <1>7
<1> QED
  BY <1>2, <1>3, <1>4, <1>5, <1>6, <1>8

\* The first position of a set that is not empty is one of the set.
LEMMA FirstIsThere ==
  ASSUME NEW n \in Nat, NEW set \in SUBSET (1..n), set # {}
  PROVE  Nth(set, 1) \in set
<1>1. IsFiniteSet(set) /\ Cardinality(set) \in Nat
  BY PositionsAreFinite
<1>2. Cardinality(set) # 0
  BY <1>1, FS_EmptySet
<1>3. 1 \in 1..Cardinality(set)
  BY <1>1, <1>2
<1> QED
  BY <1>3, NthIsThere

-----------------------------------------------------------------------------
(* Counting up to a number: what holds of nought and goes on from each number to the next *)
(* holds of all of them, and what is computed step by step is computed.                   *)

LEMMA Climbs ==
  ASSUME NEW n \in Nat, NEW S, 0 \in S, \A k \in 1..n : k - 1 \in S => k \in S
  PROVE  \A k \in 0..n : k \in S
<1> DEFINE Rest == {k \in 0..n : k \notin S}
<1>1. SUFFICES ASSUME Rest # {} PROVE FALSE
  OBVIOUS
<1>2. Rest \subseteq Nat
  OBVIOUS
<1>3. PICK m \in Rest : \A j \in Rest : ~(<<j, m>> \in OpToRel(<, Nat))
  <2> HIDE DEF Rest
  <2> QED
    BY <1>1, <1>2, NatLessThanWellFounded, WFMin, Zenon
<1>4. m \in 0..n /\ m \notin S
  OBVIOUS
<1>5. m # 0
  BY <1>4
<1>6. m \in 1..n /\ m - 1 \in 0..n /\ m - 1 \in Nat /\ m \in Nat /\ m - 1 < m
  BY <1>4, <1>5
<1>7. m - 1 \notin Rest
  BY <1>3, <1>6 DEF OpToRel
<1>8. m - 1 \in S
  BY <1>6, <1>7
<1> QED
  BY <1>4, <1>6, <1>8

\* f[k] is what is there after k steps from v.
Computes(f, n, V, v, step) ==
    f \in [0..n -> V] /\ f[0] = v /\ \A k \in 1..n : f[k] = step[k][f[k - 1]]

LEMMA Iterates ==
  ASSUME NEW n \in Nat, NEW V, NEW v \in V, NEW step \in [1..n -> [V -> V]]
  PROVE  \E f : Computes(f, n, V, v, step)
<1> DEFINE Good(f, m) == f[0] = v /\ \A k \in 1..m : f[k] = step[k][f[k - 1]]
           S == {m \in 0..n : \E f \in [0..m -> V] : Good(f, m)}
<1>1. 0 \in S
  <2> DEFINE f == [k \in 0..0 |-> v]
  <2>1. f \in [0..0 -> V] /\ Good(f, 0)
    OBVIOUS
  <2>2. 0 \in 0..n
    OBVIOUS
  <2> HIDE DEF f, Good
  <2> QED
    BY <2>1, <2>2
<1>2. ASSUME NEW m \in 1..n, m - 1 \in S
      PROVE  m \in S
  <2>1. m \in Nat /\ m - 1 \in 0..n /\ m \in 0..n /\ m - 1 \in 0..(m - 1) /\ 0 \in 0..(m - 1)
    OBVIOUS
  <2>2. PICK f \in [0..(m - 1) -> V] : Good(f, m - 1)
    BY <1>2
  <2> DEFINE w == step[m][f[m - 1]]
             g == [k \in 0..m |-> IF k = m THEN w ELSE f[k]]
  <2>3. w \in V
    BY <2>1
  <2> HIDE DEF w
  <2>4. \A k \in 0..m : k # m => k \in 0..(m - 1)
    BY <2>1
  <2>5. g \in [0..m -> V]
    BY <2>3, <2>4
  <2>6. g[m] = w /\ \A k \in 0..(m - 1) : g[k] = f[k]
    BY <2>1
  <2> HIDE DEF g
  <2>7. ASSUME NEW k \in 1..m
        PROVE  g[k] = step[k][g[k - 1]]
    <3>1. k - 1 \in 0..(m - 1)
      BY <2>1
    <3>2. CASE k = m
      BY <2>6, <3>1, <3>2 DEF w
    <3>3. CASE k # m
      <4>1. k \in 1..(m - 1) /\ k \in 0..(m - 1)
        BY <2>1, <3>3
      <4>2. f[k] = step[k][f[k - 1]]
        BY <2>2, <4>1
      <4> QED
        BY <2>6, <3>1, <4>1, <4>2
    <3> QED
      BY <3>2, <3>3
  <2>8. g[0] = v
    BY <2>1, <2>2, <2>6
  <2>9. Good(g, m)
    BY <2>7, <2>8
  <2> HIDE DEF Good
  <2> QED
    BY <2>1, <2>5, <2>9
<1>3. n \in S
  <2> HIDE DEF S
  <2>1. \A k \in 0..n : k \in S
    BY <1>1, <1>2, Climbs
  <2>2. n \in 0..n
    OBVIOUS
  <2> QED
    BY <2>1, <2>2
<1> QED
  BY <1>3 DEF Computes

-----------------------------------------------------------------------------

\* A filtered list is a list of the same elements.
LEMMA KeptIsList ==
  ASSUME NEW T, NEW list \in Seq(T), NEW set \in SUBSET (DOMAIN list)
  PROVE  /\ Kept(list, set) \in Seq(T)
         /\ Len(Kept(list, set)) = Cardinality(set) /\ Cardinality(set) \in Nat
         /\ DOMAIN Kept(list, set) = 1..Cardinality(set)
<1>1. Len(list) \in Nat /\ DOMAIN list = 1..Len(list)
  OBVIOUS
<1>2. Cardinality(set) \in Nat
  BY <1>1, PositionsAreFinite
<1>3. \A k \in 1..Cardinality(set) : Nth(set, k) \in DOMAIN list
  BY <1>1, NthIsThere
<1>4. \A k \in 1..Cardinality(set) : list[Nth(set, k)] \in T
  BY <1>3
<1> QED
  BY <1>2, <1>4 DEF Kept

\* It has what is at the positions kept, and nothing else.
LEMMA KeptRange ==
  ASSUME NEW T, NEW list \in Seq(T), NEW set \in SUBSET (DOMAIN list)
  PROVE  {Kept(list, set)[k] : k \in DOMAIN Kept(list, set)} = {list[i] : i \in set}
<1>1. Len(list) \in Nat /\ DOMAIN list = 1..Len(list)
  OBVIOUS
<1>2. \A k \in 1..Cardinality(set) : Nth(set, k) \in set
  BY <1>1, NthIsThere
<1>3. \A i \in set : \E k \in 1..Cardinality(set) : Nth(set, k) = i
  BY <1>1, EveryPositionIsNth
<1> QED
  BY <1>2, <1>3 DEF Kept

\* It keeps their order, so what is there once stays there once.
LEMMA KeptOrder ==
  ASSUME NEW T, NEW list \in Seq(T), NEW set \in SUBSET (DOMAIN list),
         NEW a \in DOMAIN Kept(list, set), NEW b \in DOMAIN Kept(list, set), a < b
  PROVE  \E i, j \in set : /\ i < j /\ Kept(list, set)[a] = list[i] /\ Kept(list, set)[b] = list[j]
<1>1. Len(list) \in Nat /\ DOMAIN list = 1..Len(list)
  OBVIOUS
<1>2. a \in 1..Cardinality(set) /\ b \in 1..Cardinality(set)
  BY DEF Kept
<1>3. Nth(set, a) \in set /\ Nth(set, b) \in set /\ Nth(set, a) < Nth(set, b)
  BY <1>1, <1>2, NthIsThere, NthGrows
<1>4. Kept(list, set)[a] = list[Nth(set, a)] /\ Kept(list, set)[b] = list[Nth(set, b)]
  BY <1>2 DEF Kept
<1> QED
  BY <1>3, <1>4

\* Nothing is kept only if there is nothing to keep.
LEMMA KeptEmpty ==
  ASSUME NEW T, NEW list \in Seq(T), NEW set \in SUBSET (DOMAIN list)
  PROVE  Kept(list, set) = <<>> <=> set = {}
<1>1. Kept(list, set) \in Seq(T) /\ Len(Kept(list, set)) = Cardinality(set)
  BY KeptIsList
<1>2. Len(list) \in Nat /\ DOMAIN list = 1..Len(list)
  OBVIOUS
<1>3. IsFiniteSet(set)
  BY <1>2, PositionsAreFinite
<1>4. Cardinality(set) = 0 <=> set = {}
  BY <1>3, FS_EmptySet
<1> QED
  BY <1>1, <1>4

\* A filter that keeps every position changes nothing.
LEMMA KeptAll ==
  ASSUME NEW T, NEW list \in Seq(T)
  PROVE  Kept(list, DOMAIN list) = list
<1> DEFINE n == Len(list)
<1>1. n \in Nat /\ DOMAIN list = 1..n /\ list = [k \in 1..n |-> list[k]]
  OBVIOUS
<1>2. Cardinality(1..n) = n
  BY <1>1, Count
<1>3. ASSUME NEW k \in 1..n
      PROVE  Nth(1..n, k) = k
  <2>1. \A j \in 1..n : j <= k <=> j \in 1..k
    BY <1>1
  <2>2. \A j \in 1..k : j \in 1..n
    BY <1>1
  <2>3. UpTo(1..n, k) = 1..k
    BY <2>1, <2>2, Zenon DEF UpTo
  <2>4. Cardinality(UpTo(1..n, k)) = k
    BY <1>1, <2>3, Count
  <2>5. k \in 1..Cardinality(1..n)
    BY <1>2
  <2>6. Nth(1..n, k) \in 1..n /\ Cardinality(UpTo(1..n, Nth(1..n, k))) = k
    BY <1>1, <2>5, NthIsThere
  <2>7. ~(Nth(1..n, k) < k)
    BY <1>1, <2>4, <2>6, RanksGrow
  <2>8. ~(k < Nth(1..n, k))
    BY <1>1, <2>4, <2>6, RanksGrow
  <2> QED
    BY <1>1, <2>6, <2>7, <2>8
<1> QED
  BY <1>1, <1>2, <1>3 DEF Kept

-----------------------------------------------------------------------------

\* No element of the list is there twice.
Once(list) == \A i, j \in DOMAIN list : list[i] = list[j] => i = j

LEMMA KeptOnce ==
  ASSUME NEW T, NEW list \in Seq(T), NEW set \in SUBSET (DOMAIN list), Once(list)
  PROVE  Once(Kept(list, set))
<1> SUFFICES ASSUME NEW a \in DOMAIN Kept(list, set), NEW b \in DOMAIN Kept(list, set),
                    Kept(list, set)[a] = Kept(list, set)[b], a # b
             PROVE  FALSE
  BY DEF Once
<1>1. a \in Nat /\ b \in Nat
  BY KeptIsList
<1>2. CASE a < b
  <2>1. \E i, j \in set : i < j /\ list[i] = list[j]
    BY <1>2, KeptOrder
  <2> QED
    BY <2>1 DEF Once
<1>3. CASE b < a
  <2>1. \E i, j \in set : i < j /\ list[i] = list[j]
    BY <1>3, KeptOrder
  <2> QED
    BY <2>1 DEF Once
<1> QED
  BY <1>1, <1>2, <1>3

\* Such a list is as long as it has elements.
LEMMA OnceCounts ==
  ASSUME NEW T, NEW list \in Seq(T), Once(list)
  PROVE  Cardinality({list[i] : i \in DOMAIN list}) = Len(list)
<1> DEFINE R == {list[i] : i \in DOMAIN list}
           n == Len(list)
<1>1. n \in Nat /\ DOMAIN list = 1..n /\ IsFiniteSet(1..n) /\ Cardinality(1..n) = n
  BY Count
<1>2. list \in [1..n -> R]
  BY <1>1
<1>3. list \in Surjection(1..n, R)
  BY <1>1, <1>2 DEF Surjection
<1>4. list \in Injection(1..n, R)
  BY <1>1, <1>2 DEF Injection, IsInjective, Once
<1> QED
  BY <1>1, <1>3, <1>4, FS_Surjection

=============================================================================
