---------------------------- MODULE Ranked_proofs ----------------------------
(***************************************************************************)
(* What Rank and Nth do on every finite set of natural numbers.  The only  *)
(* induction is NatSets, over the members of a set.                        *)
(***************************************************************************)
EXTENDS Ranked, FiniteSetTheorems, TLAPS

(* A set that holds 0 and the successor of what it holds has every natural *)
(* number.                                                                 *)
LEMMA NatSets ==
  ASSUME NEW S, 0 \in S, \A n \in Nat : n \in S => n + 1 \in S
  PROVE  Nat \subseteq S
<1> DEFINE T == Nat \ S
<1>1. SUFFICES ASSUME T # {} PROVE FALSE
  OBVIOUS
<1>2. PICK x \in T : \A y \in T : ~ (<<y, x>> \in OpToRel(<, Nat))
  BY <1>1, WFMin, NatLessThanWellFounded
<1>3. \A y \in Nat : y < x => y \in S
  BY <1>2 DEF OpToRel
<1>4. x = 0 \/ x - 1 \in S
  BY <1>3
<1> QED
  BY <1>4

LEMMA RankType ==
  ASSUME NEW S, IsFiniteSet(S), NEW k
  PROVE  /\ IsFiniteSet({ x \in S : x <= k })
         /\ Rank(S, k) \in Nat
         /\ Rank(S, k) <= Cardinality(S)
<1> DEFINE T == { x \in S : x <= k }
<1>1. T \in SUBSET S
  OBVIOUS
<1>2. IsFiniteSet(T) /\ Cardinality(T) <= Cardinality(S)
  BY <1>1, FS_Subset
<1>3. Cardinality(T) \in Nat /\ Cardinality(S) \in Nat
  BY <1>2, FS_CardinalityType
<1> QED
  BY <1>2, <1>3 DEF Rank

(* One more when k is itself a member.                                     *)
LEMMA RankStep ==
  ASSUME NEW S, S \subseteq Int, IsFiniteSet(S), NEW k \in Int
  PROVE  Rank(S, k) = Rank(S, k - 1) + (IF k \in S THEN 1 ELSE 0)
<1> DEFINE B == { x \in S : x <= k - 1 }
<1>1. IsFiniteSet(B)
  BY RankType
<1>4. k \notin B
  OBVIOUS
<1>5. \A x \in S : x <= k <=> x <= k - 1 \/ x = k
  OBVIOUS
<1>6. Cardinality(B) \in Nat
  BY <1>1, FS_CardinalityType
<1>2. CASE k \in S
  <2>1. { x \in S : x <= k } = B \cup {k}
    BY <1>2, <1>5
  <2>2. Cardinality(B \cup {k}) = Cardinality(B) + 1
    BY <1>1, <1>4, FS_AddElement
  <2>3. Rank(S, k) = Cardinality(B) + 1
    BY <2>1, <2>2 DEF Rank
  <2>4. Rank(S, k - 1) = Cardinality(B)
    BY DEF Rank
  <2> QED
    BY <1>2, <2>3, <2>4
<1>3. CASE k \notin S
  <2>1. { x \in S : x <= k } = B
    BY <1>3, <1>5
  <2>2. Rank(S, k) = Cardinality(B)
    BY <2>1 DEF Rank
  <2>3. Rank(S, k - 1) = Cardinality(B)
    BY DEF Rank
  <2> QED
    BY <1>3, <1>6, <2>2, <2>3
<1> QED
  BY <1>2, <1>3

LEMMA RankMonotone ==
  ASSUME NEW S, S \subseteq Int, IsFiniteSet(S), NEW j \in Int, NEW k \in Int, j <= k
  PROVE  /\ Rank(S, j) <= Rank(S, k)
         /\ j < k /\ k \in S => Rank(S, j) < Rank(S, k)
<1>1. ASSUME NEW i \in Int, j <= i
      PROVE  Rank(S, j) <= Rank(S, i)
  <2>1. \A x \in S : x <= j => x <= i
    BY <1>1
  <2>2. { x \in S : x <= j } \in SUBSET { x \in S : x <= i }
    BY <2>1
  <2>3. IsFiniteSet({ x \in S : x <= i })
    BY RankType
  <2>4. Cardinality({ x \in S : x <= j }) <= Cardinality({ x \in S : x <= i })
    BY <2>2, <2>3, FS_Subset
  <2> QED
    BY <2>4 DEF Rank
<1>2. ASSUME j < k, k \in S
      PROVE  Rank(S, j) < Rank(S, k)
  <2>1. Rank(S, j) <= Rank(S, k - 1)
    BY <1>1, <1>2
  <2>2. Rank(S, k) = Rank(S, k - 1) + 1
    BY <1>2, RankStep
  <2>3. Rank(S, j) \in Nat /\ Rank(S, k - 1) \in Nat
    BY RankType
  <2> QED
    BY <2>1, <2>2, <2>3
<1> QED
  BY <1>1, <1>2

LEMMA RankAll ==
  ASSUME NEW S, NEW k, \A x \in S : x <= k
  PROVE  Rank(S, k) = Cardinality(S)
<1>1. { x \in S : x <= k } = S
  OBVIOUS
<1> QED
  BY <1>1 DEF Rank

LEMMA RankNone ==
  ASSUME NEW S, NEW k, \A x \in S : ~ (x <= k)
  PROVE  Rank(S, k) = 0
<1>1. { x \in S : x <= k } = {}
  OBVIOUS
<1> QED
  BY <1>1, FS_EmptySet DEF Rank

(* The sets of lines and of places in a text.                              *)
IsPlaces(S) == \E b \in Nat : S \subseteq 0..b

LEMMA PlacesFinite ==
  ASSUME NEW S, IsPlaces(S)
  PROVE  /\ S \subseteq Nat /\ S \subseteq Int
         /\ IsFiniteSet(S) /\ Cardinality(S) \in Nat
<1>1. PICK b \in Nat : S \subseteq 0..b
  BY DEF IsPlaces
<1>2. IsFiniteSet(0..b)
  BY FS_Interval
<1>3. S \subseteq Nat /\ S \subseteq Int
  BY <1>1
<1>4. S \in SUBSET (0..b)
  BY <1>1
<1>5. IsFiniteSet(S)
  BY <1>2, <1>4, FS_Subset
<1>6. Cardinality(S) \in Nat
  BY <1>5, FS_CardinalityType
<1> QED
  BY <1>3, <1>5, <1>6

(* Each number up to the size of a set is the rank of a member.            *)
LEMMA NthMember ==
  ASSUME NEW S, IsPlaces(S), NEW n \in 1..Cardinality(S)
  PROVE  Nth(S, n) \in S /\ Rank(S, Nth(S, n)) = n
<1>1. PICK b \in Nat : S \subseteq 0..b
  BY DEF IsPlaces
<1>2. S \subseteq Nat /\ S \subseteq Int /\ IsFiniteSet(S) /\ Cardinality(S) \in Nat
  BY PlacesFinite
<1>8. \A k \in Int : Rank(S, k) = Rank(S, k - 1) + (IF k \in S THEN 1 ELSE 0)
  BY <1>2, RankStep
<1> DEFINE K == { k \in Nat : \A i \in 1..Rank(S, k) : \E x \in S : Rank(S, x) = i }
<1>3. 0 \in K
  <2>1. Rank(S, -1) = 0
    <3>1. \A x \in S : ~ (x <= -1)
      BY <1>2
    <3> QED
      BY <3>1, RankNone
  <2>2. Rank(S, 0) = Rank(S, -1) + (IF 0 \in S THEN 1 ELSE 0)
    <3>1. 0 \in Int /\ 0 - 1 = -1
      OBVIOUS
    <3> QED
      BY <1>8, <3>1
  <2>3. CASE 0 \in S
    <3>1. Rank(S, 0) = 1
      BY <2>1, <2>2, <2>3
    <3> QED
      BY <2>3, <3>1
  <2>4. CASE 0 \notin S
    <3>1. Rank(S, 0) = 0
      BY <2>1, <2>2, <2>4
    <3> QED
      BY <3>1
  <2> QED
    BY <2>3, <2>4
<1>4. ASSUME NEW k \in Nat, k \in K
      PROVE  k + 1 \in K
  <2>1. Rank(S, k + 1) = Rank(S, k) + (IF k + 1 \in S THEN 1 ELSE 0)
    <3>1. Rank(S, k + 1) = Rank(S, (k + 1) - 1) + (IF k + 1 \in S THEN 1 ELSE 0)
      BY <1>8
    <3> QED
      BY <3>1
  <2>2. Rank(S, k) \in Nat /\ Rank(S, k + 1) \in Nat
    BY <1>2, RankType
  <2>3. ASSUME NEW i \in 1..Rank(S, k + 1)
        PROVE  \E x \in S : Rank(S, x) = i
    <3>1. i \in 1..Rank(S, k) \/ (k + 1 \in S /\ i = Rank(S, k + 1))
      BY <2>1, <2>2
    <3> QED
      BY <1>4, <3>1
  <2> QED
    BY <2>3
<1>5. b \in K
  <2> HIDE DEF K
  <2> QED
    BY <1>3, <1>4, NatSets
<1>6. Rank(S, b) = Cardinality(S)
  <2>1. \A x \in S : x <= b
    BY <1>1
  <2> QED
    BY <2>1, RankAll
<1>7. \E x \in S : Rank(S, x) = n
  BY <1>5, <1>6
<1> QED
  BY <1>7 DEF Nth

(* A member has one rank, and no two have the same.                        *)
LEMMA NthOfRank ==
  ASSUME NEW S, IsPlaces(S), NEW x \in S
  PROVE  /\ Rank(S, x) \in 1..Cardinality(S)
         /\ Nth(S, Rank(S, x)) = x
<1>1. S \subseteq Nat /\ S \subseteq Int /\ IsFiniteSet(S) /\ Cardinality(S) \in Nat
  BY PlacesFinite
<1>2. Rank(S, x) \in 1..Cardinality(S)
  <2>1. Rank(S, x) = Rank(S, x - 1) + (IF x \in S THEN 1 ELSE 0)
    BY <1>1, RankStep
  <2>2. Rank(S, x) \in Nat /\ Rank(S, x) <= Cardinality(S) /\ Rank(S, x - 1) \in Nat
    BY <1>1, RankType
  <2> QED
    BY <1>1, <2>1, <2>2
<1> DEFINE y == Nth(S, Rank(S, x))
<1>3. y \in S /\ Rank(S, y) = Rank(S, x)
  BY <1>2, NthMember
<1>4. ~ (x < y) /\ ~ (y < x)
  <2>1. ASSUME NEW u \in S, NEW v \in S, u < v
        PROVE  Rank(S, u) < Rank(S, v)
    <3>1. u \in Int /\ v \in Int /\ u <= v
      BY <1>1, <2>1
    <3> QED
      BY <1>1, <2>1, <3>1, RankMonotone
  <2>2. Rank(S, x) \in Nat
    BY <1>2, <1>1
  <2> QED
    BY <1>3, <2>1, <2>2
<1>5. x \in Nat /\ y \in Nat
  BY <1>1, <1>3
<1> QED
  BY <1>2, <1>4, <1>5

(* The members come in their order.                                        *)
LEMMA NthIncreases ==
  ASSUME NEW S, IsPlaces(S), NEW m \in 1..Cardinality(S), NEW n \in 1..Cardinality(S)
  PROVE  m < n <=> Nth(S, m) < Nth(S, n)
<1>1. S \subseteq Nat /\ S \subseteq Int /\ IsFiniteSet(S) /\ Cardinality(S) \in Nat
  BY PlacesFinite
<1>2. /\ Nth(S, m) \in S /\ Rank(S, Nth(S, m)) = m
      /\ Nth(S, n) \in S /\ Rank(S, Nth(S, n)) = n
  BY NthMember
<1>6. Nth(S, m) \in Int /\ Nth(S, n) \in Int
  BY <1>1, <1>2
<1>3. /\ Nth(S, m) \in Int /\ Nth(S, n) \in Int
      /\ Nth(S, m) < Nth(S, n) => Nth(S, m) <= Nth(S, n)
  BY <1>6
<1>4. Nth(S, m) < Nth(S, n) => m < n
  BY <1>1, <1>2, <1>3, RankMonotone
<1>5. Nth(S, n) <= Nth(S, m) => n <= m
  BY <1>1, <1>2, <1>3, RankMonotone
<1> QED
  BY <1>1, <1>3, <1>4, <1>5

(* Numbering the members and choosing some of them loses none.             *)
LEMMA CountByRank ==
  ASSUME NEW S, IsPlaces(S), NEW T, T \subseteq S
  PROVE  /\ IsFiniteSet({ n \in 1..Cardinality(S) : Nth(S, n) \in T })
         /\ Cardinality({ n \in 1..Cardinality(S) : Nth(S, n) \in T }) = Cardinality(T)
<1>1. S \subseteq Nat /\ S \subseteq Int /\ IsFiniteSet(S) /\ Cardinality(S) \in Nat
  BY PlacesFinite
<1> DEFINE U == { n \in 1..Cardinality(S) : Nth(S, n) \in T }
           f == [t \in T |-> Rank(S, t)]
<1>2. IsFiniteSet(T)
  BY <1>1, FS_Subset
<1>3. \A t \in T : Rank(S, t) \in 1..Cardinality(S) /\ Nth(S, Rank(S, t)) = t
  BY NthOfRank
<1>4. f \in [T -> U]
  BY <1>3
<1>5. \A u, v \in T : f[u] = f[v] => u = v
  BY <1>3
<1>6. \A n \in U : Nth(S, n) \in T /\ f[Nth(S, n)] = n
  BY NthMember
<1>7. f \in Bijection(T, U)
  <2> HIDE DEF f, U
  <2>1. f \in Injection(T, U)
    BY <1>4, <1>5 DEF Injection, IsInjective
  <2>2. f \in Surjection(T, U)
    BY <1>4, <1>6 DEF Surjection
  <2> QED
    BY <2>1, <2>2 DEF Bijection
<1>8. ExistsBijection(T, U)
  BY <1>7 DEF ExistsBijection
<1> QED
  BY <1>2, <1>8, FS_Bijection

(* The numbers from 1 on are their own ranks.                              *)
LEMMA NthOfInterval ==
  ASSUME NEW n \in Nat, NEW k \in 1..n
  PROVE  Nth(1..n, k) = k
<1>1. IsPlaces(1..n)
  <2>1. 1..n \subseteq 0..n
    OBVIOUS
  <2> QED
    BY <2>1 DEF IsPlaces
<1>2. Rank(1..n, k) = k
  <2>1. { x \in 1..n : x <= k } = 1..k
    OBVIOUS
  <2>2. Cardinality(1..k) = IF 1 > k THEN 0 ELSE k - 1 + 1
    BY FS_Interval
  <2>3. Cardinality(1..k) = k
    BY <2>2
  <2> QED
    BY <2>1, <2>3 DEF Rank
<1> QED
  BY <1>1, <1>2, NthOfRank
=============================================================================
