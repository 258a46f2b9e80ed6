------------------------- MODULE SubsequenceProofs -------------------------
(***************************************************************************)
(* What Kept returns: as many elements as there are places, each of them   *)
(* in its order.                                                           *)
(***************************************************************************)
EXTENDS Subsequences, Sequences, FiniteSetTheorems, TLAPS

\* Places are numbers from 1 on, finitely many.
Places(I) == IsFiniteSet(I) /\ I \subseteq Nat \ {0}

LEMMA RankType ==
    ASSUME NEW I, Places(I), NEW i \in I
    PROVE  Rank(I, i) \in 1..Cardinality(I)
  <1> DEFINE upto == {j \in I : j <= i}
  <1>1. upto \subseteq I /\ i \in upto
    BY DEF Places
  <1>2. IsFiniteSet(upto) /\ Cardinality(upto) <= Cardinality(I)
    BY <1>1, FS_Subset DEF Places
  <1>3. Cardinality(upto) \in Nat /\ Cardinality(I) \in Nat
    BY <1>2, FS_CardinalityType DEF Places
  <1>4. Cardinality(upto) # 0
    BY <1>1, <1>2, FS_EmptySet
  <1> QED BY <1>2, <1>3, <1>4 DEF Rank

LEMMA RankGrows ==
    ASSUME NEW I, Places(I), NEW i \in I, NEW j \in I, i < j
    PROVE  Rank(I, i) < Rank(I, j)
  <1> DEFINE upto(k) == {l \in I : l <= k}
  <1>0. /\ I \subseteq Nat /\ IsFiniteSet(I)
        /\ i \in Nat /\ j \in Nat /\ \A l \in I : l \in Nat
    BY DEF Places
  <1>7. \A l \in I : l <= i => l <= j
    BY <1>0
  <1>8. j <= j /\ ~(j <= i)
    BY <1>0
  <1>1. upto(i) \subseteq upto(j) /\ j \in upto(j) /\ j \notin upto(i)
    BY <1>7, <1>8
  <1>2. IsFiniteSet(upto(j)) /\ upto(j) \subseteq I
    BY <1>0, FS_Subset
  <1>3. /\ Cardinality(upto(i)) <= Cardinality(upto(j))
        /\ Cardinality(upto(i)) = Cardinality(upto(j)) => upto(i) = upto(j)
    BY <1>1, <1>2, FS_Subset
  <1>4. Cardinality(upto(i)) \in Nat /\ Cardinality(upto(j)) \in Nat
    BY <1>1, <1>2, FS_Subset, FS_CardinalityType
  <1>5. Cardinality(upto(i)) # Cardinality(upto(j))
    BY <1>1, <1>3
  <1>6. Cardinality(upto(i)) < Cardinality(upto(j))
    BY <1>3, <1>4, <1>5
  <1> QED BY <1>6 DEF Rank

LEMMA RankInjective ==
    ASSUME NEW I, Places(I), NEW i \in I, NEW j \in I, Rank(I, i) = Rank(I, j)
    PROVE  i = j
  <1>1. i \in Nat /\ j \in Nat
    BY DEF Places
  <1>0. Rank(I, i) \in 1..Cardinality(I)
    BY RankType
  <1>2. ~(i < j) /\ ~(j < i)
    BY <1>0, RankGrows
  <1> QED BY <1>1, <1>2

\* Every rank up to the number of places is some place's: an injection of a
\* finite set into as many numbers is onto.
LEMMA EveryRankIsTaken ==
    ASSUME NEW I, Places(I), NEW k \in 1..Cardinality(I)
    PROVE  \E i \in I : Rank(I, i) = k
  <1> DEFINE N == 1..Cardinality(I)
             f == [i \in I |-> Rank(I, i)]
  <1>0. IsFiniteSet(I) /\ Cardinality(I) \in Nat
    BY FS_CardinalityType DEF Places
  <1>1. IsFiniteSet(N) /\ Cardinality(N) = Cardinality(I)
    BY <1>0, FS_Interval
  <1>2. f \in Injection(I, N)
    <2>1. \A i \in I : Rank(I, i) \in N
      BY RankType
    <2>2. \A i, j \in I : Rank(I, i) = Rank(I, j) => i = j
      BY RankInjective
    <2> HIDE DEF N
    <2> QED BY <2>1, <2>2 DEF Injection, IsInjective
  <1>3. f \in Surjection(I, N)
    BY <1>0, <1>1, <1>2, FS_Injection
  <1> QED BY <1>3 DEF Surjection

LEMMA KthOf ==
    ASSUME NEW I, Places(I), NEW k \in 1..Cardinality(I)
    PROVE  Kth(I, k) \in I /\ Rank(I, Kth(I, k)) = k
  BY EveryRankIsTaken DEF Kth

LEMMA KthOfRank ==
    ASSUME NEW I, Places(I), NEW i \in I
    PROVE  Rank(I, i) \in 1..Cardinality(I) /\ Kth(I, Rank(I, i)) = i
  BY RankType, KthOf, RankInjective

LEMMA KthGrows ==
    ASSUME NEW I, Places(I), NEW k \in 1..Cardinality(I), NEW l \in 1..Cardinality(I), k < l
    PROVE  Kth(I, k) < Kth(I, l)
  <1>1. /\ Kth(I, k) \in I /\ Rank(I, Kth(I, k)) = k
        /\ Kth(I, l) \in I /\ Rank(I, Kth(I, l)) = l
    BY KthOf
  <1>2. Kth(I, k) \in Nat /\ Kth(I, l) \in Nat
    BY <1>1 DEF Places
  <1>3. k \in Nat /\ l \in Nat
    OBVIOUS
  <1>4. Kth(I, k) # Kth(I, l)
    BY <1>1, <1>3
  <1>5. ~(Kth(I, l) < Kth(I, k))
    BY <1>1, <1>3, RankGrows
  <1> QED BY <1>2, <1>4, <1>5

\* A sequence's places are places, and so are some of them.
LEMMA SequencePlaces ==
    ASSUME NEW S, NEW s \in Seq(S), NEW I, I \subseteq DOMAIN s
    PROVE  Places(I)
  <1>1. DOMAIN s = 1..Len(s) /\ Len(s) \in Nat
    OBVIOUS
  <1>2. IsFiniteSet(1..Len(s))
    BY <1>1, FS_Interval
  <1> QED BY <1>1, <1>2, FS_Subset DEF Places

\* The rows kept are rows of the sequence, ...
LEMMA KeptType ==
    ASSUME NEW S, NEW s \in Seq(S), NEW I, I \subseteq DOMAIN s
    PROVE  /\ Kept(s, I) \in Seq(S)
           /\ Len(Kept(s, I)) = Cardinality(I)
           /\ DOMAIN Kept(s, I) = 1..Cardinality(I)
  <1>1. Places(I)
    BY SequencePlaces
  <1>2. Cardinality(I) \in Nat
    BY <1>1, FS_CardinalityType DEF Places
  <1>3. \A k \in 1..Cardinality(I) : s[Kth(I, k)] \in S
    BY <1>1, KthOf
  <1>4. Kept(s, I) \in [1..Cardinality(I) -> S]
    BY <1>3 DEF Kept
  <1> QED BY <1>2, <1>4

\* ... each from its own place, in order, ...
LEMMA KeptFrom ==
    ASSUME NEW S, NEW s \in Seq(S), NEW I, I \subseteq DOMAIN s,
           NEW k \in DOMAIN Kept(s, I)
    PROVE  Kth(I, k) \in I /\ Kept(s, I)[k] = s[Kth(I, k)]
  BY SequencePlaces, KeptType, KthOf DEF Kept

LEMMA KeptInOrder ==
    ASSUME NEW S, NEW s \in Seq(S), NEW I, I \subseteq DOMAIN s,
           NEW k \in DOMAIN Kept(s, I), NEW l \in DOMAIN Kept(s, I), k < l
    PROVE  Kth(I, k) < Kth(I, l)
  BY SequencePlaces, KeptType, KthGrows

\* ... and nothing that was to be kept is lost.
LEMMA KeptAll ==
    ASSUME NEW S, NEW s \in Seq(S), NEW I, I \subseteq DOMAIN s, NEW i \in I
    PROVE  \E k \in DOMAIN Kept(s, I) : Kept(s, I)[k] = s[i]
  <1>1. Rank(I, i) \in 1..Cardinality(I) /\ Kth(I, Rank(I, i)) = i
    BY SequencePlaces, KthOfRank
  <1>2. Rank(I, i) \in DOMAIN Kept(s, I) /\ Kept(s, I)[Rank(I, i)] = s[i]
    BY <1>1, KeptType DEF Kept
  <1> QED BY <1>2

\* LIMIT n takes every place when it takes fewer than n.
LEMMA FirstRanks ==
    ASSUME NEW I, Places(I), NEW n \in Nat
    PROVE  LET first == {i \in I : Rank(I, i) <= n}
           IN  /\ IsFiniteSet(first) /\ Cardinality(first) \in Nat
               /\ Cardinality(first) <= n
               /\ Cardinality(first) < n => first = I
  <1> DEFINE first == {i \in I : Rank(I, i) <= n}
             N == 1..n
             f == [i \in first |-> Rank(I, i)]
  <1>0. /\ IsFiniteSet(I) /\ Cardinality(I) \in Nat
        /\ IsFiniteSet(first) /\ Cardinality(first) \in Nat
    <2>1. IsFiniteSet(I)
      BY DEF Places
    <2>2. IsFiniteSet(first)
      BY <2>1, FS_Subset
    <2> QED BY <2>1, <2>2, FS_CardinalityType
  <1>1. IsFiniteSet(N) /\ Cardinality(N) = n
    BY FS_Interval
  <1>2. f \in Injection(first, N)
    <2>1. \A i \in first : Rank(I, i) \in N
      BY <1>0, RankType
    <2>2. \A i, j \in first : Rank(I, i) = Rank(I, j) => i = j
      BY RankInjective
    <2> HIDE DEF N, first
    <2> QED BY <2>1, <2>2 DEF Injection, IsInjective
  <1>3. /\ Cardinality(first) <= n
        /\ Cardinality(first) = n <=> f \in Surjection(first, N)
    BY <1>1, <1>2, FS_Injection
  <1>4. ASSUME NEW i \in I, i \notin first PROVE f \in Surjection(first, N)
    <2>1. Rank(I, i) \in 1..Cardinality(I) /\ ~(Rank(I, i) <= n)
      BY <1>4, RankType
    <2>2. n < Cardinality(I)
      BY <1>0, <2>1
    <2>3. \A k \in N : \E j \in first : f[j] = k
      <3> TAKE k \in N
      <3>1. k \in 1..Cardinality(I) /\ k <= n
        BY <1>0, <2>2
      <3>2. PICK j \in I : Rank(I, j) = k
        BY <3>1, EveryRankIsTaken
      <3> QED BY <3>1, <3>2
    <2> QED BY <1>2, <2>3 DEF Injection, Surjection
  <1>5. Cardinality(first) < n => first = I
    BY <1>0, <1>3, <1>4
  <1> QED BY <1>0, <1>3, <1>5
=============================================================================
