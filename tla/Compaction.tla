------------------------------ MODULE Compaction ------------------------------
(***************************************************************************)
(* Taking entries out of an array in place: what stays moves down and      *)
(* keeps its order.  The k-th entry afterwards is the one of rank k among  *)
(* those that stay, so nothing here is recursive and facts about it can be *)
(* proved: the result is a sequence of what stays, no longer than before,  *)
(* in the same order and without new duplicates.                           *)
(*                                                                         *)
(* The one induction is LeastNatural: the library's least-number principle *)
(* is about an operator, this one about a set, and comes from the fact     *)
(* that the finite sets are well-founded by strict inclusion.              *)
(***************************************************************************)
EXTENDS Naturals, Sequences, FiniteSets, FiniteSetTheorems, TLAPS

Staying(s, leaving) == {i \in DOMAIN s : s[i] \notin leaving}

Rank(i, places) == Cardinality({j \in places : j <= i})

Compact(s, leaving) ==
    LET places == Staying(s, leaving)
    IN  [k \in 1..Cardinality(places) |->
            s[CHOOSE i \in places : Rank(i, places) = k]]

-----------------------------------------------------------------------------
(* Who is in a table, and that nobody is in it twice. *)
Members(q) == {q[i] : i \in DOMAIN q}
OnceEach(q) == \A i, j \in DOMAIN q : q[i] = q[j] => i = j

(* A set of natural numbers that is not empty has a least member. *)
LEMMA LeastNatural ==
    ASSUME NEW S \in SUBSET Nat, S # {}
    PROVE  \E n \in S : \A m \in S : n <= m
<1> DEFINE Upto == {1..n : n \in S}
<1>1. Upto \subseteq FiniteSubsetsOf(Nat) /\ Upto # {}
  <2>1. \A n \in S : 1..n \in SUBSET Nat /\ IsFiniteSet(1..n)
    BY FS_Interval
  <2>2. QED
    BY <2>1 DEF FiniteSubsetsOf
<1>2. \E x \in Upto : \A y \in Upto : <<y, x>> \notin StrictSubsetOrdering(Nat)
  <2>1. IsWellFoundedOn(StrictSubsetOrdering(Nat), FiniteSubsetsOf(Nat))
    BY FS_StrictSubsetOrderingWellFounded
  <2> HIDE DEF Upto
  <2>2. QED
    BY <1>1, <2>1, WFMin
<1>3. PICK n \in S : \A m \in S : <<1..m, 1..n>> \notin StrictSubsetOrdering(Nat)
  BY <1>2
<1>4. \A m \in S : n <= m
  <2> SUFFICES ASSUME NEW m \in S, m < n
               PROVE  FALSE
    OBVIOUS
  <2>1. 1..m \in SUBSET Nat /\ 1..n \in SUBSET Nat /\ 1..m \subseteq 1..n
    OBVIOUS
  <2>2. n \in 1..n /\ n \notin 1..m
    OBVIOUS
  <2>3. QED
    BY <1>3, <2>1, <2>2 DEF StrictSubsetOrdering
<1>5. QED
  BY <1>4

-----------------------------------------------------------------------------
(* Ranks.                                                                  *)

LEMMA UptoFinite ==
    ASSUME NEW n \in Nat
    PROVE  IsFiniteSet(1..n) /\ Cardinality(1..n) = n
  BY FS_Interval

(* Up to a place there are between 1 and all of the places. *)
LEMMA RankBounds ==
    ASSUME NEW n \in Nat, NEW K \in SUBSET (1..n), NEW i \in K
    PROVE  /\ IsFiniteSet(K) /\ Cardinality(K) \in 0..n
           /\ Rank(i, K) \in 1..Cardinality(K)
<1>1. IsFiniteSet(1..n) /\ Cardinality(1..n) = n
  BY UptoFinite
<1>2. IsFiniteSet(K) /\ Cardinality(K) <= n /\ Cardinality(K) \in Nat
  BY <1>1, FS_Subset, FS_CardinalityType
<1> DEFINE R == {j \in K : j <= i}
<1>3. R \in SUBSET K /\ i \in R
  OBVIOUS
<1>4. IsFiniteSet(R) /\ Cardinality(R) <= Cardinality(K) /\ Cardinality(R) \in Nat
  BY <1>2, <1>3, FS_Subset, FS_CardinalityType
<1>5. Cardinality(R) # 0
  BY <1>3, <1>4, FS_EmptySet
<1>6. QED
  BY <1>2, <1>4, <1>5 DEF Rank

(* A later place has a higher rank. *)
LEMMA RankGrows ==
    ASSUME NEW n \in Nat, NEW K \in SUBSET (1..n), NEW i \in K, NEW j \in K, i < j
    PROVE  Rank(i, K) < Rank(j, K)
<1> DEFINE A == {l \in K : l <= i}
           B == {l \in K : l <= j}
<1>1. A \in SUBSET B /\ j \in B /\ j \notin A
  <2>1. i \in Nat /\ j \in Nat /\ \A l \in K : l \in Nat
    OBVIOUS
  <2>2. (\A l \in K : l <= i => l <= j) /\ ~(j <= i) /\ j <= j
    BY <2>1
  <2>3. A \subseteq B
    BY <2>2
  <2>4. j \in B /\ j \notin A
    BY <2>2
  <2>5. QED
    BY <2>3, <2>4
<1>2. IsFiniteSet(B)
  <2>1. IsFiniteSet(K)
    BY RankBounds
  <2>2. QED
    BY <2>1, FS_Subset
<1>3. Cardinality(A) <= Cardinality(B) /\ Cardinality(A) # Cardinality(B)
  <2> HIDE DEF A, B
  <2>1. QED
    BY <1>1, <1>2, FS_Subset
<1>4. Cardinality(A) \in Nat /\ Cardinality(B) \in Nat
  <2>1. IsFiniteSet(A)
    BY <1>1, <1>2, FS_Subset
  <2>2. QED
    BY <1>2, <2>1, FS_CardinalityType
<1>5. QED
  BY <1>3, <1>4 DEF Rank

(* Every rank up to the number of places is taken: the least n that refutes *)
(* it would make n - 1 refute it too.                                      *)
LEMMA RankTaken ==
    \A n \in Nat : \A K \in SUBSET (1..n) :
        \A k \in 1..Cardinality(K) : \E i \in K : Rank(i, K) = k
<1> DEFINE Taken(n) == \A K \in SUBSET (1..n) :
                          \A k \in 1..Cardinality(K) : \E i \in K : Rank(i, K) = k
           Refuting == {n \in Nat : ~Taken(n)}
<1> SUFFICES ASSUME Refuting # {}
             PROVE  FALSE
  OBVIOUS
<1>1. PICK n \in Refuting : \A m \in Refuting : n <= m
  <2> HIDE DEF Refuting
  <2>1. Refuting \in SUBSET Nat
    BY DEF Refuting
  <2>2. QED
    BY <2>1, LeastNatural
<1>2. n \in Nat
  OBVIOUS
<1>3a. PICK K \in SUBSET (1..n) :
          \E k \in 1..Cardinality(K) : \A i \in K : Rank(i, K) # k
  OBVIOUS
<1>3. PICK k \in 1..Cardinality(K) : \A i \in K : Rank(i, K) # k
  BY <1>3a
<1>4. IsFiniteSet(K) /\ Cardinality(K) \in Nat
  <2>1. IsFiniteSet(1..n)
    BY <1>2, FS_Interval
  <2>2. QED
    BY <2>1, FS_Subset, FS_CardinalityType
<1>5. n # 0
  <2> SUFFICES ASSUME n = 0
               PROVE  FALSE
    OBVIOUS
  <2>1. K = {}
    OBVIOUS
  <2>2. QED
    BY <2>1, <1>3, FS_EmptySet
<1>6. n - 1 \in Nat /\ Taken(n - 1)
  <2>1. n - 1 \in Nat
    BY <1>2, <1>5
  <2>2. n - 1 \notin Refuting
    <3> HIDE DEF Refuting
    <3>1. QED
      BY <1>1, <1>2, <2>1
  <2>3. QED
    BY <2>1, <2>2
<1> DEFINE L == K \ {n}
<1>7. L \in SUBSET (1..n - 1)
  BY <1>2
<1>8. \A i \in L : Rank(i, K) = Rank(i, L)
  <2> SUFFICES ASSUME NEW i \in L
               PROVE  {j \in K : j <= i} = {j \in L : j <= i}
    BY DEF Rank
  <2>1. QED
    BY <1>2, <1>7
<1>9. CASE n \notin K
  <2>1. L = K
    BY <1>9
  <2>2. \E i \in L : Rank(i, L) = k
    BY <1>6, <1>7, <2>1
  <2>3. QED
    BY <2>1, <2>2, <1>3
<1>10. CASE n \in K
  <2>1. Cardinality(L) = Cardinality(K) - 1
    BY <1>4, <1>10, FS_RemoveElement
  <2>2. CASE k = Cardinality(K)
    <3>1. {j \in K : j <= n} = K
      <4> HIDE DEF Refuting
      <4>1. \A j \in K : j <= n
        BY <1>2
      <4>2. QED
        BY <4>1
    <3>2. Rank(n, K) = k
      BY <2>2, <3>1 DEF Rank
    <3>3. QED
      BY <3>2, <1>10, <1>3
  <2>3. CASE k # Cardinality(K)
    <3>1. k \in 1..Cardinality(L)
      BY <1>4, <2>1, <2>3
    <3>2. \E i \in L : Rank(i, L) = k
      BY <1>6, <1>7, <3>1
    <3>3. QED
      BY <3>2, <1>8, <1>3
  <2>4. QED
    BY <2>2, <2>3
<1>11. QED
  BY <1>9, <1>10

-----------------------------------------------------------------------------
(* Compact.                                                                *)

(* The k-th entry that stays, and where it was. *)
Place(s, leaving, k) ==
    CHOOSE i \in Staying(s, leaving) : Rank(i, Staying(s, leaving)) = k

LEMMA StayingPlaces ==
    ASSUME NEW S, NEW s \in Seq(S), NEW leaving
    PROVE  /\ Len(s) \in Nat
           /\ Staying(s, leaving) \in SUBSET (1..Len(s))
           /\ IsFiniteSet(Staying(s, leaving))
           /\ Cardinality(Staying(s, leaving)) \in 0..Len(s)
<1>1. Len(s) \in Nat /\ Staying(s, leaving) \in SUBSET (1..Len(s))
  BY DEF Staying
<1>2. IsFiniteSet(1..Len(s)) /\ Cardinality(1..Len(s)) = Len(s)
  BY <1>1, UptoFinite
<1>3. QED
  BY <1>1, <1>2, FS_Subset, FS_CardinalityType

LEMMA CompactPlaces ==
    ASSUME NEW S, NEW s \in Seq(S), NEW leaving
    PROVE  /\ Compact(s, leaving) \in Seq(S)
           /\ Len(Compact(s, leaving)) = Cardinality(Staying(s, leaving))
           /\ \A k \in 1..Len(Compact(s, leaving)) :
                 /\ Place(s, leaving, k) \in Staying(s, leaving)
                 /\ Rank(Place(s, leaving, k), Staying(s, leaving)) = k
                 /\ Compact(s, leaving)[k] = s[Place(s, leaving, k)]
<1> DEFINE K == Staying(s, leaving)
           n == Cardinality(K)
<1>1. n \in Nat /\ K \in SUBSET (1..Len(s)) /\ Len(s) \in Nat
  BY StayingPlaces
<1>2. ASSUME NEW k \in 1..n
      PROVE  Place(s, leaving, k) \in K /\ Rank(Place(s, leaving, k), K) = k
  <2>1. \E i \in K : Rank(i, K) = k
    <3> HIDE DEF K
    <3>1. QED
      BY <1>1, RankTaken
  <2>2. QED
    BY <2>1 DEF Place
<1>3. Compact(s, leaving) = [k \in 1..n |-> s[Place(s, leaving, k)]]
  BY DEF Compact, Place
<1>4. \A k \in 1..n : s[Place(s, leaving, k)] \in S
  BY <1>1, <1>2
<1> HIDE DEF K, n
<1>5. Compact(s, leaving) \in Seq(S) /\ Len(Compact(s, leaving)) = n
  BY <1>1, <1>3, <1>4
<1>6. QED
  BY <1>2, <1>3, <1>5 DEF K, n

(* What is left is what was there and does not leave. *)
LEMMA CompactRange ==
    ASSUME NEW S, NEW s \in Seq(S), NEW leaving
    PROVE  /\ Compact(s, leaving) \in Seq(S)
           /\ Len(Compact(s, leaving)) <= Len(s)
           /\ {Compact(s, leaving)[k] : k \in DOMAIN Compact(s, leaving)}
                 = {s[i] : i \in DOMAIN s} \ leaving
<1> DEFINE K == Staying(s, leaving)
           c == Compact(s, leaving)
<1>1. c \in Seq(S) /\ Len(c) = Cardinality(K)
  BY CompactPlaces
<1>2. \A k \in 1..Len(c) :
          Place(s, leaving, k) \in K /\ c[k] = s[Place(s, leaving, k)]
  BY CompactPlaces
<1>3. Len(c) <= Len(s) /\ K \in SUBSET (1..Len(s)) /\ Len(s) \in Nat
  BY <1>1, StayingPlaces
<1>4. ASSUME NEW i \in K
      PROVE  \E k \in 1..Len(c) : c[k] = s[i]
  <2> DEFINE k == Rank(i, K)
  <2>1. k \in 1..Len(c)
    BY <1>1, <1>3, RankBounds
  <2> DEFINE j == Place(s, leaving, k)
  <2>2. j \in K /\ Rank(j, K) = k /\ c[k] = s[j]
    BY <2>1, CompactPlaces
  <2>3. ~(i < j) /\ ~(j < i)
    <3>1. i < j => Rank(i, K) < Rank(j, K)
      BY <1>3, <2>2, RankGrows
    <3>2. j < i => Rank(j, K) < Rank(i, K)
      BY <1>3, <2>2, RankGrows
    <3>3. QED
      BY <3>1, <3>2, <2>1, <2>2, <1>1
  <2>4. i = j
    BY <2>3, <2>2, <1>3
  <2>5. QED
    BY <2>1, <2>2, <2>4
<1>5. DOMAIN c = 1..Len(c) /\ DOMAIN s = 1..Len(s)
  BY <1>1
<1>6. {c[k] : k \in DOMAIN c} = {s[i] : i \in DOMAIN s} \ leaving
  <2>1. ASSUME NEW k \in DOMAIN c
        PROVE  c[k] \in {s[i] : i \in DOMAIN s} \ leaving
    BY <1>2, <1>5, <2>1 DEF Staying
  <2>2. ASSUME NEW i \in DOMAIN s, s[i] \notin leaving
        PROVE  s[i] \in {c[k] : k \in DOMAIN c}
    BY <1>4, <1>5, <2>2 DEF Staying
  <2>3. QED
    BY <2>1, <2>2
<1>7. QED
  BY <1>1, <1>3, <1>6

(* Entries keep their order. *)
LEMMA CompactOrder ==
    ASSUME NEW S, NEW s \in Seq(S), NEW leaving,
           NEW k \in DOMAIN Compact(s, leaving), NEW l \in DOMAIN Compact(s, leaving),
           k < l
    PROVE  \E i, j \in DOMAIN s :
               i < j /\ Compact(s, leaving)[k] = s[i] /\ Compact(s, leaving)[l] = s[j]
<1> DEFINE K == Staying(s, leaving)
           i == Place(s, leaving, k)
           j == Place(s, leaving, l)
<1>1. DOMAIN Compact(s, leaving) = 1..Len(Compact(s, leaving))
  BY CompactPlaces
<1>2. /\ i \in K /\ Rank(i, K) = k /\ Compact(s, leaving)[k] = s[i]
      /\ j \in K /\ Rank(j, K) = l /\ Compact(s, leaving)[l] = s[j]
  BY <1>1, CompactPlaces
<1>3. K \in SUBSET (1..Len(s)) /\ Len(s) \in Nat
  BY StayingPlaces
<1>4. ~(j < i)
  <2>1. j < i => Rank(j, K) < Rank(i, K)
    BY <1>2, <1>3, RankGrows
  <2>2. QED
    BY <2>1, <1>1, <1>2, CompactPlaces
<1>5. i < j /\ i \in DOMAIN s /\ j \in DOMAIN s
  BY <1>2, <1>3, <1>4 DEF Staying
<1>6. QED
  BY <1>2, <1>5

(* What was there once is there once. *)
LEMMA CompactOnce ==
    ASSUME NEW S, NEW s \in Seq(S), NEW leaving,
           \A i, j \in DOMAIN s : s[i] = s[j] => i = j
    PROVE  \A k, l \in DOMAIN Compact(s, leaving) :
               Compact(s, leaving)[k] = Compact(s, leaving)[l] => k = l
<1> DEFINE c == Compact(s, leaving)
<1> SUFFICES ASSUME NEW k \in DOMAIN c, NEW l \in DOMAIN c, c[k] = c[l], k # l
             PROVE  FALSE
  OBVIOUS
<1>1. k \in Nat /\ l \in Nat
  BY CompactPlaces
<1>2. CASE k < l
  BY <1>2, CompactOrder
<1>3. CASE l < k
  BY <1>3, CompactOrder
<1>4. QED
  BY <1>1, <1>2, <1>3

LEMMA CompactMembers ==
    ASSUME NEW S, NEW s \in Seq(S), NEW leaving
    PROVE  Members(Compact(s, leaving)) = Members(s) \ leaving
  BY CompactRange DEF Members
===============================================================================
