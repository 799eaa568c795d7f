---------------------------- MODULE SublistsProofs ----------------------------
(***************************************************************************)
(* Lemmas about picked lists (Sublists.tla), for lists of any length: what *)
(* they hold, in which order, and that nothing is in them twice that is    *)
(* once in the list.                                                       *)
(***************************************************************************)
EXTENDS Sublists, Integers, SequenceTheorems, FiniteSetTheorems, FunctionTheorems, TLAPS

-----------------------------------------------------------------------------
(* Positions.                                                              *)

(* A nonempty set of numbers has a least element.                          *)
LEMMA LeastElement ==
  ASSUME NEW I \in SUBSET Nat, I # {}
  PROVE  \E i \in I : \A j \in I : i <= j
<1>1. PICK i \in I : \A j \in I : <<j, i>> \notin OpToRel(<, Nat)
  BY NatLessThanWellFounded, WFMin
<1>2. ASSUME NEW j \in I, j < i PROVE FALSE
  <2>1. i \in Nat /\ j \in Nat
    OBVIOUS
  <2> QED
    BY <1>1, <1>2, <2>1, Zenon DEF OpToRel
<1> QED
  BY <1>2

(* Counting the elements up to i numbers the elements of I from 1.         *)
Rank(I, i) == Cardinality({j \in I : j <= i})

LEMMA Positions ==
  ASSUME NEW n \in Nat, NEW I \in SUBSET (1 .. n)
  PROVE  IsFiniteSet(I) /\ Cardinality(I) \in Nat
<1>1. IsFiniteSet(1 .. n)
  BY FS_Interval
<1> QED
  BY <1>1, FS_Subset, FS_CardinalityType

LEMMA RankRange ==
  ASSUME NEW n \in Nat, NEW I \in SUBSET (1 .. n), NEW i \in I
  PROVE  Rank(I, i) \in 1 .. Cardinality(I)
<1> DEFINE Upto == {j \in I : j <= i}
<1>1. IsFiniteSet(I) /\ Cardinality(I) \in Nat
  BY Positions
<1>2. /\ IsFiniteSet(Upto) /\ Cardinality(Upto) \in Nat
      /\ Cardinality(Upto) <= Cardinality(I)
  BY <1>1, FS_Subset, FS_CardinalityType
<1>3. Cardinality(Upto) # 0
  <2>1. i \in Upto
    OBVIOUS
  <2> QED
    BY <1>2, <2>1, FS_EmptySet
<1> QED
  BY <1>1, <1>2, <1>3 DEF Rank

LEMMA RankInjective ==
  ASSUME NEW n \in Nat, NEW I \in SUBSET (1 .. n), NEW a \in I, NEW b \in I,
         Rank(I, a) = Rank(I, b)
  PROVE  a = b
<1> SUFFICES ASSUME NEW x \in I, NEW y \in I, x < y, Rank(I, x) = Rank(I, y)
             PROVE  FALSE
  OBVIOUS
<1> DEFINE Upto(i) == {j \in I : j <= i}
<1>1. IsFiniteSet(Upto(y))
  BY Positions, FS_Subset
<1>2. Upto(x) \in SUBSET Upto(y)
  <2>1. \A j \in I : j <= x => j <= y
    OBVIOUS
  <2> QED
    BY <2>1, Zenon
<1>3. Upto(y) = Upto(x)
  BY <1>1, <1>2, FS_Subset DEF Rank
<1>4. y \in Upto(y) /\ y \notin Upto(x)
  OBVIOUS
<1> QED
  BY <1>3, <1>4

LEMMA RankOnto ==
  ASSUME NEW n \in Nat, NEW I \in SUBSET (1 .. n), NEW k \in 1 .. Cardinality(I)
  PROVE  \E i \in I : Rank(I, i) = k
<1> DEFINE f == [i \in I |-> Rank(I, i)]
<1>1. IsFiniteSet(I) /\ Cardinality(I) \in Nat
  BY Positions
<1>2. f \in [I -> 1 .. Cardinality(I)]
  BY RankRange
<1>3. f \in Injection(I, 1 .. Cardinality(I))
  <2>1. \A a, b \in I : f[a] = f[b] => a = b
    BY RankInjective
  <2> HIDE DEF f
  <2> QED
    BY <1>2, <2>1, Fun_IsInj
<1>4. IsFiniteSet(1 .. Cardinality(I)) /\ Cardinality(1 .. Cardinality(I)) = Cardinality(I)
  BY <1>1, FS_Interval
<1>5. f \in Surjection(I, 1 .. Cardinality(I))
  <2> HIDE DEF f
  <2> QED
    BY <1>3, <1>4, FS_Injection
<1>6. \E i \in I : f[i] = k
  <2> HIDE DEF f
  <2>1. \A t \in 1 .. Cardinality(I) : \E i \in I : f[i] = t
    BY <1>5, Fun_SurjectionProperties, Zenon
  <2> QED
    BY <2>1
<1> QED
  BY <1>6

-----------------------------------------------------------------------------
(* Picked lists.                                                           *)

(* Each element of Picked(seq, I) is that at one position of I, and each  *)
(* position of I is one element's.                                         *)
LEMMA PickedElements ==
  ASSUME NEW S, NEW seq \in Seq(S), NEW I \in SUBSET DOMAIN seq
  PROVE  /\ Picked(seq, I) \in Seq(S) /\ Len(Picked(seq, I)) = Cardinality(I)
         /\ \A k \in 1 .. Cardinality(I) :
              \E i \in I : Rank(I, i) = k /\ Picked(seq, I)[k] = seq[i]
         /\ \A i \in I : /\ Rank(I, i) \in 1 .. Cardinality(I)
                         /\ Picked(seq, I)[Rank(I, i)] = seq[i]
<1> DEFINE n == Len(seq)
           at == [k \in 1 .. Cardinality(I) |-> CHOOSE i \in I : Rank(I, i) = k]
<1>1. n \in Nat /\ I \in SUBSET (1 .. n) /\ Cardinality(I) \in Nat
  BY Positions, LenProperties
<1>2. ASSUME NEW k \in 1 .. Cardinality(I)
      PROVE  at[k] \in I /\ Rank(I, at[k]) = k /\ Picked(seq, I)[k] = seq[at[k]]
  <2>1. \E i \in I : Rank(I, i) = k
    BY <1>1, RankOnto
  <2>2. at[k] \in I /\ Rank(I, at[k]) = k
    BY <2>1
  <2>3. Picked(seq, I)[k] = seq[at[k]]
    BY DEF Picked, Rank
  <2> QED
    BY <2>2, <2>3
<1>3. ASSUME NEW i \in I
      PROVE  /\ Rank(I, i) \in 1 .. Cardinality(I)
             /\ Picked(seq, I)[Rank(I, i)] = seq[i]
  <2>1. Rank(I, i) \in 1 .. Cardinality(I)
    BY <1>1, RankRange
  <2>2. at[Rank(I, i)] = i
    BY <1>1, <1>2, <2>1, RankInjective
  <2> QED
    BY <1>2, <2>1, <2>2
<1> HIDE DEF at
<1>4. /\ Picked(seq, I) \in Seq(S) /\ Len(Picked(seq, I)) = Cardinality(I)
  <2>1. \A k \in 1 .. Cardinality(I) : Picked(seq, I)[k] \in S
    BY <1>1, <1>2, ElementOfSeq
  <2>2. Picked(seq, I) \in [1 .. Cardinality(I) -> S]
    BY <2>1 DEF Picked
  <2> QED
    BY <1>1, <2>2
<1> QED
  BY <1>2, <1>3, <1>4

(* Positions are numbered in their order.                                  *)
LEMMA RankMonotone ==
  ASSUME NEW n \in Nat, NEW I \in SUBSET (1 .. n), NEW a \in I, NEW b \in I, a < b
  PROVE  Rank(I, a) < Rank(I, b)
<1> DEFINE Upto(i) == {j \in I : j <= i}
<1>1. Upto(a) \in SUBSET Upto(b)
  <2>1. \A j \in I : j <= a => j <= b
    OBVIOUS
  <2> QED
    BY <2>1, Zenon
<1>2. IsFiniteSet(Upto(b)) /\ Cardinality(Upto(a)) <= Cardinality(Upto(b))
  BY <1>1, Positions, FS_Subset
<1>3. Rank(I, a) \in Nat /\ Rank(I, b) \in Nat /\ Rank(I, a) <= Rank(I, b)
  BY <1>2, RankRange, Positions DEF Rank
<1>4. a # b
  OBVIOUS
<1>5. Rank(I, a) # Rank(I, b)
  BY <1>4, RankInjective
<1> QED
  BY <1>3, <1>5

-----------------------------------------------------------------------------
(* Lists without repetitions, and the order of their elements.             *)

Before(x, y, seq) == \E i, j \in DOMAIN seq : i < j /\ seq[i] = x /\ seq[j] = y

LEMMA PickedInjective ==
  ASSUME NEW S, NEW seq \in Seq(S), NEW I \in SUBSET DOMAIN seq, IsInjective(seq)
  PROVE  IsInjective(Picked(seq, I))
<1>1. DOMAIN Picked(seq, I) = 1 .. Cardinality(I)
  BY DEF Picked
<1> SUFFICES ASSUME NEW k \in 1 .. Cardinality(I), NEW l \in 1 .. Cardinality(I),
                    Picked(seq, I)[k] = Picked(seq, I)[l]
             PROVE  k = l
  BY <1>1 DEF IsInjective
<1>2. PICK i \in I : Rank(I, i) = k /\ Picked(seq, I)[k] = seq[i]
  BY PickedElements
<1>3. PICK j \in I : Rank(I, j) = l /\ Picked(seq, I)[l] = seq[j]
  BY PickedElements
<1>4. i = j
  BY <1>2, <1>3 DEF IsInjective
<1> QED
  BY <1>2, <1>3, <1>4

(* The picked elements keep their order.                                   *)
LEMMA PickedOrder ==
  ASSUME NEW S, NEW seq \in Seq(S), NEW I \in SUBSET DOMAIN seq,
         NEW i \in I, NEW j \in I, i < j
  PROVE  Before(seq[i], seq[j], Picked(seq, I))
<1>1. Len(seq) \in Nat /\ I \in SUBSET (1 .. Len(seq))
  BY LenProperties
<1>2. Rank(I, i) < Rank(I, j)
  BY <1>1, RankMonotone
<1>3. DOMAIN Picked(seq, I) = 1 .. Cardinality(I)
  BY DEF Picked
<1>4. /\ Rank(I, i) \in 1 .. Cardinality(I) /\ Picked(seq, I)[Rank(I, i)] = seq[i]
      /\ Rank(I, j) \in 1 .. Cardinality(I) /\ Picked(seq, I)[Rank(I, j)] = seq[j]
  BY PickedElements
<1> QED
  BY <1>2, <1>3, <1>4 DEF Before
=============================================================================
