---------------------------- MODULE TraversalProofs ----------------------------
(***************************************************************************)
(* Lemmas about lists that stand for sets: the edits of tag lists          *)
(* (TagSets.tla), and what is read and counted out of a snapshot           *)
(* (Traversal.tla), for lists of any length and any number of stories.     *)
(***************************************************************************)
EXTENDS Traversal, SublistsProofs

-----------------------------------------------------------------------------
(* Picked lists of tags.                                                   *)

LEMMA PickedTags ==
  ASSUME NEW S, NEW list \in Seq(S), NEW I \in SUBSET DOMAIN list
  PROVE  TagsOf(Picked(list, I)) = {list[i] : i \in I}
<1>1. DOMAIN Picked(list, I) = 1 .. Cardinality(I)
  BY DEF Picked
<1> QED
  BY <1>1, PickedElements DEF TagsOf

-----------------------------------------------------------------------------
(* What an edited list holds.                                              *)

LEMMA TagsOfType == ASSUME NEW S, NEW list \in Seq(S) PROVE TagsOf(list) \in SUBSET S
BY ElementOfSeq, LenProperties DEF TagsOf

(* distinctTags drops no tag: of equal ones the first is kept.             *)
LEMMA DistinctTags ==
  ASSUME NEW S, NEW list \in Seq(S)
  PROVE  Distinct(list) \in Seq(S) /\ TagsOf(Distinct(list)) = TagsOf(list)
<1> DEFINE firsts == {i \in DOMAIN list : \A j \in 1 .. i - 1 : list[j] # list[i]}
<1>1. firsts \in SUBSET DOMAIN list
  OBVIOUS
<1>2. ASSUME NEW k \in DOMAIN list PROVE \E i \in firsts : list[i] = list[k]
  <2> DEFINE same == {i \in DOMAIN list : list[i] = list[k]}
  <2>1. DOMAIN list = 1 .. Len(list) /\ Len(list) \in Nat
    BY LenProperties
  <2>2. same \in SUBSET Nat /\ same # {}
    BY <2>1
  <2>3. PICK i \in same : \A j \in same : i <= j
    BY <2>2, LeastElement
  <2>4. i \in firsts
    BY <2>1, <2>3
  <2> QED
    BY <2>4
<1>3. {list[i] : i \in firsts} = TagsOf(list)
  BY <1>2 DEF TagsOf
<1>4. Distinct(list) = Picked(list, firsts)
  BY DEF Distinct
<1> HIDE DEF firsts
<1>5. Picked(list, firsts) \in Seq(S)
  BY <1>1, PickedElements
<1>6. TagsOf(Picked(list, firsts)) = {list[i] : i \in firsts}
  BY <1>1, PickedTags
<1> QED
  BY <1>3, <1>4, <1>5, <1>6

LEMMA WithoutTags ==
  ASSUME NEW S, NEW list \in Seq(S), NEW tags
  PROVE  Without(list, tags) \in Seq(S) /\ TagsOf(Without(list, tags)) = TagsOf(list) \ tags
<1> DEFINE kept == {i \in DOMAIN list : list[i] \notin tags}
<1>1. kept \in SUBSET DOMAIN list /\ {list[i] : i \in kept} = TagsOf(list) \ tags
  BY DEF TagsOf
<1>2. Without(list, tags) = Picked(list, kept)
  BY DEF Without
<1> HIDE DEF kept
<1> QED
  BY <1>1, <1>2, PickedElements, PickedTags

LEMMA ConcatTags ==
  ASSUME NEW S, NEW a \in Seq(S), NEW b \in Seq(S)
  PROVE  a \o b \in Seq(S) /\ TagsOf(a \o b) = TagsOf(a) \cup TagsOf(b)
<1>1. /\ Len(a) \in Nat /\ Len(b) \in Nat /\ a \o b \in Seq(S)
      /\ DOMAIN a = 1 .. Len(a) /\ DOMAIN b = 1 .. Len(b)
      /\ DOMAIN (a \o b) = 1 .. Len(a) + Len(b)
  BY ConcatProperties, LenProperties
<1>2. \A i \in 1 .. Len(a) + Len(b) :
        (a \o b)[i] = IF i <= Len(a) THEN a[i] ELSE b[i - Len(a)]
  BY ConcatProperties
<1>3. TagsOf(a \o b) \subseteq TagsOf(a) \cup TagsOf(b)
  BY <1>1, <1>2 DEF TagsOf
<1>4. TagsOf(a) \subseteq TagsOf(a \o b)
  BY <1>1, <1>2 DEF TagsOf
<1>5. TagsOf(b) \subseteq TagsOf(a \o b)
  <2> SUFFICES ASSUME NEW i \in 1 .. Len(b) PROVE b[i] \in TagsOf(a \o b)
    BY <1>1 DEF TagsOf
  <2> DEFINE j == Len(a) + i
  <2>1. j \in 1 .. Len(a) + Len(b) /\ ~(j <= Len(a)) /\ j - Len(a) = i
    BY <1>1
  <2>2. (a \o b)[j] = b[i]
    BY <1>2, <2>1
  <2> QED
    BY <1>1, <2>1, <2>2 DEF TagsOf
<1> QED
  BY <1>1, <1>3, <1>4, <1>5

(* applyTagEdit (tags.go) removes the tags it is told to, adds the tags it *)
(* is told to, and keeps every other: a tag in both lists is added.        *)
THEOREM EditKeepsOthers ==
  ASSUME NEW S, NEW current \in Seq(S), NEW add \in Seq(S), NEW remove \in Seq(S)
  PROVE  /\ ApplyTagEdit(current, add, remove) \in Seq(S)
         /\ TagsOf(ApplyTagEdit(current, add, remove))
              = (TagsOf(current) \ TagsOf(remove)) \cup TagsOf(add)
<1> DEFINE kept == Without(current, TagsOf(remove))
<1>1. kept \in Seq(S) /\ TagsOf(kept) = TagsOf(current) \ TagsOf(remove)
  BY WithoutTags
<1>2. ApplyTagEdit(current, add, remove) = Distinct(kept \o add)
  BY DEF ApplyTagEdit
<1> HIDE DEF kept
<1>3. kept \o add \in Seq(S) /\ TagsOf(kept \o add) = TagsOf(kept) \cup TagsOf(add)
  BY <1>1, ConcatTags
<1>4. /\ Distinct(kept \o add) \in Seq(S)
      /\ TagsOf(Distinct(kept \o add)) = TagsOf(kept \o add)
  BY <1>3, DistinctTags
<1> QED
  BY <1>1, <1>2, <1>3, <1>4

LEMMA RenamedTags ==
  ASSUME NEW S, NEW list \in Seq(S), NEW old, NEW new \in S
  PROVE  /\ Renamed(list, old, new) \in Seq(S)
         /\ TagsOf(Renamed(list, old, new))
              = (TagsOf(list) \ {old}) \cup {t \in {new} : old \in TagsOf(list)}
<1> DEFINE other == [i \in DOMAIN list |-> IF list[i] = old THEN new ELSE list[i]]
<1>1. other \in Seq(S)
  <2>1. DOMAIN list = 1 .. Len(list) /\ Len(list) \in Nat
    BY LenProperties
  <2> QED
    BY <2>1, ElementOfSeq
<1>2. TagsOf(other) = (TagsOf(list) \ {old}) \cup {t \in {new} : old \in TagsOf(list)}
  BY DEF TagsOf
<1>3. Renamed(list, old, new) = Distinct(other)
  BY DEF Renamed
<1> HIDE DEF other
<1> QED
  BY <1>1, <1>2, <1>3, DistinctTags

LEMMA DroppedTags ==
  ASSUME NEW S, NEW list \in Seq(S), NEW old
  PROVE  /\ Dropped(list, old) \in Seq(S)
         /\ TagsOf(Dropped(list, old)) = TagsOf(list) \ {old}
BY WithoutTags, DistinctTags DEF Dropped

-----------------------------------------------------------------------------
(* Lists without repetitions.                                              *)

(* distinctTags keeps no tag twice.                                        *)
LEMMA DistinctInjective ==
  ASSUME NEW S, NEW list \in Seq(S) PROVE IsInjective(Distinct(list))
<1> DEFINE firsts == {i \in DOMAIN list : \A j \in 1 .. i - 1 : list[j] # list[i]}
<1>1. firsts \in SUBSET DOMAIN list /\ DOMAIN list = 1 .. Len(list) /\ Len(list) \in Nat
  BY LenProperties
<1>2. \A i, j \in firsts : list[i] = list[j] => i = j
  <2> SUFFICES ASSUME NEW i \in firsts, NEW j \in firsts, list[i] = list[j], i < j PROVE FALSE
    BY <1>1
  <2>1. i \in 1 .. j - 1
    BY <1>1
  <2> QED
    BY <2>1
<1>3. Distinct(list) = Picked(list, firsts)
  BY DEF Distinct
<1>4. DOMAIN Picked(list, firsts) = 1 .. Cardinality(firsts)
  BY DEF Picked
<1> HIDE DEF firsts
<1> SUFFICES ASSUME NEW k \in 1 .. Cardinality(firsts), NEW l \in 1 .. Cardinality(firsts),
                    Picked(list, firsts)[k] = Picked(list, firsts)[l]
             PROVE  k = l
  BY <1>3, <1>4 DEF IsInjective
<1>5. PICK i \in firsts : Rank(firsts, i) = k /\ Picked(list, firsts)[k] = list[i]
  BY <1>1, PickedElements
<1>6. PICK j \in firsts : Rank(firsts, j) = l /\ Picked(list, firsts)[l] = list[j]
  BY <1>1, PickedElements
<1>7. i = j
  BY <1>2, <1>5, <1>6
<1> QED
  BY <1>5, <1>6, <1>7

(* The edits of a story's tags leave none twice.                           *)
LEMMA EditIsSet ==
  ASSUME NEW S, NEW list \in Seq(S), NEW add \in Seq(S), NEW remove
  PROVE  IsInjective(ApplyTagEdit(list, add, remove))
<1>1. Without(list, TagsOf(remove)) \o add \in Seq(S)
  BY WithoutTags, ConcatTags
<1> QED
  BY <1>1, DistinctInjective DEF ApplyTagEdit

LEMMA RenamedIsSet ==
  ASSUME NEW S, NEW list \in Seq(S), NEW old, NEW new \in S
  PROVE  IsInjective(Renamed(list, old, new))
<1>1. [i \in DOMAIN list |-> IF list[i] = old THEN new ELSE list[i]] \in Seq(S)
  <2>1. DOMAIN list = 1 .. Len(list) /\ Len(list) \in Nat
    BY LenProperties
  <2> QED
    BY <2>1, ElementOfSeq
<1> QED
  BY <1>1, DistinctInjective DEF Renamed

LEMMA DroppedIsSet ==
  ASSUME NEW S, NEW list \in Seq(S), NEW old
  PROVE  IsInjective(Dropped(list, old))
<1>1. Without(list, {old}) \in Seq(S)
  BY WithoutTags
<1> QED
  BY <1>1, DistinctInjective DEF Dropped

(* A list is as long as the set it stands for, or longer: of a list        *)
(* without repetitions, as long.                                           *)
LEMMA LengthBoundsTags ==
  ASSUME NEW S, NEW list \in Seq(S)
  PROVE  /\ IsFiniteSet(TagsOf(list)) /\ Cardinality(TagsOf(list)) \in Nat
         /\ Cardinality(TagsOf(list)) <= Len(list)
         /\ IsInjective(list) => Cardinality(TagsOf(list)) = Len(list)
<1>1. /\ DOMAIN list = 1 .. Len(list) /\ Len(list) \in Nat
      /\ IsFiniteSet(1 .. Len(list)) /\ Cardinality(1 .. Len(list)) = Len(list)
  <2>1. DOMAIN list = 1 .. Len(list) /\ Len(list) \in Nat
    BY LenProperties
  <2> QED
    BY <2>1, FS_Interval
<1>2. list \in [1 .. Len(list) -> TagsOf(list)]
  <2>1. list \in [1 .. Len(list) -> S]
    BY <1>1, LenProperties
  <2> QED
    BY <1>1, <2>1 DEF TagsOf
<1>3. list \in Surjection(1 .. Len(list), TagsOf(list))
  <2>1. \A t \in TagsOf(list) : \E i \in 1 .. Len(list) : list[i] = t
    BY <1>1 DEF TagsOf
  <2> QED
    BY <1>2, <2>1, Fun_IsSurj
<1>4. /\ IsFiniteSet(TagsOf(list)) /\ Cardinality(TagsOf(list)) <= Len(list)
      /\ Cardinality(TagsOf(list)) = Len(list) <=> list \in Injection(1 .. Len(list), TagsOf(list))
  BY <1>1, <1>3, FS_Surjection
<1>5. IsInjective(list) => list \in Injection(1 .. Len(list), TagsOf(list))
  <2> SUFFICES ASSUME IsInjective(list) PROVE list \in Injection(1 .. Len(list), TagsOf(list))
    OBVIOUS
  <2>1. \A a, b \in 1 .. Len(list) : list[a] = list[b] => a = b
    BY <1>1 DEF IsInjective
  <2> QED
    BY <1>2, <2>1, Fun_IsInj
<1> QED
  BY <1>4, <1>5, FS_CardinalityType

(* sameTagSet, when the live list repeats no tag: the sets are equal.      *)
LEMMA SameTagSetIsEqual ==
  ASSUME NEW S, NEW a \in Seq(S), NEW b \in Seq(S), IsInjective(b), SameTagSet(a, b)
  PROVE  TagsOf(a) = TagsOf(b)
<1>1. /\ IsFiniteSet(TagsOf(a)) /\ Cardinality(TagsOf(a)) \in Nat
      /\ Cardinality(TagsOf(a)) <= Len(a)
  BY LengthBoundsTags
<1>2. Cardinality(TagsOf(b)) = Len(b)
  BY LengthBoundsTags
<1>3. TagsOf(b) \in SUBSET TagsOf(a) /\ Len(a) = Len(b) /\ Len(a) \in Nat
  BY LenProperties DEF SameTagSet
<1>4. Cardinality(TagsOf(b)) <= Cardinality(TagsOf(a))
  BY <1>1, <1>3, FS_Subset
<1>5. Cardinality(TagsOf(a)) = Cardinality(TagsOf(b))
  BY <1>1, <1>2, <1>3, <1>4
<1> QED
  BY <1>1, <1>3, <1>5, FS_Subset

-----------------------------------------------------------------------------
(* The order of a query's results.                                         *)

(* An injection into a finite set that is no larger is onto.               *)
LEMMA InjectionIsOnto ==
  ASSUME NEW n \in Nat, NEW T, IsFiniteSet(T), Cardinality(T) = n, NEW f \in [1 .. n -> T],
         \A i, j \in 1 .. n : f[i] = f[j] => i = j
  PROVE  \A t \in T : \E i \in 1 .. n : f[i] = t
<1>1. f \in Injection(1 .. n, T)
  BY Fun_IsInj
<1>2. IsFiniteSet(1 .. n) /\ Cardinality(1 .. n) = Cardinality(T)
  BY FS_Interval
<1>3. f \in Surjection(1 .. n, T)
  BY <1>1, <1>2, FS_Injection
<1> QED
  BY <1>3, Fun_SurjectionProperties

(* Positions that a total order ranks, by counting those up to each: every *)
(* rank is one position's, and ranks are ordered as the positions are.     *)
TotalOrder(n, upto) ==
  /\ upto \in [1 .. n -> SUBSET (1 .. n)]
  /\ \A i \in 1 .. n : i \in upto[i]
  /\ \A i, j \in 1 .. n : i \in upto[j] => upto[i] \subseteq upto[j]
  /\ \A i, j \in 1 .. n : i \in upto[j] \/ j \in upto[i]
  /\ \A i, j \in 1 .. n : i \in upto[j] /\ j \in upto[i] => i = j

LEMMA RanksOfOrder ==
  ASSUME NEW n \in Nat, NEW upto, TotalOrder(n, upto)
  PROVE  \E at \in [1 .. n -> 1 .. n] :
           /\ \A k, l \in 1 .. n : at[k] = at[l] => k = l
           /\ \A k, l \in 1 .. n : k < l => at[k] \in upto[at[l]]
<1> DEFINE rank == [i \in 1 .. n |-> Cardinality(upto[i])]
<1> USE DEF TotalOrder
<1>1. IsFiniteSet(1 .. n) /\ Cardinality(1 .. n) = n
  BY FS_Interval
<1>2. \A i \in 1 .. n : IsFiniteSet(upto[i]) /\ Cardinality(upto[i]) \in 1 .. n
  <2> SUFFICES ASSUME NEW i \in 1 .. n
               PROVE  IsFiniteSet(upto[i]) /\ Cardinality(upto[i]) \in 1 .. n
    OBVIOUS
  <2>1. upto[i] \in SUBSET (1 .. n) /\ i \in upto[i]
    OBVIOUS
  <2>2. IsFiniteSet(upto[i]) /\ Cardinality(upto[i]) <= n
    BY <1>1, <2>1, FS_Subset
  <2>3. Cardinality(upto[i]) \in Nat /\ Cardinality(upto[i]) # 0
    BY <2>1, <2>2, FS_CardinalityType, FS_EmptySet
  <2> QED
    BY <2>2, <2>3
<1>3. rank \in [1 .. n -> 1 .. n]
  BY <1>2
<1>4. \A i, j \in 1 .. n : i \in upto[j] => rank[i] <= rank[j]
  <2> SUFFICES ASSUME NEW i \in 1 .. n, NEW j \in 1 .. n, i \in upto[j] PROVE rank[i] <= rank[j]
    OBVIOUS
  <2>1. upto[i] \in SUBSET upto[j]
    OBVIOUS
  <2> QED
    BY <1>2, <2>1, FS_Subset
<1>5. \A i, j \in 1 .. n : rank[i] = rank[j] => i = j
  <2>1. ASSUME NEW i \in 1 .. n, NEW j \in 1 .. n, i \in upto[j], rank[i] = rank[j] PROVE i = j
    <3>1. upto[i] \in SUBSET upto[j]
      BY <2>1
    <3>2. upto[j] = upto[i]
      BY <1>2, <2>1, <3>1, FS_Subset
    <3> QED
      BY <2>1, <3>2
  <2> QED
    BY <2>1
<1> HIDE DEF rank
<1>6. \A k \in 1 .. n : \E i \in 1 .. n : rank[i] = k
  <2> DEFINE T == 1 .. n
  <2>1. rank \in [1 .. n -> T] /\ IsFiniteSet(T) /\ Cardinality(T) = n
    BY <1>1, <1>3
  <2> HIDE DEF T
  <2>2. \A k \in T : \E i \in 1 .. n : rank[i] = k
    BY <1>5, <2>1, InjectionIsOnto
  <2> QED
    BY <2>2 DEF T
<1> DEFINE at == [k \in 1 .. n |-> CHOOSE i \in 1 .. n : rank[i] = k]
<1>7. \A k \in 1 .. n : at[k] \in 1 .. n /\ rank[at[k]] = k
  BY <1>6
<1>8. at \in [1 .. n -> 1 .. n]
  BY <1>7
<1> HIDE DEF at
<1>9. \A k, l \in 1 .. n : at[k] = at[l] => k = l
  BY <1>7, Zenon
<1>10. \A k, l \in 1 .. n : k < l => at[k] \in upto[at[l]]
  <2> SUFFICES ASSUME NEW k \in 1 .. n, NEW l \in 1 .. n, k < l, at[k] \notin upto[at[l]] PROVE FALSE
    OBVIOUS
  <2>1. at[l] \in upto[at[k]]
    BY <1>8
  <2>2. rank[at[l]] <= rank[at[k]]
    BY <1>4, <1>8, <2>1
  <2>3. l <= k
    BY <1>7, <2>2
  <2> QED
    BY <2>3
<1> QED
  BY <1>8, <1>9, <1>10

(* Stories of finitely many can be put in the order of their age.          *)
LEMMA NewestIsAnOrder ==
  ASSUME NEW store, IsFiniteSet(DOMAIN store), \A s \in DOMAIN store : Age[s] \in Int
  PROVE  /\ Newest(store) \in SetToSeqs(DOMAIN store)
         /\ \A i, j \in DOMAIN Newest(store) :
              i < j => Age[Newest(store)[i]] <= Age[Newest(store)[j]]
<1> DEFINE D == DOMAIN store
           n == Cardinality(D)
           InOrder(order) == \A i, j \in DOMAIN order : i < j => Age[order[i]] <= Age[order[j]]
<1>1. n \in Nat /\ ExistsBijection(1 .. n, D)
  BY FS_CardinalityType
<1>2. PICK g : g \in Bijection(1 .. n, D)
  BY <1>1, Fun_ExistsBij
<1>3. g \in [1 .. n -> D] /\ \A i, j \in 1 .. n : g[i] = g[j] => i = j
  <2> HIDE DEF n, D
  <2> QED
    BY <1>2, Fun_BijectionProperties
<1> DEFINE age == [i \in 1 .. n |-> Age[g[i]]]
           upto == [j \in 1 .. n |-> {i \in 1 .. n : age[i] < age[j] \/ (age[i] = age[j] /\ i <= j)}]
<1>4. age \in [1 .. n -> Int]
  BY <1>3
<1> HIDE DEF n, age
<1>5. TotalOrder(n, upto) /\ \A i, j \in 1 .. n : i \in upto[j] => age[i] <= age[j]
  BY <1>1, <1>4 DEF TotalOrder
<1> HIDE DEF upto
<1>6. PICK at \in [1 .. n -> 1 .. n] :
        /\ \A k, l \in 1 .. n : at[k] = at[l] => k = l
        /\ \A k, l \in 1 .. n : k < l => at[k] \in upto[at[l]]
  BY <1>1, <1>5, RanksOfOrder, Zenon
<1> DEFINE order == [k \in 1 .. n |-> g[at[k]]]
<1>7. order \in [1 .. n -> D] /\ \A k, l \in 1 .. n : k # l => order[k] # order[l]
  BY <1>3, <1>6
<1>8. order \in SetToSeqs(D)
  BY <1>7 DEF SetToSeqs, n
<1>9. InOrder(order)
  <2>1. \A i, j \in 1 .. n : i < j => age[at[i]] <= age[at[j]]
    BY <1>5, <1>6
  <2>2. \A i \in 1 .. n : age[at[i]] = Age[order[i]]
    BY <1>6 DEF age
  <2> QED
    BY <2>1, <2>2
<1> HIDE DEF order, InOrder
<1>10. \E o \in SetToSeqs(D) : InOrder(o)
  BY <1>8, <1>9
<1>11. Newest(store) = CHOOSE o \in SetToSeqs(D) : InOrder(o)
  BY DEF Newest, InOrder
<1>12. Newest(store) \in SetToSeqs(D) /\ InOrder(Newest(store))
  BY <1>10, <1>11
<1> QED
  BY <1>12 DEF InOrder

(* Every story is in that order once.                                      *)
LEMMA NewestEnumerates ==
  ASSUME NEW store, IsFiniteSet(DOMAIN store), \A s \in DOMAIN store : Age[s] \in Int
  PROVE  /\ Newest(store) \in Seq(DOMAIN store) /\ IsInjective(Newest(store))
         /\ \A s \in DOMAIN store : \E i \in DOMAIN Newest(store) : Newest(store)[i] = s
<1> DEFINE D == DOMAIN store
           n == Cardinality(D)
           order == Newest(store)
<1>1. n \in Nat
  BY FS_CardinalityType
<1>2. order \in SetToSeqs(D)
  BY NewestIsAnOrder
<1>3. order \in [1 .. n -> D] /\ \A i, j \in 1 .. n : order[i] = order[j] => i = j
  BY <1>2 DEF SetToSeqs
<1> HIDE DEF order, n
<1>4. \A s \in D : \E i \in 1 .. n : order[i] = s
  BY <1>1, <1>3, InjectionIsOnto DEF n
<1>5. order \in Seq(D) /\ DOMAIN order = 1 .. n
  BY <1>1, <1>3
<1>6. IsInjective(order)
  BY <1>3, <1>5 DEF IsInjective
<1> QED
  BY <1>4, <1>5, <1>6 DEF order

-----------------------------------------------------------------------------
(* What is counted.                                                        *)

(* A value that is at most once in each list is in as many places as there *)
(* are lists that hold it.                                                 *)
LEMMA OccurrencesInLists ==
  ASSUME NEW lists, IsFiniteSet(DOMAIN lists), \A s \in DOMAIN lists : IsInjective(lists[s]), NEW value
  PROVE  Occurrences(lists, value) = Cardinality({s \in DOMAIN lists : value \in TagsOf(lists[s])})
<1> DEFINE Places(s) == {i \in DOMAIN lists[s] : lists[s][i] = value}
           all  == UNION {{s} \X Places(s) : s \in DOMAIN lists}
           hold == {s \in DOMAIN lists : value \in TagsOf(lists[s])}
           at   == [s \in hold |-> <<s, CHOOSE i \in DOMAIN lists[s] : lists[s][i] = value>>]
<1>1. \A s \in hold : \E i \in DOMAIN lists[s] : lists[s][i] = value
  BY DEF TagsOf
<1>2. \A s \in hold : /\ at[s][1] = s /\ at[s][2] \in Places(s) /\ at[s] = <<at[s][1], at[s][2]>>
                      /\ at[s] \in all
  BY <1>1
<1>3. \A p \in all : \E s \in hold : p = at[s]
  <2> SUFFICES ASSUME NEW s \in DOMAIN lists, NEW i \in Places(s) PROVE s \in hold /\ <<s, i>> = at[s]
    OBVIOUS
  <2>1. s \in hold
    BY DEF TagsOf
  <2>2. at[s][2] = i
    BY <1>2, <2>1 DEF IsInjective
  <2> QED
    BY <1>2, <2>1, <2>2
<1>4. at \in [hold -> all] /\ \A s, x \in hold : at[s] = at[x] => s = x
  BY <1>2
<1>5. IsFiniteSet(hold)
  BY FS_Subset
<1>6. Occurrences(lists, value) = Cardinality(all)
  BY DEF Occurrences
<1> HIDE DEF all, hold, at
<1>7. at \in Bijection(hold, all)
  BY <1>3, <1>4, Fun_IsBij
<1>8. ExistsBijection(hold, all)
  BY <1>7, Fun_ExistsBij
<1>9. Cardinality(all) = Cardinality(hold)
  BY <1>5, <1>8, FS_Bijection
<1> QED
  BY <1>6, <1>9 DEF hold

(* A query has each story that has what it asks for once.                  *)
LEMMA QueryCounts ==
  ASSUME NEW store, IsFiniteSet(DOMAIN store), \A s \in DOMAIN store : Age[s] \in Int, NEW query
  PROVE  /\ Query(store, query) \in Seq(DOMAIN store)
         /\ Len(Query(store, query)) = Cardinality({s \in DOMAIN store : Selects(query, store, s)})
<1> DEFINE D     == DOMAIN store
           order == Newest(store)
           I     == {i \in DOMAIN order : Selects(query, store, order[i])}
           found == {s \in D : Selects(query, store, s)}
           at    == [i \in I |-> order[i]]
<1>1. /\ order \in Seq(D) /\ IsInjective(order)
      /\ \A s \in D : \E i \in DOMAIN order : order[i] = s
  BY NewestEnumerates
<1>2. Query(store, query) = Picked(order, I)
  BY DEF Query
<1>3. I \in SUBSET DOMAIN order /\ DOMAIN order = 1 .. Len(order) /\ Len(order) \in Nat
  BY <1>1, LenProperties
<1>4. at \in [I -> found]
  <2>1. \A i \in DOMAIN order : order[i] \in D
    BY <1>1, <1>3, ElementOfSeq
  <2> QED
    BY <2>1
<1>5. \A i, j \in I : at[i] = at[j] => i = j
  BY <1>1 DEF IsInjective
<1>6. \A s \in found : \E i \in I : at[i] = s
  BY <1>1
<1> HIDE DEF order, I, found, at
<1>7. ExistsBijection(I, found)
  <2>1. at \in Bijection(I, found)
    BY <1>4, <1>5, <1>6, Fun_IsBij
  <2> QED
    BY <2>1, Fun_ExistsBij
<1>8. IsFiniteSet(I)
  BY <1>3, Positions
<1>9. Cardinality(found) = Cardinality(I)
  BY <1>7, <1>8, FS_Bijection
<1>10. Picked(order, I) \in Seq(D) /\ Len(Picked(order, I)) = Cardinality(I)
  BY <1>1, <1>3, PickedElements
<1> QED
  BY <1>2, <1>9, <1>10 DEF found

(* Pages of one story deliver the results one by one.                      *)
LEMMA PagesOfOne ==
  ASSUME NEW S, NEW results \in Seq(S), NEW i \in DOMAIN results
  PROVE  Page(results, i - 1, 1) = <<results[i]>>
<1>1. i \in 1 .. Len(results) /\ Len(results) \in Nat
  BY LenProperties
<1>2. Page(results, i - 1, 1) = SubSeq(results, i, i)
  BY <1>1 DEF Page
<1>3. SubSeq(results, i, i) = <<results[i]>>
  <2> DEFINE page == SubSeq(results, i, i)
  <2>1. Len(page) = 1 /\ page[1] = results[i] /\ page \in Seq(S)
    BY <1>1, SubSeqProperties
  <2> HIDE DEF page
  <2>2. page = <<page[1]>>
    BY <2>1
  <2> QED
    BY <2>1, <2>2 DEF page
<1> QED
  BY <1>2, <1>3

(* A snapshot of finitely many stories, whose lists of tags repeat none.   *)
Sound(store) ==
  /\ IsFiniteSet(DOMAIN store)
  /\ \A s \in DOMAIN store : /\ Age[s] \in Int
                             /\ IsInjective(store[s].tags) /\ IsInjective(StoryTags[s])

(* The list of a story's values in any dimension repeats none.             *)
LEMMA FacetsAreSets ==
  ASSUME NEW store, Sound(store), NEW s \in DOMAIN store, NEW dim \in Dimensions
  PROVE  IsInjective(Facets(store, s, dim))
<1>1. \A v : IsInjective(<<v>>)
  BY DEF IsInjective
<1>2. IsInjective(<<>>)
  BY DEF IsInjective
<1>3. dim \in {"feed", "read", "user_tag", "story_tag", "age_band"}
  BY DEF Dimensions
<1>4. CASE dim \in {"feed", "read"}
  BY <1>1, <1>4 DEF Facets
<1>5. CASE dim \in {"user_tag", "story_tag"}
  BY <1>5 DEF Facets, Sound
<1>6. CASE dim = "age_band"
  BY <1>1, <1>2, <1>6 DEF Facets
<1> QED
  BY <1>3, <1>4, <1>5, <1>6

(* A facet's count is the number of stories that the same container lists  *)
(* when its value is one more filter.                                      *)
LEMMA FacetCounts ==
  ASSUME NEW store, Sound(store), NEW node, NEW filter, NEW dim \in Dimensions,
         NEW value \in DOMAIN Counts(store, node, filter, dim)
  PROVE  Counts(store, node, filter, dim)[value]
           = Cardinality(Listed(store, node, filter \cup {[dim |-> dim, value |-> value]}))
<1> DEFINE matched == Listed(store, node, filter)
           lists   == [s \in matched |-> Facets(store, s, dim)]
           picked  == Listed(store, node, filter \cup {[dim |-> dim, value |-> value]})
<1>1. matched \in SUBSET DOMAIN store
  BY DEF Listed, Children
<1>2. IsFiniteSet(DOMAIN lists) /\ \A s \in DOMAIN lists : IsInjective(lists[s])
  <2>1. IsFiniteSet(DOMAIN store)
    BY DEF Sound
  <2>2. IsFiniteSet(matched)
    BY <1>1, <2>1, FS_Subset
  <2>3. \A s \in matched : IsInjective(Facets(store, s, dim))
    BY <1>1, FacetsAreSets
  <2> HIDE DEF matched
  <2> QED
    BY <2>2, <2>3
<1>3. Counts(store, node, filter, dim)[value] = Occurrences(lists, value)
  BY DEF Counts
<1>4. {s \in DOMAIN lists : value \in TagsOf(lists[s])} = picked
  <2>1. \A s : Matches(store, s, filter \cup {[dim |-> dim, value |-> value]})
                 <=> Matches(store, s, filter) /\ value \in TagsOf(Facets(store, s, dim))
    <3> DEFINE p == [dim |-> dim, value |-> value]
    <3>1. p.dim = dim /\ p.value = value
      OBVIOUS
    <3> HIDE DEF p
    <3>2. \A s : Matches(store, s, filter \cup {p})
                   <=> Matches(store, s, filter) /\ p.value \in TagsOf(Facets(store, s, p.dim))
      BY Zenon DEF Matches
    <3> QED
      BY <3>1, <3>2 DEF p
  <2>2. picked = {s \in matched : value \in TagsOf(Facets(store, s, dim))}
    BY <2>1 DEF Listed
  <2> HIDE DEF matched, picked
  <2> QED
    BY <2>2
<1> HIDE DEF lists, picked
<1>5. Occurrences(lists, value) = Cardinality({s \in DOMAIN lists : value \in TagsOf(lists[s])})
  BY <1>2, OccurrencesInLists
<1> QED
  BY <1>3, <1>4, <1>5 DEF picked
=============================================================================
