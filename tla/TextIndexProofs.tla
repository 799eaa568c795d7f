--------------------------- MODULE TextIndexProofs ---------------------------
(***************************************************************************)
(* Proofs about TextIndex.tla for any stories, searches, cap and budget.   *)
(***************************************************************************)
EXTENDS TextIndex, SublistsProofs

-----------------------------------------------------------------------------
(* What is built and renamed into place is an index file.                  *)

Builders == {"fetch", "manual"}

IsBuild(b) ==
  /\ DOMAIN b = {"pc", "todo", "digest", "words", "late"}
  /\ b.pc = "read" => /\ b.digest \in SUBSET Story
                      /\ b.words \in [Story -> SUBSET Word]

BuildInv ==
  /\ list \subseteq Story
  /\ DOMAIN build = Builders
  /\ \A b \in Builders : IsBuild(build[b])

FileInv == file = None \/ file \in IndexFile

(* A stamp that a search or the holder remembers is that of a swap that    *)
(* has happened, and the holder's stands for the file if it is the last.   *)
Past(stamp) == file # None /\ stamp \in Nat /\ stamp <= file.stamp

HolderInv ==
  holder.index # None =>
    Past(holder.stamp) /\ (holder.stamp = file.stamp => holder.index = file)

SearchInv ==
  /\ DOMAIN search = Search
  /\ \A q \in Search : DOMAIN search[q] = {"pc", "stamp", "index"}
  /\ \A q \in Search : search[q].pc = "stat" => Past(search[q].stamp)

IInv == BuildInv /\ FileInv /\ HolderInv /\ SearchInv

LEMMA WordsType == ASSUME NEW s PROVE Words(s) \in SUBSET Word
BY DEF Words, Word

LEMMA NoBuildType == IsBuild(NoBuild)
BY DEF NoBuild, IsBuild

(* Marking builds as late changes nothing else of them.                    *)
LEMMA LateKeeps ==
  ASSUME BuildInv, NEW which
  PROVE  /\ DOMAIN Late(which) = Builders
         /\ \A b \in Builders : IsBuild(Late(which)[b])
BY DEF BuildInv, Late, IsBuild

LEMMA InitHolds == Init => IInv
<1> SUFFICES ASSUME Init PROVE IInv
  OBVIOUS
<1>1. BuildInv
  BY NoBuildType DEF Init, BuildInv, Builders
<1>2. FileInv /\ HolderInv
  BY DEF Init, FileInv, HolderInv
<1>3. SearchInv
  BY DEF Init, SearchInv, NoSearch
<1> QED
  BY <1>1, <1>2, <1>3 DEF IInv

(* The steps of fetch that build nothing, and those of a mutation.         *)
LEMMA FetchSteps ==
  ASSUME IInv,
         \/ StartRun \/ FetchStories \/ Plan \/ GetsText \/ GetFails \/ WaitOver
         \/ TextsEnd \/ RefreshStories \/ RefreshFails
         \/ \E after \in RetryAfter : RateLimited(after)
         \/ UpToDate \/ Interrupt \/ StartIndex \/ StartManual
         \/ \E b \in DOMAIN build : ReadStory(b) \/ BuildFails(b)
         \/ \E s \in Story : Mutate(s)
  PROVE  IInv'
<1>1. UNCHANGED <<file, holder, search>>
  BY DEF StartRun, FetchStories, Plan, GetsText, GetFails, WaitOver, TextsEnd, RefreshStories,
         RefreshFails, RateLimited, UpToDate, Interrupt, StartIndex, StartManual, ReadStory,
         BuildFails, Mutate, serving
<1>2. FileInv' /\ HolderInv' /\ SearchInv'
  BY <1>1 DEF IInv, FileInv, HolderInv, SearchInv, Past
<1>3. BuildInv'
  <2>1. CASE StartRun \/ FetchStories \/ Plan \/ GetsText \/ GetFails \/ WaitOver \/ TextsEnd
             \/ RefreshStories \/ UpToDate \/ \E after \in RetryAfter : RateLimited(after)
    <3>1. build' = build
      BY <2>1 DEF StartRun, FetchStories, Plan, GetsText, GetFails, WaitOver, TextsEnd,
                  RefreshStories, UpToDate, RateLimited
    <3>2. CASE StartRun
      <4>1. PICK starred \in {list} \cup {list \cup {s} : s \in Story} : list' = starred
        BY <3>2 DEF StartRun
      <4>2. list' \subseteq Story
        BY <4>1 DEF IInv, BuildInv
      <4> QED
        BY <3>1, <4>2 DEF IInv, BuildInv
    <3>3. CASE ~StartRun
      <4>1. FetchStories \/ GetsText \/ RefreshStories => list' = list
        BY DEF FetchStories, GetsText, RefreshStories
      <4>2. Plan \/ GetFails \/ WaitOver \/ TextsEnd \/ UpToDate => list' = list
        BY DEF Plan, GetFails, WaitOver, TextsEnd, UpToDate, cache
      <4>3. ASSUME NEW after \in RetryAfter, RateLimited(after) PROVE list' = list
        BY <4>3 DEF RateLimited, cache
      <4>4. list' = list
        BY <2>1, <3>3, <4>1, <4>2, <4>3
      <4> QED
        BY <3>1, <4>4 DEF IInv, BuildInv
    <3> QED
      BY <3>2, <3>3
  <2>2. CASE Interrupt
    BY <2>2, LateKeeps, NoBuildType DEF IInv, BuildInv, Interrupt, Builders, cache
  <2>3. CASE StartIndex \/ StartManual
    <3>1. IsBuild(Started)
      BY DEF IInv, BuildInv, IsBuild, Started
    <3> QED
      BY <2>3, <3>1 DEF IInv, BuildInv, StartIndex, StartManual, Builders, cache
  <2>4. ASSUME NEW b \in DOMAIN build, ReadStory(b) PROVE BuildInv'
    <3> DEFINE s == Head(build[b].todo)
    <3>1. /\ build' = [build EXCEPT ![b].todo = Tail(@), ![b].words[s] = Words(s)]
          /\ list' = list
      BY <2>4 DEF ReadStory, cache
    <3>2. Words(s) \in SUBSET Word
      BY WordsType
    <3>3. IsBuild(build[b])
      BY DEF IInv, BuildInv
    <3> HIDE DEF s
    <3>4. IsBuild(build'[b])
      BY <3>1, <3>2, <3>3 DEF IsBuild
    <3> QED
      BY <3>1, <3>4 DEF IInv, BuildInv
  <2>5. ASSUME NEW b \in DOMAIN build, BuildFails(b) PROVE BuildInv'
    <3>1. PICK which : build' = [Late(which) EXCEPT ![b] = NoBuild]
      BY <2>5 DEF BuildFails
    <3>2. list' = list
      BY <2>5 DEF BuildFails, cache
    <3> QED
      BY <3>1, <3>2, LateKeeps, NoBuildType DEF IInv, BuildInv
  <2>6. ASSUME NEW s \in Story, Mutate(s) PROVE BuildInv'
    <3>1. list' \subseteq Story
      BY <2>6 DEF IInv, BuildInv, Mutate
    <3>2. build' = build \/ build' = Late({"fetch", "manual"})
      BY <2>6 DEF Mutate
    <3> QED
      BY <3>1, <3>2, LateKeeps DEF IInv, BuildInv
  <2>7. ASSUME RefreshFails PROVE BuildInv'
    <3>1. list' = list /\ build' = Late({"fetch", "manual"})
      BY <2>7 DEF RefreshFails
    <3> QED
      BY <3>1, LateKeeps DEF IInv, BuildInv
  <2> QED
    BY <2>1, <2>2, <2>3, <2>4, <2>5, <2>6, <2>7
<1> QED
  BY <1>2, <1>3 DEF IInv

(* A file that is renamed into place has a stamp of its own.               *)
LEMMA SwapStep ==
  ASSUME IInv, NEW b \in DOMAIN build, Swap(b)
  PROVE  IInv'
<1> DEFINE stamp == IF file = None THEN 1 ELSE file.stamp + 1
<1>1. /\ file' = [digest |-> build[b].digest, words |-> build[b].words, stamp |-> stamp]
      /\ build' = [Late({"fetch", "manual"}) EXCEPT ![b] = NoBuild]
      /\ UNCHANGED <<list, holder, search>>
  BY DEF Swap, cache, serving
<1>2. stamp \in Nat /\ (file # None => file.stamp < stamp)
  BY DEF IInv, FileInv, IndexFile
<1> HIDE DEF stamp
<1>3. file' \in IndexFile
  BY <1>1, <1>2 DEF IInv, BuildInv, IsBuild, Swap, IndexFile
<1>4. file' # None /\ file'.stamp = stamp
  BY <1>1, <1>3, NoneAssumption
<1>5. BuildInv'
  BY <1>1, LateKeeps, NoBuildType DEF IInv, BuildInv
<1>6. ASSUME NEW x, Past(x) PROVE Past(x)' /\ x # file'.stamp
  <2>1. file.stamp \in Nat
    BY <1>6 DEF Past, IInv, FileInv, IndexFile
  <2> QED
    BY <1>6, <1>2, <1>4, <2>1 DEF Past
<1>7. HolderInv'
  BY <1>1, <1>6 DEF IInv, HolderInv, Past
<1>8. SearchInv'
  BY <1>1, <1>6 DEF IInv, SearchInv, Past
<1> QED
  BY <1>3, <1>5, <1>7, <1>8 DEF IInv, FileInv

(* The steps of the serving process change neither the file nor a build.   *)
LEMMA SearchSteps ==
  ASSUME IInv,
         \/ \E q \in Search : Stat(q) \/ Refresh(q) \/ Lookup(q) \/ Answered(q)
         \/ ListStore \/ OpenIndex \/ LoadStories
  PROVE  IInv'
<1>1. UNCHANGED <<list, build, file>>
  BY DEF Stat, Refresh, Lookup, Answered, ListStore, OpenIndex, LoadStories, cache
<1>2. BuildInv' /\ FileInv'
  BY <1>1 DEF IInv, BuildInv, FileInv
<1>3. ASSUME NEW q \in Search, Stat(q) PROVE HolderInv' /\ SearchInv'
  <2>1. Past(file.stamp)
    BY <1>3 DEF Stat, Past, IInv, FileInv, IndexFile
  <2> QED
    BY <1>1, <1>3, <2>1 DEF Stat, IInv, HolderInv, SearchInv, Past, NoSearch
<1>4. ASSUME NEW q \in Search, Refresh(q) PROVE HolderInv' /\ SearchInv'
  <2>1. Past(search[q].stamp)
    BY <1>4 DEF Refresh, IInv, SearchInv
  <2>2. HolderInv'
    BY <1>1, <1>4, <2>1 DEF Refresh, Opened, Closed, IInv, HolderInv, Past
  <2>3. SearchInv'
    BY <1>1, <1>4 DEF Refresh, Ended, IInv, SearchInv, Past, NoSearch
  <2> QED
    BY <2>2, <2>3
<1>5. ASSUME NEW q \in Search, Lookup(q) \/ Answered(q) PROVE HolderInv' /\ SearchInv'
  BY <1>1, <1>5 DEF Lookup, Answered, Ended, IInv, HolderInv, SearchInv, Past, NoSearch
<1>6. ASSUME ListStore \/ OpenIndex \/ LoadStories PROVE HolderInv' /\ SearchInv'
  <2>1. UNCHANGED <<holder, search>>
    BY <1>6 DEF ListStore, OpenIndex, LoadStories
  <2> QED
    BY <1>1, <2>1 DEF IInv, HolderInv, SearchInv, Past
<1> QED
  BY <1>2, <1>3, <1>4, <1>5, <1>6 DEF IInv

LEMMA NextKeeps == IInv /\ [Next]_vars => IInv'
<1> SUFFICES ASSUME IInv, [Next]_vars PROVE IInv'
  OBVIOUS
<1>1. CASE UNCHANGED vars
  BY <1>1 DEF vars, cache, serving, IInv, BuildInv, FileInv, HolderInv, SearchInv, Past
<1>2. CASE Next
  BY <1>2, FetchSteps, SwapStep, SearchSteps DEF Next
<1> QED
  BY <1>1, <1>2

(* Whatever is built, renamed and opened in between, an open index whose   *)
(* stamp is the file's is the file: refresh (word_search.go) may keep it.  *)
THEOREM HolderCurrent == Spec => []HolderIsCurrent
<1>1. Spec => []IInv
  BY InitHolds, NextKeeps, PTL DEF Spec
<1>2. IInv => HolderIsCurrent
  BY DEF IInv, HolderInv, HolderIsCurrent
<1> QED
  BY <1>1, <1>2, PTL

-----------------------------------------------------------------------------
(* adaptiveBackoff.  The base is the larger of its first value and the     *)
(* longest wait that ended a burst; base and addition exceed MaxWait only  *)
(* by the one second that a burst begins with.                             *)

FetchFields == DOMAIN fetch = {"pc", "hashes", "todo", "changed", "wait", "asked"}

BackoffType ==
  /\ DOMAIN backoff = {"base", "extra", "peak"}
  /\ backoff.base \in Nat /\ backoff.extra \in Int /\ backoff.peak \in Nat
  /\ cleared \in Nat

BackoffInv ==
  /\ BackoffType
  /\ backoff.base >= cleared
  /\ backoff.base = 255 \/ backoff.base = cleared
  /\ backoff.extra = 1 \/ backoff.base + backoff.extra <= MaxWait
  /\ backoff.peak = 0 => backoff.extra = 1

(* Both start afresh with the texts of a run and when it ends.             *)
LEMMA FreshBackoff ==
  ASSUME backoff' = NewBackoff, cleared' = 0
  PROVE  BackoffInv'
BY DEF BackoffInv, BackoffType, NewBackoff, MaxWait

LEMMA LearnedKeeps ==
  ASSUME BackoffInv, backoff' = Learned,
         cleared' = IF backoff.peak > cleared THEN backoff.peak ELSE cleared
  PROVE  BackoffInv'
BY DEF BackoffInv, BackoffType, Learned, MaxWait

LEMMA RateLimitedKeeps ==
  ASSUME BackoffInv, FetchFields, NEW after \in RetryAfter, RateLimited(after)
  PROVE  BackoffInv' /\ FetchFields'
<1> DEFINE sum   == backoff.base + backoff.extra
           wait  == IF after > sum THEN after ELSE sum
           extra == IF backoff.base + backoff.extra * 2 > MaxWait THEN MaxWait - backoff.base
                    ELSE backoff.extra * 2
           peak  == IF wait > backoff.peak THEN wait ELSE backoff.peak
<1>1. /\ backoff' = [base |-> backoff.base, extra |-> extra, peak |-> peak]
      /\ fetch' = [fetch EXCEPT !.pc = "wait", !.wait = wait, !.asked = after]
      /\ cleared' = cleared
  BY DEF RateLimited, history
<1>2. after \in Nat
  BY RetryAfterAssumption
<1>3. wait \in Int /\ extra \in Int /\ peak \in Nat /\ peak >= backoff.peak
  BY <1>2 DEF BackoffInv, BackoffType, MaxWait
<1>4. backoff.base + extra <= MaxWait
  BY DEF BackoffInv, BackoffType, MaxWait
<1>5. peak > 0
  BY <1>2 DEF BackoffInv, BackoffType, MaxWait
<1> HIDE DEF sum, wait, extra, peak
<1>6. FetchFields'
  BY <1>1 DEF FetchFields
<1>7. BackoffInv'
  BY <1>1, <1>3, <1>4, <1>5 DEF BackoffInv, BackoffType
<1> QED
  BY <1>6, <1>7

(* The wait of a RateLimited step.                                         *)
LEMMA RateLimitedWaits ==
  ASSUME BackoffInv, FetchFields, NEW after \in RetryAfter, RateLimited(after)
  PROVE  /\ fetch'.wait >= fetch'.asked
         /\ backoff.peak = 0 => fetch'.wait > cleared
         /\ fetch'.wait > fetch'.asked => fetch'.wait <= MaxWait \/ fetch'.wait <= cleared + 1
<1> DEFINE sum  == backoff.base + backoff.extra
           wait == IF after > sum THEN after ELSE sum
<1>1. fetch'.wait = wait /\ fetch'.asked = after
  BY DEF RateLimited, FetchFields
<1>2. after \in Nat /\ sum \in Int /\ cleared \in Nat
  BY RetryAfterAssumption DEF BackoffInv, BackoffType
<1>3. sum <= MaxWait \/ sum <= cleared + 1
  BY DEF BackoffInv, BackoffType, MaxWait
<1>4. backoff.peak = 0 => sum > cleared
  BY DEF BackoffInv, BackoffType
<1> QED
  BY <1>1, <1>2, <1>3, <1>4 DEF MaxWait

(* No other step begins a wait, or changes the backoff in another way than *)
(* to learn from a burst or to start afresh.                               *)
Other ==
  /\ FetchFields'
  /\ \/ UNCHANGED <<backoff, cleared>>
     \/ backoff' = NewBackoff /\ cleared' = 0
     \/ /\ backoff' = Learned
        /\ cleared' = IF backoff.peak > cleared THEN backoff.peak ELSE cleared
  /\ ~(fetch.pc = "texts" /\ fetch'.pc = "wait")

LEMMA FreshFetch == ASSUME fetch' = NoFetch PROVE FetchFields' /\ fetch'.pc # "wait"
BY DEF FetchFields, NoFetch

LEMMA OtherSteps ==
  ASSUME FetchFields, Next, \A after \in RetryAfter : ~RateLimited(after)
  PROVE  Other
<1>1. CASE StartRun
  BY <1>1 DEF StartRun, NoFetch, FetchFields, Other
<1>2. CASE FetchStories
  <2>1. fetch' = [fetch EXCEPT !.pc = "plan"] /\ UNCHANGED <<backoff, cleared>>
    BY <1>2 DEF FetchStories, history
  <2> QED
    BY <2>1 DEF FetchFields, Other
<1>3. CASE Plan
  <2>1. PICK todo, changed :
          fetch' = [fetch EXCEPT !.pc = "texts", !.todo = todo, !.changed = changed]
    BY <1>3 DEF Plan
  <2>2. backoff' = NewBackoff /\ cleared' = 0
    BY <1>3 DEF Plan
  <2> QED
    BY <2>1, <2>2 DEF FetchFields, Other
<1>4. CASE GetsText
  <2>1. PICK state \in {"text", "failed"} : Answer(state)
    BY <1>4 DEF GetsText
  <2>2. /\ fetch' = [fetch EXCEPT !.todo = Tail(@)]
        /\ backoff' = Learned
        /\ cleared' = IF backoff.peak > cleared THEN backoff.peak ELSE cleared
    BY <2>1 DEF Answer, NextItem
  <2> QED
    BY <2>2 DEF FetchFields, Other
<1>5. CASE GetFails
  BY <1>5 DEF GetFails, NextItem, FetchFields, Other
<1>6. CASE WaitOver
  BY <1>6 DEF WaitOver, FetchFields, Other, history
<1>7. CASE UpToDate \/ Interrupt
  BY <1>7, FreshFetch DEF UpToDate, Interrupt, EndsOwing, Other
<1>8. CASE StartIndex \/ StartManual \/ \E s \in Story : Mutate(s)
  <2>1. UNCHANGED <<fetch, backoff, cleared>>
    BY <1>8 DEF StartIndex, StartManual, Mutate, history
  <2> QED
    BY <2>1 DEF FetchFields, Other
<1>9. ASSUME NEW b \in DOMAIN build, ReadStory(b) \/ Swap(b) \/ BuildFails(b)
      PROVE  Other
  <2>1. \/ UNCHANGED <<fetch, backoff, cleared>>
        \/ fetch' = NoFetch /\ backoff' = NewBackoff /\ cleared' = 0
    BY <1>9 DEF ReadStory, Swap, BuildFails, EndsOwing, history
  <2> QED
    BY <2>1, FreshFetch DEF FetchFields, Other
<1>10. CASE \/ \E q \in Search : Stat(q) \/ Refresh(q) \/ Lookup(q) \/ Answered(q)
            \/ ListStore \/ OpenIndex \/ LoadStories
  <2>1. UNCHANGED <<fetch, backoff, cleared>>
    BY <1>10 DEF Stat, Refresh, Lookup, Answered, ListStore, OpenIndex, LoadStories, history
  <2> QED
    BY <2>1 DEF FetchFields, Other
<1>11. CASE TextsEnd \/ RefreshStories \/ RefreshFails
  <2>1. PICK redownloaded \in BOOLEAN : RefreshEnds(redownloaded)
    BY <1>11 DEF TextsEnd, RefreshStories, RefreshFails
  <2>2. UNCHANGED <<backoff, cleared>>
    BY <1>11 DEF TextsEnd, RefreshStories, RefreshFails, history
  <2> QED
    BY <2>1, <2>2 DEF RefreshEnds, FetchFields, Other
<1> QED
  BY <1>1, <1>2, <1>3, <1>4, <1>5, <1>6, <1>7, <1>8, <1>9, <1>10, <1>11 DEF Next

LEMMA BackoffStep ==
  ASSUME BackoffInv, FetchFields, [Next]_vars
  PROVE  /\ BackoffInv' /\ FetchFields'
         /\ fetch.pc = "texts" /\ fetch'.pc = "wait" =>
              /\ fetch'.wait >= fetch'.asked
              /\ backoff.peak = 0 => fetch'.wait > cleared
              /\ fetch'.wait > fetch'.asked => fetch'.wait <= MaxWait \/ fetch'.wait <= cleared + 1
<1>1. ASSUME NEW after \in RetryAfter, RateLimited(after)
      PROVE  BackoffInv' /\ FetchFields'
  BY <1>1, RateLimitedKeeps
<1>2. CASE Next /\ \A after \in RetryAfter : ~RateLimited(after)
  <2>1. Other
    BY <1>2, OtherSteps
  <2>2. UNCHANGED <<backoff, cleared>> => BackoffInv'
    BY DEF BackoffInv, BackoffType
  <2> QED
    BY <2>1, <2>2, FreshBackoff, LearnedKeeps DEF Other
<1>3. CASE UNCHANGED vars
  BY <1>3 DEF vars, history, BackoffInv, BackoffType, FetchFields
<1> QED
  BY <1>1, <1>2, <1>3, RateLimitedWaits

(* For any answers of NewsBlur, no wait is shorter than it asks for, the   *)
(* first of a burst is longer than what the bursts before it took, and     *)
(* none that is longer than NewsBlur asks for exceeds both five minutes    *)
(* and a second more than was learned (adaptiveBackoff, main.go).          *)
THEOREM WaitsLearned == Spec => WaitsAreLearned
<1> DEFINE Inv == BackoffInv /\ FetchFields
<1>1. Init => Inv
  BY FreshBackoff DEF Init, BackoffInv, BackoffType, NewBackoff, MaxWait, FetchFields, NoFetch
<1>2. Inv /\ [Next]_vars => Inv'
  BY BackoffStep
<1>3. Spec => []Inv
  BY <1>1, <1>2, PTL DEF Spec
<1>4. Inv /\ [Next]_vars =>
        [fetch.pc = "texts" /\ fetch'.pc = "wait" =>
           /\ fetch'.wait >= fetch'.asked
           /\ backoff.peak = 0 => fetch'.wait > cleared
           /\ fetch'.wait > fetch'.asked => fetch'.wait <= MaxWait \/ fetch'.wait <= cleared + 1]_vars
  BY BackoffStep
<1> QED
  BY <1>3, <1>4, PTL DEF Spec, WaitsAreLearned

-----------------------------------------------------------------------------
(* Lists of a set.                                                         *)

LEMMA SetToSeqList ==
  ASSUME NEW S, IsFiniteSet(S)
  PROVE  /\ SetToSeq(S) \in Seq(S) /\ IsInjective(SetToSeq(S)) /\ ToSet(SetToSeq(S)) = S
         /\ DOMAIN SetToSeq(S) = 1 .. Cardinality(S) /\ Cardinality(S) \in Nat
<1> DEFINE n == Cardinality(S)
<1>1. n \in Nat
  BY FS_CardinalityType
<1>2. ExistsBijection(1 .. n, S)
  BY FS_CardinalityType
<1>3. PICK f \in [1 .. n -> S] : IsInjective(f)
  BY <1>2 DEF ExistsBijection, Bijection, Injection
<1>4. SetToSeq(S) \in [1 .. n -> S] /\ IsInjective(SetToSeq(S))
  BY <1>3 DEF SetToSeq
<1>5. SetToSeq(S) \in Surjection(1 .. n, S)
  <2>1. SetToSeq(S) \in Injection(1 .. n, S)
    BY <1>4 DEF Injection
  <2>2. IsFiniteSet(1 .. n) /\ Cardinality(1 .. n) = n
    BY <1>1, FS_Interval
  <2> QED
    BY <2>1, <2>2, FS_Injection
<1>6. ToSet(SetToSeq(S)) = S
  <2>1. \A s \in S : \E i \in 1 .. n : SetToSeq(S)[i] = s
    BY <1>5, SMT DEF Surjection
  <2> QED
    BY <1>4, <2>1 DEF ToSet
<1> QED
  BY <1>1, <1>4, <1>6

LEMMA DistinctLength ==
  ASSUME NEW S, NEW seq \in Seq(S), IsInjective(seq)
  PROVE  Len(seq) = Cardinality(ToSet(seq))
<1> DEFINE n == Len(seq)
<1>1. n \in Nat /\ DOMAIN seq = 1 .. n /\ seq \in [1 .. n -> ToSet(seq)]
  <2>1. n \in Nat /\ DOMAIN seq = 1 .. n /\ seq \in [1 .. n -> S]
    BY LenProperties
  <2> QED
    BY <2>1 DEF ToSet
<1>2. \A s \in ToSet(seq) : \E i \in 1 .. n : seq[i] = s
  BY <1>1 DEF ToSet
<1>3. seq \in Bijection(1 .. n, ToSet(seq))
  <2>1. seq \in Injection(1 .. n, ToSet(seq)) /\ seq \in Surjection(1 .. n, ToSet(seq))
    BY <1>1, <1>2 DEF Injection, Surjection
  <2> QED
    BY <2>1 DEF Bijection
<1>4. ExistsBijection(1 .. n, ToSet(seq))
  BY <1>3 DEF ExistsBijection
<1>5. IsFiniteSet(1 .. n) /\ Cardinality(1 .. n) = n
  BY <1>1, FS_Interval
<1> QED
  BY <1>4, <1>5, FS_Bijection

-----------------------------------------------------------------------------
(* The texts.  What fetch has to do holds each story once, none that has a *)
(* text, and in front of a failed one all the failed ones it waits for.    *)

CacheInv ==
  /\ list \in SUBSET Story /\ copies \in SUBSET Story /\ amended \in SUBSET copies
  /\ text \in [Story -> {"missing", "failed", "text"}]
  /\ failed \in Seq(Story) /\ IsInjective(failed)
  /\ ToSet(failed) = {s \in Story : text[s] = "failed"}

AheadInv ==
  /\ ahead \in [Story -> SUBSET list]
  /\ \A x \in Story : \A y \in ahead[x] : Before(y, x, failed)

FetchType ==
  /\ FetchFields
  /\ fetch.pc \in {"idle", "stories", "plan", "texts", "wait", "index"}
  /\ fetch.hashes \in SUBSET Story /\ fetch.todo \in Seq(Story)
  /\ fetch.changed \in BOOLEAN /\ (fetch.pc = "idle" => ~fetch.changed)

InTurn ==
  /\ IsInjective(fetch.todo)
  /\ \A i \in DOMAIN fetch.todo : LET x == fetch.todo[i] IN
       /\ text[x] # "text"
       /\ text[x] = "failed" => \A y \in ahead[x] : \E j \in 1 .. i - 1 : fetch.todo[j] = y

TodoInv ==
  /\ fetch.pc = "stories" /\ ~fetch.changed => fetch.hashes \subseteq copies
  /\ fetch.pc \in {"stories", "plan"} => \A x \in Story : ahead[x] \subseteq fetch.hashes
  /\ fetch.pc \in {"texts", "wait"} => InTurn /\ (~fetch.changed => fetch.todo = <<>>)

TextInv == CacheInv /\ AheadInv /\ FetchType /\ TodoInv

LEMMA StoriesFinite == ASSUME NEW S \in SUBSET Story PROVE IsFiniteSet(S)
BY StoryAssumption, FS_Subset

LEMMA TextInit == Init => TextInv
<1> SUFFICES ASSUME Init PROVE TextInv
  OBVIOUS
<1> DEFINE S == {s \in Story : text[s] = "failed"}
<1>1. failed = SetToSeq(S) /\ IsFiniteSet(S)
  BY StoriesFinite DEF Init
<1>2. failed \in Seq(S) /\ IsInjective(failed) /\ ToSet(failed) = S
  BY <1>1, SetToSeqList
<1>3. failed \in Seq(Story)
  BY <1>2, SeqMonotonic
<1>4. CacheInv
  BY <1>2, <1>3 DEF Init, CacheInv
<1>5. AheadInv
  <2>1. ASSUME NEW x \in Story, NEW y \in ahead[x] PROVE y \in list /\ Before(y, x, failed)
    <3>1. PICK i \in DOMAIN failed :
            y = failed[i] /\ \E j \in DOMAIN failed : i < j /\ failed[j] = x
      BY <2>1 DEF Init
    <3>2. y \in S
      BY <1>2, <3>1 DEF ToSet
    <3>3. y \in list
      BY <3>2 DEF Init
    <3> QED
      BY <3>1, <3>3 DEF Before
  <2>2. ahead = [x \in Story |-> ahead[x]]
    BY DEF Init
  <2> QED
    BY <2>1, <2>2 DEF AheadInv
<1>6. FetchType /\ TodoInv
  <2>1. <<>> \in Seq(Story)
    OBVIOUS
  <2>2. fetch = [pc |-> "idle", hashes |-> {}, todo |-> <<>>, changed |-> FALSE,
                 wait |-> 0, asked |-> 0]
    BY DEF Init, NoFetch
  <2> QED
    BY <2>1, <2>2 DEF FetchType, FetchFields, TodoInv
<1> QED
  BY <1>4, <1>5, <1>6 DEF TextInv

(* A run that ends leaves the cache alone.                                 *)
LEMMA RunEnds ==
  ASSUME TextInv, fetch' = NoFetch, UNCHANGED <<cache, ahead>>
  PROVE  TextInv'
<1>1. <<>> \in Seq(Story)
  OBVIOUS
<1>2. fetch' = [pc |-> "idle", hashes |-> {}, todo |-> <<>>, changed |-> FALSE,
                wait |-> 0, asked |-> 0]
  BY DEF NoFetch
<1>3. FetchType' /\ TodoInv'
  BY <1>1, <1>2 DEF FetchType, FetchFields, TodoInv
<1> QED
  BY <1>3 DEF TextInv, CacheInv, AheadInv, cache

(* The plan: the missing texts and then the oldest of the failed ones.     *)
LEMMA PlanKeeps == ASSUME TextInv, Plan PROVE TextInv'
<1>1. PICK n \in 0 .. Len(failed) :
        LET due  == {i \in 1 .. n : failed[i] \in fetch.hashes}
            todo == SetToSeq({s \in fetch.hashes : text[s] = "missing"})
                      \o Picked(failed, Oldest(due))
        IN fetch' = [fetch EXCEPT !.pc = "texts", !.todo = todo,
                                  !.changed = @ \/ todo # <<>>]
  BY DEF Plan
<1> DEFINE due     == {i \in 1 .. n : failed[i] \in fetch.hashes}
           absent  == {s \in fetch.hashes : text[s] = "missing"}
           new     == SetToSeq(absent)
           old     == Picked(failed, Oldest(due))
           todo    == new \o old
           m       == Len(new)
           changed == fetch.changed \/ todo # <<>>
<1>2. /\ fetch' = [fetch EXCEPT !.pc = "texts", !.todo = todo, !.changed = changed]
      /\ UNCHANGED <<cache, ahead>> /\ fetch.pc = "plan"
  BY <1>1 DEF Plan
<1>3. /\ fetch.hashes \in SUBSET Story /\ \A x \in Story : ahead[x] \subseteq fetch.hashes
      /\ failed \in Seq(Story) /\ IsInjective(failed)
      /\ ToSet(failed) = {s \in Story : text[s] = "failed"}
  BY <1>2 DEF TextInv, FetchType, TodoInv, CacheInv
<1>4. Len(failed) \in Nat /\ DOMAIN failed = 1 .. Len(failed)
  BY <1>3, LenProperties
<1>5. due \in SUBSET DOMAIN failed /\ Oldest(due) \in SUBSET due
  BY <1>4 DEF Oldest
<1>6. /\ new \in Seq(absent) /\ IsInjective(new) /\ ToSet(new) = absent
      /\ DOMAIN new = 1 .. m /\ m \in Nat
  <2>1. absent \in SUBSET Story
    BY <1>3
  <2>2. new \in Seq(absent) /\ IsInjective(new) /\ ToSet(new) = absent
    BY <2>1, StoriesFinite, SetToSeqList
  <2> QED
    BY <2>2, LenProperties
<1>7. /\ old \in Seq(Story) /\ IsInjective(old)
      /\ Len(old) \in Nat /\ Len(old) = Cardinality(Oldest(due))
      /\ DOMAIN old = 1 .. Len(old)
      /\ \A k \in DOMAIN old :
           \E i \in Oldest(due) : Rank(Oldest(due), i) = k /\ old[k] = failed[i]
  <2>1. Oldest(due) \in SUBSET DOMAIN failed
    BY <1>5
  <2>2. old \in Seq(Story) /\ Len(old) = Cardinality(Oldest(due))
    BY <1>3, <2>1, PickedElements
  <2>3. \A k \in 1 .. Cardinality(Oldest(due)) :
          \E i \in Oldest(due) : Rank(Oldest(due), i) = k /\ old[k] = failed[i]
    BY <1>3, <2>1, PickedElements
  <2>4. IsInjective(old)
    BY <1>3, <2>1, PickedInjective
  <2>5. Len(old) \in Nat /\ DOMAIN old = 1 .. Len(old)
    BY <2>2, LenProperties
  <2> QED
    BY <2>2, <2>3, <2>4, <2>5
<1>8. ASSUME NEW k \in DOMAIN old PROVE text[old[k]] = "failed"
  <2>1. PICK i \in Oldest(due) : old[k] = failed[i]
    BY <1>7
  <2>2. failed[i] \in ToSet(failed)
    BY <1>5, <2>1 DEF ToSet
  <2> QED
    BY <1>3, <2>1, <2>2
<1>9. \A k \in DOMAIN new : new[k] \in absent /\ text[new[k]] = "missing"
  BY <1>6 DEF ToSet
(* A failed story that another one waits for is due before it.             *)
<1>10. ASSUME NEW k \in DOMAIN old, NEW y \in ahead[old[k]]
       PROVE  \E l \in 1 .. k - 1 : old[l] = y
  <2>1. PICK i \in Oldest(due) : Rank(Oldest(due), i) = k /\ old[k] = failed[i]
    BY <1>7
  <2>2. old[k] \in Story /\ y \in fetch.hashes
    BY <1>3, <1>7, <1>10, ElementOfSeq
  <2>3. PICK a \in DOMAIN failed, b \in DOMAIN failed :
          a < b /\ failed[a] = y /\ failed[b] = old[k]
    BY <1>10, <2>2 DEF TextInv, AheadInv, Before
  <2>4. b = i
    BY <1>3, <1>5, <2>1, <2>3 DEF IsInjective
  <2>5. a \in due
    BY <1>4, <1>5, <2>2, <2>3, <2>4
  <2>6. Rank(due, a) < Rank(due, i) /\ Rank(due, a) \in Nat /\ Rank(due, i) \in Nat
    <3>1. due \in SUBSET (1 .. Len(failed)) /\ i \in due
      BY <1>4, <1>5, <2>1
    <3>2. Rank(due, a) < Rank(due, i)
      BY <1>4, <2>3, <2>4, <2>5, <3>1, RankMonotone
    <3>3. Rank(due, a) \in 1 .. Cardinality(due) /\ Rank(due, i) \in 1 .. Cardinality(due)
      BY <1>4, <2>5, <3>1, RankRange
    <3> QED
      BY <3>2, <3>3
  <2>7. a \in Oldest(due)
    <3>1. Rank(due, i) <= MaxRetries
      BY <2>1 DEF Oldest, Rank
    <3>2. Rank(due, a) <= MaxRetries
      BY <2>6, <3>1, RetriesAssumption
    <3> QED
      BY <2>5, <3>2 DEF Oldest, Rank
  <2> DEFINE l == Rank(Oldest(due), a)
  <2>8. l < k /\ l \in 1 .. Cardinality(Oldest(due)) /\ old[l] = failed[a]
    <3>1. Oldest(due) \in SUBSET (1 .. Len(failed)) /\ Oldest(due) \in SUBSET DOMAIN failed
      BY <1>4, <1>5
    <3>2. l < k
      BY <1>4, <2>1, <2>3, <2>4, <2>7, <3>1, RankMonotone
    <3>3. l \in 1 .. Cardinality(Oldest(due)) /\ old[l] = failed[a]
      BY <1>3, <2>7, <3>1, PickedElements
    <3> QED
      BY <3>2, <3>3
  <2> HIDE DEF l
  <2>9. k \in Nat
    BY <1>7
  <2>10. l \in 1 .. k - 1
    BY <2>8, <2>9
  <2> QED
    BY <2>3, <2>8, <2>10
<1> HIDE DEF due, absent, new, old, m
<1>11. /\ todo \in Seq(Story) /\ DOMAIN todo = 1 .. m + Len(old)
       /\ \A i \in 1 .. m + Len(old) : todo[i] = IF i <= m THEN new[i] ELSE old[i - m]
  <2>1. absent \in SUBSET Story
    BY <1>3 DEF absent
  <2>2. new \in Seq(Story)
    BY <1>6, <2>1, SeqMonotonic
  <2> HIDE DEF todo
  <2>3. /\ new \o old \in Seq(Story) /\ Len(new \o old) = Len(new) + Len(old)
        /\ \A i \in 1 .. Len(new) + Len(old) :
             (new \o old)[i] = IF i <= Len(new) THEN new[i] ELSE old[i - Len(new)]
    BY <1>7, <2>2, ConcatProperties
  <2>4. DOMAIN (new \o old) = 1 .. Len(new) + Len(old)
    BY <2>3, LenProperties
  <2> QED
    BY <2>3, <2>4 DEF m, todo
<1> HIDE DEF todo
<1>12. IsInjective(todo)
  <2> SUFFICES ASSUME NEW i \in 1 .. m + Len(old), NEW j \in 1 .. m + Len(old),
                      i < j, todo[i] = todo[j]
               PROVE  FALSE
    BY <1>6, <1>7, <1>11 DEF IsInjective
  <2>1. CASE j <= m
    <3>1. i \in DOMAIN new /\ j \in DOMAIN new /\ new[i] = new[j]
      BY <1>6, <1>11, <2>1
    <3> QED
      BY <1>6, <3>1 DEF IsInjective
  <2>2. CASE i > m
    <3>1. i - m \in DOMAIN old /\ j - m \in DOMAIN old /\ old[i - m] = old[j - m]
      BY <1>6, <1>7, <1>11, <2>2
    <3>2. i - m = j - m
      BY <1>7, <3>1 DEF IsInjective
    <3> QED
      BY <1>6, <3>2
  <2>3. CASE i <= m /\ j > m
    <3>1. i \in DOMAIN new /\ j - m \in DOMAIN old /\ new[i] = old[j - m]
      BY <1>6, <1>7, <1>11, <2>3
    <3> QED
      BY <1>8, <1>9, <3>1
  <2> QED
    BY <1>6, <2>1, <2>2, <2>3
<1>13. ASSUME NEW i \in DOMAIN todo
       PROVE  /\ text[todo[i]] # "text"
              /\ text[todo[i]] = "failed" =>
                   \A y \in ahead[todo[i]] : \E j \in 1 .. i - 1 : todo[j] = y
  <2>1. CASE i <= m
    <3>1. i \in DOMAIN new /\ todo[i] = new[i]
      BY <1>6, <1>11, <2>1
    <3> QED
      BY <1>9, <3>1
  <2>2. CASE i > m
    <3>1. i - m \in DOMAIN old /\ todo[i] = old[i - m]
      BY <1>6, <1>7, <1>11, <2>2
    <3>2. text[todo[i]] = "failed"
      BY <1>8, <3>1
    <3>3. ASSUME NEW y \in ahead[todo[i]] PROVE \E j \in 1 .. i - 1 : todo[j] = y
      <4>1. PICK l \in 1 .. (i - m) - 1 : old[l] = y
        BY <1>10, <3>1, <3>3
      <4>2. i - m \in 1 .. Len(old)
        BY <1>7, <3>1
      <4>3. m + l \in 1 .. i - 1 /\ m + l \in 1 .. m + Len(old) /\ m + l > m /\ m + l - m = l
        BY <1>6, <1>7, <1>11, <2>2, <4>2
      <4>4. todo[m + l] = old[l]
        BY <1>6, <1>11, <4>3
      <4> QED
        BY <4>1, <4>3, <4>4
    <3> QED
      BY <3>2, <3>3
  <2>3. i <= m \/ i > m
    BY <1>6, <1>11
  <2> QED
    BY <2>1, <2>2, <2>3
<1>14. /\ fetch'.pc = "texts" /\ fetch'.hashes = fetch.hashes /\ fetch'.todo = todo
       /\ fetch'.changed = changed /\ FetchFields'
  BY <1>2 DEF TextInv, FetchType, FetchFields
<1>15. InTurn'
  BY <1>2, <1>12, <1>13, <1>14 DEF InTurn, cache
<1>16. changed \in BOOLEAN /\ (~changed => todo = <<>>)
  BY DEF TextInv, FetchType
<1> HIDE DEF changed
<1>17. FetchType' /\ TodoInv'
  BY <1>3, <1>11, <1>14, <1>15, <1>16 DEF FetchType, TodoInv
<1> QED
  BY <1>2, <1>17 DEF TextInv, CacheInv, AheadInv, cache

LEMMA AppendLast ==
  ASSUME NEW S, NEW seq \in Seq(S), NEW x \in S, x \notin ToSet(seq), IsInjective(seq)
  PROVE  /\ Append(seq, x) \in Seq(S) /\ IsInjective(Append(seq, x))
         /\ ToSet(Append(seq, x)) = ToSet(seq) \cup {x}
         /\ \A y, z : Before(y, z, seq) => Before(y, z, Append(seq, x))
         /\ \A y \in ToSet(seq) : Before(y, x, Append(seq, x))
<1> DEFINE n == Len(seq)
           longer == Append(seq, x)
<1>1. n \in Nat /\ DOMAIN seq = 1 .. n
  BY LenProperties
<1>2. longer \in Seq(S) /\ Len(longer) = n + 1
  BY AppendProperties
<1>3. DOMAIN longer = 1 .. n + 1
  BY <1>2, LenProperties
<1>4. longer[n + 1] = x /\ \A i \in 1 .. n : longer[i] = seq[i]
  BY AppendProperties
<1> HIDE DEF longer, n
<1>5. \A i \in 1 .. n : seq[i] # x
  BY <1>1 DEF ToSet
<1>6. IsInjective(longer)
  <2> SUFFICES ASSUME NEW i \in 1 .. n + 1, NEW j \in 1 .. n + 1, longer[i] = longer[j]
               PROVE  i = j
    BY <1>3 DEF IsInjective
  <2>1. CASE i = n + 1 \/ j = n + 1
    BY <1>1, <1>4, <1>5, <2>1
  <2>2. CASE i \in 1 .. n /\ j \in 1 .. n
    BY <1>1, <1>4, <2>2 DEF IsInjective
  <2> QED
    BY <1>1, <2>1, <2>2
<1>7. ToSet(longer) = ToSet(seq) \cup {x}
  <2>1. ToSet(longer) \subseteq ToSet(seq) \cup {x}
    BY <1>1, <1>3, <1>4 DEF ToSet
  <2>2. ToSet(seq) \cup {x} \subseteq ToSet(longer)
    <3>1. n + 1 \in DOMAIN longer /\ \A i \in 1 .. n : i \in DOMAIN longer
      BY <1>1, <1>3
    <3> QED
      BY <1>1, <1>4, <3>1 DEF ToSet
  <2> QED
    BY <2>1, <2>2
<1>8. ASSUME NEW y, NEW z, Before(y, z, seq) PROVE Before(y, z, longer)
  <2>1. PICK i \in 1 .. n, j \in 1 .. n : i < j /\ seq[i] = y /\ seq[j] = z
    BY <1>1, <1>8 DEF Before
  <2>2. /\ i \in DOMAIN longer /\ j \in DOMAIN longer
        /\ longer[i] = y /\ longer[j] = z
    BY <1>1, <1>3, <1>4, <2>1
  <2> QED
    BY <2>1, <2>2 DEF Before
<1>9. ASSUME NEW y \in ToSet(seq) PROVE Before(y, x, longer)
  <2>1. PICK i \in 1 .. n : seq[i] = y
    BY <1>1 DEF ToSet
  <2>2. /\ i \in DOMAIN longer /\ n + 1 \in DOMAIN longer /\ i < n + 1
        /\ longer[i] = y /\ longer[n + 1] = x
    BY <1>1, <1>3, <1>4, <2>1
  <2> QED
    BY <2>2 DEF Before
<1> QED
  BY <1>2, <1>6, <1>7, <1>8, <1>9 DEF longer

(* An answered story goes to the end of the failed ones, or leaves them.   *)
LEMMA RestampedKeeps ==
  ASSUME TextInv, NEW s \in Story, NEW state \in {"text", "failed"},
         UNCHANGED <<list, copies, amended>>,
         text' = [text EXCEPT ![s] = state],
         failed' = Restamped(s, state),
         ahead' = [Tried(s) EXCEPT ![s] =
                     IF state = "failed" THEN (ToSet(failed) \cap list) \ {s} ELSE {}]
  PROVE  CacheInv' /\ AheadInv'
<1> DEFINE I == {i \in DOMAIN failed : failed[i] # s}
           others == Picked(failed, I)
<1>1. /\ failed \in Seq(Story) /\ IsInjective(failed) /\ I \in SUBSET DOMAIN failed
      /\ ToSet(failed) = {x \in Story : text[x] = "failed"}
  BY DEF TextInv, CacheInv
<1>2. others \in Seq(Story) /\ IsInjective(others)
  BY <1>1, PickedElements, PickedInjective
<1>3. ToSet(others) = ToSet(failed) \ {s}
  <2>1. DOMAIN others = 1 .. Cardinality(I)
    BY DEF Picked
  <2>2. \A k \in 1 .. Cardinality(I) : \E i \in I : Rank(I, i) = k /\ others[k] = failed[i]
    BY <1>1, PickedElements
  <2>3. \A i \in I : Rank(I, i) \in 1 .. Cardinality(I) /\ others[Rank(I, i)] = failed[i]
    BY <1>1, PickedElements
  <2> HIDE DEF others
  <2>4. ToSet(others) \subseteq ToSet(failed) \ {s}
    BY <2>1, <2>2 DEF ToSet
  <2>5. ToSet(failed) \ {s} \subseteq ToSet(others)
    BY <2>1, <2>3 DEF ToSet
  <2> QED
    BY <2>4, <2>5
<1>4. ASSUME NEW y, NEW x, y # s, x # s, Before(y, x, failed) PROVE Before(y, x, others)
  <2>1. PICK i \in DOMAIN failed, j \in DOMAIN failed : i < j /\ failed[i] = y /\ failed[j] = x
    BY <1>4 DEF Before
  <2>2. i \in I /\ j \in I
    BY <1>4, <2>1
  <2>3. Before(failed[i], failed[j], others)
    BY <1>1, <2>1, <2>2, PickedOrder
  <2> QED
    BY <2>1, <2>3
<1>5. failed' = IF state = "failed" THEN Append(others, s) ELSE others
  BY DEF Restamped
<1> HIDE DEF I, others
<1>6. /\ Append(others, s) \in Seq(Story) /\ IsInjective(Append(others, s))
      /\ ToSet(Append(others, s)) = ToSet(others) \cup {s}
      /\ \A y, z : Before(y, z, others) => Before(y, z, Append(others, s))
      /\ \A y \in ToSet(others) : Before(y, s, Append(others, s))
  <2>1. s \notin ToSet(others)
    BY <1>3
  <2> QED
    BY <1>2, <2>1, AppendLast
<1>7. text' \in [Story -> {"missing", "failed", "text"}]
  BY DEF TextInv, CacheInv
<1>8. CacheInv'
  <2>1. failed' \in Seq(Story) /\ IsInjective(failed')
    BY <1>2, <1>5, <1>6
  <2>2. {x \in Story : text'[x] = "failed"}
          = IF state = "failed" THEN ToSet(failed) \cup {s} ELSE ToSet(failed) \ {s}
    BY <1>1 DEF TextInv, CacheInv
  <2>3. ToSet(failed') = IF state = "failed" THEN ToSet(failed) \cup {s} ELSE ToSet(failed) \ {s}
    BY <1>3, <1>5, <1>6
  <2> QED
    BY <1>7, <2>1, <2>2, <2>3 DEF TextInv, CacheInv
<1>9. AheadInv'
  <2>1. /\ ahead' \in [Story -> SUBSET list']
        /\ \A x \in Story \ {s} : ahead'[x] = ahead[x] \ {s}
        /\ ahead'[s] = IF state = "failed" THEN (ToSet(failed) \cap list) \ {s} ELSE {}
    BY DEF TextInv, AheadInv, Tried
  <2>2. ASSUME NEW x \in Story, NEW y \in ahead'[x] PROVE Before(y, x, failed')
    <3>1. CASE x = s
      <4>1. state = "failed" /\ y \in ToSet(others)
        BY <1>3, <2>1, <2>2, <3>1
      <4> QED
        BY <1>5, <1>6, <3>1, <4>1
    <3>2. CASE x # s
      <4>1. y # s /\ Before(y, x, failed)
        BY <2>1, <2>2, <3>2 DEF TextInv, AheadInv
      <4>2. Before(y, x, others)
        BY <1>4, <3>2, <4>1
      <4> QED
        BY <1>5, <1>6, <4>2
    <3> QED
      BY <3>1, <3>2
  <2> QED
    BY <2>1, <2>2 DEF AheadInv
<1> QED
  BY <1>8, <1>9

(* The next story's turn, once one has been tried.                         *)
LEMMA NextInTurn ==
  ASSUME TextInv, fetch.pc = "texts", fetch.todo # <<>>, NextItem,
         \A x \in Story \ {Asked} : text'[x] = text[x] /\ ahead'[x] \subseteq ahead[x] \ {Asked}
  PROVE  FetchType' /\ TodoInv'
<1> DEFINE todo == fetch.todo
           n    == Len(todo)
<1>1. /\ fetch'.pc = "texts" /\ fetch'.todo = Tail(todo) /\ fetch'.hashes = fetch.hashes
      /\ fetch'.changed = fetch.changed /\ FetchFields'
  BY DEF NextItem, TextInv, FetchType, FetchFields
<1>2. /\ todo \in Seq(Story) /\ InTurn /\ fetch.changed
  BY DEF TextInv, FetchType, TodoInv
<1>3. n \in Nat \ {0} /\ DOMAIN todo = 1 .. n /\ Asked = todo[1]
  BY <1>2, EmptySeq, LenProperties, HeadTailProperties DEF Asked
<1>4. /\ Tail(todo) \in Seq(Story) /\ DOMAIN Tail(todo) = 1 .. n - 1
      /\ \A i \in 1 .. n - 1 : Tail(todo)[i] = todo[i + 1]
  BY <1>2, HeadTailProperties, LenProperties
<1> HIDE DEF todo, n
<1>5. IsInjective(Tail(todo))
  <2> SUFFICES ASSUME NEW i \in 1 .. n - 1, NEW j \in 1 .. n - 1,
                      Tail(todo)[i] = Tail(todo)[j]
               PROVE  i = j
    BY <1>4 DEF IsInjective
  <2>1. i + 1 \in DOMAIN todo /\ j + 1 \in DOMAIN todo /\ todo[i + 1] = todo[j + 1]
    BY <1>3, <1>4
  <2>2. i + 1 = j + 1
    BY <1>2, <2>1 DEF InTurn, IsInjective, todo
  <2> QED
    BY <2>2
<1>6. ASSUME NEW i \in 1 .. n - 1, NEW x, x = Tail(todo)[i]
      PROVE  /\ text'[x] # "text"
             /\ text'[x] = "failed" =>
                  \A y \in ahead'[x] : \E j \in 1 .. i - 1 : Tail(todo)[j] = y
  <2>1. i + 1 \in DOMAIN todo /\ 1 \in DOMAIN todo /\ x = todo[i + 1]
    BY <1>3, <1>4, <1>6
  <2>2. x # Asked /\ x \in Story
    <3>1. x = Asked => i + 1 = 1
      BY <1>2, <1>3, <2>1 DEF InTurn, IsInjective, todo
    <3>2. x \in Story
      BY <1>2, <2>1, <1>3, ElementOfSeq DEF n
    <3> QED
      BY <3>1, <3>2
  <2>3. text'[x] = text[x] /\ ahead'[x] \subseteq ahead[x] \ {Asked}
    BY <2>2
  <2>4. /\ text[x] # "text"
        /\ text[x] = "failed" => \A y \in ahead[x] : \E j \in 1 .. (i + 1) - 1 : todo[j] = y
    BY <1>2, <2>1 DEF InTurn, todo
  <2>5. ASSUME text[x] = "failed", NEW y \in ahead'[x]
        PROVE  \E j \in 1 .. i - 1 : Tail(todo)[j] = y
    <3>1. y \in ahead[x] /\ y # Asked
      BY <2>3, <2>5
    <3>2. PICK j \in 1 .. (i + 1) - 1 : todo[j] = y
      BY <2>4, <2>5, <3>1
    <3>3. j # 1
      BY <1>3, <3>1, <3>2
    <3>4. j - 1 \in 1 .. i - 1 /\ j - 1 \in 1 .. n - 1 /\ (j - 1) + 1 = j
      BY <1>3, <3>2, <3>3
    <3> QED
      BY <1>4, <3>2, <3>4
  <2> QED
    BY <2>3, <2>4, <2>5
<1>7. InTurn'
  <2>1. \A i \in DOMAIN Tail(todo) :
          /\ text'[Tail(todo)[i]] # "text"
          /\ text'[Tail(todo)[i]] = "failed" =>
               \A y \in ahead'[Tail(todo)[i]] : \E j \in 1 .. i - 1 : Tail(todo)[j] = y
    BY <1>4, <1>6
  <2> QED
    BY <1>1, <1>5, <2>1 DEF InTurn
<1>8. FetchType'
  BY <1>1, <1>4 DEF FetchType, TextInv
<1>9. TodoInv'
  BY <1>1, <1>2, <1>7 DEF TodoInv
<1> QED
  BY <1>8, <1>9

(* A step that keeps the plan keeps its order if nothing is more ahead.    *)
LEMMA TurnKept ==
  ASSUME InTurn, fetch.todo \in Seq(Story), fetch'.todo = fetch.todo, text' = text,
         \A x \in Story : ahead'[x] \subseteq ahead[x]
  PROVE  InTurn'
<1>1. \A i \in DOMAIN fetch.todo : fetch.todo[i] \in Story
  BY ElementOfSeq, LenProperties
<1> QED
  BY <1>1 DEF InTurn

LEMMA MutateKeeps == ASSUME TextInv, NEW s \in Story, Mutate(s) PROVE TextInv'
<1>1. /\ UNCHANGED <<text, failed, fetch>>
      /\ copies' \in SUBSET Story /\ copies \subseteq copies' /\ amended' \in SUBSET copies'
      /\ \/ list' = list \cup {s} /\ ahead' = ahead
         \/ list' = list \ {s} /\ ahead' = Tried(s)
  BY DEF Mutate, TextInv, CacheInv
<1>2. CacheInv'
  BY <1>1 DEF TextInv, CacheInv
<1>3. /\ ahead' \in [Story -> SUBSET list']
      /\ \A x \in Story : ahead'[x] \subseteq ahead[x]
  BY <1>1 DEF TextInv, AheadInv, Tried
<1>4. AheadInv'
  BY <1>1, <1>3 DEF TextInv, AheadInv
<1>5. FetchType'
  BY <1>1 DEF TextInv, FetchType, FetchFields
<1>6. TodoInv'
  <2>1. fetch.pc \in {"texts", "wait"} => InTurn'
    BY <1>1, <1>3, TurnKept DEF TextInv, FetchType, TodoInv
  <2> QED
    BY <1>1, <1>3, <2>1 DEF TextInv, TodoInv
<1> QED
  BY <1>2, <1>4, <1>5, <1>6 DEF TextInv

LEMMA TextStep == TextInv /\ [Next]_vars => TextInv'
<1> SUFFICES ASSUME TextInv, [Next]_vars PROVE TextInv'
  OBVIOUS
<1>1. ASSUME StartRun PROVE TextInv'
  <2>1. PICK starred \in {list} \cup {list \cup {s} : s \in Story} :
          /\ list' = starred
          /\ fetch' = [NoFetch EXCEPT !.pc = "stories", !.hashes = starred,
                                      !.changed = starred \ copies # {}]
    BY <1>1 DEF StartRun
  <2>2. /\ list' \in SUBSET Story /\ list \subseteq list'
        /\ UNCHANGED <<copies, amended, text, failed, ahead>>
    BY <1>1, <2>1 DEF StartRun, TextInv, CacheInv
  <2>3. CacheInv' /\ AheadInv'
    BY <2>2 DEF TextInv, CacheInv, AheadInv
  <2>4. /\ fetch'.pc = "stories" /\ fetch'.hashes = list' /\ fetch'.todo = <<>>
        /\ fetch'.changed = (list' \ copies # {}) /\ FetchFields'
    BY <2>1 DEF NoFetch, FetchFields
  <2>5. FetchType'
    <3>1. <<>> \in Seq(Story)
      OBVIOUS
    <3>2. fetch'.changed \in BOOLEAN
      BY <2>4, Zenon
    <3> QED
      BY <2>2, <2>4, <3>1, <3>2 DEF FetchType
  <2>6. TodoInv'
    <3>1. ~fetch'.changed => list' \subseteq copies'
      BY <2>2, <2>4
    <3>2. \A x \in Story : ahead'[x] \subseteq list'
      BY <2>3 DEF AheadInv
    <3> QED
      BY <2>4, <3>1, <3>2 DEF TodoInv
  <2> QED
    BY <2>3, <2>5, <2>6 DEF TextInv
<1>2. ASSUME FetchStories PROVE TextInv'
  <2>1. /\ copies' \in SUBSET Story /\ copies \subseteq copies'
        /\ UNCHANGED <<list, amended, text, failed, ahead>>
        /\ fetch' = [fetch EXCEPT !.pc = "plan"] /\ fetch.pc = "stories"
    BY <1>2 DEF FetchStories, history, TextInv, CacheInv, FetchType
  <2>2. CacheInv' /\ AheadInv'
    BY <2>1 DEF TextInv, CacheInv, AheadInv
  <2>3. FetchType' /\ TodoInv'
    BY <2>1 DEF TextInv, FetchType, FetchFields, TodoInv
  <2> QED
    BY <2>2, <2>3 DEF TextInv
<1>3. ASSUME GetsText PROVE TextInv'
  <2>1. PICK state \in {"text", "failed"} : Answer(state)
    BY <1>3 DEF GetsText
  <2>2. Asked \in Story
    BY <1>3, HeadTailProperties DEF GetsText, Asked, TextInv, FetchType
  <2>3. /\ text' = [text EXCEPT ![Asked] = state]
        /\ failed' = Restamped(Asked, state)
        /\ ahead' = [Tried(Asked) EXCEPT ![Asked] =
                       IF state = "failed" THEN (ToSet(failed) \cap list) \ {Asked} ELSE {}]
        /\ NextItem /\ UNCHANGED <<list, copies, amended>> /\ fetch.pc = "texts" /\ fetch.todo # <<>>
    BY <1>3, <2>1 DEF GetsText, Answer
  <2>4. CacheInv' /\ AheadInv'
    BY <2>2, <2>3, RestampedKeeps
  <2>5. \A x \in Story \ {Asked} : text'[x] = text[x] /\ ahead'[x] \subseteq ahead[x] \ {Asked}
    <3> DEFINE a == Asked
    <3> HIDE DEF a
    <3>1. /\ text' = [text EXCEPT ![a] = state]
          /\ \E w : ahead' = [Tried(a) EXCEPT ![a] = w]
      BY <2>3 DEF a
    <3>2. \A x \in Story \ {a} : text'[x] = text[x] /\ ahead'[x] \subseteq ahead[x] \ {a}
      BY <3>1 DEF Tried, TextInv, CacheInv
    <3> QED
      BY <3>2 DEF a
  <2>6. FetchType' /\ TodoInv'
    BY <2>3, <2>5, NextInTurn
  <2> QED
    BY <2>4, <2>6 DEF TextInv
<1>4. ASSUME GetFails PROVE TextInv'
  <2>1. /\ UNCHANGED cache /\ ahead' = Tried(Asked)
        /\ NextItem /\ fetch.pc = "texts" /\ fetch.todo # <<>>
    BY <1>4 DEF GetFails
  <2>2. \A x \in Story : ahead'[x] = ahead[x] \ {Asked}
    BY <2>1 DEF Tried
  <2>3. CacheInv'
    BY <2>1 DEF TextInv, CacheInv, cache
  <2>4. AheadInv'
    <3>1. ahead' \in [Story -> SUBSET list']
      BY <2>1 DEF TextInv, AheadInv, Tried, cache
    <3> QED
      BY <2>1, <2>2, <3>1 DEF TextInv, AheadInv, cache
  <2>5. FetchType' /\ TodoInv'
    <3>1. \A x \in Story \ {Asked} : text'[x] = text[x] /\ ahead'[x] \subseteq ahead[x] \ {Asked}
      BY <2>1, <2>2 DEF cache
    <3> QED
      BY <2>1, <3>1, NextInTurn
  <2> QED
    BY <2>3, <2>4, <2>5 DEF TextInv
<1>5. ASSUME WaitOver \/ \E after \in RetryAfter : RateLimited(after) PROVE TextInv'
  <2>1. /\ fetch.pc \in {"texts", "wait"} /\ fetch'.pc \in {"texts", "wait"} /\ FetchFields'
        /\ fetch'.todo = fetch.todo /\ fetch'.hashes = fetch.hashes
        /\ fetch'.changed = fetch.changed
        /\ UNCHANGED <<cache, ahead>>
    BY <1>5 DEF WaitOver, RateLimited, TextInv, FetchType, FetchFields, history
  <2>2. CacheInv' /\ AheadInv' /\ FetchType'
    BY <2>1 DEF TextInv, CacheInv, AheadInv, FetchType, cache
  <2>3. InTurn'
    BY <2>1, TurnKept DEF TextInv, FetchType, TodoInv, cache
  <2>4. TodoInv'
    BY <2>1, <2>3 DEF TextInv, TodoInv
  <2> QED
    BY <2>2, <2>4 DEF TextInv
<1>6. ASSUME TextsEnd \/ RefreshStories \/ RefreshFails PROVE TextInv'
  <2>1. PICK redownloaded \in BOOLEAN : RefreshEnds(redownloaded)
    BY <1>6 DEF TextsEnd, RefreshStories, RefreshFails
  <2>2. FetchType' /\ TodoInv'
    BY <2>1 DEF RefreshEnds, TextInv, FetchType, FetchFields, TodoInv
  <2>3. /\ UNCHANGED <<list, text, failed, ahead>>
        /\ copies' \in SUBSET Story /\ amended' \in SUBSET copies'
    <3>1. CASE TextsEnd
      BY <3>1 DEF TextsEnd, TextInv, CacheInv, cache, history
    <3>2. CASE RefreshStories \/ RefreshFails
      BY <3>2 DEF RefreshStories, RefreshFails, TextInv, CacheInv, history
    <3> QED
      BY <1>6, <3>1, <3>2
  <2> QED
    BY <2>2, <2>3 DEF TextInv, CacheInv, AheadInv
<1>7. ASSUME \/ Interrupt \/ UpToDate \/ StartIndex \/ StartManual
             \/ \E b \in DOMAIN build : ReadStory(b) \/ Swap(b) \/ BuildFails(b)
             \/ \E q \in Search : Stat(q) \/ Refresh(q) \/ Lookup(q) \/ Answered(q)
             \/ ListStore \/ OpenIndex \/ LoadStories
             \/ UNCHANGED vars
      PROVE  TextInv'
  <2>1. UNCHANGED <<cache, ahead>>
    BY <1>7 DEF Interrupt, UpToDate, StartIndex, StartManual, ReadStory, Swap, BuildFails,
                Stat, Refresh, Lookup, Answered, ListStore, OpenIndex, LoadStories, vars, history
  <2>2. UNCHANGED fetch \/ fetch' = NoFetch
    BY <1>7 DEF Interrupt, UpToDate, StartIndex, StartManual, ReadStory, Swap, BuildFails,
                Stat, Refresh, Lookup, Answered, ListStore, OpenIndex, LoadStories, vars, EndsOwing
  <2>3. UNCHANGED fetch => TextInv'
    BY <2>1 DEF TextInv, CacheInv, AheadInv, FetchType, FetchFields, TodoInv, InTurn, cache
  <2> QED
    BY <2>1, <2>2, <2>3, RunEnds
<1> QED
  BY <1>1, <1>2, <1>3, <1>4, <1>5, <1>6, <1>7, PlanKeeps, MutateKeeps DEF Next

(* However the cap cuts the plans of the runs, and whatever fails, nothing *)
(* is ahead of a failed answer when it is asked for again                  *)
(* (planOriginalText, original_text.go).                                   *)
THEOREM RetriedInTurn == Spec => []RetriesInTurn
<1>1. Spec => []TextInv
  BY TextInit, TextStep, PTL DEF Spec
<1>2. TextInv => RetriesInTurn
  <2> SUFFICES ASSUME TextInv, fetch.pc = "texts", fetch.todo # <<>>, text[Asked] = "failed"
               PROVE  ahead[Asked] = {}
    BY DEF RetriesInTurn
  <2>1. fetch.todo \in Seq(Story) /\ InTurn
    BY DEF TextInv, FetchType, TodoInv
  <2>2. 1 \in DOMAIN fetch.todo /\ Asked = fetch.todo[1]
    BY <2>1, EmptySeq, LenProperties DEF Asked
  <2>3. \A y \in ahead[Asked] : \E j \in 1 .. 1 - 1 : fetch.todo[j] = y
    BY <2>1, <2>2 DEF InTurn
  <2> QED
    BY <2>3
<1> QED
  BY <1>1, <1>2, PTL

-----------------------------------------------------------------------------
(* The index file and the builds.  None holds a word that was never        *)
(* cached, or one of a story it was not built for; and what differs from   *)
(* the cache is excused: by "owed", by a run of fetch that has changed     *)
(* something and will build again, or by the stories a build has still to  *)
(* read.                                                                   *)

Held(words) == \A s \in Story : words[s] \subseteq Ever(s)
Only(words, S) == \A s \in Story \ S : words[s] = {}
Covered(words, S) == \A s \in S : words[s] = Words(s)

BuildCovers(b) ==
  /\ build[b].pc \in {"idle", "read"} /\ build[b].late \in BOOLEAN
  /\ build[b].pc = "read" =>
       /\ build[b].todo \in Seq(Story)
       /\ Held(build[b].words)
       /\ ToSet(build[b].todo) \subseteq build[b].digest
       /\ Only(build[b].words, build[b].digest)
       /\ \/ build[b].late
          \/ b = "manual" /\ fetch.changed
          \/ Covered(build[b].words, build[b].digest \ ToSet(build[b].todo))

FileCovers ==
  file # None =>
    /\ Held(file.words)
    /\ Only(file.words, file.digest)
    /\ owed \/ fetch.changed \/ Covered(file.words, file.digest)

CoverInv ==
  /\ build["fetch"].pc = "read" => fetch.pc = "index"
  /\ \A b \in Builders : BuildCovers(b)
  /\ FileCovers

AllInv == IInv /\ TextInv /\ CoverInv

LEMMA CoverInit == Init => CoverInv
<1> SUFFICES ASSUME Init PROVE CoverInv
  OBVIOUS
<1>1. \A b \in Builders : build[b].pc = "idle" /\ build[b].late = FALSE
  BY DEF Init, NoBuild, Builders
<1>2. \A b \in Builders : build[b].late \in BOOLEAN
  BY <1>1, Zenon
<1>3. file = None
  BY DEF Init
<1> QED
  BY <1>1, <1>2, <1>3 DEF CoverInv, BuildCovers, FileCovers, Builders

(* Nothing that is cached is lost, and so no word.                         *)
LEMMA CacheGrows ==
  ASSUME TextInv, [Next]_vars
  PROVE  /\ copies \subseteq copies' /\ amended \subseteq amended'
         /\ \A s \in Story : text[s] = "text" => text'[s] = "text"
<1>1. ASSUME GetsText PROVE /\ copies \subseteq copies' /\ amended' = amended
                            /\ \A s \in Story : text[s] = "text" => text'[s] = "text"
  <2>1. PICK state \in {"text", "failed"} : text' = [text EXCEPT ![Asked] = state]
    BY <1>1 DEF GetsText, Answer
  <2>2. fetch.todo \in Seq(Story) /\ fetch.todo # <<>> /\ InTurn
    BY <1>1 DEF GetsText, TextInv, FetchType, TodoInv
  <2>3. 1 \in DOMAIN fetch.todo /\ Asked = fetch.todo[1]
    BY <2>2, EmptySeq, LenProperties DEF Asked
  <2>4. text[Asked] # "text"
    BY <2>2, <2>3 DEF InTurn
  <2> QED
    BY <1>1, <2>1, <2>4 DEF GetsText, TextInv, CacheInv
<1>2. ASSUME \/ StartRun \/ FetchStories \/ RefreshStories \/ RefreshFails
             \/ \E s \in Story : Mutate(s)
      PROVE  copies \subseteq copies' /\ amended \subseteq amended' /\ text' = text
  BY <1>2 DEF StartRun, FetchStories, RefreshStories, RefreshFails, Mutate
<1>3. ASSUME \/ Plan \/ GetFails \/ WaitOver \/ TextsEnd
             \/ \E after \in RetryAfter : RateLimited(after)
             \/ Interrupt \/ UpToDate \/ StartIndex \/ StartManual
             \/ \E b \in DOMAIN build : ReadStory(b) \/ Swap(b) \/ BuildFails(b)
             \/ \E q \in Search : Stat(q) \/ Refresh(q) \/ Lookup(q) \/ Answered(q)
             \/ ListStore \/ OpenIndex \/ LoadStories \/ UNCHANGED vars
      PROVE  copies' = copies /\ amended' = amended /\ text' = text
  <2>1. UNCHANGED cache
    BY <1>3 DEF Plan, GetFails, WaitOver, TextsEnd, RateLimited, Interrupt, UpToDate, StartIndex,
                StartManual, ReadStory, Swap, BuildFails, Stat, Refresh, Lookup, Answered,
                ListStore, OpenIndex, LoadStories, vars
  <2> QED
    BY <2>1 DEF cache
<1> QED
  BY <1>1, <1>2, <1>3 DEF Next

LEMMA WordsGrow ==
  ASSUME TextInv, [Next]_vars
  PROVE  \A s \in Story : Ever(s) \subseteq Ever(s)'
BY CacheGrows DEF Words, Ever

LEMMA WordsHeld == \A s : Words(s) \subseteq Ever(s)
BY DEF Ever, Words

LEMMA WordsSame ==
  ASSUME copies' = copies, amended' = amended, text' = text
  PROVE  \A s : Words(s)' = Words(s) /\ Ever(s)' = Ever(s)
BY DEF Words, Ever

(* A step that moves neither words nor index, and forgets no change.       *)
LEMMA NothingMoved ==
  ASSUME AllInv, UNCHANGED <<build, file, owed, copies, amended, text>>,
         fetch.changed => fetch'.changed,
         build["fetch"].pc = "read" => fetch'.pc = "index"
  PROVE  CoverInv'
<1>1. \A s \in Story : Words(s)' = Words(s) /\ Ever(s)' = Ever(s)
  BY WordsSame
<1>2. ASSUME NEW b \in Builders PROVE BuildCovers(b)'
  <2>1. build[b].pc = "read" => build[b].digest \in SUBSET Story
    BY DEF AllInv, IInv, BuildInv, IsBuild
  <2>2. BuildCovers(b)
    BY DEF AllInv, CoverInv
  <2> QED
    BY <1>1, <2>1, <2>2 DEF BuildCovers, Held, Only, Covered
<1>3. FileCovers'
  <2>1. file # None => file.digest \in SUBSET Story
    BY DEF AllInv, IInv, FileInv, IndexFile
  <2> QED
    BY <1>1, <2>1 DEF AllInv, CoverInv, FileCovers, Held, Only, Covered
<1> QED
  BY <1>2, <1>3 DEF AllInv, CoverInv

(* Words are added while a run of fetch is to build an index after it.     *)
LEMMA WordsAdded ==
  ASSUME AllInv, [Next]_vars, UNCHANGED <<build, file>>, fetch.pc # "index", fetch'.changed
  PROVE  CoverInv'
<1>1. \A s \in Story : Ever(s) \subseteq Ever(s)'
  BY WordsGrow DEF AllInv
<1>2. build["fetch"].pc # "read"
  BY DEF AllInv, CoverInv
<1>3. ASSUME NEW b \in Builders PROVE BuildCovers(b)'
  <2>1. BuildCovers(b)
    BY DEF AllInv, CoverInv
  <2> QED
    BY <1>1, <1>2, <2>1 DEF BuildCovers, Held, Only, Builders
<1>4. FileCovers'
  BY <1>1 DEF AllInv, CoverInv, FileCovers, Held, Only
<1> QED
  BY <1>2, <1>3, <1>4 DEF CoverInv

(* What Late makes of a build.                                             *)
LEMMA LateBuild ==
  ASSUME AllInv, NEW b \in Builders, NEW which
  PROVE  /\ Late(which)[b].pc = build[b].pc /\ Late(which)[b].todo = build[b].todo
         /\ Late(which)[b].digest = build[b].digest /\ Late(which)[b].words = build[b].words
         /\ Late(which)[b].late \in BOOLEAN
         /\ build[b].pc = "read" => Late(which)[b].late = (build[b].late \/ b \in which)
<1>1. /\ DOMAIN build[b] = {"pc", "todo", "digest", "words", "late"} /\ b \in DOMAIN build
      /\ build[b].late \in BOOLEAN
  BY DEF AllInv, IInv, BuildInv, IsBuild, CoverInv, BuildCovers
<1>2. Late(which)[b] =
        [build[b] EXCEPT !.late = build[b].pc # "idle" /\ (build[b].late \/ b \in which)]
  BY <1>1 DEF Late
<1> QED
  BY <1>1, <1>2

LEMMA NoBuildCovers ==
  ASSUME NEW b \in Builders, build'[b] = NoBuild
  PROVE  BuildCovers(b)'
BY DEF NoBuild, BuildCovers

(* A build that is found to be late answers for nothing but what it holds. *)
LEMMA LateCovers ==
  ASSUME AllInv, [Next]_vars, NEW b \in Builders, NEW which, b \in which,
         build'[b] = Late(which)[b]
  PROVE  BuildCovers(b)'
<1>1. \A s \in Story : Ever(s) \subseteq Ever(s)'
  BY WordsGrow DEF AllInv
<1>2. BuildCovers(b)
  BY DEF AllInv, CoverInv
<1> QED
  BY <1>1, <1>2, LateBuild DEF BuildCovers, Held, Only

(* A build that goes on while another run or build ends.                   *)
LEMMA LeftAlone ==
  ASSUME AllInv, NEW b \in Builders, NEW which, UNCHANGED <<copies, amended, text>>,
         build'[b] = Late(which)[b],
         b \in which \/ (b = "manual" /\ fetch.changed => fetch'.changed)
  PROVE  BuildCovers(b)'
<1>1. \A s \in Story : Words(s)' = Words(s) /\ Ever(s)' = Ever(s)
  BY WordsSame
<1>2. BuildCovers(b)
  BY DEF AllInv, CoverInv
<1>3. build[b].pc = "read" => build[b].digest \in SUBSET Story
  BY DEF AllInv, IInv, BuildInv, IsBuild
<1> QED
  BY <1>1, <1>2, <1>3, LateBuild DEF BuildCovers, Held, Only, Covered

LEMMA StartedCovers ==
  ASSUME TextInv, UNCHANGED <<copies, amended, text>>, NEW b \in Builders, build'[b] = Started
  PROVE  BuildCovers(b)'
<1>1. IsFiniteSet(list) /\ list \in SUBSET Story
  BY StoriesFinite DEF TextInv, CacheInv
<1>2. SetToSeq(list) \in Seq(Story) /\ ToSet(SetToSeq(list)) = list
  BY <1>1, SetToSeqList, SeqMonotonic
<1>3. /\ build'[b].pc = "read" /\ build'[b].todo = SetToSeq(list) /\ build'[b].digest = list
      /\ build'[b].words = [s \in Story |-> {}] /\ build'[b].late = FALSE
  BY DEF Started
<1>4. build'[b].late \in BOOLEAN
  BY <1>3, Zenon
<1>5. build'[b].digest \ ToSet(build'[b].todo) = {}
  BY <1>2, <1>3
<1> QED
  BY <1>2, <1>3, <1>4, <1>5 DEF BuildCovers, Held, Only, Covered

(* BuildWordIndex has read one more story, as it is cached now.            *)
LEMMA ReadCovers ==
  ASSUME AllInv, NEW b \in Builders, ReadStory(b)
  PROVE  CoverInv'
<1> DEFINE s == Head(build[b].todo)
           rest == Tail(build[b].todo)
<1>1. /\ build[b].pc = "read" /\ build[b].todo # <<>>
      /\ build' = [build EXCEPT ![b].todo = rest, ![b].words[s] = Words(s)]
      /\ UNCHANGED <<copies, amended, text, file, fetch, owed>>
  BY DEF ReadStory, cache, history
<1>2. /\ DOMAIN build = Builders /\ IsBuild(build[b]) /\ BuildCovers(b)
      /\ build[b].words \in [Story -> SUBSET Word]
      /\ build[b].digest \in SUBSET Story /\ build[b].todo \in Seq(Story)
  BY <1>1 DEF AllInv, IInv, BuildInv, IsBuild, CoverInv, BuildCovers
<1>3. /\ s \in Story /\ rest \in Seq(Story) /\ ToSet(build[b].todo) = ToSet(rest) \cup {s}
  <2> DEFINE n == Len(build[b].todo)
  <2>1. /\ n \in Nat \ {0} /\ DOMAIN build[b].todo = 1 .. n /\ s = build[b].todo[1]
        /\ s \in Story /\ rest \in Seq(Story) /\ Len(rest) = n - 1
        /\ \A i \in 1 .. n - 1 : rest[i] = build[b].todo[i + 1]
    BY <1>1, <1>2, EmptySeq, LenProperties, HeadTailProperties
  <2>2. DOMAIN rest = 1 .. n - 1
    BY <2>1, LenProperties
  <2> HIDE DEF s, rest, n
  <2>3. ASSUME NEW i \in 1 .. n, i # 1 PROVE build[b].todo[i] \in ToSet(rest)
    <3>1. i - 1 \in DOMAIN rest /\ rest[i - 1] = build[b].todo[(i - 1) + 1] /\ (i - 1) + 1 = i
      BY <2>1, <2>2, <2>3
    <3> QED
      BY <3>1 DEF ToSet
  <2>4. ASSUME NEW i \in 1 .. n - 1 PROVE rest[i] \in ToSet(build[b].todo)
    <3>1. i + 1 \in DOMAIN build[b].todo /\ rest[i] = build[b].todo[i + 1]
      BY <2>1
    <3> QED
      BY <3>1 DEF ToSet
  <2>5. s \in ToSet(build[b].todo)
    <3>1. 1 \in DOMAIN build[b].todo
      BY <2>1
    <3> QED
      BY <2>1, <3>1 DEF ToSet
  <2>6. ToSet(rest) \subseteq ToSet(build[b].todo)
    BY <2>2, <2>4 DEF ToSet
  <2>7. ToSet(build[b].todo) \subseteq ToSet(rest) \cup {s}
    BY <2>1, <2>3 DEF ToSet
  <2> QED
    BY <2>1, <2>5, <2>6, <2>7
<1>4. \A x : Words(x)' = Words(x) /\ Ever(x)' = Ever(x)
  BY <1>1, WordsSame
<1> HIDE DEF s, rest
<1>5. /\ build'[b].pc = "read" /\ build'[b].todo = rest /\ build'[b].late = build[b].late
      /\ build'[b].digest = build[b].digest
      /\ build'[b].words = [build[b].words EXCEPT ![s] = Words(s)]
      /\ \A a \in Builders \ {b} : build'[a] = build[a]
  BY <1>1, <1>2 DEF IsBuild
<1>6. BuildCovers(b)'
  <2>1. \A x \in Story : build'[b].words[x] = IF x = s THEN Words(s) ELSE build[b].words[x]
    BY <1>2, <1>5
  <2>2. Held(build[b].words) => \A x \in Story : build'[b].words[x] \subseteq Ever(x)'
    BY <1>4, <2>1, WordsHeld DEF Held
  <2>3. Covered(build[b].words, build[b].digest \ ToSet(build[b].todo)) =>
          \A x \in build'[b].digest \ ToSet(rest) : build'[b].words[x] = Words(x)'
    BY <1>2, <1>3, <1>4, <1>5, <2>1 DEF Covered
  <2> QED
    BY <1>1, <1>2, <1>3, <1>5, <2>2, <2>3 DEF BuildCovers, Held, Only, Covered
<1>7. ASSUME NEW a \in Builders, a # b PROVE BuildCovers(a)'
  <2>1. BuildCovers(a) /\ (build[a].pc = "read" => build[a].digest \in SUBSET Story)
    BY DEF AllInv, CoverInv, IInv, BuildInv, IsBuild
  <2> QED
    BY <1>1, <1>4, <1>5, <1>7, <2>1 DEF BuildCovers, Held, Only, Covered
<1>8. FileCovers'
  <2>1. file # None => file.digest \in SUBSET Story
    BY DEF AllInv, IInv, FileInv, IndexFile
  <2> QED
    BY <1>1, <1>4, <2>1 DEF AllInv, CoverInv, FileCovers, Held, Only, Covered
<1>9. build'["fetch"].pc = build["fetch"].pc
  BY <1>1, <1>5 DEF Builders
<1> QED
  BY <1>1, <1>6, <1>7, <1>8, <1>9 DEF AllInv, CoverInv

(* The finished file takes over what its build covers; a build that began  *)
(* before it is late.                                                      *)
LEMMA SwapCovers ==
  ASSUME AllInv, [Next]_vars, NEW b \in Builders, Swap(b)
  PROVE  CoverInv'
<1>1. /\ build[b].pc = "read" /\ build[b].todo = <<>>
      /\ file'.digest = build[b].digest /\ file'.words = build[b].words
      /\ build' = [Late({"fetch", "manual"}) EXCEPT ![b] = NoBuild]
      /\ owed' = build[b].late
      /\ IF b = "fetch" THEN fetch' = NoFetch ELSE fetch' = fetch
      /\ UNCHANGED <<copies, amended, text>>
  BY DEF Swap, cache
<1>2. DOMAIN Late({"fetch", "manual"}) = Builders
  BY LateKeeps DEF AllInv, IInv
<1>3. \A a \in Builders \ {b} : build'[a] = Late({"fetch", "manual"})[a]
  BY <1>1, <1>2
<1>4. BuildCovers(b)'
  BY <1>1, <1>2, NoBuildCovers
<1>5. \A a \in Builders \ {b} : BuildCovers(a)'
  BY <1>3, LateCovers DEF Builders
<1>6. \A x : Words(x)' = Words(x) /\ Ever(x)' = Ever(x)
  BY <1>1, WordsSame
<1>7. FileCovers'
  <2>1. BuildCovers(b) /\ build[b].digest \in SUBSET Story
    BY <1>1 DEF AllInv, CoverInv, IInv, BuildInv, IsBuild
  <2>2. build[b].digest \ ToSet(build[b].todo) = build[b].digest
    BY <1>1 DEF ToSet
  <2>3. /\ \A x \in Story : file'.words[x] \subseteq Ever(x)'
        /\ \A x \in Story \ file'.digest : file'.words[x] = {}
    BY <1>1, <1>6, <2>1, <2>2 DEF BuildCovers, Held, Only
  <2>4. build[b].late \/ (b = "manual" /\ fetch.changed)
          \/ \A x \in file'.digest : file'.words[x] = Words(x)'
    BY <1>1, <1>6, <2>1, <2>2 DEF BuildCovers, Covered
  <2>5. b = "manual" /\ fetch.changed => fetch'.changed
    BY <1>1
  <2> QED
    BY <1>1, <2>3, <2>4, <2>5 DEF FileCovers, Held, Only, Covered
<1>8. build'["fetch"].pc = "read" => fetch'.pc = "index"
  <2>1. CASE b = "fetch"
    BY <1>1, <1>2, <2>1 DEF NoBuild, Builders
  <2>2. CASE b = "manual"
    <3>1. build'["fetch"].pc = build["fetch"].pc
      BY <1>3, <2>2, LateBuild DEF Builders
    <3> QED
      BY <1>1, <2>2, <3>1 DEF AllInv, CoverInv
  <2> QED
    BY <2>1, <2>2 DEF Builders
<1> QED
  BY <1>4, <1>5, <1>7, <1>8 DEF CoverInv

(* A run of fetch that ends without an index leaves it owed what the run   *)
(* has changed, and a build by hand late.                                  *)
LEMMA EndCovers ==
  ASSUME AllInv, EndsOwing, UNCHANGED <<copies, amended, text, file>>,
         build' = [Late(IF fetch.changed THEN {"manual"} ELSE {}) EXCEPT !["fetch"] = NoBuild]
  PROVE  CoverInv'
<1> DEFINE which == IF fetch.changed THEN {"manual"} ELSE {}
<1>1. fetch' = NoFetch /\ owed' = (owed \/ fetch.changed)
  BY DEF EndsOwing
<1>2. DOMAIN Late(which) = Builders
  BY LateKeeps DEF AllInv, IInv
<1>3. build' = [Late(which) EXCEPT !["fetch"] = NoBuild]
  OBVIOUS
<1>4. "manual" \in which \/ ~fetch.changed
  OBVIOUS
<1> HIDE DEF which
<1>5. build'["fetch"] = NoBuild /\ build'["manual"] = Late(which)["manual"]
  BY <1>2, <1>3 DEF Builders
<1>6. BuildCovers("fetch")'
  BY <1>5, NoBuildCovers DEF Builders
<1>7. BuildCovers("manual")'
  <2>1. "manual" \in Builders
    BY DEF Builders
  <2> QED
    BY <1>4, <1>5, <2>1, LeftAlone
<1>8. FileCovers'
  <2>1. \A s : Words(s)' = Words(s) /\ Ever(s)' = Ever(s)
    BY WordsSame
  <2>2. file # None => file.digest \in SUBSET Story
    BY DEF AllInv, IInv, FileInv, IndexFile
  <2> QED
    BY <1>1, <2>1, <2>2 DEF AllInv, CoverInv, FileCovers, Held, Only, Covered
<1> QED
  BY <1>5, <1>6, <1>7, <1>8 DEF CoverInv, Builders, NoBuild

LEMMA MutateCovers ==
  ASSUME AllInv, [Next]_vars, NEW s \in Story, Mutate(s)
  PROVE  CoverInv'
<1>1. UNCHANGED <<text, fetch, file>>
  BY DEF Mutate
<1>2. CASE UNCHANGED <<copies, amended, owed, build>>
  BY <1>1, <1>2, NothingMoved DEF AllInv, CoverInv
<1>3. CASE /\ copies' = copies \cup {s}
           /\ amended' \in {amended, amended \cup ({s} \cap copies)}
           /\ owed' = (owed \/ (file # None /\ s \in file.digest))
           /\ build' = Late({"fetch", "manual"})
  <2>1. \A b \in Builders : BuildCovers(b)'
    BY <1>3, LateCovers DEF Builders
  <2>2. build'["fetch"].pc = "read" => fetch'.pc = "index"
    BY <1>1, <1>3, LateBuild DEF AllInv, CoverInv, Builders
  <2>3. \A x \in Story : x # s => Words(x)' = Words(x)
    BY <1>1, <1>3 DEF Words
  <2>4. \A x \in Story : Ever(x) \subseteq Ever(x)'
    BY WordsGrow DEF AllInv
  <2>5. file # None => file.digest \in SUBSET Story
    BY DEF AllInv, IInv, FileInv, IndexFile
  <2>6. FileCovers'
    BY <1>1, <1>3, <2>3, <2>4, <2>5 DEF AllInv, CoverInv, FileCovers, Held, Only, Covered
  <2> QED
    BY <2>1, <2>2, <2>6 DEF CoverInv
<1> QED
  BY <1>2, <1>3 DEF Mutate

(* fetch asks for texts only when it has noted that it changes something.  *)
LEMMA FetchCovers ==
  ASSUME AllInv, [Next]_vars, FetchStories \/ GetsText
  PROVE  CoverInv'
<1>1. CASE FetchStories
  <2>1. /\ UNCHANGED <<build, file, amended, text, owed>>
        /\ fetch.pc = "stories" /\ fetch' = [fetch EXCEPT !.pc = "plan"]
    BY <1>1 DEF FetchStories, history
  <2>2. fetch'.pc = "plan" /\ fetch'.changed = fetch.changed
    BY <2>1 DEF AllInv, TextInv, FetchType, FetchFields
  <2>3. CASE fetch.changed
    BY <2>1, <2>2, <2>3, WordsAdded
  <2>4. CASE ~fetch.changed
    <3>1. fetch.hashes \subseteq copies
      BY <2>1, <2>4 DEF AllInv, TextInv, TodoInv
    <3>2. copies' = copies
      BY <1>1, <3>1 DEF FetchStories
    <3> QED
      BY <2>1, <2>2, <3>2, NothingMoved DEF AllInv, CoverInv
  <2> QED
    BY <2>3, <2>4
<1>2. CASE GetsText
  <2>1. /\ UNCHANGED <<build, file>> /\ fetch.pc = "texts" /\ fetch.todo # <<>>
        /\ fetch' = [fetch EXCEPT !.todo = Tail(@)]
    BY <1>2 DEF GetsText, Answer, NextItem
  <2>2. fetch.changed /\ fetch'.changed = fetch.changed
    BY <2>1 DEF AllInv, TextInv, TodoInv, FetchType, FetchFields
  <2> QED
    BY <2>1, <2>2, WordsAdded
<1> QED
  BY <1>1, <1>2

(* A refresh is to be followed by an index, or leaves one owed.            *)
LEMMA RefreshCovers ==
  ASSUME AllInv, [Next]_vars, RefreshStories \/ RefreshFails
  PROVE  CoverInv'
<1>1. CASE RefreshStories
  <2>1. UNCHANGED <<build, file>> /\ fetch.pc = "texts" /\ fetch'.changed
    BY <1>1 DEF RefreshStories, RefreshEnds, AllInv, TextInv, FetchType, FetchFields
  <2> QED
    BY <2>1, WordsAdded
<1>2. CASE RefreshFails
  <2>1. PICK again \in SUBSET Story : \E edited \in SUBSET (again \cap copies) :
          /\ copies' = copies \cup again /\ amended' = amended \cup edited
          /\ owed' = (owed \/ (file # None /\ again \cap file.digest # {}))
    BY <1>2 DEF RefreshFails
  <2>2. /\ UNCHANGED <<text, file>> /\ build' = Late({"fetch", "manual"})
        /\ fetch.pc = "texts" /\ fetch'.changed = fetch.changed
    BY <1>2 DEF RefreshFails, RefreshEnds, AllInv, TextInv, FetchType, FetchFields
  <2>3. \A b \in Builders : BuildCovers(b)'
    BY <2>2, LateCovers DEF Builders
  <2>4. build'["fetch"].pc # "read"
    BY <2>2, LateBuild DEF AllInv, CoverInv, Builders
  <2>5. \A x \in Story \ again : Words(x)' = Words(x)
    BY <2>1, <2>2 DEF Words
  <2>6. \A x \in Story : Ever(x) \subseteq Ever(x)'
    BY WordsGrow DEF AllInv
  <2>7. file # None => file.digest \in SUBSET Story
    BY DEF AllInv, IInv, FileInv, IndexFile
  <2>8. FileCovers'
    BY <2>1, <2>2, <2>5, <2>6, <2>7 DEF AllInv, CoverInv, FileCovers, Held, Only, Covered
  <2> QED
    BY <2>3, <2>4, <2>8 DEF CoverInv
<1> QED
  BY <1>1, <1>2

LEMMA CoverStep == AllInv /\ [Next]_vars => CoverInv'
<1> SUFFICES ASSUME AllInv, [Next]_vars PROVE CoverInv'
  OBVIOUS
<1>1. ASSUME \/ StartRun \/ Plan \/ GetFails \/ WaitOver \/ TextsEnd
             \/ \E after \in RetryAfter : RateLimited(after)
      PROVE  CoverInv'
  <2>1. UNCHANGED <<build, file, owed, copies, amended, text>>
    BY <1>1 DEF StartRun, Plan, GetFails, WaitOver, TextsEnd, RateLimited, cache, history
  <2>2. fetch.pc # "index"
    BY <1>1 DEF StartRun, Plan, GetFails, WaitOver, TextsEnd, RefreshEnds, RateLimited
  <2>3. fetch.changed => fetch'.changed
    <3>1. CASE StartRun
      BY <3>1 DEF StartRun, AllInv, TextInv, FetchType
    <3>2. ASSUME Plan, fetch.changed PROVE fetch'.changed
      <4>1. PICK todo : fetch' = [fetch EXCEPT !.pc = "texts", !.todo = todo,
                                               !.changed = @ \/ todo # <<>>]
        BY <3>2 DEF Plan
      <4> QED
        BY <3>2, <4>1 DEF AllInv, TextInv, FetchType, FetchFields
    <3>3. GetFails => fetch'.changed = fetch.changed
      BY DEF GetFails, NextItem, AllInv, TextInv, FetchType, FetchFields
    <3>4. WaitOver \/ TextsEnd => fetch'.changed = fetch.changed
      BY DEF WaitOver, TextsEnd, RefreshEnds, AllInv, TextInv, FetchType, FetchFields
    <3>5. ASSUME NEW after \in RetryAfter, RateLimited(after) PROVE fetch'.changed = fetch.changed
      BY <3>5 DEF RateLimited, AllInv, TextInv, FetchType, FetchFields
    <3> QED
      BY <1>1, <3>1, <3>2, <3>3, <3>4, <3>5
  <2> QED
    BY <2>1, <2>2, <2>3, NothingMoved DEF AllInv, CoverInv
<1>2. ASSUME UpToDate PROVE CoverInv'
  <2>1. /\ UNCHANGED <<build, file, owed, copies, amended, text>>
        /\ ~fetch.changed /\ build["fetch"].pc = "idle"
    BY <1>2 DEF UpToDate, Current, cache
  <2> QED
    BY <2>1, NothingMoved
<1>3. ASSUME \/ \E q \in Search : Stat(q) \/ Refresh(q) \/ Lookup(q) \/ Answered(q)
             \/ ListStore \/ OpenIndex \/ LoadStories \/ UNCHANGED vars
      PROVE  CoverInv'
  <2>1. UNCHANGED <<build, file, owed, copies, amended, text, fetch>>
    BY <1>3 DEF Stat, Refresh, Lookup, Answered, ListStore, OpenIndex, LoadStories, vars,
                cache, history
  <2> QED
    BY <2>1, NothingMoved DEF AllInv, CoverInv
<1>4. ASSUME StartIndex \/ StartManual PROVE CoverInv'
  <2>1. PICK b \in Builders :
          /\ build' = [build EXCEPT ![b] = Started]
          /\ b = "fetch" => fetch.pc = "index"
          /\ UNCHANGED <<copies, amended, text, file, fetch, owed>>
    BY <1>4 DEF StartIndex, StartManual, Builders, cache, history
  <2>2. /\ build'[b] = Started
        /\ \A a \in Builders \ {b} : build'[a] = build[a]
    BY <2>1 DEF AllInv, IInv, BuildInv
  <2>3. BuildCovers(b)'
    BY <2>1, <2>2, StartedCovers DEF AllInv
  <2>4. \A x : Words(x)' = Words(x) /\ Ever(x)' = Ever(x)
    BY <2>1, WordsSame
  <2>5. ASSUME NEW a \in Builders, a # b PROVE BuildCovers(a)'
    <3>1. BuildCovers(a) /\ (build[a].pc = "read" => build[a].digest \in SUBSET Story)
      BY DEF AllInv, CoverInv, IInv, BuildInv, IsBuild
    <3> QED
      BY <2>1, <2>2, <2>4, <2>5, <3>1 DEF BuildCovers, Held, Only, Covered
  <2>6. FileCovers'
    <3>1. file # None => file.digest \in SUBSET Story
      BY DEF AllInv, IInv, FileInv, IndexFile
    <3> QED
      BY <2>1, <2>4, <3>1 DEF AllInv, CoverInv, FileCovers, Held, Only, Covered
  <2>7. build'["fetch"].pc = "read" => fetch'.pc = "index"
    BY <2>1, <2>2 DEF AllInv, CoverInv, Builders
  <2> QED
    BY <2>3, <2>5, <2>6, <2>7 DEF CoverInv
<1>5. ASSUME Interrupt PROVE CoverInv'
  BY <1>5, EndCovers DEF Interrupt, cache
<1>6. ASSUME NEW b \in Builders, BuildFails(b) PROVE CoverInv'
  <2>1. CASE b = "fetch"
    <3>1. build' = [Late(IF fetch.changed THEN {"manual"} ELSE {}) EXCEPT !["fetch"] = NoBuild]
      BY <1>6, <2>1 DEF BuildFails
    <3>2. EndsOwing /\ UNCHANGED <<copies, amended, text, file>>
      BY <1>6, <2>1 DEF BuildFails, cache
    <3> QED
      BY <3>1, <3>2, EndCovers
  <2>2. CASE b = "manual"
    <3>1. /\ build' = [Late({}) EXCEPT !["manual"] = NoBuild]
          /\ UNCHANGED <<copies, amended, text, file, fetch, owed>>
      BY <1>6, <2>2 DEF BuildFails, cache
    <3>2. DOMAIN Late({}) = Builders
      BY LateKeeps DEF AllInv, IInv
    <3>3. build'["manual"] = NoBuild /\ build'["fetch"] = Late({})["fetch"]
      BY <3>1, <3>2 DEF Builders
    <3>4. BuildCovers("manual")' /\ BuildCovers("fetch")'
      <4>1. "manual" \in Builders /\ "fetch" \in Builders
        BY DEF Builders
      <4> QED
        BY <3>1, <3>3, <4>1, NoBuildCovers, LeftAlone
    <3>5. build'["fetch"].pc = build["fetch"].pc
      BY <3>3, LateBuild DEF Builders
    <3>6. \A x : Words(x)' = Words(x) /\ Ever(x)' = Ever(x)
      BY <3>1, WordsSame
    <3>7. FileCovers'
      <4>1. file # None => file.digest \in SUBSET Story
        BY DEF AllInv, IInv, FileInv, IndexFile
      <4> QED
        BY <3>1, <3>6, <4>1 DEF AllInv, CoverInv, FileCovers, Held, Only, Covered
    <3> QED
      BY <3>1, <3>4, <3>5, <3>7 DEF AllInv, CoverInv, Builders
  <2> QED
    BY <2>1, <2>2 DEF Builders
<1>7. DOMAIN build = Builders
  BY DEF AllInv, IInv, BuildInv
<1> QED
  BY <1>1, <1>2, <1>3, <1>4, <1>5, <1>6, <1>7, FetchCovers, RefreshCovers, MutateCovers,
     ReadCovers, SwapCovers
  DEF Next

LEMMA AllInvariant == Spec => []AllInv
<1>1. Init => AllInv
  BY InitHolds, TextInit, CoverInit DEF AllInv
<1>2. AllInv /\ [Next]_vars => AllInv'
  BY NextKeeps, TextStep, CoverStep DEF AllInv
<1> QED
  BY <1>1, <1>2, PTL DEF Spec

(* WordIndexCurrent judges by the set of stories alone, and is right to,   *)
(* but for what "owed" records: at rest, an index of the starred stories   *)
(* has all the words of their copies and texts.                            *)
THEOREM IndexCovers == Spec => []IndexCoversTexts
<1>1. AllInv => IndexCoversTexts
  <2> SUFFICES ASSUME AllInv, fetch.pc = "idle", ~owed, file # None, file.digest = list
               PROVE  \A s \in list : file.words[s] = Words(s)
    BY DEF IndexCoversTexts
  <2> QED
    BY DEF AllInv, TextInv, FetchType, CoverInv, FileCovers, Covered
<1> QED
  BY <1>1, AllInvariant, PTL

-----------------------------------------------------------------------------
(* The serving process.  While nothing is fetched, built or mutated, what  *)
(* a search has looked at is the file, and what a snapshot holds is cached.*)

Usable(index) == index = None \/ (index \in IndexFile /\ Held(index.words))
Known(index)  == index = None \/ index = file

Quiet == fetch.pc = "idle" /\ \A b \in Builders : build[b].pc = "idle"

CalmInv == calm \subseteq Search \cup {"store"} /\ (calm # {} => Quiet)

ReaderInv(q) ==
  /\ Usable(search[q].index)
  /\ search[q].pc = "found" => search[q].index # None
  /\ q \in calm =>
       /\ search[q].pc = "stat" => file # None /\ search[q].stamp = file.stamp
       /\ search[q].pc = "lookup" => Known(holder.index)
       /\ search[q].pc = "found" => search[q].index = file

OpenInv ==
  /\ Usable(holder.index)
  /\ holder.index = None => holder.stamp = None

StoreInv ==
  /\ DOMAIN store = {"pc", "list", "index", "words"}
  /\ store.pc \in {"none", "listed", "opened", "ready"}
  /\ Usable(store.index)
  /\ store.pc \in {"none", "listed"} => store.index = None
  /\ store.pc = "ready" =>
       /\ DOMAIN store.words \subseteq copies
       /\ store.index = None => \A s \in DOMAIN store.words : store.words[s] \subseteq Ever(s)
  /\ "store" \in calm =>
       /\ store.pc # "none" => store.list = list
       /\ Known(store.index)
       /\ store.pc = "ready" =>
            /\ DOMAIN store.words = list \cap copies
            /\ store.index = None => \A s \in DOMAIN store.words : store.words[s] = Words(s)

ServeInv == CalmInv /\ OpenInv /\ StoreInv /\ \A q \in Search : ReaderInv(q)

LEMMA ServeInit == Init => ServeInv
<1> SUFFICES ASSUME Init PROVE ServeInv
  OBVIOUS
<1>1. /\ holder.index = None /\ holder.stamp = None /\ calm = {}
      /\ \A q \in Search : search[q].index = None /\ search[q].pc = "idle"
      /\ store.pc = "none" /\ store.index = None /\ DOMAIN store = {"pc", "list", "index", "words"}
  BY DEF Init, NoSearch, NoStore
<1> QED
  BY <1>1 DEF ServeInv, CalmInv, OpenInv, StoreInv, ReaderInv, Usable, Known

LEMMA FileUsable == ASSUME AllInv PROVE Usable(file)
BY DEF AllInv, IInv, FileInv, CoverInv, FileCovers, Usable

(* The steps of others: they end every calm.                               *)
LEMMA OthersServe ==
  ASSUME AllInv, ServeInv, [Next]_vars, UNCHANGED serving, calm' = {}
  PROVE  ServeInv'
<1>1. \A s \in Story : Ever(s) \subseteq Ever(s)'
  BY WordsGrow DEF AllInv
<1>2. OpenInv'
  BY <1>1 DEF serving, ServeInv, OpenInv, Usable, Held
<1>3. \A q \in Search : ReaderInv(q)'
  BY <1>1 DEF serving, ServeInv, ReaderInv, Usable, Held
<1>4. StoreInv'
  <2>1. copies \subseteq copies' /\ copies \in SUBSET Story
    BY CacheGrows DEF AllInv, TextInv, CacheInv
  <2>2. UNCHANGED store
    BY DEF serving
  <2> QED
    BY <1>1, <2>1, <2>2 DEF ServeInv, StoreInv, Usable, Held
<1> QED
  BY <1>2, <1>3, <1>4 DEF ServeInv, CalmInv

LEMMA CalmEnds ==
  ASSUME AllInv, ServeInv,
         \/ StartRun \/ FetchStories \/ Plan \/ GetsText \/ GetFails \/ WaitOver
         \/ TextsEnd \/ RefreshStories \/ RefreshFails
         \/ \E after \in RetryAfter : RateLimited(after)
         \/ Interrupt \/ UpToDate \/ StartIndex \/ StartManual
         \/ \E b \in DOMAIN build : ReadStory(b) \/ Swap(b) \/ BuildFails(b)
         \/ \E s \in Story : Mutate(s)
  PROVE  UNCHANGED serving /\ calm' = {}
<1>1. UNCHANGED serving
  BY DEF StartRun, FetchStories, Plan, GetsText, GetFails, WaitOver, TextsEnd, RefreshStories,
         RefreshFails, RateLimited, Interrupt, UpToDate, StartIndex, StartManual, ReadStory, Swap, BuildFails, Mutate
<1>2. StartRun \/ StartManual \/ (\E s \in Story : Mutate(s)) => calm' = {}
  BY DEF StartRun, StartManual, Mutate
<1>3. DOMAIN build = Builders
  BY DEF AllInv, IInv, BuildInv
<1>4. ~Quiet /\ calm' = calm => calm' = {}
  BY DEF ServeInv, CalmInv
<1>5. ASSUME FetchStories \/ Plan \/ GetsText \/ GetFails \/ WaitOver
             \/ TextsEnd \/ RefreshStories \/ RefreshFails
             \/ (\E after \in RetryAfter : RateLimited(after))
             \/ Interrupt \/ UpToDate \/ StartIndex
      PROVE  ~Quiet /\ calm' = calm
  BY <1>5 DEF FetchStories, Plan, GetsText, GetFails, WaitOver, TextsEnd, RefreshStories,
              RefreshFails, RefreshEnds, RateLimited, Interrupt, UpToDate, StartIndex, Quiet,
              history
<1>6. ASSUME NEW b \in DOMAIN build, ReadStory(b) \/ Swap(b) \/ BuildFails(b)
      PROVE  ~Quiet /\ calm' = calm
  BY <1>3, <1>6 DEF ReadStory, Swap, BuildFails, Quiet, history
<1> QED
  BY <1>1, <1>2, <1>4, <1>5, <1>6

(* The steps of the serving process.                                       *)
LEMMA SearchServes ==
  ASSUME AllInv, ServeInv, NEW q \in Search, Stat(q) \/ Refresh(q) \/ Lookup(q) \/ Answered(q)
  PROVE  ServeInv'
<1>1. UNCHANGED <<cache, fetch, build, file, store, owed>>
  BY DEF Stat, Refresh, Lookup, Answered, history
<1>2. \A s : Words(s)' = Words(s) /\ Ever(s)' = Ever(s)
  BY <1>1, WordsSame DEF cache
<1>3. DOMAIN build = Builders /\ q \in DOMAIN search /\ DOMAIN search = Search
      /\ DOMAIN search[q] = {"pc", "stamp", "index"}
  BY DEF AllInv, IInv, BuildInv, SearchInv
<1>4. /\ \A r \in Search \ {q} : search'[r] = search[r]
      /\ \/ calm' = calm \/ (calm' = calm \cup {q} /\ Quiet) \/ calm' = calm \ {q}
  <2>1. /\ \E entry : search' = [search EXCEPT ![q] = entry]
        /\ calm' = calm \/ Watched(q)
    <3>1. Lookup(q) => \E entry : search' = [search EXCEPT ![q] = entry]
      BY <1>3 DEF Lookup, Ended
    <3>2. Stat(q) \/ Refresh(q) \/ Answered(q) => \E entry : search' = [search EXCEPT ![q] = entry]
      BY DEF Stat, Refresh, Answered, Ended
    <3>3. calm' = calm \/ Watched(q)
      BY DEF Stat, Refresh, Lookup, Answered, history
    <3> QED
      BY <3>1, <3>2, <3>3
  <2> QED
    BY <1>3, <2>1 DEF Watched, Quiet
<1>5. CalmInv'
  BY <1>1, <1>4 DEF ServeInv, CalmInv, Quiet
<1>6. StoreInv'
  <2>1. "store" \in calm' => "store" \in calm
    BY <1>4, SearchAssumption
  <2> QED
    BY <1>1, <1>2, <2>1 DEF ServeInv, StoreInv, Usable, Held, Known, cache
<1>7. Usable(file)
  BY FileUsable
<1>8. \/ holder' = holder
      \/ holder' = Closed
      \/ holder'.index = file /\ file # None
  <2>1. Stat(q) \/ Lookup(q) \/ Answered(q) => holder' = holder
    BY DEF Stat, Lookup, Answered
  <2>2. ASSUME Refresh(q) PROVE holder' = holder \/ holder' = Closed \/ holder' = Opened(q)
    BY <2>2 DEF Refresh
  <2>3. Refresh(q) => file # None
    BY DEF Refresh, AllInv, IInv, SearchInv, Past
  <2> QED
    BY <2>1, <2>2, <2>3 DEF Opened
<1>9. Known(holder.index) => holder'.index = None \/ holder'.index = file
  BY <1>8 DEF Closed, Known
<1>10. OpenInv'
  BY <1>2, <1>7, <1>8 DEF Closed, OpenInv, ServeInv, Usable, Held
<1>11. ASSUME NEW r \in Search, r # q PROVE ReaderInv(r)'
  <2>1. search'[r] = search[r] /\ (r \in calm' => r \in calm)
    BY <1>4, <1>11
  <2> QED
    BY <1>1, <1>2, <1>9, <2>1 DEF ServeInv, ReaderInv, Usable, Held, Known
<1>12. ReaderInv(q)'
  <2>1. CASE Stat(q)
    <3>1. search'[q].pc = "stat" /\ search'[q].stamp = file.stamp /\ search'[q].index = None
          /\ file # None
      BY <1>3, <2>1 DEF Stat, NoSearch
    <3> QED
      BY <1>1, <3>1 DEF ReaderInv, Usable
  <2>2. CASE Refresh(q)
    <3>1. /\ calm' = calm /\ search'[q].index = None
          /\ \/ search'[q].pc = "lookup" /\ (\/ holder' = Opened(q)
                                             \/ /\ holder' = holder
                                                /\ holder.index # None
                                                /\ holder.stamp = search[q].stamp)
             \/ search'[q].pc = "idle"
          /\ search[q].pc = "stat"
      BY <1>3, <2>2 DEF Refresh, Ended, NoSearch, history
    <3>2. q \in calm => search[q].stamp = file.stamp
      BY <3>1 DEF ServeInv, ReaderInv
    <3>3. q \in calm /\ search'[q].pc = "lookup" => holder'.index = file
      BY <3>1, <3>2 DEF AllInv, IInv, HolderInv, Opened
    <3> QED
      BY <1>1, <3>1, <3>3 DEF ReaderInv, Usable, Known
  <2>3. CASE Lookup(q)
    <3>1. CASE holder.index = None
      BY <1>3, <2>3, <3>1 DEF Lookup, Ended, NoSearch, ReaderInv, Usable
    <3>2. CASE holder.index # None
      <4>1. /\ search' = [search EXCEPT ![q].pc = "found", ![q].index = holder.index]
            /\ calm' = calm /\ search[q].pc = "lookup" /\ holder' = holder
        BY <2>3, <3>2 DEF Lookup, history
      <4>2. search'[q].pc = "found" /\ search'[q].index = holder.index
        BY <1>3, <4>1
      <4>3. q \in calm => holder.index = file
        BY <3>2, <4>1 DEF ServeInv, ReaderInv, Known
      <4> QED
        BY <1>1, <1>10, <3>2, <4>1, <4>2, <4>3 DEF ReaderInv, OpenInv
    <3> QED
      BY <3>1, <3>2
  <2>4. CASE Answered(q)
    BY <1>3, <2>4 DEF Answered, Ended, NoSearch, ReaderInv, Usable
  <2> QED
    BY <2>1, <2>2, <2>3, <2>4
<1> QED
  BY <1>5, <1>6, <1>10, <1>11, <1>12 DEF ServeInv

LEMMA StoreServes ==
  ASSUME AllInv, ServeInv, ListStore \/ OpenIndex \/ LoadStories
  PROVE  ServeInv'
<1>1. UNCHANGED <<cache, fetch, build, file, holder, search, owed>>
  BY DEF ListStore, OpenIndex, LoadStories, history
<1>2. \A s : Words(s)' = Words(s) /\ Ever(s)' = Ever(s)
  BY <1>1, WordsSame DEF cache
<1>3. DOMAIN build = Builders
  BY DEF AllInv, IInv, BuildInv
<1>4. \/ calm' = calm /\ ~ListStore
      \/ calm' = calm \cup {"store"} /\ Quiet
      \/ calm' = calm \ {"store"}
  BY <1>3 DEF ListStore, OpenIndex, LoadStories, Watched, Quiet, history
<1>5. CalmInv'
  BY <1>1, <1>4 DEF ServeInv, CalmInv, Quiet
<1>6. OpenInv'
  BY <1>1, <1>2 DEF ServeInv, OpenInv, Usable, Held
<1>7. ASSUME NEW q \in Search PROVE ReaderInv(q)'
  <2>1. q \in calm' => q \in calm
    BY <1>4, SearchAssumption
  <2> QED
    BY <1>1, <1>2, <2>1 DEF ServeInv, ReaderInv, Usable, Held, Known
<1>8. StoreInv'
  <2>1. CASE ListStore
    <3>1. /\ store'.pc = "listed" /\ store'.list = list /\ store'.index = None
          /\ DOMAIN store' = {"pc", "list", "index", "words"}
      BY <2>1 DEF ListStore, NoStore
    <3> QED
      BY <1>1, <3>1 DEF StoreInv, Usable, Known, cache
  <2>2. CASE OpenIndex
    <3>1. /\ store'.pc = "opened" /\ store'.list = store.list
          /\ store'.index = file \/ store'.index = None
          /\ DOMAIN store' = {"pc", "list", "index", "words"}
          /\ store.pc = "listed" /\ calm' = calm
      BY <2>2 DEF OpenIndex, ServeInv, StoreInv, history
    <3>2. Usable(file)
      BY FileUsable
    <3> QED
      BY <1>1, <1>2, <3>1, <3>2 DEF ServeInv, StoreInv, Usable, Held, Known, cache
  <2>3. CASE LoadStories
    <3>1. /\ store'.pc = "ready" /\ store'.list = store.list /\ store'.index = store.index
          /\ store'.words = [s \in store.list \cap copies |->
                               IF store.index = None THEN Words(s) ELSE {}]
          /\ DOMAIN store' = {"pc", "list", "index", "words"}
          /\ store.pc = "opened" /\ calm' = calm
      BY <2>3 DEF LoadStories, ServeInv, StoreInv, history
    <3> QED
      BY <1>1, <1>2, <3>1, WordsHeld DEF ServeInv, StoreInv, Usable, Held, Known, cache
  <2> QED
    BY <2>1, <2>2, <2>3
<1> QED
  BY <1>5, <1>6, <1>7, <1>8 DEF ServeInv

LEMMA ServeStep == AllInv /\ ServeInv /\ [Next]_vars => ServeInv'
<1> SUFFICES ASSUME AllInv, ServeInv, [Next]_vars PROVE ServeInv'
  OBVIOUS
<1>1. ASSUME UNCHANGED vars PROVE ServeInv'
  BY <1>1 DEF vars, cache, serving, history, ServeInv, CalmInv, OpenInv, StoreInv, ReaderInv,
              Usable, Held, Known, Quiet, Words, Ever
<1>2. ASSUME \/ StartRun \/ FetchStories \/ Plan \/ GetsText \/ GetFails \/ WaitOver
             \/ TextsEnd \/ RefreshStories \/ RefreshFails
             \/ \E after \in RetryAfter : RateLimited(after)
             \/ Interrupt \/ UpToDate \/ StartIndex \/ StartManual
             \/ \E b \in DOMAIN build : ReadStory(b) \/ Swap(b) \/ BuildFails(b)
             \/ \E s \in Story : Mutate(s)
      PROVE  ServeInv'
  <2>1. UNCHANGED serving /\ calm' = {}
    BY <1>2, CalmEnds
  <2> QED
    BY <2>1, OthersServe
<1> QED
  BY <1>1, <1>2, SearchServes, StoreServes DEF Next

LEMMA ServeInvariant == Spec => [](AllInv /\ ServeInv)
<1>1. Init => AllInv /\ ServeInv
  BY InitHolds, TextInit, CoverInit, ServeInit DEF AllInv
<1>2. AllInv /\ ServeInv /\ [Next]_vars => AllInv' /\ ServeInv'
  BY NextKeeps, TextStep, CoverStep, ServeStep DEF AllInv
<1> QED
  BY <1>1, <1>2, PTL DEF Spec

(* The variables of TextIndex keep their types.                            *)
THEOREM TypeCorrect == Spec => []TypeOK
<1>1. AllInv /\ ServeInv => TypeOK
  <2> SUFFICES ASSUME AllInv, ServeInv PROVE TypeOK
    OBVIOUS
  <2>1. /\ list \subseteq Story /\ copies \subseteq Story /\ amended \subseteq copies
        /\ text \in [Story -> {"missing", "failed", "text"}]
        /\ ToSet(failed) = {s \in Story : text[s] = "failed"}
    BY DEF AllInv, TextInv, CacheInv
  <2>2. Len(failed) = Cardinality(ToSet(failed))
    BY DistinctLength DEF AllInv, TextInv, CacheInv
  <2>3. /\ fetch.pc \in {"idle", "stories", "plan", "texts", "wait", "index"}
        /\ build["fetch"].pc = "read" => fetch.pc = "index"
        /\ holder.index = None => holder.stamp = None
    BY DEF AllInv, TextInv, FetchType, CoverInv, ServeInv, OpenInv
  <2> QED
    BY <2>1, <2>2, <2>3 DEF TypeOK
<1> QED
  BY <1>1, ServeInvariant, PTL

(* What SearchWords answers is true, and all there is if it says so and    *)
(* nothing moved while it was made.                                        *)
THEOREM AnswersAreTrue == Spec => SearchAnswers
<1>1. ASSUME AllInv, ServeInv, NEW q \in Search, NEW word \in Word, search[q].pc = "found"
      PROVE  /\ Hits(q, word) \subseteq EverHolders(word)
             /\ q \in calm /\ ~owed => Hits(q, word) \subseteq Holders(word)
             /\ q \in calm /\ ~owed /\ Complete(q) => Hits(q, word) = Holders(word)
  <2>1. list \in SUBSET Story
    BY <1>1 DEF AllInv, TextInv, CacheInv
  <2>2. search[q].index # None /\ \A s \in Story : search[q].index.words[s] \subseteq Ever(s)
    BY <1>1 DEF ServeInv, ReaderInv, Usable, Held
  <2>3. ASSUME q \in calm, ~owed
        PROVE  /\ \A s \in search[q].index.digest : search[q].index.words[s] = Words(s)
               /\ \A s \in Story \ search[q].index.digest : search[q].index.words[s] = {}
    <3>1. search[q].index = file /\ file # None
      BY <1>1, <2>2, <2>3 DEF ServeInv, ReaderInv
    <3>2. ~fetch.changed
      BY <1>1, <2>3 DEF ServeInv, CalmInv, Quiet, AllInv, TextInv, FetchType
    <3> QED
      BY <1>1, <2>3, <3>1, <3>2 DEF AllInv, CoverInv, FileCovers, Only, Covered
  <2> QED
    BY <2>1, <2>2, <2>3 DEF Hits, Holders, EverHolders, Complete
<1>2. AllInv /\ ServeInv =>
        [\A q \in Search, word \in Word :
           search[q].pc = "found" /\ search'[q].pc = "idle" =>
             /\ Hits(q, word) \subseteq EverHolders(word)
             /\ q \in calm /\ ~owed => Hits(q, word) \subseteq Holders(word)
             /\ q \in calm /\ ~owed /\ Complete(q) => Hits(q, word) = Holders(word)]_vars
  BY <1>1
<1> QED
  BY <1>2, ServeInvariant, PTL DEF SearchAnswers

(* A story_query finds only what holds the word, and misses nothing that   *)
(* its note (openWordIndex, word_index.go) does not name.                  *)
THEOREM NotesTellAll == Spec => []NoteTellsAll
<1>1. AllInv /\ ServeInv => NoteTellsAll
  <2> SUFFICES ASSUME AllInv, ServeInv, store.pc = "ready", NEW word \in Word
               PROVE  /\ Candidates(word) \cap list \subseteq EverHolders(word)
                      /\ "store" \in calm /\ ~owed =>
                           IF Noted
                           THEN Candidates(word) = Holders(word) \cap store.index.digest
                           ELSE Candidates(word) = Holders(word)
    BY DEF NoteTellsAll
  <2>1. list \in SUBSET Story /\ copies \in SUBSET Story
    BY DEF AllInv, TextInv, CacheInv
  <2>2. /\ DOMAIN store.words \subseteq copies
        /\ store.index = None => \A s \in DOMAIN store.words : store.words[s] \subseteq Ever(s)
        /\ store.index # None => \A s \in Story : store.index.words[s] \subseteq Ever(s)
    BY DEF ServeInv, StoreInv, Usable, Held
  <2>3. \A s \in Candidates(word) : s \in copies /\ word \in Ever(s)
    BY <2>1, <2>2 DEF Candidates
  <2>4. ASSUME "store" \in calm, ~owed
        PROVE  /\ DOMAIN store.words = list \cap copies /\ store.list = list
               /\ store.index = None => \A s \in list \cap copies : store.words[s] = Words(s)
               /\ store.index # None =>
                    /\ \A s \in store.index.digest : store.index.words[s] = Words(s)
                    /\ \A s \in Story \ store.index.digest : store.index.words[s] = {}
    <3>1. /\ DOMAIN store.words = list \cap copies /\ store.list = list
          /\ store.index = None => \A s \in list \cap copies : store.words[s] = Words(s)
          /\ store.index = None \/ store.index = file
      BY <2>4 DEF ServeInv, StoreInv, Known
    <3>2. ~fetch.changed
      BY <2>4 DEF ServeInv, CalmInv, Quiet, AllInv, TextInv, FetchType
    <3> QED
      BY <2>4, <3>1, <3>2 DEF AllInv, CoverInv, FileCovers, Only, Covered
  <2>5. ASSUME "store" \in calm, ~owed, Noted
        PROVE  Candidates(word) = Holders(word) \cap store.index.digest
    BY <2>1, <2>4, <2>5 DEF Noted, Candidates, Holders
  <2>6. ASSUME "store" \in calm, ~owed, ~Noted
        PROVE  Candidates(word) = Holders(word)
    BY <2>1, <2>4, <2>6 DEF Noted, Candidates, Holders
  <2> QED
    BY <2>3, <2>5, <2>6 DEF EverHolders
<1> QED
  BY <1>1, ServeInvariant, PTL
=============================================================================
