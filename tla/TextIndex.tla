------------------------------- MODULE TextIndex -------------------------------
(***************************************************************************)
(* The original texts and the word index: the phases of `nebulous fetch`   *)
(* that ask NewsBlur for texts and build the index (cmd/nebulous/main.go,  *)
(* original_text.go, index.go), `nebulous index`, the index file           *)
(* (internal/alfa/wordindex, internal/bravo/tools/word_index.go), and the  *)
(* searches of a serving process that reopens it (word_search.go).         *)
(*                                                                         *)
(* A story holds up to two words: one of its copy, which another replaces  *)
(* when the story has been edited and is downloaded again, and one of its  *)
(* text.                                                                   *)
(***************************************************************************)
EXTENDS Integers, Sublists, SequencesExt

CONSTANTS
  Story,       \* story hashes
  Search,      \* concurrent searches of the serving process
  MaxRetries,  \* maxOriginalTextRetriesPerRun
  Budget,      \* bounds of a behaviour: how many runs of fetch, refreshes that
               \*   download something, builds by `nebulous index`, changes by
               \*   mutations, searches, builds of story_query's snapshot,
               \*   faults and limits (answers that are rate limited) it may have
  RetryAfter,  \* what such an answer asks for, in seconds
  None         \* an absent value

ASSUME StoryAssumption == IsFiniteSet(Story)
ASSUME SearchAssumption == "store" \notin Search
ASSUME RetriesAssumption == MaxRetries \in Nat
ASSUME RetryAfterAssumption == RetryAfter \subseteq Nat

Word == {"title", "retitled", "text"}

(* What a finished index file holds, by the name of its modification time. *)
IndexFile == [digest : SUBSET Story, words : [Story -> SUBSET Word], stamp : Nat]

ASSUME NoneAssumption == None \notin IndexFile

VARIABLES
  list,    \* the cached list of starred hashes
  copies,  \* the stories that are cached
  amended, \*   and those among them that are cached as they were edited
  text,    \* what is cached of a story's text: "missing", "failed", "text"
  failed,  \* the failed answers, oldest first (WrittenAt)
  fetch,   \* a run of fetch: [pc, hashes, todo, changed, wait, asked]
  backoff, \* its adaptiveBackoff: [base, extra, peak]
  build,   \* the index under way, of "fetch" and of "manual"
  file,    \* the index file: [digest, words, stamp], or None
  holder,  \* wordIndexHolder: [index, stamp]
  search,  \* searches: [pc, stamp, index], each for any word
  store,   \* the snapshot that story_query answers from, or how far its build
           \*   has come: [pc, list, index, words], words only without an index
  left,    \* what is left of the budget
  \* History variables: no action reads them.
  owed,    \* the file may be older than what is cached, and fetch not know it
  ahead,   \* the failed answers that were there before a story's, not tried since, and
           \*   of stories that have been starred since then
  cleared, \* the longest wait of the last burst that cleared, in this run
  calm     \* searches, and "store", since whose first look at the files nothing
           \*   changed, nor was being changed

cache   == <<list, copies, amended, text, failed>>
history == <<owed, ahead, cleared, calm>>
serving == <<holder, search, store>>
vars == <<cache, fetch, backoff, build, file, serving, left, history>>

Words(s) == IF s \notin copies THEN {}
            ELSE {IF s \in amended THEN "retitled" ELSE "title"}
                   \cup (IF text[s] = "text" THEN {"text"} ELSE {})

(* The words that the cache has for s, or had before s was edited.         *)
Ever(s) == IF s \notin copies THEN {} ELSE {"title"} \cup Words(s)

NoFetch  == [pc |-> "idle", hashes |-> {}, todo |-> <<>>, changed |-> FALSE,
             wait |-> 0, asked |-> 0]
NoBuild  == [pc |-> "idle", todo |-> <<>>, digest |-> {}, words |-> <<>>, late |-> FALSE]
NoSearch == [pc |-> "idle", stamp |-> None, index |-> None]
NoStore  == [pc |-> "none", list |-> {}, index |-> None, words |-> <<>>]

(* newAdaptiveBackoff(5 * time.Minute)                                     *)
MaxWait == 300
NewBackoff == [base |-> 255, extra |-> 1, peak |-> 0]

(* A fresh account, or one that an older version filled the cache of.      *)
Init ==
  /\ list \in SUBSET Story
  /\ copies = list
  /\ amended = {}
  /\ text \in [Story -> {"missing", "failed"}]
  /\ \A s \in Story \ list : text[s] = "missing"
  /\ failed = SetToSeq({s \in Story : text[s] = "failed"})
  /\ fetch = NoFetch
  /\ backoff = NewBackoff
  /\ build = [b \in {"fetch", "manual"} |-> NoBuild]
  /\ file = None
  /\ holder = [index |-> None, stamp |-> None]
  /\ search = [q \in Search |-> NoSearch]
  /\ store = NoStore
  /\ left \in Budget
  /\ owed = FALSE
  /\ ahead = [s \in Story |-> {failed[i] : i \in {i \in DOMAIN failed :
                                  \E j \in DOMAIN failed : i < j /\ failed[j] = s}}]
  /\ cleared = 0
  /\ calm = {}

Spend(what) == left[what] > 0 /\ left' = [left EXCEPT ![what] = @ - 1]
Fault == Spend("faults")

-----------------------------------------------------------------------------
(* A run of fetch: the list and the stories it names that are missing.     *)

StartRun ==
  /\ fetch.pc = "idle"
  /\ Spend("runs")
  /\ \E starred \in {list} \cup {list \cup {s} : s \in Story} :
       /\ list' = starred
       /\ fetch' = [NoFetch EXCEPT !.pc = "stories", !.hashes = starred,
                                   !.changed = starred \ copies # {}]
  /\ calm' = {}
  /\ UNCHANGED <<copies, amended, text, failed, backoff, build, file, serving, owed, ahead,
                 cleared>>

(* fetchStarredStoriesByHash: all of them arrive, or one does not: it was  *)
(* left out of the answer or could not be stored.                          *)
FetchStories ==
  /\ fetch.pc = "stories"
  /\ \/ copies' = copies \cup fetch.hashes /\ UNCHANGED left
     \/ \E s \in fetch.hashes \ copies : copies' = copies \cup (fetch.hashes \ {s}) /\ Fault
  /\ fetch' = [fetch EXCEPT !.pc = "plan"]
  /\ UNCHANGED <<list, amended, text, failed, backoff, build, file, serving, history>>

\* Mutant of Oldest: the failed answers that were tried last.
Newest(due) == {i \in due : Cardinality({j \in due : j >= i}) <= MaxRetries}

(* The positions in "failed" that are retried, of those that may be.       *)
Oldest(due) == {i \in due : Cardinality({j \in due : j <= i}) <= MaxRetries}

(* planOriginalText: the stories never asked for, in the list's order, and *)
(* then the failed answers, as far as they are older than the interval:    *)
(* the oldest ones.  No interval turns retries off.                        *)
Plan ==
  /\ fetch.pc = "plan"
  /\ \E n \in 0 .. Len(failed) :
       LET due  == {i \in 1 .. n : failed[i] \in fetch.hashes}
           todo == SetToSeq({s \in fetch.hashes : text[s] = "missing"})
                     \o Picked(failed, Oldest(due))
       IN fetch' = [fetch EXCEPT !.pc = "texts", !.todo = todo,
                                 !.changed = @ \/ todo # <<>>]
  /\ backoff' = NewBackoff
  /\ cleared' = 0
  /\ UNCHANGED <<cache, build, file, serving, left, owed, ahead, calm>>

-----------------------------------------------------------------------------
(* fetchWithBackoff                                                        *)

Asked == Head(fetch.todo)

NextItem == fetch' = [fetch EXCEPT !.todo = Tail(@)]

(* A story has been tried: it is ahead of no other any more.               *)
Tried(s) == [x \in Story |-> ahead[x] \ {s}]

\* Mutant of Learned: the base stays as it is.
LearnedNothing == NewBackoff

(* onSuccess: the longest wait of the burst becomes the base.              *)
Learned ==
  [base |-> IF backoff.peak > backoff.base THEN backoff.peak ELSE backoff.base,
   extra |-> 1, peak |-> 0]

\* Mutant of Restamped: the entry keeps its stamp.
Unstamped(s, state) == failed

Restamped(s, state) ==
  LET others == Picked(failed, {i \in DOMAIN failed : failed[i] # s})
  IN IF state = "failed" THEN Append(others, s) ELSE others

(* RefetchOriginalText: an answer is stored, and stamped, whether or not   *)
(* it holds a text.                                                        *)
Answer(state) ==
  /\ text' = [text EXCEPT ![Asked] = state]
  /\ failed' = Restamped(Asked, state)
  /\ ahead' = [Tried(Asked) EXCEPT ![Asked] =
                 IF state = "failed" THEN (ToSet(failed) \cap list) \ {Asked} ELSE {}]
  /\ backoff' = Learned
  /\ cleared' = IF backoff.peak > cleared THEN backoff.peak ELSE cleared
  /\ NextItem

GetsText ==
  /\ fetch.pc = "texts" /\ fetch.todo # <<>>
  /\ \E state \in {"text", "failed"} : Answer(state)
  /\ UNCHANGED <<list, copies, amended, build, file, serving, left, owed, calm>>

(* Any other error skips the story, whose stamp stays as it was.           *)
GetFails ==
  /\ fetch.pc = "texts" /\ fetch.todo # <<>>
  /\ Fault
  /\ NextItem
  /\ ahead' = Tried(Asked)
  /\ UNCHANGED <<cache, backoff, build, file, serving, owed, cleared, calm>>

(* nextWait, and the same story again after it.  The addition doubles, and *)
(* is cut so that base and addition are MaxWait: to less than nothing when *)
(* the base is more than that, and then it goes on doubling.  A wait of    *)
(* nothing or less is over at once.                                        *)
RateLimited(retryAfter) ==
  /\ fetch.pc = "texts" /\ fetch.todo # <<>>
  /\ Spend("limits")
  /\ LET sum   == backoff.base + backoff.extra
         wait  == IF retryAfter > sum THEN retryAfter ELSE sum
         extra == backoff.extra * 2
     IN /\ fetch' = [fetch EXCEPT !.pc = "wait", !.wait = wait, !.asked = retryAfter]
        /\ backoff' = [base |-> backoff.base,
                       extra |-> IF backoff.base + extra > MaxWait THEN MaxWait - backoff.base
                                 ELSE extra,
                       peak |-> IF wait > backoff.peak THEN wait ELSE backoff.peak]
  /\ UNCHANGED <<cache, build, file, serving, history>>

WaitOver ==
  /\ fetch.pc = "wait"
  /\ fetch' = [fetch EXCEPT !.pc = "texts", !.wait = 0, !.asked = 0]
  /\ UNCHANGED <<cache, backoff, build, file, serving, left, history>>

-----------------------------------------------------------------------------
(* Phase 3b: stories are downloaded again, and some have been edited; the  *)
(* index phase is told whether any was.  Which ones is StarredSync's       *)
(* subject.                                                                *)

RefreshEnds(redownloaded) ==
  /\ fetch.pc = "texts" /\ fetch.todo = <<>>
  /\ fetch' = [fetch EXCEPT !.pc = "index", !.hashes = {}, !.changed = @ \/ redownloaded]

TextsEnd ==
  /\ RefreshEnds(FALSE)
  /\ UNCHANGED <<cache, backoff, build, file, serving, left, history>>

Late(which) == [b \in DOMAIN build |-> [build[b] EXCEPT !.late = build[b].pc # "idle" /\ (@ \/ b \in which)]]

\* Mutant of RefreshStories: the index phase is not told.
RefreshUnseen ==
  /\ RefreshEnds(FALSE)
  /\ Spend("refreshes")
  /\ \E again \in SUBSET Story : \E edited \in SUBSET (again \cap copies) :
       copies' = copies \cup again /\ amended' = amended \cup edited
  /\ UNCHANGED <<list, text, failed, backoff, build, file, serving, history>>

RefreshStories ==
  /\ RefreshEnds(TRUE)
  /\ Spend("refreshes")
  /\ \E again \in SUBSET Story : \E edited \in SUBSET (again \cap copies) :
       copies' = copies \cup again /\ amended' = amended \cup edited
  /\ UNCHANGED <<list, text, failed, backoff, build, file, serving, history>>

(* The first chunk fails partway: runRefresh has counted none of it.       *)
RefreshFails ==
  /\ RefreshEnds(FALSE)
  /\ Fault
  /\ \E again \in SUBSET Story : \E edited \in SUBSET (again \cap copies) :
       /\ copies' = copies \cup again /\ amended' = amended \cup edited
       /\ owed' = (owed \/ (file # None /\ again \cap file.digest # {}))
  /\ build' = Late({"fetch", "manual"})
  /\ UNCHANGED <<list, text, failed, backoff, file, serving, ahead, cleared, calm>>

-----------------------------------------------------------------------------
(* The index phase, and `nebulous index`.                                  *)

(* A run that changed the cache ends without an index of it: the next one, *)
(* which judges by the set of stories, need not see that.                  *)
EndsOwing ==
  /\ fetch' = NoFetch
  /\ backoff' = NewBackoff /\ cleared' = 0
  /\ owed' = (owed \/ fetch.changed)

(* An interruption, between phases or in the loop, or a crash.             *)
Interrupt ==
  /\ fetch.pc # "idle"
  /\ EndsOwing
  /\ build' = [Late(IF fetch.changed THEN {"manual"} ELSE {}) EXCEPT !["fetch"] = NoBuild]
  /\ UNCHANGED <<cache, file, serving, left, ahead, calm>>

(* WordIndexCurrent, unless the corpus changed in this run                 *)
Current == file # None /\ ~fetch.changed /\ file.digest = list

UpToDate ==
  /\ fetch.pc = "index" /\ build["fetch"].pc = "idle"
  /\ Current
  /\ fetch' = NoFetch
  /\ backoff' = NewBackoff /\ cleared' = 0
  /\ UNCHANGED <<cache, build, file, serving, left, owed, ahead, calm>>

Started == [pc |-> "read", todo |-> SetToSeq(list), digest |-> list,
            words |-> [s \in Story |-> {}], late |-> FALSE]

StartIndex ==
  /\ fetch.pc = "index" /\ build["fetch"].pc = "idle"
  /\ ~Current
  /\ build' = [build EXCEPT !["fetch"] = Started]
  /\ UNCHANGED <<cache, fetch, backoff, file, serving, left, history>>

StartManual ==
  /\ build["manual"].pc = "idle"
  /\ Spend("builds")
  /\ build' = [build EXCEPT !["manual"] = Started]
  /\ calm' = {}
  /\ UNCHANGED <<cache, fetch, backoff, file, serving, owed, ahead, cleared>>

(* BuildWordIndex reads one story after the other, as it is cached then.   *)
ReadStory(b) ==
  /\ build[b].pc = "read"
  /\ build[b].todo # <<>>
  /\ LET s == Head(build[b].todo)
     IN build' = [build EXCEPT ![b].todo = Tail(@), ![b].words[s] = Words(s)]
  /\ UNCHANGED <<cache, fetch, backoff, file, serving, left, history>>

(* WriteFile renames the finished file over the old one.                   *)
Swap(b) ==
  /\ build[b].pc = "read" /\ build[b].todo = <<>>
  /\ file' = [digest |-> build[b].digest, words |-> build[b].words,
              stamp |-> IF file = None THEN 1 ELSE file.stamp + 1]
  /\ build' = [Late({"fetch", "manual"}) EXCEPT ![b] = NoBuild]
  /\ owed' = build[b].late
  /\ IF b = "fetch" THEN fetch' = NoFetch /\ backoff' = NewBackoff /\ cleared' = 0
     ELSE UNCHANGED <<fetch, backoff, cleared>>
  /\ UNCHANGED <<cache, serving, left, ahead, calm>>

(* A build that fails leaves the file as it is, and fetch goes on.         *)
BuildFails(b) ==
  /\ build[b].pc = "read"
  /\ Fault
  /\ build' = [Late(IF b = "fetch" /\ fetch.changed THEN {"manual"} ELSE {}) EXCEPT ![b] = NoBuild]
  /\ IF b = "fetch" THEN EndsOwing ELSE UNCHANGED <<fetch, backoff, owed, cleared>>
  /\ UNCHANGED <<cache, file, serving, ahead, calm>>

-----------------------------------------------------------------------------
(* A mutation: a story starred, saved (and so cached), or unstarred.       *)

Mutate(s) ==
  /\ Spend("changes")
  /\ calm' = {}
  /\ \/ /\ list' = list \cup {s}
        /\ \/ UNCHANGED <<copies, amended, owed, build>>
           \/ /\ copies' = copies \cup {s}
              /\ amended' \in {amended, amended \cup ({s} \cap copies)}
              /\ owed' = (owed \/ (file # None /\ s \in file.digest))
              /\ build' = Late({"fetch", "manual"})
        /\ UNCHANGED ahead
     \/ /\ list' = list \ {s}
        /\ ahead' = Tried(s)
        /\ UNCHANGED <<copies, amended, owed, build>>
  /\ UNCHANGED <<text, failed, fetch, backoff, file, serving, cleared>>

-----------------------------------------------------------------------------
(* SearchWords                                                             *)

Watched(reader) ==
  calm' = IF fetch.pc = "idle" /\ \A b \in DOMAIN build : build[b].pc = "idle"
          THEN calm \cup {reader} ELSE calm \ {reader}

Closed == [index |-> None, stamp |-> None]
Ended(q) == search' = [search EXCEPT ![q] = NoSearch]

(* refresh, up to the lock: no file, or its modification time and size.    *)
Stat(q) ==
  /\ search[q].pc = "idle"
  /\ Spend("searches")
  /\ file # None
  /\ search' = [search EXCEPT ![q] = [NoSearch EXCEPT !.pc = "stat", !.stamp = file.stamp]]
  /\ Watched(q)
  /\ UNCHANGED <<cache, fetch, backoff, build, file, holder, store, owed, ahead, cleared>>

\* Mutant of Opened: an index that is open is kept.
OpenedOnce(q) == [index |-> IF holder.index # None THEN holder.index ELSE file,
                  stamp |-> search[q].stamp]

(* The stamp is that of the stat, the index that of the file there now.    *)
Opened(q) == [index |-> file, stamp |-> search[q].stamp]

Refresh(q) ==
  /\ search[q].pc = "stat"
  /\ \/ /\ holder.index # None /\ holder.stamp = search[q].stamp
        /\ search' = [search EXCEPT ![q] = [NoSearch EXCEPT !.pc = "lookup"]]
        /\ UNCHANGED <<holder, left>>
     \/ /\ holder.index = None \/ holder.stamp # search[q].stamp
        /\ \/ /\ holder' = Opened(q)
              /\ search' = [search EXCEPT ![q] = [NoSearch EXCEPT !.pc = "lookup"]]
              /\ UNCHANGED left
           \/ holder' = Closed /\ Ended(q) /\ Fault
  /\ UNCHANGED <<cache, fetch, backoff, build, file, store, history>>

(* Another search may have swapped or closed the index in between.         *)
Lookup(q) ==
  /\ search[q].pc = "lookup"
  /\ IF holder.index = None THEN Ended(q)
     ELSE search' = [search EXCEPT ![q].pc = "found", ![q].index = holder.index]
  /\ UNCHANGED <<cache, fetch, backoff, build, file, holder, store, left, history>>

\* Mutant of Complete: any open index covers the stories.
CompleteAlways(q) == search[q].index # None

Complete(q) == search[q].index.digest = list

Hits(q, word) == {s \in list \cap copies : word \in search[q].index.words[s]}

(* The snapshot of the stories is taken after the lookup.                  *)
Answered(q) ==
  /\ search[q].pc = "found"
  /\ Ended(q)
  /\ UNCHANGED <<cache, fetch, backoff, build, file, holder, store, left, history>>

-----------------------------------------------------------------------------
(* story_query with words: the story store's build, whose snapshot keeps   *)
(* the index it opened.  When it is built again is StaleCache's subject.   *)

ListStore ==
  /\ store.pc \in {"none", "ready"}
  /\ Spend("queries")
  /\ store' = [NoStore EXCEPT !.pc = "listed", !.list = list]
  /\ Watched("store")
  /\ UNCHANGED <<cache, fetch, backoff, build, file, holder, search, owed, ahead, cleared>>

(* openWordIndex: no index if there is no file, or if it is unusable.      *)
OpenIndex ==
  /\ store.pc = "listed"
  /\ \/ store' = [store EXCEPT !.pc = "opened", !.index = file] /\ UNCHANGED left
     \/ store' = [store EXCEPT !.pc = "opened"] /\ file # None /\ Fault
  /\ UNCHANGED <<cache, fetch, backoff, build, file, holder, search, history>>

(* The copies, with their words if there is no index to have them from.    *)
LoadStories ==
  /\ store.pc = "opened"
  /\ store' = [store EXCEPT !.pc = "ready", !.words =
       [s \in store.list \cap copies |-> IF store.index = None THEN Words(s) ELSE {}]]
  /\ UNCHANGED <<cache, fetch, backoff, build, file, holder, search, left, history>>

\* Mutant of Noted: the index is for other stories, and nobody is told.
NotedNever == FALSE

Noted == store.index # None /\ store.index.digest # store.list

Candidates(word) ==
  {s \in DOMAIN store.words :
     word \in IF store.index = None THEN store.words[s] ELSE store.index.words[s]}

-----------------------------------------------------------------------------

Next ==
  \/ StartRun \/ FetchStories \/ Plan
  \/ GetsText \/ GetFails \/ WaitOver
  \/ TextsEnd \/ RefreshStories \/ RefreshFails
  \/ \E after \in RetryAfter : RateLimited(after)
  \/ Interrupt \/ UpToDate \/ StartIndex \/ StartManual
  \/ \E b \in DOMAIN build : ReadStory(b) \/ Swap(b) \/ BuildFails(b)
  \/ \E s \in Story : Mutate(s)
  \/ \E q \in Search :
       Stat(q) \/ Refresh(q) \/ Lookup(q) \/ Answered(q)
  \/ ListStore \/ OpenIndex \/ LoadStories

Spec == Init /\ [][Next]_vars

-----------------------------------------------------------------------------
(* Properties.                                                             *)

TypeOK ==
  /\ list \subseteq Story /\ copies \subseteq Story /\ amended \subseteq copies
  /\ text \in [Story -> {"missing", "failed", "text"}]
  /\ ToSet(failed) = {s \in Story : text[s] = "failed"}
  /\ Len(failed) = Cardinality({s \in Story : text[s] = "failed"})
  /\ fetch.pc \in {"idle", "stories", "plan", "texts", "wait", "index"}
  /\ build["fetch"].pc = "read" => fetch.pc = "index"
  /\ holder.index = None => holder.stamp = None

(* When nothing is being fetched or built, an index of the stories that    *)
(* are starred holds the words of their copies and texts and no others,    *)
(* unless a run ended between changing the cache and indexing it, a        *)
(* refresh failed, or an index that was begun earlier replaced a later     *)
(* one.  fetch decides whether to rebuild by its own changes and the set   *)
(* of stories alone.                                                       *)
IndexCoversTexts ==
  /\ fetch.pc = "idle" /\ build["manual"].pc = "idle" /\ ~owed
  /\ file # None /\ file.digest = list
  => \A s \in list : file.words[s] = Words(s)

(* A stamp that is the file's stands for the file: refresh may be content  *)
(* with an open index, though another file can be renamed into place       *)
(* between its stat and its open, and other searches open and close it.    *)
HolderIsCurrent ==
  holder.index # None /\ file # None /\ holder.stamp = file.stamp => holder.index = file

Holders(word) == {s \in list \cap copies : word \in Words(s)}

(* The stories that hold the word, or did before they were edited.         *)
EverHolders(word) == {s \in list \cap copies : word \in Ever(s)}

(* A search answers only with stories that hold the word or did before an  *)
(* edit; only with those that hold it, if nothing was fetched, built or    *)
(* mutated while it was made and the index is not owed a rebuild; and then *)
(* an answer that calls itself complete has all of them.                   *)
SearchAnswers ==
  [][\A q \in Search, word \in Word :
       search[q].pc = "found" /\ search'[q].pc = "idle" =>
         /\ Hits(q, word) \subseteq EverHolders(word)
         /\ q \in calm /\ ~owed => Hits(q, word) \subseteq Holders(word)
         /\ q \in calm /\ ~owed /\ Complete(q) => Hits(q, word) = Holders(word)]_vars

(* A story_query finds only stories that hold the word or did before an    *)
(* edit, whichever index it uses.  Unless something was fetched, built or  *)
(* mutated since its list was read, or the index is owed a rebuild, it     *)
(* finds all that hold it and no other if its answer carries no note, and  *)
(* of those that the index was built for if it does: "stories added since  *)
(* will not match" is all that it may miss.                                *)
NoteTellsAll ==
  store.pc = "ready" =>
    \A word \in Word :
      /\ Candidates(word) \cap list \subseteq EverHolders(word)
      /\ "store" \in calm /\ ~owed =>
           IF Noted THEN Candidates(word) = Holders(word) \cap store.index.digest
           ELSE Candidates(word) = Holders(word)

(* A failed answer is asked for again only after every one that had failed *)
(* before it, of the stories that stay starred: none is passed over,       *)
(* however the runs' cap cuts their plans and whatever fails or is         *)
(* interrupted.                                                            *)
RetriesInTurn ==
  fetch.pc = "texts" /\ fetch.todo # <<>> /\ text[Asked] = "failed" => ahead[Asked] = {}

(* Bursts of rate limits teach fetch to wait: no wait is shorter than      *)
(* NewsBlur asks for, and the first one of a burst is longer than any that *)
(* ended a burst before it in this run; yet none is longer than NewsBlur   *)
(* asks for and than both MaxWait and a second more than what was learned. *)
WaitsAreLearned ==
  [][fetch.pc = "texts" /\ fetch'.pc = "wait" =>
       /\ fetch'.wait >= fetch'.asked
       /\ backoff.peak = 0 => fetch'.wait > cleared
       /\ fetch'.wait > fetch'.asked => fetch'.wait <= MaxWait \/ fetch'.wait <= cleared + 1]_vars

(* "learned floor from past bursts" (adaptiveBackoff.base): no later wait  *)
(* is shorter than the longest one that it took in this run to get out of  *)
(* a rate limit, or than MaxWait if that is less.                          *)
LearnedFloor ==
  fetch.pc = "wait" => fetch.wait >= IF cleared > MaxWait THEN MaxWait ELSE cleared
=============================================================================
