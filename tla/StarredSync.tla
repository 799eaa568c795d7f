----------------------------- MODULE StarredSync -----------------------------
(***************************************************************************)
(* How the cached starred stories follow the NewsBlur account: phases 2    *)
(* and 3b of `nebulous fetch` (cmd/nebulous/main.go, refresh.go), running  *)
(* beside the traversal plugin, which changes the account and patches the  *)
(* cache itself (internal/alfa/newsblur), and beside the NewsBlur apps,    *)
(* which change the account only.                                          *)
(*                                                                         *)
(* A cached copy is abstracted to its user tags.  NewsBlur stamps a        *)
(* starred story with the unix second of its last save; deleting a tag     *)
(* takes it off every story without a save.  A chunk and a batch of the    *)
(* fetch are one story here, and one fetch runs at a time.                 *)
(***************************************************************************)
EXTENDS Naturals, FiniteSets

CONSTANTS Story, Tag,
          NoCopy,      \* a story without a cached copy
          None,        \* no mutation, nothing downloaded, tags not yet read
          Setting,     \* the values of setting to consider
          MaxChanges,  \* bound on the changes of the account in a behaviour
          MaxFaults    \* bound on the failures and crashes in a behaviour

ASSUME BoundsAssumption == MaxChanges \in Nat /\ MaxFaults \in Nat
ASSUME SettingAssumption == Setting \subseteq [fullEvery : BOOLEAN, untrimmed : SUBSET Tag]
ASSUME NoCopyAssumption == /\ \A T \in SUBSET Tag : T # NoCopy /\ T # None
                           /\ None # NoCopy

VARIABLES
  changes,   \* changes of the account so far
  faults,    \* failures and crashes so far
  second,    \* the unix second of the last save
  starred,   \* the account: starred stories,
  tags,      \*   their user tags,
  stamp,     \*   and the second of their last save
  hashList,  \* the cache: the starred hash list,
  copy,      \*   the user tags in each cached story,
  rec,       \*   StarredSyncState.Timestamps (0: no entry),
  lastFull,  \*   and FullSyncAt: "never", "recent" or "due"
  setting,   \* [fullEvery: NEBULOUS_REFRESH_FULL_INTERVAL is not 0,
             \*  untrimmed: the tags that are empty or have blanks at an end]
  mutation,  \* the cache patches the plugin's current mutation still owes
  pc,        \* how far the fetch has come
  seen,      \* the hash list the fetch has read
  todo,      \* stories the current phase still has to download
  just,      \* missingStories of phase 2, justFetched of phase 3b
  live,      \* NewsBlur's stamps as the fetch read them (0: not starred)
  wrec,      \* the Timestamps the fetch works on
  full,      \* refreshPlan.Full
  got,       \* a downloaded story on its way into the cache
  \* History variables: no action reads them.
  gone,      \* tags deleted from a story since its last save
  suspect,   \* copies that may be wrong though their stamp is recorded
  raced      \* saved again between phase 2's download and the stamps' reading

account == <<starred, tags, stamp>>
cache   == <<hashList, copy, rec, lastFull>>
fetch   == <<pc, seen, todo, just, live, wrec, full, got>>
clock   == <<changes, second>>
world   == <<setting, faults>>
history == <<gone, suspect, raced>>
vars    == <<changes, faults, second, starred, tags, stamp, hashList, copy, rec, lastFull,
             setting, mutation, pc, seen, todo, just, live, wrec, full, got,
             gone, suspect, raced>>

NoStamps == [s \in Story |-> 0]
Listed == UNION {tags[s] : s \in starred}  \* the tags in use
Counted == Listed \ setting.untrimmed      \* tags starred_counts is sure to list

Init ==
  /\ changes = 0
  /\ faults = 0
  /\ second = 0
  /\ starred = {}
  /\ tags = [s \in Story |-> {}]
  /\ stamp = NoStamps
  /\ hashList = {}
  /\ copy = [s \in Story |-> NoCopy]
  /\ rec = NoStamps
  /\ lastFull = "never"
  /\ setting \in Setting
  /\ mutation = None
  /\ pc = "idle"
  /\ seen = {}
  /\ todo = {}
  /\ just = {}
  /\ live = NoStamps
  /\ wrec = NoStamps
  /\ full = FALSE
  /\ got = None
  /\ gone = [s \in Story |-> {}]
  /\ suspect = {}
  /\ raced = {}

-----------------------------------------------------------------------------
(* The account.                                                            *)

Change == changes < MaxChanges /\ changes' = changes + 1

(* A download of s under way is no longer what the account holds.          *)
Outdates(s) ==
  got' = IF got # None /\ got.story = s THEN [got EXCEPT !.fresh = FALSE]
                                        ELSE got

(* NewsBlur saves the starred story s with the tags T and stamps it with   *)
(* the second, which may still be that of the last save.                   *)
Save(s, T) == \E now \in {second, second + 1} \ {0} :
  /\ Change
  /\ second' = now
  /\ starred' = starred \cup {s}
  /\ tags' = [tags EXCEPT ![s] = T]
  /\ stamp' = [stamp EXCEPT ![s] = now]
  /\ gone' = [gone EXCEPT ![s] = {}]
  /\ suspect' = IF stamp[s] = now THEN suspect \cup {s} ELSE suspect
  /\ raced' = IF pc = "starred" /\ s \in just THEN raced \cup {s} ELSE raced
  /\ Outdates(s)

Unstar(s) ==
  /\ Change
  /\ s \in starred
  /\ starred' = starred \ {s}
  /\ tags' = [tags EXCEPT ![s] = {}]
  /\ gone' = [gone EXCEPT ![s] = {}]
  /\ UNCHANGED <<second, stamp, suspect, raced, got>>

Fault == faults < MaxFaults /\ faults' = faults + 1

fetchButGot == <<pc, seen, todo, just, live, wrec, full>>

(* The NewsBlur apps: star or re-tag, unstar, delete a tag.                *)
AppSave == \E s \in Story, T \in SUBSET Tag :
  /\ Save(s, T)
  /\ UNCHANGED <<world, cache, mutation, fetchButGot>>

AppUnstar == \E s \in Story :
  /\ Unstar(s)
  /\ UNCHANGED <<world, cache, mutation, fetchButGot>>

AppDeleteTag == \E t \in Listed :
  /\ Change
  /\ tags' = [s \in Story |-> tags[s] \ {t}]
  /\ gone' = [s \in Story |-> gone[s] \cup (tags[s] \cap {t})]
  /\ UNCHANGED <<world, second, starred, stamp, cache, mutation, fetch, suspect, raced>>

-----------------------------------------------------------------------------
(* The plugin.  mutateMu admits one mutation at a time; after NewsBlur has *)
(* accepted it the cache is patched: the hash list (kept: the story is to  *)
(* be in it), then, for a mutation that has a copy to write, the copy.     *)

Owe(step, s, kept, T) ==
  mutation' = [step |-> step, story |-> s, kept |-> kept, tags |-> T,
               list |-> {}]

(* StarStory: the hash list only.                                          *)
Star == \E s \in Story \ starred, T \in SUBSET Tag :
  /\ mutation = None
  /\ Save(s, T)
  /\ Owe("list", s, TRUE, NoCopy)
  /\ UNCHANGED <<world, cache, fetchButGot>>

(* SetStoryUserTags: the hash list and the tags of the copy.               *)
SetTags == \E s \in starred, T \in SUBSET Tag :
  /\ mutation = None
  /\ Save(s, T)
  /\ Owe("list", s, TRUE, T)
  /\ UNCHANGED <<world, cache, fetchButGot>>

(* SaveStory: the hash list, then a copy made from a new download.         *)
SaveStory == \E s \in Story, T \in SUBSET Tag :
  /\ mutation = None
  /\ Save(s, T)
  /\ Owe("list", s, TRUE, None)
  /\ UNCHANGED <<world, cache, fetchButGot>>

UnstarStory == \E s \in starred :
  /\ mutation = None
  /\ Unstar(s)
  /\ Owe("list", s, FALSE, NoCopy)
  /\ UNCHANGED <<world, cache, fetchButGot>>

(* PatchCachedStarredStoryHashes reads the cached list ...                 *)
PatchRead ==
  /\ mutation # None /\ mutation.step = "list"
  /\ mutation' = [mutation EXCEPT !.step = "patch", !.list =
       IF mutation.kept THEN hashList \cup {mutation.story}
                        ELSE hashList \ {mutation.story}]
  /\ UNCHANGED <<clock, world, account, cache, fetch, history>>

(* The hash list has been dealt with: next is the copy, if it is owed.     *)
ListDone ==
  mutation' = IF mutation.tags = NoCopy THEN None
              ELSE [mutation EXCEPT !.step = "tags", !.list = {}]

(* ... and puts the patched one.                                           *)
PatchList ==
  /\ mutation # None /\ mutation.step = "patch"
  /\ hashList' = mutation.list
  /\ ListDone
  /\ UNCHANGED <<clock, world, account, copy, rec, lastFull, fetch, history>>

\* Mutant of PatchTags: a saved story's tags are patched in before they are read.
PatchUnread ==
  /\ mutation # None /\ mutation.step = "tags"
  /\ copy' = IF copy[mutation.story] = NoCopy THEN copy
             ELSE [copy EXCEPT ![mutation.story] = mutation.tags]
  /\ mutation' = None
  /\ UNCHANGED <<clock, world, account, hashList, rec, lastFull, fetch, history>>

(* PatchCachedStoryUserTags: a story that is not cached is skipped.  The   *)
(* copy is wrong afterwards if the account has moved on meanwhile.         *)
PatchTags ==
  /\ mutation # None /\ mutation.step = "tags" /\ mutation.tags # None
  /\ LET s == mutation.story IN
     /\ copy' = IF copy[s] = NoCopy THEN copy
                ELSE [copy EXCEPT ![s] = mutation.tags]
     /\ suspect' = IF mutation.tags = tags[s] THEN suspect
                   ELSE suspect \cup {s}
  /\ mutation' = None
  /\ UNCHANGED <<clock, world, account, hashList, rec, lastFull, fetch, gone, raced>>

(* cacheSavedStory downloads the saved story ...                           *)
Reread ==
  /\ mutation # None /\ mutation.step = "tags" /\ mutation.tags = None
  /\ mutation' = IF mutation.story \in starred
                 THEN [mutation EXCEPT !.step = "put", !.tags = tags[mutation.story]]
                 ELSE None
  /\ UNCHANGED <<clock, world, account, cache, fetch, history>>

(* ... and caches it.                                                      *)
PutSaved ==
  /\ mutation # None /\ mutation.step = "put"
  /\ copy' = [copy EXCEPT ![mutation.story] = mutation.tags]
  /\ suspect' = IF mutation.tags = tags[mutation.story] THEN suspect
                ELSE suspect \cup {mutation.story}
  /\ mutation' = None
  /\ UNCHANGED <<clock, world, account, hashList, rec, lastFull, fetch, gone, raced>>

(* A patch fails: nobody is told, and the copy follows the list all the    *)
(* same.                                                                   *)
PatchFails ==
  /\ Fault
  /\ mutation # None
  /\ IF mutation.step \in {"list", "patch"} THEN ListDone ELSE mutation' = None
  /\ UNCHANGED <<clock, setting, account, cache, fetch, history>>

(* The plugin ends: what is still owed is lost.                            *)
MutationLost ==
  /\ Fault
  /\ mutation # None
  /\ mutation' = None
  /\ UNCHANGED <<clock, setting, account, cache, fetch, history>>

-----------------------------------------------------------------------------
(* The fetch.                                                              *)

(* The locals of a run that ends are gone.                                 *)
EndRun ==
  /\ pc' = "idle"
  /\ seen' = {} /\ todo' = {} /\ just' = {} /\ got' = None
  /\ live' = NoStamps /\ wrec' = NoStamps /\ full' = FALSE

(* The interval since FullSyncAt has passed.                               *)
IntervalElapses ==
  /\ setting.fullEvery /\ lastFull = "recent"
  /\ lastFull' = "due"
  /\ UNCHANGED <<clock, world, account, hashList, copy, rec, mutation, fetch, history>>

(* Phase 2 reads the hash list ...                                         *)
ReadHashes ==
  /\ pc = "idle"
  /\ pc' = "list"
  /\ seen' = starred
  /\ UNCHANGED <<clock, world, account, cache, mutation, todo, just, live, wrec, full,
                 got, history>>

(* ... puts it in the cache and lists the stories without a copy.          *)
PutHashes ==
  /\ pc = "list"
  /\ pc' = "starred"
  /\ hashList' = seen
  /\ seen' = {}
  /\ todo' = {s \in seen : copy[s] = NoCopy}
  /\ just' = todo'
  /\ UNCHANGED <<clock, world, account, copy, rec, lastFull, mutation, live, wrec,
                 full, got, history>>

Downloading == pc \in {"starred", "refresh", "holders"}

(* StoriesStarredByHash: NewsBlur leaves out a story no longer starred.    *)
Download == \E s \in todo :
  /\ Downloading
  /\ got = None
  /\ got' = [story |-> s, tags |-> IF s \in starred THEN tags[s] ELSE NoCopy,
             fresh |-> s \in starred]
  /\ UNCHANGED <<clock, world, account, cache, mutation, fetchButGot, history>>

(* The downloaded story is dealt with: phase 3b goes on to record it, the  *)
(* others have no record to make.                                          *)
Handled ==
  IF pc = "refresh" THEN pc' = "record" /\ UNCHANGED <<todo, got>>
  ELSE pc' = pc /\ todo' = todo \ {got.story} /\ got' = None

(* PutCachedStarredStory, for a story the answer holds.                    *)
Store ==
  /\ Downloading
  /\ got # None
  /\ copy' = IF got.tags = NoCopy THEN copy
             ELSE [copy EXCEPT ![got.story] = got.tags]
  /\ suspect' = IF got.fresh THEN suspect \ {got.story} ELSE suspect
  /\ raced' = IF got.fresh THEN raced \ {got.story} ELSE raced
  /\ Handled
  /\ UNCHANGED <<clock, world, account, hashList, rec, lastFull, mutation, seen, just,
                 live, wrec, full, gone>>

(* A story that does not parse or whose put fails is logged and skipped.   *)
StoreFails ==
  /\ Fault
  /\ Downloading
  /\ got # None
  /\ suspect' = suspect \cup {got.story}
  /\ Handled
  /\ UNCHANGED <<clock, setting, account, cache, mutation, seen, just, live, wrec, full,
                 gone, raced>>

(* planRefresh: which of the stories with a live stamp to download.        *)
ToFetch(now, isFull) ==
  {s \in starred \ just : isFull \/ rec[s] # now[s]}

(* Phase 3b reads the stamps, plans, and records the stories of phase 2.   *)
ReadStamps == \E forceFull \in BOOLEAN :
  /\ pc = "starred" /\ todo = {}
  /\ pc' = "refresh"
  /\ live' = [s \in Story |-> IF s \in starred THEN stamp[s] ELSE 0]
  /\ full' = (forceFull \/ lastFull # "recent")
  /\ todo' = ToFetch(live', full')
  /\ wrec' = [s \in Story |-> IF s \in just \/ live'[s] = 0 THEN live'[s]
                              ELSE rec[s]]
  /\ just' = {}
  /\ UNCHANGED <<clock, world, account, cache, mutation, seen, got, history>>

\* Mutant of Record: the stamp is read again when it is recorded.
RecordNow ==
  /\ pc = "record"
  /\ pc' = "refresh"
  /\ wrec' = [wrec EXCEPT ![got.story] = stamp[got.story]]
  /\ rec' = wrec'
  /\ todo' = todo \ {got.story}
  /\ got' = None
  /\ UNCHANGED <<clock, world, account, hashList, copy, lastFull, mutation, seen,
                 just, live, full, history>>

(* A chunk is done: its stamps, as read at the start, are recorded.        *)
Record ==
  /\ pc = "record"
  /\ pc' = "refresh"
  /\ wrec' = [wrec EXCEPT ![got.story] = live[got.story]]
  /\ rec' = wrec'
  /\ todo' = todo \ {got.story}
  /\ got' = None
  /\ UNCHANGED <<clock, world, account, hashList, copy, lastFull, mutation, seen, just,
                 live, full, history>>

(* The last chunk is done; a full re-sync notes when.                      *)
Finish ==
  /\ pc = "refresh" /\ todo = {}
  /\ pc' = "counts"
  /\ rec' = wrec
  /\ lastFull' = IF full THEN "recent" ELSE lastFull
  /\ live' = NoStamps /\ wrec' = NoStamps /\ full' = FALSE
  /\ UNCHANGED <<clock, world, account, hashList, copy, mutation, seen, todo, just, got,
                 history>>

\* Mutant of CountTags: tags deleted in the apps are not looked for.
CountNone ==
  /\ pc = "counts"
  /\ pc' = "holders"
  /\ todo' = {}
  /\ UNCHANGED <<clock, world, account, cache, mutation, seen, just, live, wrec,
                 full, got, history>>

\* Mutant of CountTags: empty and untrimmed tags are looked for, too.
CountUntrimmed ==
  /\ pc = "counts"
  /\ pc' = "holders"
  /\ todo' = {s \in hashList : copy[s] # NoCopy /\ ~(copy[s] \subseteq Counted)}
  /\ UNCHANGED <<clock, world, account, cache, mutation, seen, just, live, wrec,
                 full, got, history>>

(* deletedTagHolders: the cached stories with a tag NewsBlur no longer     *)
(* lists are downloaded again.  An empty or untrimmed tag is no sign of    *)
(* one: NewsBlur may not list it though a story has it.                    *)
CountTags ==
  /\ pc = "counts"
  /\ pc' = "holders"
  /\ todo' = {s \in hashList : copy[s] # NoCopy
                               /\ ~(copy[s] \subseteq Counted \cup setting.untrimmed)}
  /\ UNCHANGED <<clock, world, account, cache, mutation, seen, just, live, wrec, full,
                 got, history>>

Done ==
  /\ pc = "holders" /\ todo = {}
  /\ EndRun
  /\ UNCHANGED <<clock, world, account, cache, mutation, history>>

(* A request fails or the context ends: the run returns, phase 3b, if it   *)
(* has a chunk to do yet, saving the stamps it has.  -no-refresh is a run  *)
(* that ends before ReadStamps.                                            *)
Interrupt ==
  /\ Fault
  /\ pc \notin {"idle", "record"}
  /\ pc = "refresh" => todo # {}
  /\ rec' = IF pc = "refresh" THEN wrec ELSE rec
  /\ EndRun
  /\ UNCHANGED <<clock, setting, account, hashList, copy, lastFull, mutation, history>>

(* The process is killed, or SaveState fails.                              *)
Kill ==
  /\ Fault
  /\ pc # "idle"
  /\ EndRun
  /\ UNCHANGED <<clock, setting, account, cache, mutation, history>>

FetchStep == ReadHashes \/ PutHashes \/ Download \/ Store \/ ReadStamps
             \/ Record \/ Finish \/ CountTags \/ Done
PatchStep == PatchRead \/ PatchList \/ PatchTags \/ Reread \/ PutSaved
Account   == AppSave \/ AppUnstar \/ AppDeleteTag
Mutation  == Star \/ SetTags \/ SaveStory \/ UnstarStory
Failure   == PatchFails \/ MutationLost \/ StoreFails \/ Interrupt \/ Kill

Next == Account \/ Mutation \/ PatchStep \/ FetchStep
        \/ IntervalElapses \/ Failure

(* The timer starts one fetch after the other and each of their requests   *)
(* returns; the plugin finishes its patches; the interval passes.          *)
Fairness == /\ WF_vars(FetchStep)
            /\ WF_vars(PatchStep)
            /\ WF_vars(IntervalElapses)

Spec == Init /\ [][Next]_vars /\ Fairness

-----------------------------------------------------------------------------

Copies == {NoCopy} \cup (SUBSET Tag)
Stamps == [Story -> 0 .. MaxChanges]
Mutations == [step : {"list", "patch", "tags", "put"}, story : Story, kept : BOOLEAN,
              tags : {None} \cup Copies, list : SUBSET Story]
Downloads == [story : Story, tags : Copies, fresh : BOOLEAN]

ASSUME NoneAssumption == None \notin Downloads

(* Every variable has its type; tags not read yet never reach the cache.   *)
TypeOK ==
  /\ changes \in 0 .. MaxChanges
  /\ faults \in 0 .. MaxFaults
  /\ second \in 0 .. changes
  /\ starred \subseteq Story
  /\ tags \in [Story -> SUBSET Tag]
  /\ stamp \in Stamps
  /\ hashList \subseteq Story
  /\ \A s \in Story : copy[s] # None
  /\ copy \in [Story -> Copies]
  /\ rec \in Stamps
  /\ lastFull \in {"never", "recent", "due"}
  /\ setting \in [fullEvery : BOOLEAN, untrimmed : SUBSET Tag]
  /\ mutation \in {None} \cup Mutations
  /\ pc \in {"idle", "list", "starred", "refresh", "record", "counts", "holders"}
  /\ seen \subseteq Story
  /\ todo \subseteq Story
  /\ just \subseteq Story
  /\ live \in Stamps
  /\ wrec \in Stamps
  /\ full \in BOOLEAN
  /\ got \in {None} \cup Downloads
  /\ gone \in [Story -> SUBSET Tag]
  /\ suspect \subseteq Story
  /\ raced \subseteq Story

(* The copy of a starred story whose recorded stamp is NewsBlur's.         *)
Synced(s) == s \in starred /\ rec[s] = stamp[s] /\ copy[s] # NoCopy

(* A cached story whose recorded stamp is NewsBlur's current one has       *)
(* NewsBlur's tags, up to tags deleted since: so the stories planRefresh   *)
(* passes over need no download, whatever edits, patches, failures and     *)
(* crashes came in between.  Excepted are a second save within one second, *)
(* a copy not stored or a patch applied late, and a save between phase 2   *)
(* and the stamps' reading.                                                *)
SyncedIsCurrent == \A s \in Story \ (suspect \cup raced) :
  Synced(s) => copy[s] \ gone[s] = tags[s]

(* The comments in refresh.go and main.go claim it without that last       *)
(* exception: "stories downloaded in phase 2 of this same run are current".*)
JustFetchedIsCurrent == \A s \in Story \ suspect :
  Synced(s) => copy[s] \ gone[s] = tags[s]

(* What a reader of the cache is to see: everything, with full re-syncs;   *)
(* without them everything but the excepted copies and two kinds of tags   *)
(* deleted in the apps: those that another story still has, and the empty  *)
(* and untrimmed ones.                                                     *)
Faithful ==
  /\ hashList = starred
  /\ \A s \in starred :
       /\ copy[s] # NoCopy
       /\ s \in suspect \cup raced \/ copy[s] \ (gone[s] \cap (Listed \cup setting.untrimmed)) = tags[s]
       /\ setting.fullEvery => copy[s] = tags[s]

(* Once the account rests and nothing fails any more (the bounds see to    *)
(* both), the cache becomes and stays faithful to the account.             *)
EventuallyFaithful == <>[]Faithful

(* The holders of deleted tags are not downloaded for ever: once the       *)
(* account rests, a time comes after which no fetch finds any.             *)
HoldersSettle == <>[](pc = "holders" => todo = {})

(* refresh.go: "an interrupted full re-sync resumes where it stopped       *)
(* instead of starting over": until the first one completes, no run        *)
(* downloads again a story recorded with its current stamp.                *)
FullResyncResumes ==
  [][lastFull = "never" /\ pc = "starred" /\ pc' = "refresh"
     => \A s \in todo' : rec[s] # live'[s]]_vars
=============================================================================
