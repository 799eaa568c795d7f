------------------------------ MODULE StaleCache ------------------------------
(***************************************************************************)
(* The snapshots a serving process answers from                            *)
(* (internal/bravo/tools/stale_cache.go, story_store.go, feed_index.go):   *)
(* the story store and the feed index each keep one behind a debounced     *)
(* look at the manifest's modification time.  Another process (`nebulous   *)
(* fetch`) saves the manifest and swaps the word index file; mutations of  *)
(* this process save it too and count as local writes; building the feed   *)
(* index may itself save it (PutSeenFeedTitles).                           *)
(*                                                                         *)
(* The manifest is abstracted to the number of saves it holds, how many of *)
(* them are local writes, and the versions of the feed list it holds and   *)
(* of the one whose titles it has recorded. What the process's own copy   *)
(* of the manifest does between its file accesses is Manifest's subject: a *)
(* refresh and a save are one step here.  A save of this process may   *)
(* fall into the same tick of the file system's clock as the save before;  *)
(* one of another process that does is left out (nothing can notice it).   *)
(***************************************************************************)
EXTENDS Naturals

CONSTANTS MaxSaves,   \* bound on what other processes save and swap
          MaxWrites,  \* bound on this process's mutations
          None        \* no snapshot yet

ASSUME BoundsAssumption == MaxSaves \in Nat /\ MaxWrites \in Nat

Cache == {"stories", "feeds"}

VARIABLES
  file,      \* what the manifest file holds: [saves, own, feeds, titled]
  mtime,     \* its modification time, 0 while there is no file
  index,     \* (modification time, size) of the word index file, 0: no file
  mem,       \* the process's copy of the manifest (m.entries)
  seen,      \* and the modification time it remembers (m.lastMtimeNanos)
  writes,    \* responseCache.writes
  mutation,  \* mutations so far, and one that is saved but not yet counted
  pc,        \* how far the current call of c has come
  snapshot,  \* c.snapshot: what its two reads found, and the index opened
  lastStamp, lastWrites,  \* c's fields
  call,      \* locals of c's call: stamp, writes, and what build has read
  \* History variable: no action reads it.
  blurred    \* the last save, one of our own, did not move the file's time

fileVars == <<file, mtime, index>>
memVars  == <<mem, seen>>
fields   == <<snapshot, lastStamp, lastWrites>>
vars     == <<file, mtime, index, mem, seen, writes, mutation, pc,
              snapshot, lastStamp, lastWrites, call, blurred>>

NoFile == [saves |-> 0, own |-> 0, feeds |-> 0, titled |-> 0]
NoStamp == [mtime |-> 0, index |-> 0]
NoCall == [stamp |-> NoStamp, writes |-> 0, read |-> NoFile, index |-> 0]

Init ==
  /\ file = NoFile
  /\ mtime = 0
  /\ index = 0
  /\ mem = NoFile
  /\ seen = 0
  /\ writes = 0
  /\ mutation = [made |-> 0, uncounted |-> FALSE]
  /\ pc = [c \in Cache |-> "idle"]
  /\ snapshot = [c \in Cache |-> None]
  /\ lastStamp = [c \in Cache |-> NoStamp]
  /\ lastWrites = [c \in Cache |-> 0]
  /\ call = [c \in Cache |-> NoCall]
  /\ blurred = FALSE

-----------------------------------------------------------------------------
(* The files.                                                              *)

Resting == file.saves - file.own + index = MaxSaves  \* bound

(* Another process saves, perhaps a feed list with new feeds.              *)
ForeignSave == \E n \in {0, 1} :
  /\ ~Resting
  /\ file' = [file EXCEPT !.saves = @ + 1, !.feeds = @ + n]
  /\ mtime' = mtime + 1
  /\ blurred' = FALSE
  /\ UNCHANGED <<index, memVars, writes, mutation, pc, fields, call>>

(* `nebulous fetch` renames a new word index into place.                   *)
SwapIndex ==
  /\ ~Resting
  /\ index' = index + 1
  /\ UNCHANGED <<file, mtime, memVars, writes, mutation, pc, fields, call,
                 blurred>>

(* This process saves: the file it reloads first, and its own entry.  The  *)
(* save gives the file a new time, unless the clock has not ticked.        *)
OwnSave(feeds, titled) ==
  /\ file' = [saves |-> file.saves + 1, own |-> file.own + 1,
              feeds |-> feeds, titled |-> titled]
  /\ mtime' \in {mtime, mtime + 1} \ {0}
  /\ blurred' = (mtime' = mtime)
  /\ mem' = file'
  /\ seen' = mtime'

(* A mutation patches the cache: the save, then the counter.               *)
Write ==
  /\ ~mutation.uncounted
  /\ mutation.made < MaxWrites
  /\ mutation' = [made |-> mutation.made + 1, uncounted |-> TRUE]
  /\ OwnSave(file.feeds, file.titled)
  /\ UNCHANGED <<index, writes, pc, fields, call>>

CountWrite ==
  /\ mutation.uncounted
  /\ mutation' = [mutation EXCEPT !.uncounted = FALSE]
  /\ writes' = writes + 1
  /\ UNCHANGED <<fileVars, memVars, pc, fields, call, blurred>>

-----------------------------------------------------------------------------
(* A call of current().  c.mu lets one call of a cache run at a time.      *)

\* Mutant of LocalWrites: the counter is called though there is none.
LocalWritesNil(c) == IF c = "stories" THEN writes ELSE None

(* The feed index has no counter of local writes.                          *)
LocalWrites(c) == IF c = "stories" THEN writes ELSE 0

(* The story store uses, and watches, the word index too.                  *)
Index(c) == IF c = "stories" THEN index ELSE 0

StatManifest(c) == [mtime |-> mtime, index |-> 0]  \* mutant: index not watched

Stat(c) == [mtime |-> mtime, index |-> Index(c)]

HaveMtime(stamp) == stamp.mtime # 0

(* A call answers from the snapshot, and changes nothing, when it finds    *)
(* the count unchanged less than a second after the last check, or the     *)
(* count and the files unchanged: those calls are left out.  Any other     *)
(* builds the snapshot anew, remembering the count and the stat.           *)
Call(c) ==
  /\ pc[c] = "idle"
  /\ \/ snapshot[c] = None \/ ~HaveMtime(Stat(c))
     \/ Stat(c) # lastStamp[c] \/ LocalWrites(c) # lastWrites[c]
  /\ pc' = [pc EXCEPT ![c] = "build"]
  /\ call' = [call EXCEPT ![c].stamp = Stat(c), ![c].writes = LocalWrites(c)]
  /\ UNCHANGED <<fileVars, memVars, writes, mutation, fields, blurred>>

(* Manifest.refreshIfStale past its own debounce.                          *)
Refreshed == IF mtime # 0 /\ mtime # seen THEN <<file, mtime>> ELSE <<mem, seen>>

Refresh == mem' = Refreshed[1] /\ seen' = Refreshed[2]

(* build forces the manifest past its own debounce, reads it and opens the *)
(* index.  Of all the manifests the lookups of a long build may find, the  *)
(* first is the oldest: it stands for the snapshot.                        *)
Read(c) ==
  /\ pc[c] = "build"
  /\ c = "feeds" => Refreshed[1].feeds # 0
  /\ pc' = [pc EXCEPT ![c] = IF c = "feeds" THEN "titles" ELSE "install"]
  /\ Refresh
  /\ call' = [call EXCEPT ![c].read = mem', ![c].index = Index(c)]
  /\ UNCHANGED <<fileVars, writes, mutation, fields, blurred>>

(* A feed list that is not cached is downloaded and saved.                 *)
DownloadFeeds ==
  /\ pc["feeds"] = "build"
  /\ Refreshed[1].feeds = 0
  /\ pc' = [pc EXCEPT !["feeds"] = "titles"]
  /\ OwnSave(file.feeds + 1, file.titled)
  /\ writes' = writes + 1
  /\ call' = [call EXCEPT !["feeds"].read = mem']
  /\ UNCHANGED <<index, mutation, fields>>

(* PutSeenFeedTitles saves the registry when a title is new in it.  When   *)
(* that fails (the blob cannot be written), the build goes on all the same.*)
PutTitles ==
  /\ pc["feeds"] = "titles"
  /\ pc' = [pc EXCEPT !["feeds"] = "install"]
  /\ \/ /\ mem.titled < call["feeds"].read.feeds
        /\ OwnSave(file.feeds, call["feeds"].read.feeds)
        /\ writes' = writes + 1
     \/ UNCHANGED <<file, mtime, memVars, writes, blurred>>
  /\ UNCHANGED <<index, mutation, fields, call>>

(* A build that fails leaves the fields as they are, so that the last      *)
(* snapshot is served on and the next check tries again.                   *)
BuildFails(c) ==
  /\ pc[c] \in {"titles", "install"}
  /\ ~Resting  \* bound
  /\ pc' = [pc EXCEPT ![c] = "idle"]
  /\ call' = [call EXCEPT ![c] = NoCall]
  /\ UNCHANGED <<fileVars, memVars, writes, mutation, fields, blurred>>

\* Mutant of Install: the counter is read again after the build.
InstallLate(c) ==
  /\ pc[c] = "install"
  /\ pc' = [pc EXCEPT ![c] = "idle"]
  /\ snapshot' = [snapshot EXCEPT ![c] =
       [holds |-> call[c].read, index |-> call[c].index]]
  /\ lastStamp' = IF HaveMtime(call[c].stamp)
                  THEN [lastStamp EXCEPT ![c] = call[c].stamp] ELSE lastStamp
  /\ lastWrites' = [lastWrites EXCEPT ![c] = LocalWrites(c)]
  /\ call' = [call EXCEPT ![c] = NoCall]
  /\ UNCHANGED <<fileVars, memVars, writes, mutation, blurred>>

\* Mutant of Install: the files are stat'ed again after the build.
InstallRestat(c) ==
  /\ pc[c] = "install"
  /\ pc' = [pc EXCEPT ![c] = "idle"]
  /\ snapshot' = [snapshot EXCEPT ![c] =
       [holds |-> call[c].read, index |-> call[c].index]]
  /\ lastStamp' = [lastStamp EXCEPT ![c] = Stat(c)]
  /\ lastWrites' = [lastWrites EXCEPT ![c] = call[c].writes]
  /\ call' = [call EXCEPT ![c] = NoCall]
  /\ UNCHANGED <<fileVars, memVars, writes, mutation, blurred>>

\* Mutant of Install: the count is not remembered.
InstallUncounted(c) ==
  /\ pc[c] = "install"
  /\ pc' = [pc EXCEPT ![c] = "idle"]
  /\ snapshot' = [snapshot EXCEPT ![c] =
       [holds |-> call[c].read, index |-> call[c].index]]
  /\ lastStamp' = IF HaveMtime(call[c].stamp)
                  THEN [lastStamp EXCEPT ![c] = call[c].stamp] ELSE lastStamp
  /\ UNCHANGED lastWrites
  /\ call' = [call EXCEPT ![c] = NoCall]
  /\ UNCHANGED <<fileVars, memVars, writes, mutation, blurred>>

(* The new snapshot, with the stamp and the count read before it was built.*)
Install(c) ==
  /\ pc[c] = "install"
  /\ pc' = [pc EXCEPT ![c] = "idle"]
  /\ snapshot' = [snapshot EXCEPT ![c] =
       [holds |-> call[c].read, index |-> call[c].index]]
  /\ lastStamp' = IF HaveMtime(call[c].stamp)
                  THEN [lastStamp EXCEPT ![c] = call[c].stamp] ELSE lastStamp
  /\ lastWrites' = [lastWrites EXCEPT ![c] = call[c].writes]
  /\ call' = [call EXCEPT ![c] = NoCall]
  /\ UNCHANGED <<fileVars, memVars, writes, mutation, blurred>>

Reader(c) == Call(c) \/ Read(c) \/ Install(c)
             \/ (c = "feeds" /\ (DownloadFeeds \/ PutTitles))

Next == ForeignSave \/ SwapIndex \/ Write \/ CountWrite
        \/ \E c \in Cache : Reader(c) \/ BuildFails(c)

(* Reads keep coming, and each call gets on; a mutation counts its save.   *)
Fairness == /\ \A c \in Cache : WF_vars(Reader(c))
            /\ WF_vars(CountWrite)

Spec == Init /\ [][Next]_vars /\ Fairness

-----------------------------------------------------------------------------

Holdings == [saves : Nat, own : Nat, feeds : Nat, titled : Nat]
Stamps == [mtime : Nat, index : 0 .. MaxSaves]
Calls == [stamp : Stamps, writes : Nat, read : Holdings, index : 0 .. MaxSaves]
Snapshots == [holds : Holdings, index : 0 .. MaxSaves]

(* Every variable has its type; the process holds no more than the file.   *)
TypeOK ==
  /\ file \in Holdings /\ mtime \in Nat /\ index \in 0 .. MaxSaves
  /\ mem \in Holdings /\ seen \in Nat /\ seen <= mtime
  /\ writes \in Nat /\ mutation \in [made : 0 .. MaxWrites, uncounted : BOOLEAN]
  /\ pc \in [Cache -> {"idle", "build", "titles", "install"}]
  /\ snapshot \in [Cache -> {None} \cup Snapshots]
  /\ lastStamp \in [Cache -> Stamps]
  /\ lastWrites \in [Cache -> Nat]
  /\ call \in [Cache -> Calls]
  /\ blurred \in BOOLEAN

(* A read right after a local write sees it (nebulous#56), whatever the    *)
(* file's clock does: a snapshot holds every write it is counted to hold,  *)
(* also those that landed while another one was being built, and a call    *)
(* serves it only while the count is the current one.                      *)
LocalWritesServed ==
  \A c \in Cache : snapshot[c] # None => snapshot[c].holds.own >= lastWrites[c]

(* What c's snapshot makes of a manifest, and what a build gives now.      *)
Content(c, holds) == IF c = "stories" THEN holds ELSE holds.feeds
UpToDate(c) == /\ snapshot[c] # None
               /\ Content(c, snapshot[c].holds) = Content(c, file)
               /\ snapshot[c].index = Index(c)

(* The stat shortcut is right: a stamp that has not moved since before the *)
(* snapshot was built means that a build would give the same now.  Only    *)
(* when the last save did not move the file's time does the story store    *)
(* need the count of local writes; the feed index does well without one.   *)
ShortcutIsCurrent ==
  \A c \in Cache :
    /\ snapshot[c] # None
    /\ HaveMtime(lastStamp[c]) /\ lastStamp[c] = Stat(c)
    /\ c = "stories" /\ blurred
         => lastWrites[c] = writes /\ ~mutation.uncounted
    => UpToDate(c)

(* Once the files rest, what is served becomes what the files hold, for a  *)
(* process that lives on (README: a fetch is seen without a restart).      *)
SnapshotsCatchUp == <>[]Resting => <>[](\A c \in Cache : UpToDate(c))

(* And rebuilding comes to rest: the feed index's own saves do not make    *)
(* the two caches invalidate each other for ever.                          *)
RebuildsEnd ==
  <>[]Resting => <>[](\A c \in Cache : pc[c] = "idle")
=============================================================================
