------------------------------ MODULE Manifest ------------------------------
(***************************************************************************)
(* The cache manifest (internal/0/manifest/manifest.go): a JSON file that  *)
(* maps cache keys to entries, shared by the processes of one cache        *)
(* directory (`nebulous fetch`, the MCP server, the traversal plugin).     *)
(* There is no lock between processes; inside a process m.mu serialises    *)
(* the calls, so a process runs one manifest operation at a time and its   *)
(* program counter says how far that operation has come.  Steps of         *)
(* different processes interleave between any two file accesses.           *)
(*                                                                         *)
(* A save is one rename of a complete temporary file, so the file never    *)
(* holds a partial map.  Every save gives the file a modification time it  *)
(* never had before (a save number here: the code only compares for        *)
(* equality); number 0 is the file that does not exist yet.                *)
(***************************************************************************)
EXTENDS CacheMap, Naturals

CONSTANTS Proc,      \* processes sharing the cache directory
          MaxSaves   \* bound on the number of saves of a behaviour

ASSUME MaxSavesAssumption == MaxSaves \in Nat

VARIABLES
  disk,      \* the map in the file
  mtime,     \* the file's modification time, 0 while there is no file
  pc,        \* how far p's current operation has come
  mem,       \* m.entries of p
  seen,      \* m.lastMtimeNanos of p
  recent,    \* p: time.Since(m.lastCheckedAt) < staleCheckDebounce
  edit,      \* the change p's current Record, RecordBatch or Delete makes
  stamp,     \* the modification time a refresh of p has just read
  \* History variables: no action reads them.
  changed,   \* keys other processes changed since p last read the file
  phantom,   \* keys p changed in memory by an operation whose save failed
  raced      \* p stamped its memory with the time of a file it did not read

fileVars == <<disk, mtime>>
history  == <<changed, phantom, raced>>
vars     == <<disk, mtime, pc, mem, seen, recent, edit, stamp,
              changed, phantom, raced>>

Exists == mtime # 0

NeverLoaded(p) == mem[p]  \* mutant: the reload forgotten

(* What m.load leaves in m.entries: a missing file leaves them alone.      *)
Loaded(p) == IF Exists THEN disk ELSE mem[p]

StaleOnce(p) == Exists /\ seen[p] = 0  \* mutant: only the first change is seen

(* refreshIfStale goes on to reload when the file exists (the stat works)  *)
(* and its modification time is not the one p remembers.                   *)
StaleOnDisk(p) == Exists /\ mtime # seen[p]

-----------------------------------------------------------------------------

Init ==
  /\ disk = Empty
  /\ mtime = 0
  /\ pc = [p \in Proc |-> "down"]
  /\ mem = [p \in Proc |-> Empty]
  /\ seen = [p \in Proc |-> 0]
  /\ recent = [p \in Proc |-> FALSE]
  /\ edit = [p \in Proc |-> NoEdit]
  /\ stamp = [p \in Proc |-> 0]
  /\ changed = [p \in Proc |-> {}]
  /\ phantom = [p \in Proc |-> {}]
  /\ raced = [p \in Proc |-> FALSE]

(* The stat after a load or a rename: p remembers the time the file has    *)
(* now, whoever wrote it.                                                  *)
StampNow(p) ==
  /\ seen' = [seen EXCEPT ![p] = mtime]
  /\ recent' = [recent EXCEPT ![p] = TRUE]
  /\ raced' = [raced EXCEPT ![p] = changed[p] # {}]

(* p's memory now holds what the file holds.                               *)
Synced(p) ==
  /\ changed' = [changed EXCEPT ![p] = {}]
  /\ phantom' = [phantom EXCEPT ![p] = IF Exists THEN {} ELSE @]

(* NewManifest, up to the load.                                            *)
Open(p) ==
  /\ pc[p] = "down"
  /\ pc' = [pc EXCEPT ![p] = "opened"]
  /\ mem' = [mem EXCEPT ![p] = Loaded(p)]
  /\ UNCHANGED <<fileVars, seen, recent, edit, stamp, history>>

(* NewManifest, from the stat on.                                          *)
OpenStat(p) ==
  /\ pc[p] = "opened"
  /\ pc' = [pc EXCEPT ![p] = "idle"]
  /\ StampNow(p)
  /\ UNCHANGED <<fileVars, mem, edit, stamp, changed, phantom>>

(* The debounce second since the last check has passed.                    *)
Expire(p) ==
  /\ pc[p] = "idle"
  /\ recent[p]
  /\ recent' = [recent EXCEPT ![p] = FALSE]
  /\ UNCHANGED <<fileVars, pc, mem, seen, edit, stamp, history>>

\* Mutant of Check: the new time is remembered before the reload worked.
CheckStamps(p) ==
  /\ pc[p] = "idle"
  /\ recent' = [recent EXCEPT ![p] = TRUE]
  /\ seen' = [seen EXCEPT ![p] = mtime]
  /\ IF StaleOnDisk(p)
     THEN /\ stamp' = [stamp EXCEPT ![p] = mtime]
          /\ pc' = [pc EXCEPT ![p] = "checking"]
     ELSE UNCHANGED <<stamp, pc>>
  /\ UNCHANGED <<fileVars, mem, edit, history>>

(* refreshIfStale past its debounce, up to the stat.                       *)
Check(p) ==
  /\ pc[p] = "idle"
  /\ recent' = [recent EXCEPT ![p] = TRUE]
  /\ IF StaleOnDisk(p)
     THEN /\ stamp' = [stamp EXCEPT ![p] = mtime]
          /\ pc' = [pc EXCEPT ![p] = "checking"]
     ELSE UNCHANGED <<stamp, pc>>
  /\ UNCHANGED <<fileVars, mem, seen, edit, history>>

(* Lookup and All: a call within the debounce second answers from memory   *)
(* and changes nothing, a later one checks the file.                       *)
Lookup(p) == ~recent[p] /\ Check(p)

ForceRefresh(p) == Check(p)

(* The reload of refreshIfStale, which remembers the time read before it.  *)
Refresh(p) ==
  /\ pc[p] = "checking"
  /\ pc' = [pc EXCEPT ![p] = "idle"]
  /\ mem' = [mem EXCEPT ![p] = Loaded(p)]
  /\ seen' = [seen EXCEPT ![p] = stamp[p]]
  /\ raced' = [raced EXCEPT ![p] = FALSE]
  /\ stamp' = [stamp EXCEPT ![p] = 0]
  /\ Synced(p)
  /\ UNCHANGED <<fileVars, recent, edit>>

(* The same reload failing: the last good entries stay.                    *)
RefreshFails(p) ==
  /\ pc[p] = "checking"
  /\ pc' = [pc EXCEPT ![p] = "idle"]
  /\ stamp' = [stamp EXCEPT ![p] = 0]
  /\ UNCHANGED <<fileVars, mem, seen, recent, edit, history>>

-----------------------------------------------------------------------------
(* Record, RecordBatch, Delete: reload, stat, merge, write, rename, stat.  *)

(* The reload of reloadLocked.                                             *)
Reload(p) ==
  /\ pc[p] = "idle"
  /\ pc' = [pc EXCEPT ![p] = "loaded"]
  /\ \E e \in Edit : edit' = [edit EXCEPT ![p] = e]
  /\ mem' = [mem EXCEPT ![p] = Loaded(p)]
  /\ Synced(p)
  /\ UNCHANGED <<fileVars, seen, recent, stamp, raced>>

\* Mutant of Merge: the edit alone is saved.
MergeAlone(p) ==
  /\ pc[p] = "loaded"
  /\ pc' = [pc EXCEPT ![p] = "saving"]
  /\ mem' = [mem EXCEPT ![p] = Apply(Empty, edit[p])]
  /\ StampNow(p)
  /\ UNCHANGED <<fileVars, edit, stamp, changed, phantom>>

(* The stat of reloadLocked, and the merge of the edit into m.entries.     *)
Merge(p) ==
  /\ pc[p] = "loaded"
  /\ pc' = [pc EXCEPT ![p] = "saving"]
  /\ mem' = [mem EXCEPT ![p] = Apply(@, edit[p])]
  /\ StampNow(p)
  /\ UNCHANGED <<fileVars, edit, stamp, changed, phantom>>

(* reloadLocked when its load fails: no stat, and the edit is merged into  *)
(* the entries the process happened to hold.                               *)
MergeUnread(p) ==
  /\ pc[p] = "idle"
  /\ Exists
  /\ pc' = [pc EXCEPT ![p] = "saving"]
  /\ \E e \in Edit : /\ edit' = [edit EXCEPT ![p] = e]
                     /\ mem' = [mem EXCEPT ![p] = Apply(@, e)]
  /\ UNCHANGED <<fileVars, seen, recent, stamp, history>>

(* saveLocked up to the rename, which makes p's whole map the file.        *)
Rename(p) ==
  /\ pc[p] = "saving"
  /\ mtime < MaxSaves
  /\ pc' = [pc EXCEPT ![p] = "saved"]
  /\ disk' = mem[p]
  /\ mtime' = mtime + 1
  /\ edit' = [edit EXCEPT ![p] = NoEdit]
  /\ changed' = [q \in Proc |->
                   IF q = p \/ pc[q] = "down" THEN {}
                   ELSE changed[q] \cup {k \in Key : disk[k] # mem[p][k]}]
  /\ phantom' = [phantom EXCEPT ![p] = {}]
  /\ UNCHANGED <<mem, seen, recent, stamp, raced>>

(* saveLocked after the rename.                                            *)
SavedStat(p) ==
  /\ pc[p] = "saved"
  /\ pc' = [pc EXCEPT ![p] = "idle"]
  /\ StampNow(p)
  /\ UNCHANGED <<fileVars, mem, edit, stamp, changed, phantom>>

\* Mutant of SaveFails: the failed operation is left pending.
SaveFailsPending(p) ==
  /\ pc[p] = "saving"
  /\ pc' = [pc EXCEPT ![p] = "idle"]
  /\ phantom' = [phantom EXCEPT ![p] = @ \cup DOMAIN edit[p]]
  /\ UNCHANGED <<fileVars, mem, seen, recent, edit, stamp, changed, raced>>

(* An error before the rename: the temporary file is removed and the       *)
(* caller told, but m.entries keeps the merged edit.                       *)
SaveFails(p) ==
  /\ pc[p] = "saving"
  /\ pc' = [pc EXCEPT ![p] = "idle"]
  /\ edit' = [edit EXCEPT ![p] = NoEdit]
  /\ phantom' = [phantom EXCEPT ![p] = @ \cup DOMAIN edit[p]]
  /\ UNCHANGED <<fileVars, mem, seen, recent, stamp, changed, raced>>

(* The process ends, or is killed, at any point.                           *)
Crash(p) ==
  /\ pc[p] # "down"
  /\ pc' = [pc EXCEPT ![p] = "down"]
  /\ mem' = [mem EXCEPT ![p] = Empty]
  /\ seen' = [seen EXCEPT ![p] = 0]
  /\ recent' = [recent EXCEPT ![p] = FALSE]
  /\ edit' = [edit EXCEPT ![p] = NoEdit]
  /\ stamp' = [stamp EXCEPT ![p] = 0]
  /\ changed' = [changed EXCEPT ![p] = {}]
  /\ phantom' = [phantom EXCEPT ![p] = {}]
  /\ raced' = [raced EXCEPT ![p] = FALSE]
  /\ UNCHANGED fileVars

Operation(p) ==
  \/ Open(p) \/ OpenStat(p)
  \/ Expire(p) \/ Lookup(p) \/ ForceRefresh(p) \/ Refresh(p)
  \/ Reload(p) \/ Merge(p) \/ Rename(p) \/ SavedStat(p)

Failure(p) == RefreshFails(p) \/ SaveFails(p) \/ Crash(p)

Next == \E p \in Proc : Operation(p) \/ Failure(p) \/ MergeUnread(p)

Spec == Init /\ [][Next]_vars

(* An operation that has begun runs on, time passes, and the clients of a  *)
(* running process keep asking it (a story list or a feed list is looked   *)
(* up with every call), other operations in between or not.  Reading the   *)
(* file does not fail for ever.                                            *)
Fairness ==
  \A p \in Proc :
    /\ WF_vars(OpenStat(p)) /\ WF_vars(Merge(p)) /\ WF_vars(SavedStat(p))
    /\ WF_vars(Rename(p) \/ SaveFails(p))
    /\ SF_vars(Expire(p)) /\ SF_vars(Lookup(p)) /\ SF_vars(Refresh(p))

(* The fair behaviours in which nothing fails and no process ends.         *)
HealthySpec == Init /\ [][\E p \in Proc : Operation(p)]_vars /\ Fairness

(* The behaviours in which at most one process at a time is between the    *)
(* reload and the rename of an edit, as under a file lock, no reload of an *)
(* edit fails, and none finds the file still missing in a process that     *)
(* holds the remains of a failed save.                                     *)
InEdit(p) == pc[p] \in {"loaded", "saving"}

Serialised ==
  \A p \in Proc : InEdit(p) =>
    phantom[p] = {} /\ \A q \in Proc : InEdit(q) => q = p

SerialNext == (\E p \in Proc : Operation(p) \/ Failure(p)) /\ Serialised'

SerialSpec == Init /\ [][SerialNext]_vars /\ Fairness

-----------------------------------------------------------------------------

TypeOK ==
  /\ disk \in Map
  /\ mtime \in Nat
  /\ pc \in [Proc -> {"down", "opened", "idle", "checking",
                      "loaded", "saving", "saved"}]
  /\ mem \in [Proc -> Map]
  /\ seen \in [Proc -> Nat]
  /\ recent \in [Proc -> BOOLEAN]
  /\ edit \in [Proc -> Edit \cup {NoEdit}]
  /\ stamp \in [Proc -> Nat]
  /\ changed \in [Proc -> SUBSET Key]
  /\ phantom \in [Proc -> SUBSET Key]
  /\ raced \in [Proc -> BOOLEAN]
  /\ \A p \in Proc : /\ edit[p] = NoEdit <=> pc[p] \notin {"loaded", "saving"}
                     /\ stamp[p] <= mtime /\ seen[p] <= mtime

(* Keys whose value in p's memory is p's own, not yet or never saved.      *)
Private(p) == (IF pc[p] = "saving" THEN DOMAIN edit[p] ELSE {}) \cup phantom[p]

(* A running process answers for a key with the entry the file holds,      *)
(* unless another process changed that key after the process last read the *)
(* file, or the value is one of its own whose save is under way or failed. *)
(* In particular it sees its own saves at once, whatever the debounce and  *)
(* the modification times say (Lookup, reloadLocked, saveLocked).          *)
ReadsCommitted ==
  \A p \in Proc : pc[p] # "down" =>
    \A k \in Key : mem[p][k] # disk[k] => k \in changed[p] \cup Private(p)

(* A save changes an entry nobody asked it to change only when another     *)
(* process changed that entry after the saver last read the file, which    *)
(* for a reload that worked is the window between reload and rename, or    *)
(* when the saver still carries an edit whose own save failed.             *)
SavesKeepOthers ==
  [][\A p \in Proc : Rename(p) =>
       \A k \in Key : disk'[k] # disk[k] =>
         k \in DOMAIN edit[p] \cup changed[p] \cup phantom[p]]_vars

(* When the remembered modification time is the file's, so that Lookup     *)
(* will not reload, memory and file agree, unless the time was taken from  *)
(* a file another process had put there since the load or rename it was    *)
(* meant to stamp, or an edit is left over from a failed save.             *)
StampedIsCurrent ==
  \A p \in Proc :
    pc[p] = "idle" /\ seen[p] = mtime /\ ~raced[p] /\ phantom[p] = {} =>
      mem[p] = disk

(* Changes of other processes reach a running process that keeps being     *)
(* asked, unless it stamped its memory with the time of a file it never    *)
(* read (StampedIsCurrent says when that is).                              *)
ChangesArrive ==
  \A p \in Proc :
    pc[p] = "idle" /\ changed[p] # {} /\ ~raced[p]
      ~> changed[p] = {} \/ raced[p] \/ pc[p] = "down"

(* "re-reads the manifest file if it changed on disk since it was last     *)
(* checked, picking up entries a concurrently-running process wrote after  *)
(* this Manifest was constructed or last refreshed" (refreshIfStale).      *)
AllChangesArrive ==
  \A p \in Proc :
    pc[p] = "idle" /\ changed[p] # {} ~> changed[p] = {} \/ pc[p] = "down"

(* When edits of different processes do not overlap (SerialSpec), every    *)
(* save is exactly the edit its caller asked for, applied to the map all   *)
(* processes share: the reload of each edit is enough, and a lock around   *)
(* reload and rename is all that is missing (comment of reloadLocked).     *)
Shared == INSTANCE SharedMap WITH store <- disk

ImplementsSharedMap == Shared!Spec
=============================================================================
