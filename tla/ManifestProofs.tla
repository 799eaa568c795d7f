--------------------------- MODULE ManifestProofs ---------------------------
(***************************************************************************)
(* Proofs about Manifest.tla for any number of processes, keys, entries    *)
(* and saves.                                                              *)
(***************************************************************************)
EXTENDS Manifest, TLAPS

(* What the memory of a process can differ from the file in: the inductive *)
(* core of ReadsCommitted, with the two boundary cases it needs, a process *)
(* that is down (nothing in memory) and a file that does not exist yet     *)
(* (nobody can have changed anything).                                     *)
MemoryInv ==
  /\ mtime = 0 => disk = Empty /\ \A p \in Proc : changed[p] = {}
  /\ \A p \in Proc : pc[p] = "down" =>
       mem[p] = Empty /\ changed[p] = {} /\ phantom[p] = {}
  /\ ReadsCommitted

(* A remembered time equal to the file's means that nobody saved since the *)
(* process read the file, unless the stamping was raced.                   *)
StampInv ==
  \A p \in Proc : seen[p] = mtime /\ ~raced[p] => changed[p] = {}

IInv == TypeOK /\ MemoryInv /\ StampInv

-----------------------------------------------------------------------------
(* The edits and what applying them gives.                                 *)

LEMMA EditType ==
  ASSUME NEW e \in Edit
  PROVE  /\ DOMAIN e \subseteq Key
         /\ \A k \in DOMAIN e : e[k] \in Entry \cup {Missing}
         /\ e # NoEdit
<1>1. CASE \E ks \in (SUBSET Key) \ {{}} : e \in [ks -> Entry]
  BY <1>1 DEF NoEdit
<1>2. CASE \E key \in Key : e = [k \in {key} |-> Missing]
  BY <1>2 DEF NoEdit
<1>3. \/ e \in UNION {[ks -> Entry] : ks \in (SUBSET Key) \ {{}}}
      \/ e \in {[k \in {key} |-> Missing] : key \in Key}
  BY DEF Edit
<1> QED
  BY <1>1, <1>2, <1>3

LEMMA NoEditType == DOMAIN NoEdit = {}
BY DEF NoEdit

LEMMA ApplyType ==
  ASSUME NEW m \in Map, NEW e \in Edit
  PROVE  /\ Apply(m, e) \in Map
         /\ \A k \in Key \ DOMAIN e : Apply(m, e)[k] = m[k]
BY EditType DEF Apply, Map

LEMMA EmptyType == Empty \in Map
BY DEF Empty, Map

-----------------------------------------------------------------------------

LEMMA TypeInit == Init => TypeOK
BY EmptyType DEF Init, TypeOK

LEMMA TypeNext == TypeOK /\ [Next]_vars => TypeOK'
<1> SUFFICES ASSUME TypeOK, [Next]_vars PROVE TypeOK'
  OBVIOUS
<1> USE EditType, NoEditType, ApplyType, EmptyType DEF TypeOK, StampNow, Synced, fileVars, history
<1>1. ASSUME NEW p \in Proc, Open(p) PROVE TypeOK'
  BY <1>1 DEF Open, Loaded
<1>2. ASSUME NEW p \in Proc, OpenStat(p) PROVE TypeOK'
  BY <1>2 DEF OpenStat
<1>3. ASSUME NEW p \in Proc, Expire(p) PROVE TypeOK'
  BY <1>3 DEF Expire
<1>4. ASSUME NEW p \in Proc, Check(p) PROVE TypeOK'
  <2>1. CASE StaleOnDisk(p)
    <3>1. /\ stamp' = [stamp EXCEPT ![p] = mtime]
          /\ pc' = [pc EXCEPT ![p] = "checking"]
          /\ recent' = [recent EXCEPT ![p] = TRUE]
          /\ UNCHANGED <<disk, mtime, mem, seen, edit, changed, phantom, raced>>
          /\ pc[p] = "idle"
      BY <1>4, <2>1 DEF Check
    <3> QED
      BY <3>1
  <2>2. CASE ~StaleOnDisk(p)
    BY <1>4, <2>2 DEF Check
  <2> QED
    BY <2>1, <2>2
<1>5. ASSUME NEW p \in Proc, Refresh(p) PROVE TypeOK'
  BY <1>5 DEF Refresh, Loaded
<1>6. ASSUME NEW p \in Proc, RefreshFails(p) PROVE TypeOK'
  BY <1>6 DEF RefreshFails
<1>7. ASSUME NEW p \in Proc, Reload(p) PROVE TypeOK'
  BY <1>7 DEF Reload, Loaded
<1>8. ASSUME NEW p \in Proc, Merge(p) PROVE TypeOK'
  BY <1>8 DEF Merge
<1>9. ASSUME NEW p \in Proc, MergeUnread(p) PROVE TypeOK'
  BY <1>9 DEF MergeUnread
<1>10. ASSUME NEW p \in Proc, Rename(p) PROVE TypeOK'
  BY <1>10 DEF Rename
<1>11. ASSUME NEW p \in Proc, SavedStat(p) PROVE TypeOK'
  BY <1>11 DEF SavedStat
<1>12. ASSUME NEW p \in Proc, SaveFails(p) PROVE TypeOK'
  BY <1>12 DEF SaveFails
<1>13. ASSUME NEW p \in Proc, Crash(p) PROVE TypeOK'
  BY <1>13 DEF Crash
<1>14. CASE UNCHANGED vars
  BY <1>14 DEF vars
<1> QED
  BY <1>1, <1>2, <1>3, <1>4, <1>5, <1>6, <1>7, <1>8, <1>9, <1>10, <1>11, <1>12,
     <1>13, <1>14 DEF Next, Operation, Failure, Lookup, ForceRefresh

(* The types hold in every state (TypeOK of Manifest.tla).                 *)
THEOREM TypeCorrect == Spec => []TypeOK
BY TypeInit, TypeNext, PTL DEF Spec

-----------------------------------------------------------------------------
(* Memory and file.                                                        *)

LEMMA MemoryInit == Init => MemoryInv
BY DEF Init, MemoryInv, ReadsCommitted

(* Loading brings memory and file together: what Loaded leaves in memory   *)
(* differs from the file only in keys an earlier failed save left there,   *)
(* and only while there is no file.                                        *)
LEMMA LoadedAgrees ==
  ASSUME TypeOK, MemoryInv, NEW p \in Proc, pc[p] \notin {"loaded", "saving"}
  PROVE  /\ Loaded(p) \in Map
         /\ \A k \in Key : Loaded(p)[k] # disk[k] => ~Exists /\ k \in phantom[p]
<1>1. CASE Exists
  BY <1>1 DEF Loaded, TypeOK
<1>2. CASE ~Exists
  <2>1. changed[p] = {}
    BY <1>2 DEF Exists, MemoryInv
  <2>2. pc[p] = "down" => mem[p] = disk
    BY <1>2 DEF Exists, MemoryInv
  <2> QED
    BY <1>2, <2>1, <2>2 DEF Loaded, MemoryInv, ReadsCommitted, Private, TypeOK
<1> QED
  BY <1>1, <1>2

LEMMA MemoryNext == TypeOK /\ TypeOK' /\ MemoryInv /\ [Next]_vars => MemoryInv'
<1> SUFFICES ASSUME TypeOK, TypeOK', MemoryInv, [Next]_vars PROVE MemoryInv'
  OBVIOUS
<1> USE DEF MemoryInv, ReadsCommitted, Private, StampNow, fileVars, history
<1>1. ASSUME NEW p \in Proc, Open(p) PROVE MemoryInv'
  BY <1>1, LoadedAgrees DEF Open, TypeOK
<1>2. ASSUME NEW p \in Proc, OpenStat(p) PROVE MemoryInv'
  BY <1>2 DEF OpenStat, TypeOK
<1>3. ASSUME NEW p \in Proc, Expire(p) PROVE MemoryInv'
  BY <1>3 DEF Expire, TypeOK
<1>4. ASSUME NEW p \in Proc, Check(p) PROVE MemoryInv'
  BY <1>4 DEF Check, TypeOK
<1>5. ASSUME NEW p \in Proc, Refresh(p) PROVE MemoryInv'
  BY <1>5, LoadedAgrees DEF Refresh, Synced, TypeOK
<1>6. ASSUME NEW p \in Proc, RefreshFails(p) PROVE MemoryInv'
  BY <1>6 DEF RefreshFails, TypeOK
<1>7. ASSUME NEW p \in Proc, Reload(p) PROVE MemoryInv'
  BY <1>7, LoadedAgrees DEF Reload, Synced, TypeOK
<1>8. ASSUME NEW p \in Proc, Merge(p) PROVE MemoryInv'
  BY <1>8, ApplyType DEF Merge, TypeOK
<1>9. ASSUME NEW p \in Proc, MergeUnread(p) PROVE MemoryInv'
  BY <1>9, ApplyType DEF MergeUnread, Exists, TypeOK
<1>10. ASSUME NEW p \in Proc, Rename(p) PROVE MemoryInv'
  BY <1>10 DEF Rename, TypeOK
<1>11. ASSUME NEW p \in Proc, SavedStat(p) PROVE MemoryInv'
  BY <1>11 DEF SavedStat, TypeOK
<1>12. ASSUME NEW p \in Proc, SaveFails(p) PROVE MemoryInv'
  BY <1>12 DEF SaveFails, TypeOK
<1>13. ASSUME NEW p \in Proc, Crash(p) PROVE MemoryInv'
  BY <1>13 DEF Crash, TypeOK
<1>14. CASE UNCHANGED vars
  BY <1>14 DEF vars
<1> QED
  BY <1>1, <1>2, <1>3, <1>4, <1>5, <1>6, <1>7, <1>8, <1>9, <1>10, <1>11, <1>12,
     <1>13, <1>14 DEF Next, Operation, Failure, Lookup, ForceRefresh

LEMMA StampInit == Init => StampInv
BY DEF Init, StampInv

LEMMA StampNext == TypeOK /\ TypeOK' /\ StampInv /\ [Next]_vars => StampInv'
<1> SUFFICES ASSUME TypeOK, TypeOK', StampInv, [Next]_vars PROVE StampInv'
  OBVIOUS
<1> USE DEF StampInv, StampNow, Synced, fileVars, history, TypeOK
<1>1. ASSUME NEW p \in Proc, Open(p) PROVE StampInv'
  BY <1>1 DEF Open
<1>2. ASSUME NEW p \in Proc, OpenStat(p) PROVE StampInv'
  BY <1>2 DEF OpenStat
<1>3. ASSUME NEW p \in Proc, Expire(p) PROVE StampInv'
  BY <1>3 DEF Expire
<1>4. ASSUME NEW p \in Proc, Check(p) PROVE StampInv'
  BY <1>4 DEF Check
<1>5. ASSUME NEW p \in Proc, Refresh(p) PROVE StampInv'
  BY <1>5 DEF Refresh
<1>6. ASSUME NEW p \in Proc, RefreshFails(p) PROVE StampInv'
  BY <1>6 DEF RefreshFails
<1>7. ASSUME NEW p \in Proc, Reload(p) PROVE StampInv'
  BY <1>7 DEF Reload
<1>8. ASSUME NEW p \in Proc, Merge(p) PROVE StampInv'
  BY <1>8 DEF Merge
<1>9. ASSUME NEW p \in Proc, MergeUnread(p) PROVE StampInv'
  BY <1>9 DEF MergeUnread
<1>10. ASSUME NEW p \in Proc, Rename(p) PROVE StampInv'
  <2>1. \A q \in Proc : seen'[q] # mtime'
    BY <1>10 DEF Rename
  <2> QED
    BY <2>1
<1>11. ASSUME NEW p \in Proc, SavedStat(p) PROVE StampInv'
  BY <1>11 DEF SavedStat
<1>12. ASSUME NEW p \in Proc, SaveFails(p) PROVE StampInv'
  BY <1>12 DEF SaveFails
<1>13. ASSUME NEW p \in Proc, Crash(p) PROVE StampInv'
  BY <1>13 DEF Crash
<1>14. CASE UNCHANGED vars
  BY <1>14 DEF vars
<1> QED
  BY <1>1, <1>2, <1>3, <1>4, <1>5, <1>6, <1>7, <1>8, <1>9, <1>10, <1>11, <1>12,
     <1>13, <1>14 DEF Next, Operation, Failure, Lookup, ForceRefresh

(* The inductive invariant: types, what memory and file may differ in, and *)
(* what a remembered modification time says.                               *)
THEOREM Inductive == Spec => []IInv
<1>1. Init => IInv
  BY TypeInit, MemoryInit, StampInit DEF IInv
<1>2. IInv /\ [Next]_vars => IInv'
  BY TypeNext, MemoryNext, StampNext DEF IInv
<1> QED
  BY <1>1, <1>2, PTL DEF Spec

(* A running process answers with the file's entry for every key that no   *)
(* other process changed since it read the file and that is not its own    *)
(* unsaved work (ReadsCommitted of Manifest.tla).                          *)
THEOREM AnswersCommitted == Spec => []ReadsCommitted
<1>1. IInv => ReadsCommitted
  BY DEF IInv, MemoryInv
<1> QED
  BY <1>1, Inductive, PTL

(* A remembered modification time that is the file's means the memory is   *)
(* the file's map, but for a raced stamp or the remains of a failed save   *)
(* (StampedIsCurrent of Manifest.tla): Lookup's shortcut is right.         *)
THEOREM ShortcutIsRight == Spec => []StampedIsCurrent
<1>1. IInv => StampedIsCurrent
  <2> SUFFICES ASSUME IInv, NEW p \in Proc, pc[p] = "idle", seen[p] = mtime,
                      ~raced[p], phantom[p] = {}
               PROVE  mem[p] = disk
    BY DEF StampedIsCurrent
  <2>1. changed[p] = {}
    BY DEF IInv, StampInv
  <2>2. \A k \in Key : mem[p][k] = disk[k]
    BY <2>1 DEF IInv, MemoryInv, ReadsCommitted, Private
  <2> QED
    BY <2>2 DEF IInv, TypeOK, Map
<1> QED
  BY <1>1, Inductive, PTL

(* A save reverts nobody's entry but one committed after the saver last    *)
(* read the file (SavesKeepOthers of Manifest.tla).                        *)
THEOREM LossesOnlyInWindow == Spec => SavesKeepOthers
<1>1. IInv /\ [Next]_vars =>
        [\A p \in Proc : Rename(p) =>
           \A k \in Key : disk'[k] # disk[k] =>
             k \in DOMAIN edit[p] \cup changed[p] \cup phantom[p]]_vars
  BY DEF IInv, MemoryInv, ReadsCommitted, Private, Rename
<1> QED
  BY <1>1, Inductive, PTL DEF Spec, SavesKeepOthers

-----------------------------------------------------------------------------
(* Refinement: serialised edits make the file one shared map.              *)

SerialInv ==
  /\ Serialised
  /\ \A p \in Proc : InEdit(p) =>
       /\ changed[p] = {}
       /\ pc[p] = "saving" => \A k \in DOMAIN edit[p] : mem[p][k] = edit[p][k]

LEMMA SerialInit == Init => SerialInv
BY DEF Init, SerialInv, Serialised, InEdit

LEMMA SerialStep ==
  TypeOK /\ TypeOK' /\ SerialInv /\ [SerialNext]_vars => SerialInv'
<1> SUFFICES ASSUME TypeOK, TypeOK', SerialInv, [SerialNext]_vars PROVE SerialInv'
  OBVIOUS
<1>1. Serialised'
  BY DEF SerialNext, vars, SerialInv, Serialised, InEdit
<1> DEFINE Exact(p) ==
      /\ changed[p] = {}
      /\ pc[p] = "saving" => \A k \in DOMAIN edit[p] : mem[p][k] = edit[p][k]
<1>2. ASSUME NEW p \in Proc, Operation(p) \/ Failure(p),
             NEW q \in Proc, InEdit(q)'
      PROVE  Exact(q)'
  <2> USE DEF InEdit, StampNow, Synced, fileVars, history
  <2>1. CASE Reload(p)
    BY <1>2, <2>1 DEF Reload, SerialInv, TypeOK
  <2>2. CASE Merge(p)
    BY <1>2, <2>2, EditType DEF Merge, SerialInv, TypeOK, Apply
  <2>3. CASE Rename(p)
    <3>1. InEdit(p) /\ pc'[p] = "saved" /\ \A r \in Proc : r # p => pc'[r] = pc[r]
      BY <2>3 DEF Rename, TypeOK
    <3>2. q # p /\ InEdit(q)
      BY <1>2, <3>1
    <3> QED
      BY <3>1, <3>2 DEF SerialInv, Serialised
  <2>4. CASE Open(p) \/ OpenStat(p) \/ Expire(p) \/ Check(p)
    BY <1>2, <2>4 DEF Open, OpenStat, Expire, Check, SerialInv, TypeOK
  <2>5. CASE Refresh(p) \/ RefreshFails(p) \/ SavedStat(p)
    BY <1>2, <2>5 DEF Refresh, RefreshFails, SavedStat, SerialInv, TypeOK
  <2>6. CASE SaveFails(p) \/ Crash(p)
    BY <1>2, <2>6 DEF SaveFails, Crash, SerialInv, TypeOK
  <2> QED
    BY <1>2, <2>1, <2>2, <2>3, <2>4, <2>5, <2>6
       DEF Operation, Failure, Lookup, ForceRefresh
<1>3. CASE SerialNext
  BY <1>1, <1>2, <1>3 DEF SerialNext, SerialInv
<1>4. CASE UNCHANGED vars
  BY <1>1, <1>4 DEF vars, SerialInv, InEdit
<1> QED
  BY <1>3, <1>4

(* A rename under SerialInv commits its own edit and nothing else.         *)
LEMMA RenameCommits ==
  ASSUME TypeOK, MemoryInv, SerialInv, NEW p \in Proc, Rename(p)
  PROVE  Shared!Commit(edit[p]) /\ edit[p] \in Edit
<1>1. InEdit(p) /\ changed[p] = {} /\ phantom[p] = {}
  BY DEF Rename, InEdit, SerialInv, Serialised
<1>2. edit[p] \in Edit
  BY DEF Rename, TypeOK
<1>3. \A k \in Key : mem[p][k] = Apply(disk, edit[p])[k]
  BY <1>1, <1>2 DEF Rename, MemoryInv, ReadsCommitted, Private, SerialInv, Apply
<1>4. mem[p] = Apply(disk, edit[p])
  BY <1>2, <1>3, ApplyType DEF TypeOK, Map
<1> QED
  BY <1>2, <1>4 DEF Rename, Shared!Commit, Shared!Apply, Apply

LEMMA StepRefines ==
  TypeOK /\ MemoryInv /\ SerialInv /\ [SerialNext]_vars => [Shared!Next]_disk
<1> SUFFICES ASSUME TypeOK, MemoryInv, SerialInv, [SerialNext]_vars
             PROVE  [Shared!Next]_disk
  OBVIOUS
<1>1. ASSUME NEW p \in Proc, Rename(p) PROVE Shared!Next
  BY <1>1, RenameCommits DEF Shared!Next, Shared!Edit, Edit
<1>2. ASSUME NEW p \in Proc, Operation(p) \/ Failure(p), ~Rename(p)
      PROVE  UNCHANGED disk
  BY <1>2 DEF Operation, Failure, Open, OpenStat, Expire, Lookup, ForceRefresh,
       Check, Refresh, Reload, Merge, SavedStat, RefreshFails, SaveFails, Crash,
       fileVars
<1>3. UNCHANGED vars => UNCHANGED disk
  BY DEF vars
<1> QED
  BY <1>1, <1>2, <1>3 DEF SerialNext

(* Edits that do not overlap in time make the file the shared map of       *)
(* SharedMap.tla: every save is its caller's edit of the common map, none  *)
(* is lost (ImplementsSharedMap of Manifest.tla).                          *)
THEOREM SerialRefinement == SerialSpec => ImplementsSharedMap
<1>1. Init => Shared!Init
  BY DEF Init, Shared!Init, Shared!Empty, Empty
<1>2. [SerialNext]_vars => [Next]_vars
  BY DEF SerialNext, Next
<1>3. Init => IInv /\ SerialInv
  BY TypeInit, MemoryInit, StampInit, SerialInit DEF IInv
<1>4. (IInv /\ SerialInv) /\ [SerialNext]_vars => (IInv /\ SerialInv)'
  BY <1>2, TypeNext, MemoryNext, StampNext, SerialStep DEF IInv
<1>5. (IInv /\ SerialInv) /\ [SerialNext]_vars => [Shared!Next]_disk
  BY StepRefines DEF IInv
<1> QED
  BY <1>1, <1>3, <1>4, <1>5, PTL DEF SerialSpec, ImplementsSharedMap, Shared!Spec
=============================================================================
