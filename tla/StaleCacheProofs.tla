--------------------------- MODULE StaleCacheProofs ---------------------------
(***************************************************************************)
(* Proofs about StaleCache.tla for any number of saves and mutations.      *)
(***************************************************************************)
EXTENDS StaleCache, TLAPS

-----------------------------------------------------------------------------
(* The inductive invariant.                                                *)

(* The bound on the saves of others and swaps holds.                       *)
BoundInv ==
  /\ file.own <= file.saves
  /\ file.saves - file.own + index <= MaxSaves

(* Own saves are in memory, and at an unmoved time memory is the file.     *)
MemInv ==
  /\ mem.own = file.own
  /\ seen = mtime => mem = file

(* A local write is saved before it is counted.                            *)
CountInv == writes + (IF mutation.uncounted THEN 1 ELSE 0) <= file.own

(* A feed index that has been read has feeds, and the file keeps some.     *)
FeedsInv ==
  snapshot["feeds"] # None \/ pc["feeds"] \in {"titles", "install"} => file.feeds # 0

(* A stamp and a count that were taken before.                             *)
Earlier(c, stamp, count) ==
  /\ stamp.mtime <= mtime
  /\ stamp.index <= Index(c)
  /\ count <= LocalWrites(c)

(* Nothing that c can see was saved since they were taken.                 *)
Unmoved(c, stamp, count) ==
  /\ stamp.mtime = mtime
  /\ c = "stories" /\ blurred => count = writes /\ ~mutation.uncounted

(* What c has read since it took them.                                     *)
Reads(c, stamp, count, holds, opened) ==
  /\ Unmoved(c, stamp, count) => Content(c, holds) = Content(c, file)
  /\ stamp.index <= opened /\ opened <= Index(c)
  /\ count <= holds.own

CallInv(c) ==
  /\ pc[c] # "idle" =>
       /\ Earlier(c, call[c].stamp, call[c].writes)
       /\ lastStamp[c].mtime <= call[c].stamp.mtime
  /\ pc[c] \in {"idle", "build"} => call[c].index = 0
  /\ pc[c] \in {"titles", "install"} =>
       Reads(c, call[c].stamp, call[c].writes, call[c].read, call[c].index)

ShownInv(c) ==
  /\ lastStamp[c].mtime <= mtime
  /\ HaveMtime(lastStamp[c]) => Earlier(c, lastStamp[c], lastWrites[c])
  /\ snapshot[c] # None =>
       /\ lastWrites[c] <= snapshot[c].holds.own
       /\ HaveMtime(lastStamp[c]) =>
            Reads(c, lastStamp[c], lastWrites[c], snapshot[c].holds, snapshot[c].index)

IInv ==
  /\ TypeOK
  /\ BoundInv /\ MemInv /\ CountInv /\ FeedsInv
  /\ \A c \in Cache : CallInv(c) /\ ShownInv(c)

-----------------------------------------------------------------------------
(* Types.                                                                  *)

LEMMA OwnSaveType ==
  ASSUME TypeOK, BoundInv, NEW feeds \in Nat, NEW titled \in Nat, OwnSave(feeds, titled)
  PROVE  /\ file' \in Holdings /\ mtime' \in Nat /\ mem' \in Holdings
         /\ seen' \in Nat /\ seen' <= mtime' /\ blurred' \in BOOLEAN
         /\ file'.own = file.own + 1 /\ file'.saves = file.saves + 1
         /\ file'.feeds = feeds /\ mem' = file'
         /\ mtime' = mtime \/ mtime' = mtime + 1
         /\ blurred' = (mtime' = mtime)
<1>1. /\ file.saves \in Nat /\ file.own \in Nat /\ mtime \in Nat
  BY DEF TypeOK, Holdings
<1>2. /\ file' = [saves |-> file.saves + 1, own |-> file.own + 1,
                  feeds |-> feeds, titled |-> titled]
      /\ mtime' \in {mtime, mtime + 1}
      /\ blurred' = (mtime' = mtime)
      /\ mem' = file' /\ seen' = mtime'
  BY DEF OwnSave
<1>3. file' \in Holdings
  BY <1>1, <1>2 DEF Holdings
<1>4. mtime' \in Nat /\ (mtime' = mtime \/ mtime' = mtime + 1)
  BY <1>1, <1>2
<1>5. blurred' \in BOOLEAN
  BY <1>2
<1> QED
  BY <1>2, <1>3, <1>4, <1>5

LEMMA StatType ==
  ASSUME TypeOK, NEW c \in Cache
  PROVE  /\ Stat(c) \in Stamps /\ Stat(c).mtime = mtime /\ Stat(c).index = Index(c)
         /\ LocalWrites(c) \in Nat /\ Index(c) \in 0 .. MaxSaves
BY BoundsAssumption DEF TypeOK, Stat, Stamps, Index, LocalWrites

LEMMA NoCallType == NoCall \in Calls /\ NoCall.index = 0
BY BoundsAssumption DEF NoCall, Calls, NoStamp, Stamps, NoFile, Holdings

(* At an unmoved time memory is the file: a refresh always gives the file. *)
LEMMA RefreshedIsFile == ASSUME TypeOK, MemInv PROVE Refreshed = <<file, mtime>>
BY DEF Refreshed, MemInv, TypeOK

LEMMA InitHolds == Init => IInv
<1> SUFFICES ASSUME Init PROVE IInv
  OBVIOUS
<1>1. TypeOK
  <2>1. NoFile \in Holdings /\ NoStamp \in Stamps /\ 0 \in 0 .. MaxSaves /\ 0 \in 0 .. MaxWrites
    BY BoundsAssumption DEF NoFile, Holdings, NoStamp, Stamps
  <2>2. /\ snapshot \in [Cache -> {None} \cup Snapshots]
        /\ lastStamp \in [Cache -> Stamps] /\ lastWrites \in [Cache -> Nat]
        /\ pc \in [Cache -> {"idle", "build", "titles", "install"}]
        /\ call \in [Cache -> Calls]
    BY <2>1, NoCallType DEF Init
  <2>3. mutation \in [made : 0 .. MaxWrites, uncounted : BOOLEAN]
    BY <2>1 DEF Init
  <2>4. /\ file \in Holdings /\ mtime \in Nat /\ index \in 0 .. MaxSaves
        /\ mem \in Holdings /\ seen \in Nat /\ seen <= mtime
        /\ writes \in Nat
    BY <2>1 DEF Init
  <2>5. blurred \in BOOLEAN
    BY Zenon DEF Init
  <2> QED
    BY <2>2, <2>3, <2>4, <2>5 DEF TypeOK
<1>2. BoundInv /\ MemInv /\ CountInv /\ FeedsInv
  BY BoundsAssumption DEF Init, BoundInv, MemInv, CountInv, FeedsInv, NoFile, Cache
<1>3. ASSUME NEW c \in Cache PROVE CallInv(c) /\ ShownInv(c)
  BY <1>3, NoCallType DEF Init, CallInv, ShownInv, HaveMtime, NoStamp
<1> QED
  BY <1>1, <1>2, <1>3 DEF IInv

-----------------------------------------------------------------------------
(* What the steps of the world do to the files and counts.                 *)

(* A save of another process or a swap, a save of this one, a count.       *)
Foreign ==
  /\ file'.own = file.own
  /\ UNCHANGED <<mem, seen, writes, mutation>>
  /\ \/ mtime' = mtime + 1 /\ index' = index
     \/ index' = index + 1 /\ UNCHANGED <<file, mtime, blurred>>

Local ==
  /\ file'.own = file.own + 1 /\ index' = index
  /\ mtime' = mtime \/ mtime' = mtime + 1
  /\ mtime' = mtime => blurred'
  /\ mem' = file'
  /\ \/ writes' = writes + 1 /\ mutation' = mutation
     \/ writes' = writes /\ ~mutation.uncounted /\ mutation'.uncounted

Counted ==
  /\ UNCHANGED <<file, mtime, index, blurred, mem, seen>>
  /\ mutation.uncounted /\ ~mutation'.uncounted /\ writes' = writes + 1

Unchanged == UNCHANGED <<file, mtime, index, writes, mutation, blurred>>

(* A stamp, a count and what was read since stay right, whatever happens:  *)
(* a save moves the time, or is marked as blurred and counted.             *)
LEMMA ReadsStable ==
  ASSUME TypeOK, NEW c \in Cache, NEW stamp \in Stamps, NEW count \in Nat,
         NEW holds \in Holdings, NEW opened \in 0 .. MaxSaves,
         Earlier(c, stamp, count), Reads(c, stamp, count, holds, opened),
         Foreign \/ Local \/ Counted \/ Unchanged,
         c = "feeds" /\ Local => file'.feeds = file.feeds
  PROVE  Reads(c, stamp, count, holds, opened)'
<1>1. /\ mtime \in Nat /\ index \in Nat /\ writes \in Nat
      /\ stamp.mtime \in Nat /\ stamp.index \in Nat /\ opened \in Nat
  BY BoundsAssumption DEF TypeOK, Stamps
<1>2. stamp.index <= opened /\ opened <= Index(c)' /\ count <= holds.own
  BY <1>1 DEF Reads, Index, Foreign, Local, Counted, Unchanged
<1>3. ASSUME Unmoved(c, stamp, count)' PROVE Content(c, holds) = Content(c, file')
  <2>1. mtime' = mtime
    BY <1>1, <1>3 DEF Unmoved, Earlier, Foreign, Local, Counted, Unchanged
  <2>2. CASE c = "feeds"
    <3>1. file'.feeds = file.feeds
      BY <2>1, <2>2, <1>1 DEF Foreign, Local, Counted, Unchanged
    <3>2. Unmoved(c, stamp, count)
      BY <2>1, <2>2, <1>3 DEF Unmoved
    <3> QED
      BY <2>2, <3>1, <3>2 DEF Reads, Content
  <2>3. CASE c = "stories"
    <3>1. CASE Foreign \/ Unchanged
      BY <3>1, <2>1, <2>3, <1>1, <1>3 DEF Foreign, Unchanged, Unmoved, Reads, Content
    <3>2. CASE Local
      <4>1. count = writes' /\ ~mutation'.uncounted
        BY <3>2, <2>1, <2>3, <1>3 DEF Local, Unmoved
      <4> QED
        BY <4>1, <3>2, <2>3, <1>1 DEF Local, Earlier, LocalWrites
    <3>3. CASE Counted
      <4>1. ~blurred'
        BY <3>3, <2>3, <1>1, <1>3 DEF Counted, Unmoved, Earlier, LocalWrites
      <4> QED
        BY <4>1, <3>3, <2>1, <2>3, <1>3 DEF Counted, Unmoved, Reads, Content
    <3> QED
      BY <3>1, <3>2, <3>3
  <2> QED
    BY <2>2, <2>3 DEF Cache
<1> QED
  BY <1>2, <1>3 DEF Reads, Content

LEMMA EarlierStable ==
  ASSUME TypeOK, NEW c \in Cache, NEW stamp \in Stamps, NEW count \in Nat,
         Earlier(c, stamp, count), Foreign \/ Local \/ Counted \/ Unchanged
  PROVE  Earlier(c, stamp, count)'
<1>1. /\ mtime \in Nat /\ index \in Nat /\ writes \in Nat
      /\ stamp.mtime \in Nat /\ stamp.index \in Nat
  BY BoundsAssumption DEF TypeOK, Stamps
<1>2. stamp.mtime <= mtime' /\ stamp.index <= Index(c)'
  BY <1>1 DEF Earlier, Index, Foreign, Local, Counted, Unchanged
<1>3. count <= LocalWrites(c)'
  BY <1>1 DEF Earlier, LocalWrites, Foreign, Local, Counted, Unchanged
<1> QED
  BY <1>2, <1>3 DEF Earlier

LEMMA ShownStable ==
  ASSUME IInv, NEW c \in Cache, Foreign \/ Local \/ Counted \/ Unchanged,
         snapshot'[c] = snapshot[c], lastStamp'[c] = lastStamp[c],
         lastWrites'[c] = lastWrites[c],
         c = "feeds" /\ snapshot[c] # None /\ Local => file'.feeds = file.feeds
  PROVE  ShownInv(c)'
<1>1. TypeOK /\ ShownInv(c)
  BY DEF IInv
<1>2. lastStamp[c] \in Stamps /\ lastWrites[c] \in Nat /\ mtime \in Nat
  BY <1>1 DEF TypeOK
<1>3. lastStamp'[c].mtime <= mtime'
  BY <1>1, <1>2 DEF ShownInv, Stamps, Foreign, Local, Counted, Unchanged
<1>4. HaveMtime(lastStamp[c]) => Earlier(c, lastStamp[c], lastWrites[c])'
  BY <1>1, <1>2, EarlierStable DEF ShownInv, Earlier, Index, LocalWrites
<1>5. ASSUME snapshot[c] # None, HaveMtime(lastStamp[c])
      PROVE  Reads(c, lastStamp[c], lastWrites[c], snapshot[c].holds, snapshot[c].index)'
  <2>1. snapshot[c].holds \in Holdings /\ snapshot[c].index \in 0 .. MaxSaves
    BY <1>1, <1>5 DEF TypeOK, Snapshots
  <2>2. /\ Earlier(c, lastStamp[c], lastWrites[c])
        /\ Reads(c, lastStamp[c], lastWrites[c], snapshot[c].holds, snapshot[c].index)
    BY <1>1, <1>5 DEF ShownInv
  <2> QED
    BY <1>1, <1>2, <1>5, <2>1, <2>2, ReadsStable
       DEF Reads, Unmoved, Content, Index
<1> QED
  BY <1>1, <1>3, <1>4, <1>5
     DEF ShownInv, HaveMtime, Earlier, Reads, Unmoved, Content, Index, LocalWrites

LEMMA CallStable ==
  ASSUME IInv, NEW c \in Cache, Foreign \/ Local \/ Counted \/ Unchanged,
         pc'[c] = pc[c], call'[c] = call[c], lastStamp'[c] = lastStamp[c],
         c = "feeds" /\ pc[c] \in {"titles", "install"} /\ Local => file'.feeds = file.feeds
  PROVE  CallInv(c)'
<1>1. TypeOK /\ CallInv(c)
  BY DEF IInv
<1>2. /\ call[c].stamp \in Stamps /\ call[c].writes \in Nat
      /\ call[c].read \in Holdings /\ call[c].index \in 0 .. MaxSaves
  BY <1>1 DEF TypeOK, Calls
<1>3. ASSUME pc[c] # "idle" PROVE Earlier(c, call[c].stamp, call[c].writes)'
  BY <1>1, <1>2, <1>3, EarlierStable DEF CallInv, Earlier, Index, LocalWrites
<1>4. ASSUME pc[c] \in {"titles", "install"}
      PROVE  Reads(c, call[c].stamp, call[c].writes, call[c].read, call[c].index)'
  <2>1. /\ Earlier(c, call[c].stamp, call[c].writes)
        /\ Reads(c, call[c].stamp, call[c].writes, call[c].read, call[c].index)
    BY <1>1, <1>4 DEF CallInv
  <2> QED
    BY <1>1, <1>2, <1>4, <2>1, ReadsStable DEF Reads, Unmoved, Content, Index
<1> QED
  BY <1>1, <1>3, <1>4
     DEF CallInv, Earlier, Reads, Unmoved, Content, Index, LocalWrites

-----------------------------------------------------------------------------
(* The steps, one lemma each.                                              *)

LEMMA OutsideKeeps == ASSUME IInv, ForeignSave \/ SwapIndex PROVE IInv'
<1>1. TypeOK /\ BoundInv /\ file \in Holdings /\ mtime \in Nat /\ index \in Nat
  BY BoundsAssumption DEF IInv, TypeOK
<1>2. /\ UNCHANGED <<mem, seen, writes, mutation, pc, snapshot, lastStamp, lastWrites, call>>
      /\ file'.own = file.own
  BY <1>1 DEF ForeignSave, SwapIndex, memVars, fields, Holdings
<1>3. Foreign
  BY <1>1, <1>2 DEF ForeignSave, SwapIndex, Foreign
<1>4. /\ file' \in Holdings /\ mtime' \in Nat /\ index' \in 0 .. MaxSaves
      /\ BoundInv' /\ mtime' >= mtime /\ file'.feeds >= file.feeds
  <2>1. CASE ForeignSave
    <3>1. PICK n \in {0, 1} : file' = [file EXCEPT !.saves = @ + 1, !.feeds = @ + n]
      BY <2>1 DEF ForeignSave
    <3>2. file' \in Holdings /\ file'.saves = file.saves + 1 /\ file'.feeds >= file.feeds
      <4>1. /\ file.saves \in Nat /\ file.own \in Nat /\ file.feeds \in Nat
            /\ file.titled \in Nat /\ n \in Nat
        BY <1>1 DEF Holdings
      <4>2. file' = [saves |-> file.saves + 1, own |-> file.own,
                     feeds |-> file.feeds + n, titled |-> file.titled]
        BY <1>1, <3>1 DEF Holdings
      <4> QED
        BY <4>1, <4>2 DEF Holdings
    <3>3. BoundInv' /\ index' \in 0 .. MaxSaves
      BY <1>1, <1>2, <2>1, <3>2, BoundsAssumption DEF ForeignSave, Resting, BoundInv, Holdings, TypeOK
    <3> QED
      BY <1>1, <2>1, <3>2, <3>3 DEF ForeignSave
  <2>2. CASE SwapIndex
    BY <1>1, <1>2, <2>2, BoundsAssumption DEF SwapIndex, Resting, BoundInv, Holdings
  <2> QED
    BY <2>1, <2>2
<1>5. blurred' \in BOOLEAN
  BY <1>1, Zenon DEF ForeignSave, SwapIndex, TypeOK
<1>6. TypeOK'
  BY <1>1, <1>2, <1>4, <1>5 DEF TypeOK
<1>7. MemInv' /\ CountInv' /\ FeedsInv'
  <2>1. seen' = mtime' => mem' = file'
    BY <1>1, <1>2, <1>3 DEF IInv, MemInv, TypeOK, Foreign
  <2> QED
    BY <1>1, <1>2, <1>4, <2>1 DEF IInv, MemInv, CountInv, FeedsInv, Holdings
<1>8. ASSUME NEW c \in Cache PROVE CallInv(c)' /\ ShownInv(c)'
  <2>1. ~Local
    BY <1>1, <1>2 DEF Local, Holdings
  <2> QED
    BY <1>2, <1>3, <2>1, CallStable, ShownStable
<1> QED
  BY <1>4, <1>6, <1>7, <1>8 DEF IInv

LEMMA WriteKeeps == ASSUME IInv, Write PROVE IInv'
<1>1. TypeOK /\ BoundInv /\ file.feeds \in Nat /\ file.titled \in Nat
  BY DEF IInv, TypeOK, Holdings
<1>2. OwnSave(file.feeds, file.titled) /\ UNCHANGED <<index, writes, pc, fields, call>>
  BY DEF Write
<1>3. /\ file' \in Holdings /\ mtime' \in Nat /\ mem' \in Holdings
      /\ seen' \in Nat /\ seen' <= mtime' /\ blurred' \in BOOLEAN
      /\ file'.own = file.own + 1 /\ file'.saves = file.saves + 1
      /\ file'.feeds = file.feeds /\ mem' = file'
      /\ mtime' = mtime \/ mtime' = mtime + 1
      /\ blurred' = (mtime' = mtime)
  BY <1>1, <1>2, OwnSaveType
<1>4. /\ mutation' \in [made : 0 .. MaxWrites, uncounted : BOOLEAN]
      /\ ~mutation.uncounted /\ mutation'.uncounted
  BY <1>1, BoundsAssumption DEF Write, TypeOK
<1>5. TypeOK'
  BY <1>1, <1>2, <1>3, <1>4 DEF TypeOK, fields
<1>6. BoundInv' /\ MemInv' /\ CountInv' /\ FeedsInv'
  BY <1>1, <1>2, <1>3, <1>4
     DEF IInv, BoundInv, MemInv, CountInv, FeedsInv, fields, TypeOK, Holdings
<1>7. Local
  BY <1>2, <1>3, <1>4 DEF Local
<1>8. ASSUME NEW c \in Cache PROVE CallInv(c)' /\ ShownInv(c)'
  BY <1>2, <1>3, <1>7, CallStable, ShownStable DEF fields
<1> QED
  BY <1>5, <1>6, <1>8 DEF IInv

LEMMA CountKeeps == ASSUME IInv, CountWrite PROVE IInv'
<1>1. UNCHANGED <<file, mtime, index, mem, seen, pc, snapshot, lastStamp, lastWrites, call, blurred>>
  BY DEF CountWrite, fileVars, memVars, fields
<1>2. /\ mutation' \in [made : 0 .. MaxWrites, uncounted : BOOLEAN]
      /\ mutation.uncounted /\ ~mutation'.uncounted /\ writes' = writes + 1 /\ writes \in Nat
  BY DEF CountWrite, IInv, TypeOK
<1>3. Counted
  BY <1>1, <1>2 DEF Counted
<1>4. TypeOK'
  BY <1>1, <1>2 DEF IInv, TypeOK
<1>5. BoundInv' /\ MemInv' /\ CountInv' /\ FeedsInv'
  BY <1>1, <1>2 DEF IInv, BoundInv, MemInv, CountInv, FeedsInv
<1>6. ~Local
  BY <1>2 DEF Local
<1>7. ASSUME NEW c \in Cache PROVE CallInv(c)' /\ ShownInv(c)'
  BY <1>1, <1>3, <1>6, CallStable, ShownStable
<1> QED
  BY <1>4, <1>5, <1>7 DEF IInv

(* The step of one cache's call: the other's invariant is not touched.     *)
LEMMA CallBegins == ASSUME IInv, NEW c \in Cache, Call(c) PROVE IInv'
<1>1. /\ UNCHANGED <<file, mtime, index, mem, seen, writes, mutation, blurred>>
      /\ UNCHANGED <<snapshot, lastStamp, lastWrites>>
      /\ pc[c] = "idle" /\ pc' = [pc EXCEPT ![c] = "build"]
      /\ call' = [call EXCEPT ![c].stamp = Stat(c), ![c].writes = LocalWrites(c)]
  BY DEF Call, fileVars, memVars, fields
<1>2. TypeOK /\ CallInv(c) /\ ShownInv(c)
  BY DEF IInv
<1>3. /\ Stat(c) \in Stamps /\ Stat(c).mtime = mtime /\ Stat(c).index = Index(c)
      /\ LocalWrites(c) \in Nat /\ Index(c) \in 0 .. MaxSaves
  BY <1>2, StatType
<1>4. PICK l \in Calls : l = call[c]
  BY <1>2 DEF TypeOK
<1>5. call' = [call EXCEPT ![c] = [l EXCEPT !.stamp = Stat(c), !.writes = LocalWrites(c)]]
  BY <1>1, <1>2, <1>4 DEF TypeOK
<1>6. [l EXCEPT !.stamp = Stat(c), !.writes = LocalWrites(c)] \in Calls
  BY <1>3 DEF Calls
<1>7. TypeOK'
  BY <1>1, <1>2, <1>5, <1>6 DEF TypeOK
<1>8. /\ pc'[c] = "build" /\ call'[c].stamp = Stat(c) /\ call'[c].writes = LocalWrites(c)
      /\ call'[c].index = call[c].index
  BY <1>1, <1>2, <1>4, <1>5 DEF TypeOK, Calls
<1>9. BoundInv' /\ MemInv' /\ CountInv' /\ FeedsInv'
  BY <1>1, <1>2 DEF IInv, BoundInv, MemInv, CountInv, FeedsInv, TypeOK, Cache
<1>10. Unchanged /\ ~Local
  BY <1>1, <1>2 DEF Unchanged, Local, TypeOK, Holdings
<1>11. ASSUME NEW d \in Cache PROVE ShownInv(d)'
  BY <1>1, <1>10, ShownStable
<1>12. CallInv(c)'
  <2>1. Earlier(c, Stat(c), LocalWrites(c))'
    BY <1>1, <1>3, <1>2, BoundsAssumption
       DEF Earlier, Index, LocalWrites, Stat, TypeOK
  <2>2. Earlier(c, call[c].stamp, call[c].writes)'
    BY <1>1, <1>3, <1>2, <1>8, BoundsAssumption
       DEF Earlier, Index, LocalWrites, TypeOK
  <2>3. lastStamp'[c].mtime <= call'[c].stamp.mtime
    BY <1>1, <1>2, <1>3, <1>8 DEF ShownInv
  <2> QED
    BY <1>1, <1>2, <1>8, <2>2, <2>3 DEF CallInv, Earlier, Index, LocalWrites
<1>13. ASSUME NEW d \in Cache, d # c PROVE CallInv(d)'
  BY <1>1, <1>2, <1>10, <1>13, CallStable DEF TypeOK
<1> QED
  BY <1>7, <1>9, <1>11, <1>12, <1>13 DEF IInv

(* A build reads the file as it is, whatever the process's memory was.     *)
LEMMA ReadKeeps == ASSUME IInv, NEW c \in Cache, Read(c) PROVE IInv'
<1>1. TypeOK /\ CallInv(c) /\ Refreshed = <<file, mtime>>
  BY RefreshedIsFile DEF IInv
<1>2. /\ UNCHANGED <<file, mtime, index, writes, mutation, blurred>>
      /\ UNCHANGED <<snapshot, lastStamp, lastWrites>>
      /\ mem' = file /\ seen' = mtime
      /\ pc[c] = "build"
      /\ pc' = [pc EXCEPT ![c] = IF c = "feeds" THEN "titles" ELSE "install"]
      /\ call' = [call EXCEPT ![c].read = mem', ![c].index = Index(c)]
      /\ c = "feeds" => file.feeds # 0
  BY <1>1 DEF Read, Refresh, fileVars, fields
<1>3. PICK l \in Calls : l = call[c]
  BY <1>1 DEF TypeOK
<1>4. Index(c) \in 0 .. MaxSaves
  BY <1>1, StatType
<1>5. call' = [call EXCEPT ![c] = [l EXCEPT !.read = file, !.index = Index(c)]]
  BY <1>1, <1>2, <1>3 DEF TypeOK
<1>6. [l EXCEPT !.read = file, !.index = Index(c)] \in Calls
  BY <1>1, <1>4 DEF Calls, TypeOK
<1>7. TypeOK'
  <2>1. seen' <= mtime'
    BY <1>1, <1>2 DEF TypeOK
  <2>2. pc' \in [Cache -> {"idle", "build", "titles", "install"}]
    BY <1>1, <1>2 DEF TypeOK
  <2>3. call' \in [Cache -> Calls]
    BY <1>1, <1>5, <1>6 DEF TypeOK
  <2> QED
    BY <1>1, <1>2, <2>1, <2>2, <2>3 DEF TypeOK
<1>8. /\ pc'[c] \in {"titles", "install"} /\ call'[c].read = file /\ call'[c].index = Index(c)
      /\ call'[c].stamp = call[c].stamp /\ call'[c].writes = call[c].writes
  BY <1>1, <1>2, <1>3, <1>5 DEF TypeOK, Calls
<1>9. BoundInv' /\ MemInv' /\ CountInv' /\ FeedsInv'
  BY <1>1, <1>2 DEF IInv, BoundInv, MemInv, CountInv, FeedsInv, TypeOK, Cache
<1>10. Unchanged /\ ~Local
  BY <1>1, <1>2 DEF Unchanged, Local, TypeOK, Holdings
<1>11. ASSUME NEW d \in Cache PROVE ShownInv(d)'
  BY <1>2, <1>10, ShownStable
<1>12. CallInv(c)'
  <2>1. /\ Earlier(c, call[c].stamp, call[c].writes)
        /\ lastStamp[c].mtime <= call[c].stamp.mtime
    BY <1>1, <1>2 DEF CallInv
  <2>2. call[c].stamp.index <= Index(c) /\ Index(c) <= Index(c)
    BY <1>4, <2>1 DEF Earlier
  <2>3. call[c].writes <= file.own
    BY <1>1, <1>3, <2>1 DEF Earlier, LocalWrites, IInv, CountInv, TypeOK, Holdings, Calls
  <2> QED
    BY <1>2, <1>8, <2>1, <2>2, <2>3
       DEF CallInv, Earlier, Reads, Content, Index, LocalWrites
<1>13. ASSUME NEW d \in Cache, d # c PROVE CallInv(d)'
  BY <1>1, <1>2, <1>10, <1>13, CallStable DEF TypeOK
<1> QED
  BY <1>7, <1>9, <1>11, <1>12, <1>13 DEF IInv

(* The fields take what was read, and the stamp and count from before it.  *)
LEMMA InstallKeeps == ASSUME IInv, NEW c \in Cache, Install(c) PROVE IInv'
<1>1. TypeOK /\ CallInv(c) /\ ShownInv(c)
  BY DEF IInv
<1>2. /\ UNCHANGED <<file, mtime, index, mem, seen, writes, mutation, blurred>>
      /\ pc[c] = "install" /\ pc' = [pc EXCEPT ![c] = "idle"]
      /\ snapshot' = [snapshot EXCEPT ![c] =
           [holds |-> call[c].read, index |-> call[c].index]]
      /\ lastStamp' = IF HaveMtime(call[c].stamp)
                      THEN [lastStamp EXCEPT ![c] = call[c].stamp] ELSE lastStamp
      /\ lastWrites' = [lastWrites EXCEPT ![c] = call[c].writes]
      /\ call' = [call EXCEPT ![c] = NoCall]
  BY DEF Install, fileVars, memVars
<1>3. /\ call[c].stamp \in Stamps /\ call[c].writes \in Nat
      /\ call[c].read \in Holdings /\ call[c].index \in 0 .. MaxSaves
      /\ lastStamp[c] \in Stamps /\ lastStamp[c].mtime \in Nat /\ call[c].stamp.mtime \in Nat
  BY <1>1 DEF TypeOK, Calls, Stamps
<1>4. PICK new \in Snapshots : /\ new = [holds |-> call[c].read, index |-> call[c].index]
                               /\ new.holds = call[c].read /\ new.index = call[c].index
  <2>1. [holds |-> call[c].read, index |-> call[c].index] \in Snapshots
    BY <1>3 DEF Snapshots
  <2> QED
    BY <2>1
<1>5. PICK stamp \in Stamps : /\ lastStamp' = [lastStamp EXCEPT ![c] = stamp]
                              /\ stamp = IF HaveMtime(call[c].stamp) THEN call[c].stamp
                                                                     ELSE lastStamp[c]
  <2>1. CASE HaveMtime(call[c].stamp)
    BY <1>2, <1>3, <2>1
  <2>2. CASE ~HaveMtime(call[c].stamp)
    <3>1. lastStamp = [lastStamp EXCEPT ![c] = lastStamp[c]]
      BY <1>1 DEF TypeOK
    <3> QED
      BY <1>2, <1>3, <2>2, <3>1
  <2> QED
    BY <2>1, <2>2
<1>6. TypeOK'
  <2>1. /\ snapshot' \in [Cache -> {None} \cup Snapshots]
        /\ lastStamp' \in [Cache -> Stamps]
        /\ lastWrites' \in [Cache -> Nat]
    BY <1>1, <1>2, <1>3, <1>4, <1>5 DEF TypeOK
  <2>2. call' \in [Cache -> Calls]
    BY <1>1, <1>2, NoCallType DEF TypeOK
  <2>3. pc' \in [Cache -> {"idle", "build", "titles", "install"}]
    BY <1>1, <1>2 DEF TypeOK
  <2> QED
    BY <1>1, <1>2, <2>1, <2>2, <2>3 DEF TypeOK
<1>7. /\ pc'[c] = "idle" /\ call'[c] = NoCall /\ snapshot'[c] = new
      /\ lastStamp'[c] = stamp /\ lastWrites'[c] = call[c].writes
  BY <1>1, <1>2, <1>4, <1>5 DEF TypeOK
<1>8. BoundInv' /\ MemInv' /\ CountInv' /\ FeedsInv'
  BY <1>1, <1>2 DEF IInv, BoundInv, MemInv, CountInv, FeedsInv, TypeOK, Cache
<1>9. CallInv(c)'
  BY <1>7, NoCallType DEF CallInv
<1>10. ShownInv(c)'
  <2>1. /\ Earlier(c, call[c].stamp, call[c].writes)
        /\ lastStamp[c].mtime <= call[c].stamp.mtime
        /\ Reads(c, call[c].stamp, call[c].writes, call[c].read, call[c].index)
    BY <1>1, <1>2 DEF CallInv
  <2>2. stamp.mtime <= mtime
    BY <1>1, <1>5, <2>1 DEF ShownInv, Earlier
  <2>3. HaveMtime(stamp) => stamp = call[c].stamp
    BY <1>3, <1>5, <2>1 DEF HaveMtime
  <2>4. call[c].writes <= new.holds.own
    BY <1>4, <2>1 DEF Reads
  <2> QED
    BY <1>2, <1>4, <1>7, <2>1, <2>2, <2>3, <2>4
       DEF ShownInv, HaveMtime, Earlier, Reads, Unmoved, Content, Index, LocalWrites
<1>11. Unchanged /\ ~Local
  BY <1>1, <1>2 DEF Unchanged, Local, TypeOK, Holdings
<1>12. ASSUME NEW d \in Cache, d # c PROVE CallInv(d)' /\ ShownInv(d)'
  <2>1. /\ pc'[d] = pc[d] /\ call'[d] = call[d] /\ snapshot'[d] = snapshot[d]
        /\ lastStamp'[d] = lastStamp[d] /\ lastWrites'[d] = lastWrites[d]
    BY <1>1, <1>2, <1>5, <1>12 DEF TypeOK
  <2> QED
    BY <1>11, <2>1, CallStable, ShownStable
<1> QED
  BY <1>6, <1>8, <1>9, <1>10, <1>12 DEF IInv

LEMMA FailKeeps == ASSUME IInv, NEW c \in Cache, BuildFails(c) PROVE IInv'
<1>1. TypeOK
  BY DEF IInv
<1>2. /\ UNCHANGED <<file, mtime, index, mem, seen, writes, mutation, blurred>>
      /\ UNCHANGED <<snapshot, lastStamp, lastWrites>>
      /\ pc[c] \in {"titles", "install"} /\ pc' = [pc EXCEPT ![c] = "idle"]
      /\ call' = [call EXCEPT ![c] = NoCall]
  BY DEF BuildFails, fileVars, memVars, fields
<1>3. TypeOK'
  <2>1. call' \in [Cache -> Calls]
    BY <1>1, <1>2, NoCallType DEF TypeOK
  <2>2. pc' \in [Cache -> {"idle", "build", "titles", "install"}]
    BY <1>1, <1>2 DEF TypeOK
  <2> QED
    BY <1>1, <1>2, <2>1, <2>2 DEF TypeOK
<1>4. BoundInv' /\ MemInv' /\ CountInv' /\ FeedsInv'
  BY <1>1, <1>2 DEF IInv, BoundInv, MemInv, CountInv, FeedsInv, TypeOK, Cache
<1>5. Unchanged /\ ~Local
  BY <1>1, <1>2 DEF Unchanged, Local, TypeOK, Holdings
<1>6. ASSUME NEW d \in Cache PROVE ShownInv(d)'
  BY <1>2, <1>5, ShownStable
<1>7. CallInv(c)'
  <2>1. pc'[c] = "idle" /\ call'[c] = NoCall
    BY <1>1, <1>2 DEF TypeOK
  <2> QED
    BY <2>1, NoCallType DEF CallInv
<1>8. ASSUME NEW d \in Cache, d # c PROVE CallInv(d)'
  BY <1>1, <1>2, <1>5, <1>8, CallStable DEF TypeOK
<1> QED
  BY <1>3, <1>4, <1>6, <1>7, <1>8 DEF IInv

(* A list that is not there was never read: no snapshot is served from it. *)
LEMMA DownloadKeeps == ASSUME IInv, DownloadFeeds PROVE IInv'
<1>1. TypeOK /\ BoundInv /\ CallInv("feeds") /\ Refreshed = <<file, mtime>>
      /\ file.feeds \in Nat /\ file.titled \in Nat
  BY RefreshedIsFile DEF IInv, Cache, TypeOK, Holdings
<1>2. /\ OwnSave(file.feeds + 1, file.titled)
      /\ UNCHANGED <<index, mutation, snapshot, lastStamp, lastWrites>>
      /\ writes' = writes + 1 /\ file.feeds = 0
      /\ pc["feeds"] = "build" /\ pc' = [pc EXCEPT !["feeds"] = "titles"]
      /\ call' = [call EXCEPT !["feeds"].read = mem']
  BY <1>1 DEF DownloadFeeds, fields
<1>3. /\ file' \in Holdings /\ mtime' \in Nat /\ mem' \in Holdings
      /\ seen' \in Nat /\ seen' <= mtime' /\ blurred' \in BOOLEAN
      /\ file'.own = file.own + 1 /\ file'.saves = file.saves + 1
      /\ file'.feeds = file.feeds + 1 /\ mem' = file'
      /\ mtime' = mtime \/ mtime' = mtime + 1
      /\ blurred' = (mtime' = mtime)
  BY <1>1, <1>2, OwnSaveType
<1>4. PICK l \in Calls : l = call["feeds"]
  BY <1>1 DEF TypeOK, Cache
<1>5. call' = [call EXCEPT !["feeds"] = [l EXCEPT !.read = file']]
  BY <1>1, <1>2, <1>3, <1>4 DEF TypeOK
<1>6. [l EXCEPT !.read = file'] \in Calls
  BY <1>3 DEF Calls
<1>7. TypeOK'
  <2>1. call' \in [Cache -> Calls]
    BY <1>1, <1>5, <1>6 DEF TypeOK
  <2>2. pc' \in [Cache -> {"idle", "build", "titles", "install"}]
    BY <1>1, <1>2 DEF TypeOK
  <2> QED
    BY <1>1, <1>2, <1>3, <2>1, <2>2 DEF TypeOK
<1>8. /\ pc'["feeds"] = "titles" /\ call'["feeds"].read = file'
      /\ call'["feeds"].index = call["feeds"].index
      /\ call'["feeds"].stamp = call["feeds"].stamp
      /\ call'["feeds"].writes = call["feeds"].writes
  BY <1>1, <1>2, <1>4, <1>5 DEF TypeOK, Calls, Cache
<1>9. BoundInv' /\ MemInv' /\ CountInv' /\ FeedsInv'
  BY <1>1, <1>2, <1>3
     DEF IInv, BoundInv, MemInv, CountInv, FeedsInv, TypeOK, Holdings
<1>10. Local
  BY <1>2, <1>3 DEF Local
<1>11. snapshot["feeds"] = None
  BY <1>2 DEF IInv, FeedsInv
<1>12. ASSUME NEW d \in Cache PROVE ShownInv(d)'
  BY <1>2, <1>10, <1>11, ShownStable
<1>13. CallInv("stories")'
  <2>1. pc'["stories"] = pc["stories"] /\ call'["stories"] = call["stories"]
    BY <1>1, <1>2 DEF TypeOK, Cache
  <2> QED
    BY <1>2, <1>10, <2>1, CallStable DEF Cache
<1>14. CallInv("feeds")'
  <2>1. /\ Earlier("feeds", call["feeds"].stamp, call["feeds"].writes)
        /\ lastStamp["feeds"].mtime <= call["feeds"].stamp.mtime
        /\ call["feeds"].index = 0
    BY <1>1, <1>2 DEF CallInv
  <2>2. call["feeds"].stamp \in Stamps /\ call["feeds"].writes \in Nat
    BY <1>1 DEF TypeOK, Calls, Cache
  <2>3. Earlier("feeds", call["feeds"].stamp, call["feeds"].writes)'
    BY <1>1, <1>8, <1>10, <2>1, <2>2, EarlierStable DEF Cache, Earlier, Index, LocalWrites
  <2>4. /\ call["feeds"].stamp.index <= 0 /\ 0 <= 0
        /\ call["feeds"].writes <= file'.own
    BY <1>1, <1>3, <2>1, <2>2 DEF Earlier, Index, LocalWrites, Holdings, TypeOK
  <2> QED
    BY <1>2, <1>8, <2>1, <2>3, <2>4
       DEF CallInv, Earlier, Reads, Content, Index, LocalWrites
<1> QED
  BY <1>7, <1>9, <1>12, <1>13, <1>14 DEF IInv, Cache

(* Recording titles leaves the feed list as it was read.                   *)
LEMMA TitlesKeep == ASSUME IInv, PutTitles PROVE IInv'
<1>1. TypeOK /\ BoundInv /\ CallInv("feeds") /\ file.feeds \in Nat
      /\ call["feeds"] \in Calls /\ call["feeds"].read.feeds \in Nat
  BY DEF IInv, Cache, TypeOK, Holdings, Calls
<1>2. /\ UNCHANGED <<index, mutation, snapshot, lastStamp, lastWrites, call>>
      /\ pc["feeds"] = "titles" /\ pc' = [pc EXCEPT !["feeds"] = "install"]
      /\ \/ OwnSave(file.feeds, call["feeds"].read.feeds) /\ writes' = writes + 1
         \/ UNCHANGED <<file, mtime, mem, seen, writes, blurred>>
  BY DEF PutTitles, fields, memVars
<1>3. /\ file' \in Holdings /\ mtime' \in Nat /\ mem' \in Holdings
      /\ seen' \in Nat /\ seen' <= mtime' /\ blurred' \in BOOLEAN
      /\ file'.feeds = file.feeds /\ writes' \in Nat
      /\ BoundInv' /\ MemInv' /\ CountInv' /\ (Local \/ Unchanged)
  <2>1. CASE OwnSave(file.feeds, call["feeds"].read.feeds) /\ writes' = writes + 1
    <3>1. /\ file' \in Holdings /\ mtime' \in Nat /\ mem' \in Holdings
          /\ seen' \in Nat /\ seen' <= mtime' /\ blurred' \in BOOLEAN
          /\ file'.own = file.own + 1 /\ file'.saves = file.saves + 1
          /\ file'.feeds = file.feeds /\ mem' = file'
          /\ mtime' = mtime \/ mtime' = mtime + 1
          /\ blurred' = (mtime' = mtime)
      BY <1>1, <2>1, OwnSaveType
    <3>2. Local
      BY <1>2, <2>1, <3>1 DEF Local
    <3>3. BoundInv' /\ MemInv' /\ CountInv'
      BY <1>1, <1>2, <2>1, <3>1 DEF IInv, BoundInv, MemInv, CountInv, TypeOK, Holdings
    <3> QED
      BY <1>1, <2>1, <3>1, <3>2, <3>3 DEF TypeOK
  <2>2. CASE UNCHANGED <<file, mtime, mem, seen, writes, blurred>>
    <3>1. Unchanged
      BY <1>2, <2>2 DEF Unchanged
    <3>2. BoundInv' /\ MemInv' /\ CountInv'
      BY <1>2, <2>2 DEF IInv, BoundInv, MemInv, CountInv
    <3> QED
      BY <1>1, <2>2, <3>1, <3>2 DEF TypeOK
  <2> QED
    BY <1>2, <2>1, <2>2
<1>4. TypeOK'
  <2>1. pc' \in [Cache -> {"idle", "build", "titles", "install"}]
    BY <1>1, <1>2 DEF TypeOK
  <2> QED
    BY <1>1, <1>2, <1>3, <2>1 DEF TypeOK
<1>5. FeedsInv'
  BY <1>2, <1>3 DEF IInv, FeedsInv
<1>6. ASSUME NEW d \in Cache PROVE ShownInv(d)'
  BY <1>2, <1>3, ShownStable
<1>7. CallInv("stories")'
  <2>1. pc'["stories"] = pc["stories"] /\ call'["stories"] = call["stories"]
    BY <1>1, <1>2 DEF TypeOK, Cache
  <2> QED
    BY <1>2, <1>3, <2>1, CallStable DEF Cache
<1>8. CallInv("feeds")'
  <2>1. /\ Earlier("feeds", call["feeds"].stamp, call["feeds"].writes)
        /\ lastStamp["feeds"].mtime <= call["feeds"].stamp.mtime
        /\ Reads("feeds", call["feeds"].stamp, call["feeds"].writes,
                 call["feeds"].read, call["feeds"].index)
    BY <1>1, <1>2 DEF CallInv
  <2>2. /\ call["feeds"].stamp \in Stamps /\ call["feeds"].writes \in Nat
        /\ call["feeds"].read \in Holdings /\ call["feeds"].index \in 0 .. MaxSaves
    BY <1>1 DEF Calls
  <2>3. Earlier("feeds", call["feeds"].stamp, call["feeds"].writes)'
    BY <1>1, <1>2, <1>3, <2>1, <2>2, EarlierStable DEF Cache, Earlier, Index, LocalWrites
  <2>4. Reads("feeds", call["feeds"].stamp, call["feeds"].writes,
             call["feeds"].read, call["feeds"].index)'
    BY <1>1, <1>2, <1>3, <2>1, <2>2, ReadsStable DEF Cache, Reads, Unmoved, Content, Index
  <2>5. pc'["feeds"] = "install"
    BY <1>1, <1>2 DEF TypeOK, Cache
  <2> QED
    BY <1>2, <2>1, <2>3, <2>4, <2>5
       DEF CallInv, Earlier, Reads, Unmoved, Content, Index, LocalWrites
<1> QED
  BY <1>3, <1>4, <1>5, <1>6, <1>7, <1>8 DEF IInv, Cache

LEMMA StutterKeeps == ASSUME IInv, UNCHANGED vars PROVE IInv'
<1>1. /\ UNCHANGED <<file, mtime, index, mem, seen, writes, mutation, pc, blurred>>
      /\ UNCHANGED <<snapshot, lastStamp, lastWrites, call>>
  BY DEF vars
<1>2. TypeOK' /\ BoundInv' /\ MemInv' /\ CountInv' /\ FeedsInv'
  BY <1>1 DEF IInv, TypeOK, BoundInv, MemInv, CountInv, FeedsInv
<1>3. Unchanged /\ ~Local
  BY <1>1 DEF Unchanged, Local, IInv, TypeOK, Holdings
<1>4. ASSUME NEW c \in Cache PROVE CallInv(c)' /\ ShownInv(c)'
  BY <1>1, <1>3, CallStable, ShownStable
<1> QED
  BY <1>2, <1>4 DEF IInv

-----------------------------------------------------------------------------
(* The theorems.                                                           *)

LEMMA NextKeeps == IInv /\ [Next]_vars => IInv'
<1> SUFFICES ASSUME IInv, [Next]_vars PROVE IInv'
  OBVIOUS
<1>1. CASE UNCHANGED vars
  BY <1>1, StutterKeeps
<1>2. CASE ForeignSave \/ SwapIndex
  BY <1>2, OutsideKeeps
<1>3. CASE Write
  BY <1>3, WriteKeeps
<1>4. CASE CountWrite
  BY <1>4, CountKeeps
<1>5. ASSUME NEW c \in Cache, Reader(c) PROVE IInv'
  <2>1. CASE Call(c)
    BY <2>1, CallBegins
  <2>2. CASE Read(c)
    BY <2>2, ReadKeeps
  <2>3. CASE Install(c)
    BY <2>3, InstallKeeps
  <2>4. CASE DownloadFeeds
    BY <2>4, DownloadKeeps
  <2>5. CASE PutTitles
    BY <2>5, TitlesKeep
  <2> QED
    BY <1>5, <2>1, <2>2, <2>3, <2>4, <2>5 DEF Reader
<1>6. ASSUME NEW c \in Cache, BuildFails(c) PROVE IInv'
  BY <1>6, FailKeeps
<1> QED
  BY <1>1, <1>2, <1>3, <1>4, <1>5, <1>6 DEF Next

LEMMA Invariance == Spec => []IInv
BY InitHolds, NextKeeps, PTL DEF Spec

(* The caches' fields (stale_cache.go) keep their types, and the process   *)
(* never remembers a later modification time than the manifest file has.   *)
THEOREM TypeCorrect == Spec => []TypeOK
<1>1. IInv => TypeOK
  BY DEF IInv
<1> QED
  BY <1>1, Invariance, PTL

(* staleCache.current (stale_cache.go) counts its snapshot to hold only    *)
(* local writes it does hold, however mutations fall into a build: the     *)
(* count is read before the build, and a write is saved before counted.    *)
THEOREM LocalWritesAreServed == Spec => []LocalWritesServed
<1>1. IInv => LocalWritesServed
  <2> SUFFICES ASSUME IInv, NEW c \in Cache, snapshot[c] # None
               PROVE  snapshot[c].holds.own >= lastWrites[c]
    BY DEF LocalWritesServed
  <2>1. lastWrites[c] \in Nat /\ snapshot[c].holds.own \in Nat
    BY DEF IInv, TypeOK, Snapshots, Holdings
  <2> QED
    BY <2>1 DEF IInv, ShownInv
<1> QED
  BY <1>1, Invariance, PTL

(* The stat shortcut of staleCache.current never serves a snapshot that a  *)
(* build would not give again: the stamp and the count were both taken     *)
(* before the build read anything, a save that does not move the file's    *)
(* time is one of this process's and counted, and the feed index depends   *)
(* on what no such save changes once there is a list (feed_index.go).      *)
THEOREM ShortcutIsRight == Spec => []ShortcutIsCurrent
<1>1. IInv => ShortcutIsCurrent
  <2> SUFFICES ASSUME IInv, NEW c \in Cache, snapshot[c] # None,
                      HaveMtime(lastStamp[c]), lastStamp[c] = Stat(c),
                      c = "stories" /\ blurred
                        => lastWrites[c] = writes /\ ~mutation.uncounted
               PROVE  UpToDate(c)
    BY DEF ShortcutIsCurrent
  <2>1. Reads(c, lastStamp[c], lastWrites[c], snapshot[c].holds, snapshot[c].index)
    BY DEF IInv, ShownInv
  <2>2. lastStamp[c].mtime = mtime /\ lastStamp[c].index = Index(c)
    BY StatType DEF IInv
  <2>3. snapshot[c].index \in Nat /\ Index(c) \in Nat
    BY BoundsAssumption, StatType DEF IInv, TypeOK, Snapshots
  <2>4. snapshot[c].index = Index(c)
    BY <2>1, <2>2, <2>3 DEF Reads
  <2>5. Unmoved(c, lastStamp[c], lastWrites[c])
    BY <2>2 DEF Unmoved
  <2> QED
    BY <2>1, <2>4, <2>5 DEF Reads, UpToDate
<1> QED
  BY <1>1, Invariance, PTL
=============================================================================
