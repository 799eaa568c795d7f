-------------------------- MODULE StarredSyncProofs --------------------------
(***************************************************************************)
(* Proofs about StarredSync.tla for any stories, tags, changes and faults. *)
(***************************************************************************)
EXTENDS StarredSync, TLAPS

-----------------------------------------------------------------------------
(* The inductive invariant.                                                *)

(* A saved story is only put into the cache once its tags are read.        *)
ReadInv == mutation # None /\ mutation.step = "put" => mutation.tags # None

(* What the fetch holds fits the phase it is in.                           *)
FlowInv ==
  /\ got # None => /\ got.story \in todo
                   /\ pc \in {"starred", "refresh", "record", "holders"}
  /\ pc = "starred" => todo \subseteq just
  /\ pc = "record" => got # None

(* Every stamp the fetch has was NewsBlur's at some time.                  *)
StampInv(s) ==
  /\ rec[s] <= stamp[s] /\ wrec[s] <= stamp[s] /\ live[s] <= stamp[s]
  /\ stamp[s] <= second
  /\ s \in starred => stamp[s] # 0

Good(s) == copy[s] # NoCopy => copy[s] \ gone[s] = tags[s]
Held(s) == s \in starred /\ s \notin suspect \cup raced

(* A stamp that is, or is about to be, recorded vouches for the copy; so   *)
(* does phase 2's download until the stamps are read.                      *)
VouchedInv(s) ==
  Held(s) /\ \/ rec[s] = stamp[s] \/ wrec[s] = stamp[s]
             \/ pc = "starred" /\ s \in just \ todo
  => Good(s)

(* A story under way holds the account's tags, or none of the stamps at    *)
(* hand can vouch for it.                                                  *)
Coming(s) == got # None /\ got.story = s /\ s \in starred
ComingInv(s) ==
  Coming(s) =>
    IF got.fresh
    THEN /\ got.tags # NoCopy /\ got.tags \ gone[s] = tags[s]
         /\ pc = "record" => Good(s) \/ s \in suspect
    ELSE /\ s \in suspect
            \/ (rec[s] < stamp[s] /\ wrec[s] < stamp[s] /\ live[s] < stamp[s])
         /\ pc = "starred" => s \in raced

StoryInv(s) ==
  /\ tags[s] \cap gone[s] = {}
  /\ StampInv(s) /\ VouchedInv(s) /\ ComingInv(s)

IInv == TypeOK /\ ReadInv /\ FlowInv /\ \A s \in Story : StoryInv(s)

-----------------------------------------------------------------------------

LEMMA NoStampsType == NoStamps \in Stamps /\ \A s \in Story : NoStamps[s] = 0
BY BoundsAssumption DEF NoStamps, Stamps

LEMMA StoryTypes ==
  ASSUME TypeOK, NEW s \in Story
  PROVE  /\ tags[s] \in SUBSET Tag /\ gone[s] \in SUBSET Tag
         /\ stamp[s] \in Nat /\ rec[s] \in Nat /\ wrec[s] \in Nat /\ live[s] \in Nat
         /\ second \in Nat /\ copy[s] \in Copies /\ copy[s] # None
BY BoundsAssumption DEF TypeOK, Stamps

LEMMA InitHolds == Init => IInv
<1> SUFFICES ASSUME Init PROVE IInv
  OBVIOUS
<1>1. TypeOK
  <2>1. /\ copy \in [Story -> Copies] /\ \A s \in Story : copy[s] # None
        /\ tags \in [Story -> SUBSET Tag] /\ gone \in [Story -> SUBSET Tag]
    BY NoCopyAssumption DEF Init, Copies
  <2>2. rec \in Stamps /\ wrec \in Stamps /\ live \in Stamps /\ stamp \in Stamps
    BY NoStampsType DEF Init
  <2>3. full \in BOOLEAN
    BY Zenon DEF Init
  <2>4. setting \in [fullEvery : BOOLEAN, untrimmed : SUBSET Tag]
    BY SettingAssumption DEF Init
  <2> QED
    BY <2>1, <2>2, <2>3, <2>4, BoundsAssumption DEF Init, TypeOK
<1>2. ReadInv /\ FlowInv
  BY DEF Init, ReadInv, FlowInv
<1>3. ASSUME NEW s \in Story PROVE StoryInv(s)
  BY <1>3, NoStampsType
     DEF Init, StoryInv, StampInv, VouchedInv, Held, ComingInv, Coming
<1> QED
  BY <1>1, <1>2, <1>3 DEF IInv

-----------------------------------------------------------------------------
(* The account's changes.                                                  *)

LEMMA ChangeType ==
  ASSUME TypeOK, Change
  PROVE  changes' \in 0 .. MaxChanges /\ changes' = changes + 1 /\ changes \in Nat
BY BoundsAssumption DEF TypeOK, Change

(* A save gives its story a later stamp, or makes it suspect.              *)
LEMMA SaveKeeps ==
  ASSUME IInv, NEW x \in Story, NEW T \in SUBSET Tag, Save(x, T),
         UNCHANGED <<setting, faults, hashList, copy, rec, lastFull>>,
         UNCHANGED <<pc, seen, todo, just, live, wrec, full>>,
         mutation' \in {None} \cup Mutations, ReadInv'
  PROVE  IInv'
<1>1. TypeOK /\ FlowInv /\ Change
  BY DEF IInv, Save
<1>2. PICK now \in {second, second + 1} \ {0} :
        /\ second' = now
        /\ starred' = starred \cup {x}
        /\ tags' = [tags EXCEPT ![x] = T]
        /\ stamp' = [stamp EXCEPT ![x] = now]
        /\ gone' = [gone EXCEPT ![x] = {}]
        /\ suspect' = IF stamp[x] = now THEN suspect \cup {x} ELSE suspect
        /\ raced' = IF pc = "starred" /\ x \in just THEN raced \cup {x} ELSE raced
        /\ Outdates(x)
  BY DEF Save
<1>3. changes' \in 0 .. MaxChanges /\ changes' = changes + 1 /\ changes \in Nat
  BY <1>1, ChangeType
<1>4. now \in 0 .. MaxChanges /\ now \in 0 .. changes' /\ now \in Nat /\ now >= second /\ now # 0
  BY <1>1, <1>2, <1>3, BoundsAssumption DEF TypeOK
<1>5. got' \in {None} \cup Downloads
      /\ (got # None /\ got.story = x => got' # None /\ got'.story = x /\ ~got'.fresh)
      /\ (~(got # None /\ got.story = x) => got' = got)
      /\ (got = None => got' = None)
  <2>1. CASE got # None /\ got.story = x
    <3>1. PICK g \in Downloads : g = got
      BY <1>1, <2>1 DEF TypeOK
    <3>2. FALSE \in BOOLEAN
      BY Zenon
    <3>3. [g EXCEPT !.fresh = FALSE] \in Downloads
      BY <3>1, <3>2 DEF Downloads
    <3>4. got' = [g EXCEPT !.fresh = FALSE]
      BY <1>2, <2>1, <3>1 DEF Outdates
    <3> QED
      BY <2>1, <3>1, <3>3, <3>4, NoneAssumption DEF Downloads
  <2>2. CASE ~(got # None /\ got.story = x)
    BY <1>1, <1>2, <2>2 DEF Outdates, TypeOK
  <2> QED
    BY <2>1, <2>2
<1>6. TypeOK'
  <2>1. /\ tags' \in [Story -> SUBSET Tag] /\ gone' \in [Story -> SUBSET Tag]
        /\ stamp' \in Stamps
    BY <1>1, <1>2, <1>4 DEF TypeOK, Stamps
  <2>2. /\ starred' \subseteq Story /\ suspect' \subseteq Story /\ raced' \subseteq Story
        /\ second' \in 0 .. changes'
    BY <1>1, <1>2, <1>4 DEF TypeOK
  <2> QED
    BY <1>1, <1>3, <1>5, <2>1, <2>2 DEF TypeOK
<1>7. FlowInv'
  BY <1>1, <1>5 DEF FlowInv
<1>8. ASSUME NEW s \in Story, s # x PROVE StoryInv(s)'
  <2>1. /\ tags'[s] = tags[s] /\ gone'[s] = gone[s] /\ stamp'[s] = stamp[s]
        /\ s \in starred' <=> s \in starred
        /\ s \in suspect' <=> s \in suspect
        /\ s \in raced' <=> s \in raced
    BY <1>1, <1>2, <1>8 DEF TypeOK, Stamps
  <2>2. StoryInv(s) /\ stamp[s] <= second'
    BY <1>1, <1>2, <1>4, StoryTypes DEF IInv, StoryInv, StampInv
  <2>3. Coming(s)' => Coming(s) /\ got' = got
    BY <1>5, <1>8, <2>1 DEF Coming
  <2> QED
    BY <2>1, <2>2, <2>3
       DEF StoryInv, StampInv, VouchedInv, ComingInv, Held, Good
<1>9. StoryInv(x)'
  <2>1. /\ tags'[x] = T /\ gone'[x] = {} /\ stamp'[x] = now
    BY <1>1, <1>2 DEF TypeOK, Stamps
  <2>2. StampInv(x) /\ stamp[x] \in Nat /\ rec[x] \in Nat /\ wrec[x] \in Nat /\ live[x] \in Nat
        /\ second \in Nat
    BY <1>1, StoryTypes DEF IInv, StoryInv
  <2>3. /\ rec[x] <= now /\ wrec[x] <= now /\ live[x] <= now
        /\ x \in suspect' \/ (rec[x] < now /\ wrec[x] < now /\ live[x] < now)
    BY <1>2, <1>4, <2>2 DEF StampInv
  <2>4. pc = "starred" /\ x \in just => x \in raced'
    BY <1>2
  <2>5. Coming(x)' => ~got'.fresh /\ got # None /\ got.story = x
    BY <1>5 DEF Coming
  <2>6. Coming(x)' /\ pc = "starred" => x \in raced'
    BY <1>1, <2>4, <2>5 DEF FlowInv
  <2>7. VouchedInv(x)'
    BY <2>1, <2>2, <2>3, <2>4 DEF VouchedInv, Held
  <2> QED
    BY <1>2, <1>4, <2>1, <2>3, <2>5, <2>6, <2>7 DEF StoryInv, StampInv, ComingInv
<1> QED
  BY <1>6, <1>7, <1>8, <1>9 DEF IInv

LEMMA UnstarKeeps ==
  ASSUME IInv, NEW x \in Story, Unstar(x),
         UNCHANGED <<setting, faults, hashList, copy, rec, lastFull>>,
         UNCHANGED <<pc, seen, todo, just, live, wrec, full>>,
         mutation' \in {None} \cup Mutations, ReadInv'
  PROVE  IInv'
<1>1. TypeOK /\ FlowInv /\ Change
  BY DEF IInv, Unstar
<1>2. /\ starred' = starred \ {x}
      /\ tags' = [tags EXCEPT ![x] = {}] /\ gone' = [gone EXCEPT ![x] = {}]
      /\ UNCHANGED <<second, stamp, suspect, raced, got>>
  BY DEF Unstar
<1>3. changes' \in 0 .. MaxChanges /\ changes' = changes + 1 /\ changes \in Nat
  BY <1>1, ChangeType
<1>4. TypeOK'
  <2>1. tags' \in [Story -> SUBSET Tag] /\ gone' \in [Story -> SUBSET Tag]
    BY <1>1, <1>2 DEF TypeOK
  <2>2. second' \in 0 .. changes' /\ starred' \subseteq Story
    BY <1>1, <1>2, <1>3 DEF TypeOK
  <2> QED
    BY <1>1, <1>2, <1>3, <2>1, <2>2 DEF TypeOK
<1>5. FlowInv'
  BY <1>1, <1>2 DEF FlowInv
<1>6. ASSUME NEW s \in Story PROVE StoryInv(s)'
  <2>1. StoryInv(s) /\ StampInv(s)
    BY DEF IInv, StoryInv
  <2>2. CASE s = x
    BY <1>1, <1>2, <2>1, <2>2
       DEF TypeOK, StoryInv, StampInv, VouchedInv, ComingInv, Coming, Held
  <2>3. CASE s # x
    <3>1. /\ tags'[s] = tags[s] /\ gone'[s] = gone[s]
          /\ s \in starred' <=> s \in starred
      BY <1>1, <1>2, <2>3 DEF TypeOK
    <3> QED
      BY <1>2, <2>1, <3>1
         DEF StoryInv, StampInv, VouchedInv, ComingInv, Coming, Held, Good
  <2> QED
    BY <2>2, <2>3
<1> QED
  BY <1>4, <1>5, <1>6 DEF IInv

LEMMA DeleteTagKeeps == ASSUME IInv, AppDeleteTag PROVE IInv'
<1>1. TypeOK /\ FlowInv /\ Change
  BY DEF IInv, AppDeleteTag
<1>2. PICK t \in Listed :
        /\ tags' = [s \in Story |-> tags[s] \ {t}]
        /\ gone' = [s \in Story |-> gone[s] \cup (tags[s] \cap {t})]
        /\ UNCHANGED <<world, second, starred, stamp, cache, mutation, fetch, suspect, raced>>
  BY DEF AppDeleteTag
<1>3. /\ UNCHANGED <<setting, faults, second, starred, stamp, hashList, copy, rec, lastFull>>
      /\ UNCHANGED <<mutation, pc, seen, todo, just, live, wrec, full, got, suspect, raced>>
  BY <1>2 DEF world, cache, fetch
<1>4. changes' \in 0 .. MaxChanges /\ changes' = changes + 1 /\ changes \in Nat
  BY <1>1, ChangeType
<1>5. TypeOK'
  <2>1. tags' \in [Story -> SUBSET Tag] /\ gone' \in [Story -> SUBSET Tag]
    BY <1>1, <1>2, StoryTypes
  <2>2. second' \in 0 .. changes'
    BY <1>1, <1>3, <1>4 DEF TypeOK
  <2> QED
    BY <1>1, <1>3, <1>4, <2>1, <2>2 DEF TypeOK
<1>6. FlowInv' /\ ReadInv'
  BY <1>1, <1>3 DEF FlowInv, ReadInv, IInv
<1>7. ASSUME NEW s \in Story PROVE StoryInv(s)'
  <2>1. StoryInv(s)
    BY DEF IInv
  <2>2. tags'[s] = tags[s] \ {t} /\ gone'[s] = gone[s] \cup (tags[s] \cap {t})
    BY <1>2
  <2>3. tags'[s] \cap gone'[s] = {}
    BY <2>1, <2>2 DEF StoryInv
  <2>4. ASSUME NEW C, C \ gone[s] = tags[s] PROVE C \ gone'[s] = tags'[s]
    BY <2>2, <2>4
  <2>5. Good(s) => Good(s)'
    BY <1>3, <2>4 DEF Good
  <2>6. VouchedInv(s)'
    BY <1>3, <2>1, <2>5 DEF StoryInv, VouchedInv, Held
  <2>7. ComingInv(s)'
    BY <1>3, <2>1, <2>4, <2>5 DEF StoryInv, ComingInv, Coming
  <2> QED
    BY <1>3, <2>1, <2>3, <2>6, <2>7 DEF StoryInv, StampInv
<1> QED
  BY <1>5, <1>6, <1>7 DEF IInv

-----------------------------------------------------------------------------
(* The plugin's steps.                                                     *)

(* Steps that touch neither the copies nor what the fetch works on.        *)
LEMMA ListKeeps ==
  ASSUME IInv, UNCHANGED <<clock, setting, account, copy, rec, fetch, history>>,
         faults' \in 0 .. MaxFaults, hashList' \subseteq Story,
         lastFull' \in {"never", "recent", "due"},
         mutation' \in {None} \cup Mutations, ReadInv'
  PROVE  IInv'
<1>1. /\ UNCHANGED <<changes, second, setting, starred, tags, stamp, copy, rec>>
      /\ UNCHANGED <<pc, seen, todo, just, live, wrec, full, got, gone, suspect, raced>>
  BY DEF clock, account, fetch, history
<1>2. TypeOK'
  BY <1>1 DEF IInv, TypeOK
<1>3. FlowInv'
  BY <1>1 DEF IInv, FlowInv
<1>4. ASSUME NEW s \in Story PROVE StoryInv(s)'
  <2>1. StoryInv(s)
    BY DEF IInv
  <2> QED
    BY <1>1, <2>1
       DEF StoryInv, StampInv, VouchedInv, ComingInv, Coming, Held, Good
<1> QED
  BY <1>2, <1>3, <1>4 DEF IInv

LEMMA OweType ==
  ASSUME NEW s \in Story, NEW kept \in BOOLEAN, NEW T \in {None} \cup Copies,
         Owe("list", s, kept, T)
  PROVE  mutation' \in {None} \cup Mutations /\ ReadInv'
BY DEF Owe, Mutations, ReadInv

LEMMA CopyTypes == NoCopy \in Copies /\ SUBSET Tag \subseteq Copies
BY DEF Copies

LEMMA AccountKeeps == ASSUME IInv, Account \/ Mutation PROVE IInv'
<1> USE DEF world, cache, fetchButGot
<1>1. CASE AppSave
  <2>1. PICK s \in Story, T \in SUBSET Tag :
          Save(s, T) /\ UNCHANGED <<world, cache, mutation, fetchButGot>>
    BY <1>1 DEF AppSave
  <2>2. mutation' \in {None} \cup Mutations /\ ReadInv'
    BY <2>1 DEF IInv, TypeOK, ReadInv
  <2> QED
    BY <2>1, <2>2, SaveKeeps
<1>2. CASE AppUnstar
  <2>1. PICK s \in Story : Unstar(s) /\ UNCHANGED <<world, cache, mutation, fetchButGot>>
    BY <1>2 DEF AppUnstar
  <2>2. mutation' \in {None} \cup Mutations /\ ReadInv'
    BY <2>1 DEF IInv, TypeOK, ReadInv
  <2> QED
    BY <2>1, <2>2, UnstarKeeps
<1>3. CASE AppDeleteTag
  BY <1>3, DeleteTagKeeps
<1>4. CASE Star \/ SetTags \/ SaveStory
  <2>1. PICK s \in Story, T \in SUBSET Tag, U \in {None} \cup Copies :
          Save(s, T) /\ Owe("list", s, TRUE, U) /\ UNCHANGED <<world, cache, fetchButGot>>
    <3>1. starred \subseteq Story
      BY DEF IInv, TypeOK
    <3> QED
      BY <1>4, <3>1, CopyTypes DEF Star, SetTags, SaveStory
  <2>2. TRUE \in BOOLEAN
    BY Zenon
  <2>3. mutation' \in {None} \cup Mutations /\ ReadInv'
    BY <2>1, <2>2, OweType
  <2> QED
    BY <2>1, <2>3, SaveKeeps
<1>5. CASE UnstarStory
  <2>1. PICK s \in Story :
          Unstar(s) /\ Owe("list", s, FALSE, NoCopy) /\ UNCHANGED <<world, cache, fetchButGot>>
    BY <1>5 DEF UnstarStory, IInv, TypeOK
  <2>2. FALSE \in BOOLEAN
    BY Zenon
  <2>3. mutation' \in {None} \cup Mutations /\ ReadInv'
    BY <2>1, <2>2, OweType, CopyTypes
  <2> QED
    BY <2>1, <2>3, UnstarKeeps
<1> QED
  BY <1>1, <1>2, <1>3, <1>4, <1>5 DEF Account, Mutation

(* Steps of the mutation in progress that leave the copies alone.          *)
LEMMA PatchesKeep ==
  ASSUME IInv, PatchRead \/ PatchList \/ Reread \/ PatchFails \/ MutationLost
  PROVE  IInv'
<1> USE DEF world, cache
<1>1. TypeOK /\ mutation # None
  BY DEF IInv, PatchRead, PatchList, Reread, PatchFails, MutationLost
<1>2. PICK m \in Mutations : m = mutation
  BY <1>1 DEF TypeOK
<1>3. /\ m.story \in Story /\ m.kept \in BOOLEAN /\ m.tags \in {None} \cup Copies
      /\ m.list \subseteq Story /\ hashList \subseteq Story
      /\ faults \in 0 .. MaxFaults /\ lastFull \in {"never", "recent", "due"}
  BY <1>1, <1>2 DEF Mutations, TypeOK
<1>4. CASE PatchRead
  <2>1. PICK list \in SUBSET Story : mutation' = [m EXCEPT !.step = "patch", !.list = list]
    <3>1. /\ hashList \cup {m.story} \in SUBSET Story
          /\ hashList \ {m.story} \in SUBSET Story
      BY <1>3
    <3> QED
      BY <1>2, <1>4, <3>1 DEF PatchRead
  <2>2. mutation' \in Mutations /\ mutation'.step = "patch"
    BY <1>2, <2>1 DEF Mutations
  <2> QED
    BY <1>3, <1>4, <2>2, ListKeeps DEF PatchRead, ReadInv
<1>5. ASSUME ListDone PROVE mutation' \in {None} \cup Mutations /\ ReadInv'
  <2>1. /\ [m EXCEPT !.step = "tags", !.list = {}] \in Mutations
        /\ [m EXCEPT !.step = "tags", !.list = {}].step = "tags"
    BY <1>2 DEF Mutations
  <2> QED
    BY <1>2, <1>5, <2>1 DEF ListDone, ReadInv
<1>6. CASE PatchList
  <2>1. mutation' \in {None} \cup Mutations /\ ReadInv'
    BY <1>5, <1>6 DEF PatchList
  <2>2. hashList' \subseteq Story
    BY <1>2, <1>3, <1>6 DEF PatchList
  <2> QED
    BY <1>3, <1>6, <2>1, <2>2, ListKeeps DEF PatchList
<1>7. CASE Reread
  <2>1. PICK T \in SUBSET Tag : T = tags[m.story]
    BY <1>1, <1>3 DEF TypeOK
  <2>2. T \in {None} \cup Copies /\ T # None
    BY CopyTypes, NoCopyAssumption
  <2>3. /\ [m EXCEPT !.step = "put", !.tags = T] \in Mutations
        /\ [m EXCEPT !.step = "put", !.tags = T].tags = T
    BY <1>2, <2>2 DEF Mutations
  <2>4. mutation' \in {None} \cup Mutations /\ ReadInv'
    BY <1>2, <1>7, <2>1, <2>2, <2>3 DEF Reread, ReadInv
  <2> QED
    BY <1>3, <1>7, <2>4, ListKeeps DEF Reread
<1>8. CASE PatchFails \/ MutationLost
  <2>1. faults' \in 0 .. MaxFaults
    BY <1>3, <1>8, BoundsAssumption DEF PatchFails, MutationLost, Fault
  <2>2. mutation' \in {None} \cup Mutations /\ ReadInv'
    BY <1>5, <1>8 DEF PatchFails, MutationLost, ReadInv
  <2> QED
    BY <1>3, <1>8, <2>1, <2>2, ListKeeps DEF PatchFails, MutationLost
<1> QED
  BY <1>4, <1>6, <1>7, <1>8

(* A copy that gets other tags than the account's is suspect.              *)
LEMMA CopyKeeps == ASSUME IInv, PatchTags \/ PutSaved PROVE IInv'
<1>1. TypeOK /\ mutation # None
  BY DEF IInv, PatchTags, PutSaved
<1>2. PICK m \in Mutations : m = mutation
  BY <1>1 DEF TypeOK
<1>3. PICK x \in Story, T \in Copies : x = m.story /\ T = m.tags /\ T # None
  <2>1. m.story \in Story /\ m.tags \in {None} \cup Copies
    BY <1>2 DEF Mutations
  <2>2. m.tags # None
    BY <1>2 DEF PatchTags, PutSaved, IInv, ReadInv
  <2> QED
    BY <2>1, <2>2
<1>4. /\ copy' = copy \/ copy' = [copy EXCEPT ![x] = T]
      /\ suspect' = IF T = tags[x] THEN suspect ELSE suspect \cup {x}
      /\ mutation' = None
      /\ UNCHANGED <<changes, second, setting, faults, starred, tags, stamp, hashList, rec>>
      /\ UNCHANGED <<lastFull, pc, seen, todo, just, live, wrec, full, got, gone, raced>>
  BY <1>2, <1>3 DEF PatchTags, PutSaved, clock, world, account, fetch
<1>5. TypeOK'
  <2>1. copy' \in [Story -> Copies] /\ \A s \in Story : copy'[s] # None
    BY <1>1, <1>3, <1>4 DEF TypeOK
  <2>2. suspect' \subseteq Story
    BY <1>1, <1>4 DEF TypeOK
  <2> QED
    BY <1>1, <1>4, <2>1, <2>2 DEF TypeOK
<1>6. FlowInv' /\ ReadInv'
  BY <1>4 DEF IInv, FlowInv, ReadInv
<1>7. ASSUME NEW s \in Story PROVE StoryInv(s)'
  <2>1. StoryInv(s)
    BY DEF IInv
  <2>2. s \in suspect => s \in suspect'
    BY <1>4
  <2>3. Good(s) /\ s \notin suspect' => Good(s)'
    <3>1. CASE s # x
      <4>1. copy'[s] = copy[s]
        BY <1>1, <1>4, <3>1 DEF TypeOK
      <4> QED
        BY <1>4, <4>1 DEF Good
    <3>2. CASE s = x
      <4>1. copy'[x] = copy[x] \/ copy'[x] = T
        BY <1>1, <1>4 DEF TypeOK
      <4>2. s \notin suspect' => T = tags[x]
        BY <1>4, <3>2
      <4>3. T = tags[x] => T \ gone[x] = tags[x]
        BY <2>1, <3>2 DEF StoryInv
      <4> QED
        BY <1>4, <3>2, <4>1, <4>2, <4>3 DEF Good
    <3> QED
      BY <3>1, <3>2
  <2>4. VouchedInv(s)' /\ ComingInv(s)'
    BY <1>4, <2>1, <2>2, <2>3 DEF StoryInv, VouchedInv, ComingInv, Coming, Held
  <2> QED
    BY <1>4, <2>1, <2>4 DEF StoryInv, StampInv
<1> QED
  BY <1>5, <1>6, <1>7 DEF IInv

-----------------------------------------------------------------------------
(* The fetch's steps.                                                      *)

(* A run that ends saves the stamps it has, or leaves the last ones.       *)
LEMMA EndKeeps ==
  ASSUME IInv, EndRun, rec' = rec \/ rec' = wrec, faults' \in 0 .. MaxFaults,
         UNCHANGED <<clock, setting, account, hashList, copy, lastFull, mutation, history>>
  PROVE  IInv'
<1>1. /\ UNCHANGED <<changes, second, setting, starred, tags, stamp, hashList, copy>>
      /\ UNCHANGED <<lastFull, mutation, gone, suspect, raced>>
      /\ pc' = "idle" /\ seen' = {} /\ todo' = {} /\ just' = {} /\ got' = None
      /\ live' = NoStamps /\ wrec' = NoStamps /\ full' = FALSE
  BY DEF clock, account, history, EndRun
<1>2. TypeOK'
  <2>1. live' \in Stamps /\ wrec' \in Stamps
    BY <1>1, NoStampsType
  <2>2. full' \in BOOLEAN
    BY <1>1, Zenon
  <2> QED
    BY <1>1, <2>1, <2>2 DEF IInv, TypeOK
<1>3. FlowInv' /\ ReadInv'
  BY <1>1 DEF IInv, FlowInv, ReadInv
<1>4. ASSUME NEW s \in Story PROVE StoryInv(s)'
  <2>1. StoryInv(s) /\ live'[s] = 0 /\ wrec'[s] = 0 /\ stamp[s] \in Nat
    BY <1>1, NoStampsType, StoryTypes DEF IInv
  <2>2. StampInv(s)'
    BY <1>1, <2>1 DEF StoryInv, StampInv
  <2>3. VouchedInv(s)'
    BY <1>1, <2>1 DEF StoryInv, StampInv, VouchedInv, Held, Good
  <2>4. ComingInv(s)'
    BY <1>1 DEF ComingInv, Coming
  <2> QED
    BY <1>1, <2>1, <2>2, <2>3, <2>4 DEF StoryInv
<1> QED
  BY <1>2, <1>3, <1>4 DEF IInv

LEMMA ReadHashesKeeps == ASSUME IInv, ReadHashes PROVE IInv'
<1>1. /\ UNCHANGED <<changes, second, setting, faults, starred, tags, stamp, hashList>>
      /\ UNCHANGED <<copy, rec, lastFull, mutation, todo, just, live, wrec, full, got>>
      /\ UNCHANGED <<gone, suspect, raced>>
      /\ pc = "idle" /\ pc' = "list" /\ seen' = starred
  BY DEF ReadHashes, clock, world, account, cache, history
<1>2. got = None
  BY <1>1 DEF IInv, FlowInv
<1>3. TypeOK' /\ FlowInv' /\ ReadInv'
  BY <1>1, <1>2 DEF IInv, TypeOK, FlowInv, ReadInv
<1>4. ASSUME NEW s \in Story PROVE StoryInv(s)'
  <2>1. StoryInv(s)
    BY DEF IInv
  <2> QED
    BY <1>1, <1>2, <2>1
       DEF StoryInv, StampInv, VouchedInv, ComingInv, Coming, Held, Good
<1> QED
  BY <1>3, <1>4 DEF IInv

LEMMA PutHashesKeeps == ASSUME IInv, PutHashes PROVE IInv'
<1>1. /\ UNCHANGED <<changes, second, setting, faults, starred, tags, stamp>>
      /\ UNCHANGED <<copy, rec, lastFull, mutation, live, wrec, full, got>>
      /\ UNCHANGED <<gone, suspect, raced>>
      /\ pc = "list" /\ pc' = "starred" /\ hashList' = seen /\ seen' = {}
      /\ todo' = {s \in seen : copy[s] = NoCopy} /\ just' = todo'
  BY DEF PutHashes, clock, world, account, history
<1>2. got = None
  BY <1>1 DEF IInv, FlowInv
<1>3. TypeOK' /\ FlowInv' /\ ReadInv'
  BY <1>1, <1>2 DEF IInv, TypeOK, FlowInv, ReadInv
<1>4. ASSUME NEW s \in Story PROVE StoryInv(s)'
  <2>1. StoryInv(s)
    BY DEF IInv
  <2> QED
    BY <1>1, <1>2, <2>1
       DEF StoryInv, StampInv, VouchedInv, ComingInv, Coming, Held, Good
<1> QED
  BY <1>3, <1>4 DEF IInv

(* What is downloaded is what the account holds at that moment.            *)
LEMMA DownloadKeeps == ASSUME IInv, Download PROVE IInv'
<1>1. PICK x \in todo :
        /\ Downloading
        /\ got' = [story |-> x, tags |-> IF x \in starred THEN tags[x] ELSE NoCopy,
                   fresh |-> x \in starred]
  BY DEF Download
<1>2. /\ UNCHANGED <<changes, second, setting, faults, starred, tags, stamp, hashList>>
      /\ UNCHANGED <<copy, rec, lastFull, mutation, seen, todo, just, live, wrec, full>>
      /\ UNCHANGED <<pc, gone, suspect, raced>>
      /\ pc \in {"starred", "refresh", "holders"}
  BY <1>1 DEF Download, Downloading, clock, world, account, cache, fetchButGot, history
<1>3. TypeOK /\ x \in Story
  BY DEF IInv, TypeOK
<1>4. PICK T \in Copies, b \in BOOLEAN :
        /\ T = IF x \in starred THEN tags[x] ELSE NoCopy
        /\ b = (x \in starred)
  <2>1. (IF x \in starred THEN tags[x] ELSE NoCopy) \in Copies
    BY <1>3, StoryTypes, CopyTypes
  <2>2. (x \in starred) \in BOOLEAN
    OBVIOUS
  <2> QED
    BY <2>1, <2>2, Zenon
<1>5. got' = [story |-> x, tags |-> T, fresh |-> b]
  BY <1>1, <1>4
<1>6. got' \in Downloads /\ got'.story = x /\ got'.tags = T /\ got'.fresh = b
  BY <1>3, <1>5 DEF Downloads
<1>7. TypeOK'
  BY <1>2, <1>3, <1>6 DEF TypeOK
<1>8. FlowInv' /\ ReadInv'
  BY <1>2, <1>6 DEF IInv, FlowInv, ReadInv
<1>9. ASSUME NEW s \in Story PROVE StoryInv(s)'
  <2>1. StoryInv(s) /\ tags[s] \in SUBSET Tag
    BY <1>3, StoryTypes DEF IInv
  <2>2. ComingInv(s)'
    <3> SUFFICES ASSUME Coming(s)' PROVE ComingInv(s)'
      BY DEF ComingInv
    <3>1. s = x /\ s \in starred
      BY <1>2, <1>6 DEF Coming
    <3>2. got'.fresh /\ got'.tags = tags[s]
      BY <1>4, <1>6, <3>1
    <3>3. tags[s] \ gone[s] = tags[s] /\ tags[s] # NoCopy
      BY <2>1, NoCopyAssumption DEF StoryInv
    <3> QED
      BY <1>2, <3>2, <3>3 DEF ComingInv
  <2> QED
    BY <1>2, <2>1, <2>2 DEF StoryInv, StampInv, VouchedInv, Held, Good
<1> QED
  BY <1>7, <1>8, <1>9 DEF IInv

(* A downloaded story is put, or is not; the next step is the same.        *)
LEMMA StoreKeeps == ASSUME IInv, Store \/ StoreFails PROVE IInv'
<1>1. TypeOK /\ FlowInv /\ got # None /\ pc \in {"starred", "refresh", "holders"}
  BY DEF IInv, Store, StoreFails, Downloading
<1>2. /\ UNCHANGED <<changes, second, setting, starred, tags, stamp, hashList, rec>>
      /\ UNCHANGED <<lastFull, mutation, seen, just, live, wrec, full, gone>>
      /\ faults' \in 0 .. MaxFaults
  <2>1. CASE Store
    BY <1>1, <2>1 DEF Store, clock, world, account, TypeOK
  <2>2. CASE StoreFails
    <3>1. faults' \in 0 .. MaxFaults
      BY <1>1, <2>2, BoundsAssumption DEF StoreFails, Fault, TypeOK
    <3> QED
      BY <2>2, <3>1 DEF StoreFails, clock, account, cache
  <2> QED
    BY <2>1, <2>2
<1>3. PICK x \in Story, T \in Copies : x = got.story /\ T = got.tags /\ x \in todo
  BY <1>1 DEF TypeOK, Downloads, FlowInv
<1>4. T # None
  BY NoCopyAssumption DEF Copies
<1>5. \/ /\ Store
         /\ copy' = IF T = NoCopy THEN copy ELSE [copy EXCEPT ![x] = T]
         /\ suspect' = IF got.fresh THEN suspect \ {x} ELSE suspect
         /\ raced' = IF got.fresh THEN raced \ {x} ELSE raced
      \/ StoreFails /\ suspect' = suspect \cup {x} /\ UNCHANGED <<copy, raced>>
  BY <1>3 DEF Store, StoreFails, cache
<1>6. \/ pc = "refresh" /\ pc' = "record" /\ UNCHANGED <<todo, got>>
      \/ pc # "refresh" /\ pc' = pc /\ todo' = todo \ {x} /\ got' = None
  BY <1>3 DEF Store, StoreFails, Handled
<1>7. TypeOK'
  <2>1. copy' \in [Story -> Copies] /\ \A s \in Story : copy'[s] # None
    BY <1>1, <1>3, <1>4, <1>5 DEF TypeOK
  <2>2. suspect' \subseteq Story /\ raced' \subseteq Story
    BY <1>1, <1>5 DEF TypeOK
  <2>3. /\ pc' \in {"idle", "list", "starred", "refresh", "record", "counts", "holders"}
        /\ todo' \subseteq Story /\ got' \in {None} \cup Downloads
    BY <1>1, <1>6 DEF TypeOK
  <2> QED
    BY <1>1, <1>2, <2>1, <2>2, <2>3 DEF TypeOK
<1>8. FlowInv' /\ ReadInv'
  BY <1>1, <1>2, <1>6 DEF IInv, FlowInv, ReadInv
<1>9. ASSUME NEW s \in Story, s # x PROVE StoryInv(s)'
  <2>1. StoryInv(s)
    BY DEF IInv
  <2>2. /\ copy'[s] = copy[s]
        /\ s \in suspect' <=> s \in suspect
        /\ s \in raced' <=> s \in raced
        /\ s \in todo' <=> s \in todo
        /\ pc' = "starred" => pc = "starred"
    BY <1>1, <1>5, <1>6, <1>9 DEF TypeOK
  <2>3. ~Coming(s)'
    BY <1>3, <1>6, <1>9 DEF Coming
  <2> QED
    BY <1>2, <2>1, <2>2, <2>3
       DEF StoryInv, StampInv, VouchedInv, ComingInv, Held, Good
<1>10. StoryInv(x)'
  <2>1. StoryInv(x) /\ stamp[x] \in Nat /\ rec[x] \in Nat /\ wrec[x] \in Nat
    BY <1>1, StoryTypes DEF IInv
  <2>2. x \in starred => Coming(x)
    BY <1>1, <1>3 DEF Coming
  <2>3. Coming(x) /\ got.fresh => Good(x)' \/ x \in suspect'
    <3>1. CASE Store
      <4> SUFFICES ASSUME Coming(x), got.fresh PROVE Good(x)' \/ x \in suspect'
        OBVIOUS
      <4>1. T # NoCopy /\ T \ gone[x] = tags[x]
        BY <1>3, <2>1 DEF StoryInv, ComingInv
      <4>2. copy'[x] = T \/ x \in suspect'
        BY <1>1, <1>5, <4>1 DEF TypeOK
      <4> QED
        BY <1>2, <4>1, <4>2 DEF Good
    <3>2. CASE StoreFails
      BY <3>2, <1>3 DEF StoreFails
    <3> QED
      BY <3>1, <3>2
  <2>4. Coming(x) /\ ~got.fresh =>
           /\ x \in suspect' \/ (rec[x] < stamp[x] /\ wrec[x] < stamp[x] /\ live[x] < stamp[x])
           /\ pc = "starred" => x \in raced'
    BY <1>5, <2>1 DEF StoryInv, ComingInv
  <2>5. VouchedInv(x)'
    <3> SUFFICES ASSUME Held(x)', \/ rec[x] = stamp[x] \/ wrec[x] = stamp[x]
                                  \/ pc' = "starred"
                 PROVE  Good(x)'
      BY <1>2 DEF VouchedInv
    <3>1. Coming(x) /\ x \notin suspect' /\ x \notin raced'
      BY <1>2, <2>2 DEF Held
    <3>2. got.fresh
      BY <1>6, <2>1, <2>4, <3>1
    <3> QED
      BY <2>3, <3>1, <3>2
  <2>6. ComingInv(x)'
    <3> SUFFICES ASSUME Coming(x)' PROVE ComingInv(x)'
      BY DEF ComingInv
    <3>1. Coming(x) /\ got' = got /\ pc' = "record"
      BY <1>2, <1>6 DEF Coming
    <3> QED
      BY <1>2, <2>1, <2>3, <2>4, <3>1 DEF StoryInv, ComingInv
  <2> QED
    BY <1>2, <2>1, <2>5, <2>6 DEF StoryInv, StampInv
<1> QED
  BY <1>7, <1>8, <1>9, <1>10 DEF IInv

(* The stories of phase 2 are recorded with the stamps of now.             *)
LEMMA ReadStampsKeeps == ASSUME IInv, ReadStamps PROVE IInv'
<1>1. TypeOK /\ FlowInv
  BY DEF IInv
<1>2. /\ UNCHANGED <<changes, second, setting, faults, starred, tags, stamp, hashList>>
      /\ UNCHANGED <<copy, rec, lastFull, mutation, seen, got, gone, suspect, raced>>
      /\ pc = "starred" /\ todo = {} /\ pc' = "refresh" /\ just' = {}
      /\ live' = [s \in Story |-> IF s \in starred THEN stamp[s] ELSE 0]
      /\ todo' = ToFetch(live', full')
      /\ wrec' = [s \in Story |-> IF s \in just \/ live'[s] = 0 THEN live'[s] ELSE rec[s]]
  BY DEF ReadStamps, clock, world, account, cache, history
<1>3. full' \in BOOLEAN
  <2>1. PICK forceFull \in BOOLEAN : full' = (forceFull \/ lastFull # "recent")
    BY DEF ReadStamps
  <2> QED
    BY <2>1
<1>4. got = None
  BY <1>1, <1>2 DEF FlowInv
<1>5. TypeOK'
  <2>1. live' \in Stamps
    BY <1>1, <1>2, BoundsAssumption DEF TypeOK, Stamps
  <2>2. wrec' \in Stamps
    BY <1>1, <1>2, <2>1 DEF TypeOK, Stamps
  <2>3. todo' \subseteq Story
    BY <1>1, <1>2 DEF TypeOK, ToFetch
  <2> QED
    BY <1>1, <1>2, <1>3, <2>1, <2>2, <2>3 DEF TypeOK
<1>6. FlowInv' /\ ReadInv'
  BY <1>2, <1>4 DEF IInv, FlowInv, ReadInv
<1>7. ASSUME NEW s \in Story PROVE StoryInv(s)'
  <2>1. StoryInv(s) /\ stamp[s] \in Nat /\ rec[s] \in Nat
    BY <1>1, StoryTypes DEF IInv
  <2>2. live'[s] = IF s \in starred THEN stamp[s] ELSE 0
    BY <1>2
  <2>3. wrec'[s] = IF s \in just \/ live'[s] = 0 THEN live'[s] ELSE rec[s]
    BY <1>2
  <2>4. StampInv(s)'
    BY <1>2, <2>1, <2>2, <2>3 DEF StoryInv, StampInv
  <2>5. VouchedInv(s)'
    BY <1>2, <2>1, <2>2, <2>3 DEF StoryInv, StampInv, VouchedInv, Held, Good
  <2>6. ComingInv(s)'
    BY <1>2, <1>4 DEF ComingInv, Coming
  <2> QED
    BY <1>2, <2>1, <2>4, <2>5, <2>6 DEF StoryInv
<1> QED
  BY <1>5, <1>6, <1>7 DEF IInv

(* The stamp recorded was read before the story was downloaded.            *)
LEMMA RecordKeeps == ASSUME IInv, Record PROVE IInv'
<1>1. TypeOK /\ FlowInv
  BY DEF IInv
<1>2. /\ UNCHANGED <<changes, second, setting, faults, starred, tags, stamp, hashList>>
      /\ UNCHANGED <<copy, lastFull, mutation, seen, just, live, full, gone, suspect, raced>>
      /\ pc = "record" /\ pc' = "refresh" /\ got' = None
      /\ wrec' = [wrec EXCEPT ![got.story] = live[got.story]]
      /\ rec' = wrec' /\ todo' = todo \ {got.story}
  BY DEF Record, clock, world, account, history
<1>3. PICK x \in Story : x = got.story /\ got # None
  BY <1>1, <1>2 DEF TypeOK, Downloads, FlowInv
<1>4. TypeOK'
  <2>1. wrec' \in Stamps
    BY <1>1, <1>2, <1>3 DEF TypeOK, Stamps
  <2> QED
    BY <1>1, <1>2, <2>1 DEF TypeOK
<1>5. FlowInv' /\ ReadInv'
  BY <1>2 DEF IInv, FlowInv, ReadInv
<1>6. ASSUME NEW s \in Story PROVE StoryInv(s)'
  <2>1. StoryInv(s) /\ stamp[s] \in Nat /\ live[s] \in Nat
    BY <1>1, StoryTypes DEF IInv
  <2>2. /\ s # x => wrec'[s] = wrec[s]
        /\ s = x => wrec'[s] = live[s]
    BY <1>1, <1>2, <1>3 DEF TypeOK, Stamps
  <2>3. StampInv(s)'
    BY <1>2, <2>1, <2>2 DEF StoryInv, StampInv
  <2>4. VouchedInv(s)'
    <3> SUFFICES ASSUME Held(s), wrec'[s] = stamp[s] PROVE Good(s)
      BY <1>2 DEF VouchedInv, Held, Good
    <3>1. CASE s # x
      BY <2>1, <2>2, <3>1 DEF StoryInv, VouchedInv
    <3>2. CASE s = x
      BY <1>2, <1>3, <2>1, <2>2, <3>2 DEF StoryInv, ComingInv, Coming, Held
    <3> QED
      BY <3>1, <3>2
  <2>5. ComingInv(s)'
    BY <1>2 DEF ComingInv, Coming
  <2> QED
    BY <1>2, <2>1, <2>3, <2>4, <2>5 DEF StoryInv
<1> QED
  BY <1>4, <1>5, <1>6 DEF IInv

LEMMA FinishKeeps == ASSUME IInv, Finish PROVE IInv'
<1>1. TypeOK /\ FlowInv
  BY DEF IInv
<1>2. /\ UNCHANGED <<changes, second, setting, faults, starred, tags, stamp, hashList>>
      /\ UNCHANGED <<copy, mutation, seen, todo, just, got, gone, suspect, raced>>
      /\ pc = "refresh" /\ todo = {} /\ pc' = "counts" /\ rec' = wrec
      /\ lastFull' = IF full THEN "recent" ELSE lastFull
      /\ live' = NoStamps /\ wrec' = NoStamps /\ full' = FALSE
  BY DEF Finish, clock, world, account, history
<1>3. got = None
  BY <1>1, <1>2 DEF FlowInv
<1>4. TypeOK'
  <2>1. live' \in Stamps /\ wrec' \in Stamps
    BY <1>2, NoStampsType
  <2>2. full' \in BOOLEAN
    BY <1>2, Zenon
  <2> QED
    BY <1>1, <1>2, <2>1, <2>2 DEF TypeOK
<1>5. FlowInv' /\ ReadInv'
  BY <1>2, <1>3 DEF IInv, FlowInv, ReadInv
<1>6. ASSUME NEW s \in Story PROVE StoryInv(s)'
  <2>1. StoryInv(s) /\ live'[s] = 0 /\ wrec'[s] = 0 /\ stamp[s] \in Nat
    BY <1>1, <1>2, NoStampsType, StoryTypes DEF IInv
  <2>2. StampInv(s)'
    BY <1>2, <2>1 DEF StoryInv, StampInv
  <2>3. VouchedInv(s)'
    BY <1>2, <2>1 DEF StoryInv, StampInv, VouchedInv, Held, Good
  <2>4. ComingInv(s)'
    BY <1>2, <1>3 DEF ComingInv, Coming
  <2> QED
    BY <1>2, <2>1, <2>2, <2>3, <2>4 DEF StoryInv
<1> QED
  BY <1>4, <1>5, <1>6 DEF IInv

LEMMA CountTagsKeeps == ASSUME IInv, CountTags PROVE IInv'
<1>1. /\ UNCHANGED <<changes, second, setting, faults, starred, tags, stamp, hashList>>
      /\ UNCHANGED <<copy, rec, lastFull, mutation, seen, just, live, wrec, full, got>>
      /\ UNCHANGED <<gone, suspect, raced>>
      /\ pc = "counts" /\ pc' = "holders" /\ todo' \subseteq hashList
  BY DEF CountTags, clock, world, account, cache, history
<1>2. got = None
  BY <1>1 DEF IInv, FlowInv
<1>3. TypeOK' /\ FlowInv' /\ ReadInv'
  BY <1>1, <1>2 DEF IInv, TypeOK, FlowInv, ReadInv
<1>4. ASSUME NEW s \in Story PROVE StoryInv(s)'
  <2>1. StoryInv(s)
    BY DEF IInv
  <2> QED
    BY <1>1, <1>2, <2>1
       DEF StoryInv, StampInv, VouchedInv, ComingInv, Coming, Held, Good
<1> QED
  BY <1>3, <1>4 DEF IInv

-----------------------------------------------------------------------------
(* The theorems.                                                           *)

LEMMA RunEndsKeep == ASSUME IInv, Done \/ Interrupt \/ Kill PROVE IInv'
<1>1. faults' \in 0 .. MaxFaults
  BY BoundsAssumption DEF IInv, TypeOK, Done, Interrupt, Kill, Fault, world
<1>2. EndRun /\ (rec' = rec \/ rec' = wrec)
  BY DEF Done, Interrupt, Kill, cache
<1>3. UNCHANGED <<clock, setting, account, hashList, copy, lastFull, mutation, history>>
  BY DEF Done, Interrupt, Kill, cache, world
<1> QED
  BY <1>1, <1>2, <1>3, EndKeeps

LEMMA RestKeeps == ASSUME IInv, IntervalElapses \/ UNCHANGED vars PROVE IInv'
<1>1. /\ UNCHANGED <<clock, setting, account, copy, rec, fetch, history>>
      /\ UNCHANGED <<faults, hashList, mutation>>
      /\ lastFull' \in {"never", "recent", "due"}
  BY DEF IInv, TypeOK, IntervalElapses, vars, clock, world, account, fetch, history
<1>2. /\ faults' \in 0 .. MaxFaults /\ hashList' \subseteq Story
      /\ mutation' \in {None} \cup Mutations /\ ReadInv'
  BY <1>1 DEF IInv, TypeOK, ReadInv
<1> QED
  BY <1>1, <1>2, ListKeeps

LEMMA NextKeeps == IInv /\ [Next]_vars => IInv'
<1> SUFFICES ASSUME IInv, [Next]_vars PROVE IInv'
  OBVIOUS
<1>1. CASE Account \/ Mutation
  BY <1>1, AccountKeeps
<1>2. CASE PatchStep \/ PatchFails \/ MutationLost
  BY <1>2, PatchesKeep, CopyKeeps DEF PatchStep
<1>3. CASE FetchStep
  BY <1>3, ReadHashesKeeps, PutHashesKeeps, DownloadKeeps, StoreKeeps, ReadStampsKeeps,
     RecordKeeps, FinishKeeps, CountTagsKeeps, RunEndsKeep DEF FetchStep
<1>4. CASE StoreFails \/ Interrupt \/ Kill
  BY <1>4, StoreKeeps, RunEndsKeep
<1>5. CASE IntervalElapses \/ UNCHANGED vars
  BY <1>5, RestKeeps
<1> QED
  BY <1>1, <1>2, <1>3, <1>4, <1>5 DEF Next, Failure

LEMMA Invariance == Spec => []IInv
BY InitHolds, NextKeeps, PTL DEF Spec

(* The fetch, the plugin and the account keep their types; in particular   *)
(* cacheSavedStory (newsblur/save_story.go) never caches a story whose     *)
(* tags it has not read.                                                   *)
THEOREM TypeCorrect == Spec => []TypeOK
<1>1. IInv => TypeOK
  BY DEF IInv
<1> QED
  BY <1>1, Invariance, PTL

(* planRefresh (cmd/nebulous/refresh.go) may pass over a cached story      *)
(* whose recorded stamp is NewsBlur's: its copy has NewsBlur's tags, up to *)
(* tags deleted since and to the three excepted cases, whatever edits,     *)
(* patches, failures and crashes came in between.                          *)
THEOREM RecordedStampsVouch == Spec => []SyncedIsCurrent
<1>1. IInv => SyncedIsCurrent
  BY DEF IInv, StoryInv, VouchedInv, Held, Good, SyncedIsCurrent, Synced
<1> QED
  BY <1>1, Invariance, PTL
=============================================================================
