---------------------------- MODULE MutationsProofs ----------------------------
(***************************************************************************)
(* What the plugin's mutations promise (Mutations.tla), for every value of *)
(* the constants: whatever the requests, the other parties and the faults. *)
(***************************************************************************)
EXTENDS Mutations, TraversalProofs

(* The calls that only read, the writes that one of those decides on, and  *)
(* the writes that a patch of the cache follows.                           *)
LiveReads == {"liveTags", "liveCounts"}
Decided   == {"editTags", "renameTag", "deleteTag"}
Patching  == {"markRead", "replaceTags", "star", "save", "unstar"} \cup Decided

(* What the request asked for, where the call is one of its plan.          *)
Asked(op, call) ==
  \/ op.kind = "createStory" /\ call = "star"
  \/ op.kind = "saveStory" /\ call = "save"
  \/ op.kind = "deleteStory" /\ call = "unstar"
  \/ op.kind = "patchStory" /\ call = "markRead" /\ op.read # None
  \/ op.kind = "patchStory" /\ call = "replaceTags" /\ op.set # None /\ op.force
  \/ op.kind = "patchStory" /\ call \in {"liveTags", "editTags"} /\ Editing(op)
  \/ op.kind = "renameTag" /\ call \in {"liveCounts", "renameTag"} /\ op.name # op.tag
  \/ op.kind = "deleteTag" /\ call \in {"liveCounts", "deleteTag"}
  \/ op.kind = "patchFolder" /\ call = "renameFolder" /\ op.name # None
  \/ op.kind = "patchFolder" /\ call = "moveFolder" /\ op.to # None
  \/ op.kind = "patchFeed" /\ call = "renameFeed" /\ op.name # None
  \/ op.kind = "patchFeed" /\ call = "moveFeed" /\ op.to # None
  \/ op.kind \in {"createFolder", "deleteFolder", "subscribe", "deleteFeed"} /\ call = op.kind

(* A rest of a request's plan: a live read comes right before its write.   *)
Plan(op, todo) ==
  /\ \A i \in 1 .. Len(todo) : Asked(op, todo[i])
  /\ \A i \in 1 .. Len(todo) : todo[i] \in LiveReads => i + 1 <= Len(todo)
  /\ \A i \in 1 .. Len(todo) : i > 1 /\ todo[i] \in Decided => todo[i - 1] \in LiveReads

(* A request that waits for mutateMu or holds it.                          *)
Planned(q) ==
  /\ q.op \in Operations /\ Len(q.todo) > 0 /\ Plan(q.op, q.todo)
  /\ q.op.kind \in {"renameTag", "deleteTag"} => q.known \in SUBSET Story
  /\ q.pc = "lock" => q.todo[1] \notin Decided
  /\ q.pc = "patch" => q.todo[1] \in Patching

PlanOK == \A r \in Request : req[r].pc \in {"lock", "call", "patch"} => Planned(req[r])

MergeInv ==
  \A r \in Request : At(r, "renameTag") /\ ~req[r].op.force =>
    \A tag \in LiveCounts \ {req[r].op.tag} :
      tag = req[r].op.name \/ {tag, req[r].op.name} \in SameName => tag \in since.tags

EditInv ==
  \A r \in Request : At(r, "editTags") =>
    TagsOf(account.tags[req[r].op.story]) \ TagsOf(req[r].live)
      \subseteq TagsOf(ListOf(req[r].op.remove)) \cup since.tags

(* What a call that has landed wrote is in the account, but for the things *)
(* that another party has changed.                                         *)
Written(q, acc, things) ==
  LET call == Head(q.todo)
      s    == q.op.story
  IN /\ call \notin {"renameTag", "deleteTag"} /\ s \notin things =>
          /\ call = "markRead" => acc.read[s] = q.op.read
          /\ call = "replaceTags" => acc.tags[s] = Distinct(q.op.set)
          /\ call = "editTags" => acc.tags[s] = q.live
          /\ call \in {"replaceTags", "editTags", "star", "save"} => s \in acc.starred
          /\ call = "unstar" => s \notin acc.starred
     /\ call \in {"renameTag", "deleteTag"} =>
          \A x \in acc.starred \ things : q.op.tag \notin TagsOf(acc.tags[x])

WrittenInv == \A r \in Request : req[r].pc = "patch" => Written(req[r], account, since.things)

(* The copy of a story that the patch after the call would make of the     *)
(* copy c, and whether the story would be in the list.                     *)
PatchOf(q, acc, s, c) ==
  LET call == Head(q.todo)
  IN IF call = "markRead" /\ s = q.op.story /\ c # None THEN [c EXCEPT !.read = q.op.read]
     ELSE IF call = "replaceTags" /\ s = q.op.story /\ c # None
     THEN [c EXCEPT !.tags = Distinct(q.op.set)]
     ELSE IF call = "editTags" /\ s = q.op.story /\ c # None THEN [c EXCEPT !.tags = q.live]
     ELSE IF call = "save" /\ s = q.op.story /\ s \in acc.starred THEN CopyOf(acc, s)
     ELSE IF call \in {"renameTag", "deleteTag"} /\ s \in q.known /\ c # None
             /\ q.op.tag \in TagsOf(c.tags)
     THEN [c EXCEPT !.tags = Retagged(@, q.op)]
     ELSE c

WouldList(q, s, listed) ==
  \/ Head(q.todo) \in {"star", "save", "replaceTags", "editTags"} /\ s = q.op.story
  \/ s \in listed /\ ~(Head(q.todo) = "unstar" /\ s = q.op.story)

Agrees(c, acc, s) ==
  c # None => /\ c.read = acc.read[s]
              /\ s \in acc.starred => TagsOf(c.tags) = TagsOf(acc.tags[s])

(* The cache, as the patch that is due will leave it, agrees with the      *)
(* account.                                                                *)
Pending == lock # None /\ req[lock].pc = "patch"

CopyInv ==
  \A s \in Story \ drifted.copies :
    Agrees(IF Pending THEN PatchOf(req[lock], account, s, cache.copy[s]) ELSE cache.copy[s],
           account, s)

ListInv ==
  \A s \in Story \ drifted.list :
    (IF Pending THEN WouldList(req[lock], s, cache.listed) ELSE s \in cache.listed)
      <=> s \in account.starred

CacheInv == WrittenInv /\ CopyInv /\ ListInv

-----------------------------------------------------------------------------
(* What is asked for.                                                      *)

LEMMA FieldsOfStories ==
  ASSUME NEW op \in Operations
  PROVE  /\ op.kind \in {"patchStory", "createStory", "saveStory", "deleteStory"} => op.story \in Story
         /\ op.kind = "patchStory" =>
              /\ op.read \in BOOLEAN \cup {None} /\ op.set \in Seq(Tag) \cup {None}
              /\ op.add \in Seq(Tag) \cup {None} /\ op.remove \in Seq(Tag) \cup {None}
         /\ op.kind \in {"createStory", "saveStory"} => op.tags \in Seq(Tag)
         /\ op.kind = "renameTag" => op.tag \in Tag /\ op.name \in Tag
         /\ op.kind = "deleteTag" => op.tag \in Tag
BY DEF Operations

LEMMA FieldsOfFeeds ==
  ASSUME NEW op \in Operations
  PROVE  /\ op.kind \in {"createFolder", "deleteFolder", "patchFolder"} => op.path \in Path
         /\ op.kind \in {"patchFolder", "patchFeed"} => op.name \in Name \cup {None}
         /\ op.kind = "patchFolder" => op.to \in Name \cup {None}
         /\ op.kind = "patchFeed" => op.to \in Place \cup {None} /\ op.from \in Place \cup {None}
         /\ op.kind \in {"patchFeed", "deleteFeed", "subscribe"} => op.feed \in Feed
         /\ op.kind = "subscribe" => op.place \in Place
BY DEF Operations

LEMMA KindsOfOperations ==
  ASSUME NEW op \in Operations
  PROVE  op.kind \in {"patchStory", "createStory", "saveStory", "deleteStory", "renameTag",
                      "deleteTag", "createFolder", "deleteFolder", "patchFolder", "subscribe",
                      "patchFeed", "deleteFeed"}
BY DEF Operations

-----------------------------------------------------------------------------
(* Plans.                                                                  *)

Opens(todo) == Len(todo) > 0 => todo[1] \notin Decided

LEMMA JoinedPlans ==
  ASSUME NEW op, NEW a \in Seq(CallName), NEW b \in Seq(CallName),
         Plan(op, a), Opens(a), Plan(op, b), Opens(b)
  PROVE  /\ a \o b \in Seq(CallName) /\ Len(a \o b) = Len(a) + Len(b)
         /\ Plan(op, a \o b) /\ Opens(a \o b)
<1>1. /\ Len(a) \in Nat /\ Len(b) \in Nat /\ a \o b \in Seq(CallName)
      /\ Len(a \o b) = Len(a) + Len(b)
  BY ConcatProperties, LenProperties
<1>2. \A i \in 1 .. Len(a) + Len(b) :
        (a \o b)[i] = IF i <= Len(a) THEN a[i] ELSE b[i - Len(a)]
  BY ConcatProperties
<1> DEFINE c == a \o b
<1>3. \A i \in 1 .. Len(a) : c[i] = a[i]
  BY <1>1, <1>2
<1>4. \A i \in 1 .. Len(a) + Len(b) :
        i > Len(a) => i - Len(a) \in 1 .. Len(b) /\ c[i] = b[i - Len(a)]
  BY <1>1, <1>2
<1>5. Len(c) = Len(a) + Len(b)
  BY <1>1
<1> HIDE DEF c
<1>6. ASSUME NEW i \in 1 .. Len(c) PROVE Asked(op, c[i])
  <2>1. CASE i <= Len(a)
    BY <1>1, <1>3, <1>5, <2>1 DEF Plan
  <2>2. CASE i > Len(a)
    <3>1. i - Len(a) \in 1 .. Len(b) /\ c[i] = b[i - Len(a)]
      BY <1>1, <1>4, <1>5, <2>2
    <3>2. Asked(op, b[i - Len(a)])
      BY <3>1 DEF Plan
    <3> QED
      BY <3>1, <3>2, Zenon
  <2> QED
    BY <1>1, <2>1, <2>2
<1>7. ASSUME NEW i \in 1 .. Len(c), c[i] \in LiveReads PROVE i + 1 <= Len(c)
  <2>1. CASE i <= Len(a)
    BY <1>1, <1>3, <1>5, <1>7, <2>1 DEF Plan
  <2>2. CASE i > Len(a)
    <3>1. i - Len(a) \in 1 .. Len(b) /\ b[i - Len(a)] \in LiveReads
      BY <1>1, <1>4, <1>5, <1>7, <2>2
    <3>2. i - Len(a) + 1 <= Len(b)
      BY <3>1 DEF Plan
    <3> QED
      BY <1>1, <1>5, <3>2
  <2> QED
    BY <1>1, <2>1, <2>2
<1>8. ASSUME NEW i \in 1 .. Len(c), i > 1, c[i] \in Decided PROVE c[i - 1] \in LiveReads
  <2>1. CASE i <= Len(a)
    BY <1>1, <1>3, <1>5, <1>8, <2>1 DEF Plan
  <2>2. CASE i > Len(a)
    <3>1. i - Len(a) \in 1 .. Len(b) /\ b[i - Len(a)] \in Decided
      BY <1>1, <1>4, <1>5, <1>8, <2>2
    <3>2. i - Len(a) # 1
      BY <1>1, <3>1 DEF Opens
    <3>3. b[(i - Len(a)) - 1] \in LiveReads
      BY <1>1, <3>1, <3>2 DEF Plan
    <3>4. /\ i - 1 \in 1 .. Len(a) + Len(b) /\ i - 1 > Len(a)
          /\ (i - 1) - Len(a) = (i - Len(a)) - 1
      BY <1>1, <1>5, <2>2, <3>1, <3>2
    <3>5. c[i - 1] = b[(i - 1) - Len(a)]
      BY <1>4, <3>4
    <3> QED
      BY <3>3, <3>4, <3>5
  <2> QED
    BY <1>1, <2>1, <2>2
<1>9. Opens(c)
  BY <1>1, <1>3, <1>4, <1>5 DEF Opens
<1>10. Plan(op, c)
  BY <1>6, <1>7, <1>8 DEF Plan
<1> QED
  BY <1>1, <1>9, <1>10 DEF c

LEMMA ShortPlans ==
  ASSUME NEW op, NEW x \in CallName, NEW y \in CallName, Asked(op, x)
  PROVE  /\ x \notin LiveReads =>
              /\ <<x>> \in Seq(CallName) /\ Len(<<x>>) = 1 /\ Plan(op, <<x>>)
              /\ x \notin Decided => Opens(<<x>>)
         /\ x \notin Decided /\ y \notin LiveReads /\ Asked(op, y) /\ (y \in Decided => x \in LiveReads) =>
              /\ <<x, y>> \in Seq(CallName) /\ Len(<<x, y>>) = 2
              /\ Plan(op, <<x, y>>) /\ Opens(<<x, y>>)
<1>1. ASSUME x \notin LiveReads
      PROVE  /\ <<x>> \in Seq(CallName) /\ Len(<<x>>) = 1 /\ Plan(op, <<x>>)
             /\ x \notin Decided => Opens(<<x>>)
  <2>1. <<x>> \in Seq(CallName) /\ Len(<<x>>) = 1 /\ <<x>>[1] = x
    OBVIOUS
  <2>2. \A i \in 1 .. 1 : i = 1
    OBVIOUS
  <2> DEFINE t == <<x>>
  <2> HIDE DEF t
  <2>3. Plan(op, t)
    <3>1. Len(t) = 1 /\ t[1] = x
      BY <2>1 DEF t
    <3> QED
      BY <1>1, <2>2, <3>1 DEF Plan
  <2>4. x \notin Decided => Opens(<<x>>)
    BY <2>1 DEF Opens
  <2> QED
    BY <2>1, <2>3, <2>4 DEF t
<1>2. ASSUME x \notin Decided, y \notin LiveReads, Asked(op, y), y \in Decided => x \in LiveReads
      PROVE  /\ <<x, y>> \in Seq(CallName) /\ Len(<<x, y>>) = 2
             /\ Plan(op, <<x, y>>) /\ Opens(<<x, y>>)
  <2>1. <<x, y>> \in Seq(CallName) /\ Len(<<x, y>>) = 2
    OBVIOUS
  <2>2. <<x, y>>[1] = x /\ <<x, y>>[2] = y
    OBVIOUS
  <2> DEFINE t == <<x, y>>
  <2> HIDE DEF t
  <2>3. Len(t) = 2 /\ t[1] = x /\ t[2] = y
    BY <2>1, <2>2 DEF t
  <2>4. \A i \in 1 .. 2 : i = 1 \/ (i = 2 /\ i - 1 = 1)
    OBVIOUS
  <2>5. Plan(op, t)
    <3>1. \A i \in 1 .. Len(t) : Asked(op, t[i])
      BY <1>2, <2>3, <2>4
    <3>2. \A i \in 1 .. Len(t) : t[i] \in LiveReads => i + 1 <= Len(t)
      BY <1>2, <2>3, <2>4
    <3>3. \A i \in 1 .. Len(t) : i > 1 /\ t[i] \in Decided => t[i - 1] \in LiveReads
      BY <1>2, <2>3, <2>4
    <3> QED
      BY <3>1, <3>2, <3>3 DEF Plan
  <2>6. Opens(t)
    BY <1>2, <2>3 DEF Opens
  <2> QED
    BY <2>1, <2>5, <2>6 DEF t
<1> QED
  BY <1>1, <1>2, Zenon

LEMMA EmptyPlan ==
  ASSUME NEW op PROVE <<>> \in Seq(CallName) /\ Len(<<>>) = 0 /\ Plan(op, <<>>) /\ Opens(<<>>)
BY DEF Plan, Opens

LEMMA CallsArePlanned ==
  ASSUME NEW op \in Operations, ~NothingAsked(op), ~Refused(op)
  PROVE  /\ Calls(op) \in Seq(CallName) /\ Len(Calls(op)) > 0
         /\ Plan(op, Calls(op)) /\ Opens(Calls(op))
<1> DEFINE Good(todo) == todo \in Seq(CallName) /\ Plan(op, todo) /\ Opens(todo)
<1>1. CASE op.kind = "patchStory"
  <2> DEFINE a == IF op.read = None THEN <<>> ELSE <<"markRead">>
             b == IF op.set = None THEN <<>> ELSE <<"replaceTags">>
             c == IF Editing(op) THEN <<"liveTags", "editTags">> ELSE <<>>
  <2>1. Good(a) /\ Len(a) = IF op.read = None THEN 0 ELSE 1
    <3>1. CASE op.read = None
      BY <3>1, EmptyPlan
    <3>2. CASE op.read # None
      <4>1. Asked(op, "markRead") /\ "markRead" \in CallName /\ "markRead" \notin LiveReads \cup Decided
        BY <1>1, <3>2 DEF Asked, CallName, LiveReads, Decided
      <4> QED
        BY <3>2, <4>1, ShortPlans
    <3> QED
      BY <3>1, <3>2
  <2>2. Good(b) /\ Len(b) = IF op.set = None THEN 0 ELSE 1
    <3>1. CASE op.set = None
      BY <3>1, EmptyPlan
    <3>2. CASE op.set # None
      <4>1. op.force
        BY <1>1, <3>2 DEF Refused, RefusedTags
      <4>2. /\ Asked(op, "replaceTags") /\ "replaceTags" \in CallName
            /\ "replaceTags" \notin LiveReads \cup Decided
        BY <1>1, <3>2, <4>1 DEF Asked, CallName, LiveReads, Decided
      <4> QED
        BY <3>2, <4>2, ShortPlans
    <3> QED
      BY <3>1, <3>2
  <2>3. Good(c) /\ Len(c) = IF Editing(op) THEN 2 ELSE 0
    <3>1. CASE ~Editing(op)
      BY <3>1, EmptyPlan
    <3>2. CASE Editing(op)
      <4>1. /\ Asked(op, "liveTags") /\ "liveTags" \in CallName /\ "liveTags" \in LiveReads
            /\ "liveTags" \notin Decided
            /\ Asked(op, "editTags") /\ "editTags" \in CallName /\ "editTags" \notin LiveReads
        BY <1>1, <3>2 DEF Asked, CallName, LiveReads, Decided
      <4> QED
        BY <3>2, <4>1, ShortPlans
    <3> QED
      BY <3>1, <3>2
  <2>4. op.read # None \/ op.set # None \/ Editing(op)
    BY <1>1 DEF NothingAsked
  <2>5. Calls(op) = a \o b \o c
    BY <1>1 DEF Calls, PatchStoryCalls
  <2> HIDE DEF a, b, c
  <2>6. Good(a \o b) /\ Len(a \o b) = Len(a) + Len(b)
    BY <2>1, <2>2, JoinedPlans
  <2>7. Good(a \o b \o c) /\ Len(a \o b \o c) = Len(a \o b) + Len(c)
    BY <2>3, <2>6, JoinedPlans
  <2>8. Len(a \o b \o c) > 0
    BY <2>1, <2>2, <2>3, <2>4, <2>6, <2>7
  <2> QED
    BY <2>5, <2>7, <2>8
<1>2. ASSUME NEW x \in CallName, NEW y \in CallName, op.kind \in {"patchFolder", "patchFeed"},
             op.name # None => Asked(op, x), op.to # None => Asked(op, y),
             {x, y} \cap (LiveReads \cup Decided) = {},
             Calls(op) = (IF op.name = None THEN <<>> ELSE <<x>>)
                         \o (IF op.to = None THEN <<>> ELSE <<y>>)
      PROVE  Good(Calls(op)) /\ Len(Calls(op)) > 0
  <2> DEFINE a == IF op.name = None THEN <<>> ELSE <<x>>
             b == IF op.to = None THEN <<>> ELSE <<y>>
  <2>1. Good(a) /\ Len(a) = IF op.name = None THEN 0 ELSE 1
    <3>1. CASE op.name = None
      BY <3>1, EmptyPlan
    <3>2. CASE op.name # None
      BY <1>2, <3>2, ShortPlans
    <3> QED
      BY <3>1, <3>2
  <2>2. Good(b) /\ Len(b) = IF op.to = None THEN 0 ELSE 1
    <3>1. CASE op.to = None
      BY <3>1, EmptyPlan
    <3>2. CASE op.to # None
      BY <1>2, <3>2, ShortPlans
    <3> QED
      BY <3>1, <3>2
  <2>3. op.name # None \/ op.to # None
    BY <1>2 DEF NothingAsked
  <2>4. Calls(op) = a \o b
    BY <1>2
  <2> HIDE DEF a, b
  <2>5. Good(a \o b) /\ Len(a \o b) = Len(a) + Len(b)
    BY <2>1, <2>2, JoinedPlans
  <2> QED
    BY <2>1, <2>2, <2>3, <2>4, <2>5
<1>3. CASE op.kind = "patchFolder"
  <2>1. /\ "renameFolder" \in CallName /\ "moveFolder" \in CallName
        /\ {"renameFolder", "moveFolder"} \cap (LiveReads \cup Decided) = {}
        /\ op.name # None => Asked(op, "renameFolder")
        /\ op.to # None => Asked(op, "moveFolder")
    BY <1>3 DEF Asked, CallName, LiveReads, Decided
  <2>2. Calls(op) = (IF op.name = None THEN <<>> ELSE <<"renameFolder">>)
                    \o (IF op.to = None THEN <<>> ELSE <<"moveFolder">>)
    BY <1>3 DEF Calls, PatchFolderCalls
  <2> QED
    BY <1>2, <1>3, <2>1, <2>2
<1>4. CASE op.kind = "patchFeed"
  <2>1. /\ "renameFeed" \in CallName /\ "moveFeed" \in CallName
        /\ {"renameFeed", "moveFeed"} \cap (LiveReads \cup Decided) = {}
        /\ op.name # None => Asked(op, "renameFeed")
        /\ op.to # None => Asked(op, "moveFeed")
    BY <1>4 DEF Asked, CallName, LiveReads, Decided
  <2>2. Calls(op) = (IF op.name = None THEN <<>> ELSE <<"renameFeed">>)
                    \o (IF op.to = None THEN <<>> ELSE <<"moveFeed">>)
    BY <1>4 DEF Calls, PatchFeedCalls
  <2> QED
    BY <1>2, <1>4, <2>1, <2>2
<1>5. CASE op.kind \in {"renameTag", "deleteTag"}
  <2>1. /\ Asked(op, "liveCounts") /\ "liveCounts" \in CallName /\ "liveCounts" \in LiveReads
        /\ "liveCounts" \notin Decided
        /\ Asked(op, op.kind) /\ op.kind \in CallName /\ op.kind \notin LiveReads
    BY <1>5 DEF Asked, CallName, LiveReads, Decided, Refused, RefusedName
  <2>2. Calls(op) = <<"liveCounts", op.kind>>
    BY <1>5 DEF Calls
  <2> DEFINE y == op.kind
  <2> HIDE DEF y
  <2>3. Good(<<"liveCounts", y>>) /\ Len(<<"liveCounts", y>>) = 2
    BY <2>1, ShortPlans DEF y
  <2> QED
    BY <2>2, <2>3 DEF y
<1>6. CASE op.kind \in {"createStory", "saveStory", "deleteStory", "createFolder", "deleteFolder",
                        "subscribe", "deleteFeed"}
  <2>1. PICK x \in CallName : Calls(op) = <<x>> /\ Asked(op, x) /\ x \notin LiveReads \cup Decided
    <3>1. CASE op.kind = "createStory"
      BY <3>1 DEF Calls, Asked, CallName, LiveReads, Decided
    <3>2. CASE op.kind = "saveStory"
      BY <3>2 DEF Calls, Asked, CallName, LiveReads, Decided
    <3>3. CASE op.kind = "deleteStory"
      BY <3>3 DEF Calls, Asked, CallName, LiveReads, Decided
    <3>4. CASE op.kind \in {"createFolder", "deleteFolder", "subscribe", "deleteFeed"}
      BY <3>4 DEF Calls, Asked, CallName, LiveReads, Decided
    <3> QED
      BY <1>6, <3>1, <3>2, <3>3, <3>4
  <2>2. Good(<<x>>) /\ Len(<<x>>) = 1
    BY <2>1, ShortPlans
  <2> QED
    BY <2>1, <2>2
<1> QED
  BY <1>1, <1>3, <1>4, <1>5, <1>6, KindsOfOperations

(* What is left of a plan after its first call.                            *)
LEMMA RestIsPlanned ==
  ASSUME NEW op, NEW todo \in Seq(CallName), Len(todo) > 1, Plan(op, todo)
  PROVE  /\ Tail(todo) \in Seq(CallName) /\ Len(Tail(todo)) > 0 /\ Plan(op, Tail(todo))
         /\ todo[1] \notin LiveReads => Tail(todo)[1] \notin Decided
<1>1. /\ Len(todo) \in Nat /\ Tail(todo) \in Seq(CallName) /\ Len(Tail(todo)) = Len(todo) - 1
      /\ \A i \in 1 .. Len(todo) - 1 : Tail(todo)[i] = todo[i + 1]
  BY HeadTailProperties, LenProperties, EmptySeq
<1> DEFINE t == Tail(todo)
<1> HIDE DEF t
<1>2. Len(t) = Len(todo) - 1 /\ \A i \in 1 .. Len(t) : i + 1 \in 1 .. Len(todo) /\ t[i] = todo[i + 1]
  BY <1>1 DEF t
<1>3. \A i \in 1 .. Len(t) : Asked(op, t[i])
  BY <1>2, Zenon DEF Plan
<1>4. ASSUME NEW i \in 1 .. Len(t), t[i] \in LiveReads PROVE i + 1 <= Len(t)
  <2>1. i + 1 \in 1 .. Len(todo) /\ todo[i + 1] \in LiveReads
    BY <1>2, <1>4
  <2>2. (i + 1) + 1 <= Len(todo)
    BY <2>1 DEF Plan
  <2> QED
    BY <1>1, <1>2, <2>2
<1>5. ASSUME NEW i \in 1 .. Len(t), i > 1, t[i] \in Decided PROVE t[i - 1] \in LiveReads
  <2>1. i + 1 \in 1 .. Len(todo) /\ todo[i + 1] \in Decided /\ i + 1 > 1
    BY <1>2, <1>5
  <2>2. todo[(i + 1) - 1] \in LiveReads
    BY <2>1 DEF Plan
  <2>3. i - 1 \in 1 .. Len(t) /\ (i - 1) + 1 = (i + 1) - 1
    BY <1>1, <1>2, <1>5
  <2> QED
    BY <1>2, <2>2, <2>3
<1>6. ASSUME todo[1] \notin LiveReads PROVE t[1] \notin Decided
  <2>1. 1 \in 1 .. Len(t) /\ t[1] = todo[2] /\ 2 \in 1 .. Len(todo)
    BY <1>1, <1>2
  <2>2. todo[2] \in Decided => todo[2 - 1] \in LiveReads
    BY <2>1 DEF Plan
  <2>3. 2 - 1 = 1
    OBVIOUS
  <2> QED
    BY <1>6, <2>1, <2>2, <2>3
<1>7. Plan(op, t)
  BY <1>3, <1>4, <1>5 DEF Plan
<1> QED
  BY <1>1, <1>6, <1>7 DEF t

-----------------------------------------------------------------------------
(* The requests and mutateMu.                                              *)

RequestsOK ==
  /\ lock \in Request \cup {None}
  /\ req \in [Request -> Requests]
  /\ \A r \in Request : lock = r <=> req[r].pc \in {"call", "patch"}
  /\ PlanOK

(* No patch of the cache is due, and no write that a live read decided on. *)
Settled ==
  \A q \in Request : /\ req[q].pc # "patch"
                     /\ req[q].pc = "call" => Head(req[q].todo) \notin Decided

(* The request that holds mutateMu, and the call it is at.                 *)
LEMMA HolderFacts ==
  ASSUME RequestsOK, NEW r \in Request, req[r].pc \in {"call", "patch"}
  PROVE  /\ lock = r /\ r # None
         /\ req[r] \in Requests /\ Planned(req[r]) /\ req[r].op \in Operations
         /\ req[r].todo \in Seq(CallName) /\ Len(req[r].todo) \in Nat /\ Len(req[r].todo) > 0
         /\ Head(req[r].todo) = req[r].todo[1]
         /\ Head(req[r].todo) \in CallName /\ Asked(req[r].op, Head(req[r].todo))
         /\ \A q \in Request \ {r} : req[q].pc \notin {"call", "patch"}
<1>1. lock = r /\ r # None /\ req[r] \in Requests /\ Planned(req[r])
  BY PartiesAssumption DEF RequestsOK, PlanOK
<1>2. /\ req[r].op \in Operations /\ Len(req[r].todo) > 0 /\ Plan(req[r].op, req[r].todo)
      /\ req[r].todo \in Seq(CallName)
  BY <1>1 DEF Planned, Requests
<1> DEFINE todo == req[r].todo
<1> HIDE DEF todo
<1>3. Len(todo) \in Nat /\ Head(todo) = todo[1] /\ todo[1] \in CallName
  BY <1>2, LenProperties, HeadTailProperties, EmptySeq, ElementOfSeq DEF todo
<1>4. Asked(req[r].op, todo[1])
  BY <1>2, <1>3 DEF Plan, todo
<1>5. \A q \in Request \ {r} : req[q].pc \notin {"call", "patch"}
  BY <1>1 DEF RequestsOK
<1> QED
  BY <1>1, <1>2, <1>3, <1>4, <1>5 DEF todo

LEMMA AnswerOK ==
  ASSUME RequestsOK, NEW r \in Request, req[r].pc \in {"call", "patch"},
         NEW outcome \in {"ok", "refused", "error"}, Answer(r, outcome)
  PROVE  /\ RequestsOK' /\ Settled' /\ lock' = None
         /\ since' = Nothing /\ target' = None
<1>1. r # None /\ req[r] \in Requests /\ \A q \in Request \ {r} : req[q].pc \notin {"call", "patch"}
  BY HolderFacts
<1>2. req' = [req EXCEPT ![r] = [req[r] EXCEPT !.pc = "done", !.todo = <<>>, !.live = <<>>,
                                               !.known = {}, !.outcome = outcome]]
  BY DEF Answer, Ends
<1>3. [req[r] EXCEPT !.pc = "done", !.todo = <<>>, !.live = <<>>, !.known = {},
                     !.outcome = outcome] \in Requests
  <2>1. <<>> \in Seq(CallName) /\ <<>> \in Seq(Tag) /\ {} \in SUBSET (Story \cup Place \cup {None})
    OBVIOUS
  <2> QED
    BY <1>1, <2>1 DEF Requests
<1>4. /\ req' \in [Request -> Requests]
      /\ req'[r].pc = "done" /\ \A q \in Request \ {r} : req'[q] = req[q]
  BY <1>1, <1>2, <1>3 DEF RequestsOK, Requests
<1>5. lock' = None /\ since' = Nothing /\ target' = None
  BY DEF Answer
<1>6. \A q \in Request : req'[q].pc \notin {"call", "patch"}
  BY <1>1, <1>4
<1>7. \A q \in Request : lock' = q <=> req'[q].pc \in {"call", "patch"}
  BY <1>5, <1>6, PartiesAssumption
<1>8. PlanOK'
  <2> SUFFICES ASSUME NEW q \in Request, req'[q].pc \in {"lock", "call", "patch"}
               PROVE  Planned(req'[q])
    BY DEF PlanOK
  <2>1. q # r /\ req'[q] = req[q]
    BY <1>4
  <2> QED
    BY <2>1 DEF RequestsOK, PlanOK
<1> QED
  BY <1>4, <1>5, <1>6, <1>7, <1>8 DEF RequestsOK, Settled

LEMMA PatchIsDue ==
  ASSUME RequestsOK, NEW r \in Request, req[r].pc = "call", Head(req[r].todo) \in Patching,
         req' = [req EXCEPT ![r].pc = "patch"], lock' = lock
  PROVE  /\ RequestsOK'
         /\ \A q \in Request \ {r} : req'[q] = req[q] /\ req[q].pc \notin {"call", "patch"}
         /\ req'[r].pc = "patch" /\ req'[r].op = req[r].op /\ req'[r].todo = req[r].todo
         /\ req'[r].live = req[r].live /\ req'[r].known = req[r].known
<1>1. /\ lock = r /\ req[r] \in Requests /\ Planned(req[r]) /\ Head(req[r].todo) = req[r].todo[1]
      /\ \A q \in Request \ {r} : req[q].pc \notin {"call", "patch"}
  BY HolderFacts
<1>2. req' = [req EXCEPT ![r] = [req[r] EXCEPT !.pc = "patch"]]
  OBVIOUS
<1>3. [req[r] EXCEPT !.pc = "patch"] \in Requests
  BY <1>1 DEF Requests
<1>4. /\ req' \in [Request -> Requests] /\ \A q \in Request \ {r} : req'[q] = req[q]
      /\ req'[r].pc = "patch" /\ req'[r].op = req[r].op /\ req'[r].todo = req[r].todo
      /\ req'[r].live = req[r].live /\ req'[r].known = req[r].known
  <2> DEFINE q == [req[r] EXCEPT !.pc = "patch"]
  <2>1. /\ q.pc = "patch" /\ q.op = req[r].op /\ q.todo = req[r].todo
        /\ q.live = req[r].live /\ q.known = req[r].known
    BY <1>1 DEF Requests
  <2> HIDE DEF q
  <2>2. req' = [req EXCEPT ![r] = q] /\ q \in Requests
    BY <1>2, <1>3 DEF q
  <2> QED
    BY <2>1, <2>2 DEF RequestsOK
<1>5. Planned(req'[r])
  BY <1>1, <1>4 DEF Planned
<1>6. PlanOK'
  BY <1>4, <1>5 DEF PlanOK, RequestsOK
<1>7. \A q \in Request : lock' = q <=> req'[q].pc \in {"call", "patch"}
  BY <1>1, <1>4 DEF RequestsOK
<1> QED
  BY <1>1, <1>4, <1>6, <1>7 DEF RequestsOK

(* The call after the first of the plan.                                   *)
LEMMA NextCall ==
  ASSUME RequestsOK, NEW r \in Request, req[r].pc \in {"call", "patch"},
         Len(req[r].todo) > 1, NEW live \in Seq(Tag), lock' = lock,
         req' = [req EXCEPT ![r] = [req[r] EXCEPT !.pc = "call", !.todo = Tail(req[r].todo),
                                                  !.live = live]]
  PROVE  /\ RequestsOK'
         /\ \A q \in Request \ {r} : req'[q] = req[q] /\ req[q].pc \notin {"call", "patch"}
         /\ req'[r].pc = "call" /\ req'[r].op = req[r].op /\ req'[r].live = live
         /\ req'[r].known = req[r].known /\ Asked(req[r].op, Head(req'[r].todo))
         /\ Head(req[r].todo) \notin LiveReads => Settled'
<1>1. /\ lock = r /\ req[r] \in Requests /\ Planned(req[r]) /\ Head(req[r].todo) = req[r].todo[1]
      /\ req[r].todo \in Seq(CallName)
      /\ \A q \in Request \ {r} : req[q].pc \notin {"call", "patch"}
  BY HolderFacts
<1> DEFINE rest == Tail(req[r].todo)
<1>2. /\ rest \in Seq(CallName) /\ Len(rest) > 0 /\ Plan(req[r].op, rest)
      /\ Head(req[r].todo) \notin LiveReads => rest[1] \notin Decided
  BY <1>1, RestIsPlanned DEF Planned
<1>3. [req[r] EXCEPT !.pc = "call", !.todo = rest, !.live = live] \in Requests
  BY <1>1, <1>2 DEF Requests
<1>4. /\ req' \in [Request -> Requests] /\ \A q \in Request \ {r} : req'[q] = req[q]
      /\ req'[r].pc = "call" /\ req'[r].op = req[r].op /\ req'[r].todo = rest
      /\ req'[r].live = live /\ req'[r].known = req[r].known
  BY <1>1, <1>3 DEF RequestsOK, Requests
<1> HIDE DEF rest
<1>5. Planned(req'[r])
  BY <1>1, <1>2, <1>4 DEF Planned
<1>6. PlanOK'
  BY <1>4, <1>5 DEF PlanOK, RequestsOK
<1>7. \A q \in Request : lock' = q <=> req'[q].pc \in {"call", "patch"}
  BY <1>1, <1>4 DEF RequestsOK
<1>8. Head(rest) = rest[1] /\ Asked(req[r].op, rest[1])
  <2>1. Len(rest) \in Nat
    BY <1>2, LenProperties
  <2> QED
    BY <1>2, <2>1, HeadTailProperties, EmptySeq DEF Plan
<1>9. Head(req[r].todo) \notin LiveReads => Settled'
  BY <1>1, <1>2, <1>4, <1>8 DEF Settled
<1> QED
  BY <1>1, <1>4, <1>6, <1>7, <1>8, <1>9 DEF RequestsOK

LEMMA ProceedOK ==
  ASSUME RequestsOK, NEW r \in Request, req[r].pc \in {"call", "patch"},
         Head(req[r].todo) \notin LiveReads, Proceed(r)
  PROVE  /\ RequestsOK' /\ Settled'
         /\ since' \in {since, Nothing} /\ target' \in {target, None}
<1>1. CASE Len(req[r].todo) = 1
  <2>1. Answer(r, "ok")
    BY <1>1 DEF Proceed
  <2> QED
    BY <2>1, AnswerOK
<1>2. CASE Len(req[r].todo) # 1
  <2>1. /\ req[r] \in Requests /\ Len(req[r].todo) > 1
    <3>1. req[r] \in Requests /\ Len(req[r].todo) \in Nat /\ Len(req[r].todo) > 0
      BY HolderFacts
    <3> DEFINE n == Len(req[r].todo)
    <3>2. n \in Nat /\ n > 0 /\ n # 1
      BY <1>2, <3>1
    <3> HIDE DEF n
    <3>3. n > 1
      BY <3>2
    <3> QED
      BY <3>1, <3>3 DEF n
  <2>2. /\ req' = [req EXCEPT ![r] = [req[r] EXCEPT !.pc = "call", !.todo = Tail(req[r].todo),
                                                    !.live = req[r].live]]
        /\ lock' = lock /\ since' = since /\ target' = target
    <3>1. [req[r] EXCEPT !.pc = "call", !.todo = Tail(req[r].todo)]
            = [req[r] EXCEPT !.pc = "call", !.todo = Tail(req[r].todo), !.live = req[r].live]
      BY <2>1 DEF Requests
    <3>2. req' = [req EXCEPT ![r] = [req[r] EXCEPT !.pc = "call", !.todo = Tail(req[r].todo)]]
      BY <1>2 DEF Proceed
    <3>3. lock' = lock /\ since' = since /\ target' = target
      BY <1>2 DEF Proceed
    <3> QED
      BY <3>1, <3>2, <3>3, Zenon
  <2>3. req[r].live \in Seq(Tag)
    BY <2>1 DEF Requests
  <2> QED
    BY <2>1, <2>2, <2>3, NextCall
<1> QED
  BY <1>1, <1>2

-----------------------------------------------------------------------------
(* The account, the cache and the history.                                 *)

Caches   == [listed : SUBSET Story, copy : [Story -> Copies], feedIn : [Feed -> Place \cup {None}]]
Windows  == [tags : SUBSET Tag, things : SUBSET (Story \cup Folder \cup Feed)]
Drifting == [copies : SUBSET Story, list : SUBSET Story, feeds : SUBSET Feed]

DataOK ==
  /\ account \in Accounts /\ cache \in Caches
  /\ changes \in 0 .. MaxChanges /\ faults \in 0 .. MaxFaults
  /\ target \in Folder \cup {None} /\ since \in Windows /\ drifted \in Drifting

TypeInv == RequestsOK /\ DataOK

LEMMA TypeInvImpliesTypeOK == TypeInv => TypeOK
BY DEF TypeInv, RequestsOK, DataOK, TypeOK, Caches, Windows, Drifting

LEMMA FieldsOfAccount ==
  ASSUME account \in Accounts
  PROVE  /\ account.starred \in SUBSET Story /\ account.tags \in [Story -> Seq(Tag)]
         /\ account.read \in [Story -> BOOLEAN] /\ account.at \in [Folder -> Path \cup {None}]
         /\ account.feedIn \in [Feed -> Place \cup {None}] /\ account.title \in [Feed -> Name]
BY DEF Accounts

LEMMA NothingOK == Nothing \in Windows
BY DEF Nothing, Windows

LEMMA FaultOK == ASSUME faults \in 0 .. MaxFaults, Fault PROVE faults' \in 0 .. MaxFaults
BY BoundsAssumption DEF Fault

LEMMA DriftOK ==
  ASSUME drifted \in Drifting, NEW copies \in SUBSET Story, NEW list \in SUBSET Story,
         NEW feeds \in SUBSET Feed, Drift(copies, list, feeds)
  PROVE  drifted' \in Drifting
BY DEF Drift, Drifting

LEMMA NotedOK ==
  ASSUME since \in Windows, NEW tags \in SUBSET Tag,
         NEW things \in SUBSET (Story \cup Folder \cup Feed), Noted(tags, things)
  PROVE  since' \in Windows
BY DEF Noted, Windows

LEMMA AnswerData ==
  ASSUME RequestsOK, DataOK, NEW r \in Request, req[r].pc \in {"call", "patch"},
         NEW outcome \in {"ok", "refused", "error"}, Answer(r, outcome),
         account' \in Accounts, cache' \in Caches, changes' = changes,
         faults' \in 0 .. MaxFaults, drifted' \in Drifting
  PROVE  TypeInv'
<1>1. RequestsOK' /\ since' = Nothing /\ target' = None
  BY AnswerOK
<1> QED
  BY <1>1, NothingOK DEF TypeInv, DataOK

LEMMA LandingData ==
  ASSUME RequestsOK, DataOK, NEW r \in Request, req[r].pc = "call",
         Head(req[r].todo) \in Patching, NEW stories \in SUBSET Story, NEW acc \in Accounts,
         Landing(r, stories, acc)
  PROVE  TypeInv'
<1>1. account' \in Accounts /\ cache' \in Caches /\ changes' = changes
  BY DEF Landing, DataOK
<1>2. CASE /\ req' = [req EXCEPT ![r].pc = "patch"]
           /\ UNCHANGED <<lock, faults, since, target, drifted>>
  <2>1. RequestsOK'
    BY <1>2, PatchIsDue
  <2> QED
    BY <1>1, <1>2, <2>1 DEF TypeInv, DataOK
<1>3. CASE Fault /\ Answer(r, "error") /\ Drift(stories, stories, {})
  <2>1. faults' \in 0 .. MaxFaults /\ drifted' \in Drifting
    BY <1>3, FaultOK, DriftOK DEF DataOK
  <2> QED
    BY <1>1, <1>3, <2>1, AnswerData
<1> QED
  BY <1>2, <1>3 DEF Landing

LEMMA LandedData ==
  ASSUME RequestsOK, DataOK, NEW r \in Request, req[r].pc = "call",
         Head(req[r].todo) \notin LiveReads, NEW feeds \in SUBSET Feed, NEW acc \in Accounts,
         Landed(r, feeds, acc)
  PROVE  TypeInv' /\ Settled'
<1>1. /\ account' \in Accounts /\ cache' \in Caches /\ changes' = changes
      /\ drifted' \in Drifting
  BY DriftOK DEF Landed, DataOK
<1>2. CASE Proceed(r) /\ UNCHANGED faults
  <2>1. RequestsOK' /\ Settled' /\ since' \in {since, Nothing} /\ target' \in {target, None}
    BY <1>2, ProceedOK
  <2> QED
    BY <1>1, <1>2, <2>1, NothingOK DEF TypeInv, DataOK
<1>3. CASE Fault /\ Answer(r, "error")
  <2>1. faults' \in 0 .. MaxFaults
    BY <1>3, FaultOK DEF DataOK
  <2> QED
    BY <1>1, <1>3, <2>1, AnswerData, AnswerOK
<1> QED
  BY <1>2, <1>3 DEF Landed

(* What a call writes is an account again.                                 *)
LEMMA StarredIsAccount ==
  ASSUME account \in Accounts, NEW s \in Story, NEW list \in Seq(Tag)
  PROVE  Starred(s, list) \in Accounts
BY DEF Starred, Accounts

LEMMA RelocatedIsAccount ==
  ASSUME account \in Accounts, NEW from, NEW to \in Path \cup {None}
  PROVE  Relocated(from, to) \in Accounts
BY DEF Relocated, Accounts

LEMMA ListsOfTags ==
  ASSUME NEW value \in Seq(Tag) \cup {None} PROVE ListOf(value) \in Seq(Tag)
<1>1. <<>> \in Seq(Tag)
  OBVIOUS
<1> QED
  BY <1>1 DEF ListOf

LEMMA RetaggedTags ==
  ASSUME NEW list \in Seq(Tag), NEW op \in Operations, op.kind \in {"renameTag", "deleteTag"}
  PROVE  /\ Retagged(list, op) \in Seq(Tag)
         /\ TagsOf(Retagged(list, op)) = (TagsOf(list) \ {op.tag})
              \cup {t \in Tag : op.kind = "renameTag" /\ op.tag \in TagsOf(list) /\ t = op.name}
<1>1. CASE op.kind = "renameTag"
  <2>1. op.name \in Tag
    BY <1>1, FieldsOfStories
  <2>2. /\ Renamed(list, op.tag, op.name) \in Seq(Tag)
        /\ TagsOf(Renamed(list, op.tag, op.name))
             = (TagsOf(list) \ {op.tag}) \cup {t \in {op.name} : op.tag \in TagsOf(list)}
    BY <2>1, RenamedTags
  <2> QED
    BY <1>1, <2>1, <2>2 DEF Retagged
<1>2. CASE op.kind = "deleteTag"
  <2>1. /\ Dropped(list, op.tag) \in Seq(Tag)
        /\ TagsOf(Dropped(list, op.tag)) = TagsOf(list) \ {op.tag}
    BY DroppedTags
  <2> QED
    BY <1>2, <2>1 DEF Retagged
<1> QED
  BY <1>1, <1>2

(* What a call that is part of an operation's plan says of it.             *)
LEMMA CallsOnStories ==
  ASSUME NEW op \in Operations, NEW call, Asked(op, call)
  PROVE  /\ call = "markRead" => op.kind = "patchStory" /\ op.story \in Story /\ op.read \in BOOLEAN
         /\ call = "replaceTags" =>
              op.kind = "patchStory" /\ op.story \in Story /\ op.set \in Seq(Tag) /\ op.set # None /\ op.force
         /\ call = "star" => op.kind = "createStory" /\ op.story \in Story /\ op.tags \in Seq(Tag)
         /\ call = "save" => op.kind = "saveStory" /\ op.story \in Story /\ op.tags \in Seq(Tag)
         /\ call = "unstar" => op.kind = "deleteStory" /\ op.story \in Story
         /\ call \in {"liveTags", "editTags"} =>
              /\ op.kind = "patchStory" /\ op.story \in Story
              /\ op.add \in Seq(Tag) \cup {None} /\ op.remove \in Seq(Tag) \cup {None}
         /\ call = "liveCounts" => op.kind \in {"renameTag", "deleteTag"}
         /\ call = "renameTag" => /\ op.kind = "renameTag" /\ op.tag \in Tag
                                  /\ op.name \in Tag /\ op.name # op.tag
         /\ call = "deleteTag" => op.kind = "deleteTag" /\ op.tag \in Tag
BY FieldsOfStories DEF Asked

LEMMA CallsOnFeeds ==
  ASSUME NEW op \in Operations, NEW call, Asked(op, call)
  PROVE  /\ call = "renameFolder" =>
              op.kind = "patchFolder" /\ op.path \in Path /\ op.name \in Name
         /\ call = "moveFolder" =>
              /\ op.kind = "patchFolder" /\ op.path \in Path /\ op.name \in Name \cup {None}
              /\ op.to \in Name
         /\ call \in {"createFolder", "deleteFolder"} => op.kind = call /\ op.path \in Path
         /\ call = "subscribe" => op.kind = call /\ op.feed \in Feed /\ op.place \in Place
         /\ call = "renameFeed" => op.kind = "patchFeed" /\ op.feed \in Feed /\ op.name \in Name
         /\ call = "moveFeed" => op.kind = "patchFeed" /\ op.feed \in Feed /\ op.to \in Place
         /\ call = "deleteFeed" => op.kind = call /\ op.feed \in Feed
BY FieldsOfFeeds DEF Asked

-----------------------------------------------------------------------------
(* Every step keeps the types, mutateMu's exclusion and the plans.         *)

LEMMA OthersKeepTypes == TypeInv /\ OtherParties => TypeInv'
<1> SUFFICES ASSUME TypeInv, OtherParties PROVE TypeInv'
  OBVIOUS
<1>1. RequestsOK /\ DataOK
  BY DEF TypeInv
<1>2. ASSUME UNCHANGED <<lock, req>> PROVE RequestsOK'
  BY <1>1, <1>2 DEF RequestsOK, PlanOK
<1>3. ASSUME Change PROVE /\ changes' \in 0 .. MaxChanges /\ UNCHANGED <<lock, req, faults>>
  BY <1>1, <1>3, BoundsAssumption DEF Change, DataOK
<1>4. AppTags \subseteq Seq(Tag) /\ AppPaths \subseteq Path
  BY PartiesAssumption
<1>5. ASSUME NEW s \in Story, AppTagsStory(s) PROVE TypeInv'
  <2>1. PICK list \in AppTags :
          /\ account' = [account EXCEPT !.tags[s] = list]
          /\ Noted(TagsOf(list) \ TagsOf(account.tags[s]), {s})
    BY <1>5 DEF AppTagsStory
  <2>2. account' \in Accounts
    BY <1>1, <1>4, <2>1 DEF DataOK, Accounts
  <2>3. TagsOf(list) \in SUBSET Tag
    BY <1>4, TagsOfType
  <2>4. since' \in Windows
    BY <1>1, <2>1, <2>3, NotedOK DEF DataOK
  <2>5. Change /\ Drift({s}, {}, {}) /\ UNCHANGED <<cache, target>>
    BY <1>5 DEF AppTagsStory
  <2>6. drifted' \in Drifting
    BY <1>1, <2>5, DriftOK DEF DataOK
  <2> QED
    BY <1>1, <1>2, <1>3, <2>2, <2>4, <2>5, <2>6 DEF TypeInv, DataOK
<1>6. ASSUME NEW s \in Story, AppStars(s) PROVE TypeInv'
  <2>1. PICK list \in IF s \in account.starred THEN {<<>>} ELSE AppTags :
          /\ account' = [account EXCEPT !.starred = IF s \in @ THEN @ \ {s} ELSE @ \cup {s},
                                        !.tags[s] = list]
          /\ Noted(TagsOf(list), {s})
    BY <1>6 DEF AppStars
  <2>2. list \in Seq(Tag)
    <3>1. <<>> \in Seq(Tag)
      OBVIOUS
    <3> QED
      BY <1>4, <3>1
  <2>3. account' \in Accounts
    BY <1>1, <2>1, <2>2 DEF DataOK, Accounts
  <2>4. TagsOf(list) \in SUBSET Tag
    BY <2>2, TagsOfType
  <2>5. since' \in Windows
    BY <1>1, <2>1, <2>4, NotedOK DEF DataOK
  <2>6. Change /\ Drift({s}, {s}, {}) /\ UNCHANGED <<cache, target>>
    BY <1>6 DEF AppStars
  <2>7. drifted' \in Drifting
    BY <1>1, <2>6, DriftOK DEF DataOK
  <2> QED
    BY <1>1, <1>2, <1>3, <2>3, <2>5, <2>6, <2>7 DEF TypeInv, DataOK
<1>7. ASSUME NEW s \in Story, AppReads(s) PROVE TypeInv'
  <2>1. /\ Change /\ Noted({}, {s}) /\ Drift({s}, {}, {}) /\ UNCHANGED <<cache, target>>
        /\ account' = [account EXCEPT !.read[s] = ~@]
    BY <1>7 DEF AppReads
  <2>2. account' \in Accounts
    <3>1. (~account.read[s]) \in BOOLEAN
      BY Zenon
    <3> QED
      BY <1>1, <2>1, <3>1 DEF DataOK, Accounts
  <2>3. since' \in Windows /\ drifted' \in Drifting
    BY <1>1, <2>1, NotedOK, DriftOK DEF DataOK
  <2> QED
    BY <1>1, <1>2, <1>3, <2>1, <2>2, <2>3 DEF TypeInv, DataOK
<1>8. ASSUME NEW d \in Folder, AppMovesFolder(d) PROVE TypeInv'
  <2>1. Change /\ Noted({}, {d}) /\ UNCHANGED <<cache, target, drifted>>
    BY <1>8 DEF AppMovesFolder
  <2>2. PICK p \in AppPaths : account' = [account EXCEPT !.at[d] = p]
    BY <1>8 DEF AppMovesFolder
  <2>3. account' \in Accounts
    BY <1>1, <1>4, <2>2 DEF DataOK, Accounts
  <2>4. since' \in Windows
    BY <1>1, <2>1, NotedOK DEF DataOK
  <2> QED
    BY <1>1, <1>2, <1>3, <2>1, <2>3, <2>4 DEF TypeInv, DataOK
<1>9. ASSUME NEW f \in Feed, AppMovesFeed(f) PROVE TypeInv'
  <2>1. Change /\ Noted({}, {f}) /\ Drift({}, {}, {f}) /\ UNCHANGED <<cache, target>>
    BY <1>9 DEF AppMovesFeed
  <2>2. PICK p \in Place : account' = [account EXCEPT !.feedIn[f] = p]
    BY <1>9 DEF AppMovesFeed
  <2>3. account' \in Accounts
    BY <1>1, <2>2 DEF DataOK, Accounts
  <2>4. since' \in Windows /\ drifted' \in Drifting
    BY <1>1, <2>1, NotedOK, DriftOK DEF DataOK
  <2> QED
    BY <1>1, <1>2, <1>3, <2>1, <2>3, <2>4 DEF TypeInv, DataOK
<1>10. ASSUME Fetch PROVE TypeInv'
  <2>1. Change /\ UNCHANGED <<account, target, since>>
    BY <1>10 DEF Fetch
  <2>2. PICK again \in SUBSET Story :
          LET fetched == {s \in account.starred : cache.copy[s] = None \/ s \in again}
          IN /\ cache' = [listed |-> account.starred,
                          copy |-> [s \in Story |-> IF s \in fetched THEN CopyOf(account, s)
                                                    ELSE cache.copy[s]],
                          feedIn |-> account.feedIn]
             /\ drifted' = [copies |-> (drifted.copies \ fetched) \cup (since.things \cap Story),
                            list |-> since.things \cap Story, feeds |-> drifted.feeds]
    BY <1>10 DEF Fetch
  <2>3. drifted' \in Drifting
    BY <1>1, <2>2 DEF DataOK, Drifting
  <2>4. \A s \in Story : CopyOf(account, s) \in Copies
    BY <1>1 DEF CopyOf, Copies, DataOK, Accounts
  <2>5. cache' \in Caches
    BY <1>1, <2>2, <2>4 DEF DataOK, Accounts, Caches
  <2> QED
    BY <1>1, <1>2, <1>3, <2>1, <2>3, <2>5 DEF TypeInv, DataOK
<1> QED
  BY <1>5, <1>6, <1>7, <1>8, <1>9, <1>10 DEF OtherParties

LEMMA SubmitKeepsTypes ==
  ASSUME TypeInv, NEW r \in Request, NEW op \in Op[r], Submit(r, op)
  PROVE  TypeInv' /\ \A q \in Request \ {r} : req'[q] = req[q]
<1>1. RequestsOK /\ DataOK /\ op \in Operations
  BY PartiesAssumption DEF TypeInv
<1>2. DataOK' /\ lock' = lock
  BY <1>1 DEF Submit, history, DataOK
<1>3. req[r].pc = "idle"
  BY DEF Submit
<1>4. /\ <<>> \in Seq(CallName) /\ <<>> \in Seq(Tag)
      /\ {} \in SUBSET (Story \cup Place \cup {None})
  OBVIOUS
<1>5. ASSUME NEW q \in Requests, req' = [req EXCEPT ![r] = q], q.pc \in {"lock", "done"},
             q.pc = "lock" => Planned(q)
      PROVE  RequestsOK' /\ \A p \in Request \ {r} : req'[p] = req[p]
  <2>1. /\ req' \in [Request -> Requests] /\ req'[r] = q
        /\ \A p \in Request \ {r} : req'[p] = req[p]
    BY <1>1, <1>5 DEF RequestsOK
  <2>2. PlanOK'
    BY <1>1, <1>5, <2>1 DEF PlanOK, RequestsOK
  <2>3. \A p \in Request : lock' = p <=> req'[p].pc \in {"call", "patch"}
    BY <1>1, <1>2, <1>3, <1>5, <2>1 DEF RequestsOK
  <2> QED
    BY <1>1, <1>2, <2>1, <2>2, <2>3 DEF RequestsOK
<1>6. ASSUME NEW outcome \in {"ok", "refused"},
             req' = [req EXCEPT ![r] = [NoRequest EXCEPT !.op = op, !.pc = "done",
                                                         !.outcome = outcome]]
      PROVE  RequestsOK' /\ \A p \in Request \ {r} : req'[p] = req[p]
  <2> DEFINE q == [NoRequest EXCEPT !.op = op, !.pc = "done", !.outcome = outcome]
  <2>1. q \in Requests /\ q.pc = "done"
    BY <1>1, <1>4 DEF NoRequest, Requests
  <2> HIDE DEF q
  <2>2. req' = [req EXCEPT ![r] = q]
    BY <1>6 DEF q
  <2> QED
    BY <1>5, <2>1, <2>2
<1>7. ASSUME Found(op), ~NothingAsked(op), ~Refused(op),
             req' = [req EXCEPT ![r] = [NoRequest EXCEPT
               !.op = op, !.pc = "lock", !.todo = Calls(op),
               !.known = CASE op.kind \in {"renameTag", "deleteTag"} -> Holders(op.tag)
                           [] op.kind = "deleteFeed" -> {cache.feedIn[op.feed]}
                           [] OTHER -> {}]]
      PROVE  RequestsOK' /\ \A p \in Request \ {r} : req'[p] = req[p]
  <2> DEFINE known == CASE op.kind \in {"renameTag", "deleteTag"} -> Holders(op.tag)
                        [] op.kind = "deleteFeed" -> {cache.feedIn[op.feed]}
                        [] OTHER -> {}
             q == [NoRequest EXCEPT !.op = op, !.pc = "lock", !.todo = Calls(op), !.known = known]
  <2>1. /\ Calls(op) \in Seq(CallName) /\ Len(Calls(op)) > 0
        /\ Plan(op, Calls(op)) /\ Opens(Calls(op))
    BY <1>1, <1>7, CallsArePlanned
  <2>2. known \in SUBSET (Story \cup Place \cup {None})
    <3>1. CASE op.kind \in {"renameTag", "deleteTag"}
      BY <1>1, <3>1 DEF Holders, DataOK, Caches
    <3>2. CASE op.kind = "deleteFeed"
      <4>1. op.feed \in Feed
        BY <1>1, <3>2, FieldsOfFeeds
      <4> QED
        BY <1>1, <3>2, <4>1 DEF DataOK, Caches
    <3>3. CASE op.kind \notin {"renameTag", "deleteTag", "deleteFeed"}
      BY <3>3
    <3> QED
      BY <3>1, <3>2, <3>3
  <2>3. op.kind \in {"renameTag", "deleteTag"} => known \in SUBSET Story
    BY <1>1 DEF Holders, DataOK, Caches
  <2>4. req' = [req EXCEPT ![r] = q]
    BY <1>7
  <2> HIDE DEF known
  <2>5. /\ q \in Requests /\ q.pc = "lock" /\ q.op = op /\ q.todo = Calls(op)
        /\ q.known = known
    BY <1>1, <1>4, <2>1, <2>2 DEF NoRequest, Requests
  <2> HIDE DEF q
  <2>6. Planned(q)
    BY <1>1, <2>1, <2>3, <2>5 DEF Planned, Opens
  <2> QED
    BY <1>5, <2>4, <2>5, <2>6
<1>8. RequestsOK' /\ \A q \in Request \ {r} : req'[q] = req[q]
  BY <1>6, <1>7, Zenon DEF Submit, Refuse
<1> QED
  BY <1>2, <1>8 DEF TypeInv

LEMMA LockKeepsTypes ==
  ASSUME TypeInv, NEW r \in Request, Lock(r)
  PROVE  TypeInv' /\ Settled' /\ UNCHANGED <<account, cache, drifted>>
<1>1. RequestsOK /\ DataOK
  BY DEF TypeInv
<1>2. /\ req[r].pc = "lock" /\ lock = None /\ lock' = r /\ req' = [req EXCEPT ![r].pc = "call"]
      /\ since' = Nothing /\ UNCHANGED <<account, cache, changes, faults, drifted>>
  BY DEF Lock
<1>3. req[r] \in Requests /\ Planned(req[r])
  BY <1>1, <1>2 DEF RequestsOK, PlanOK
<1> DEFINE p == [req[r] EXCEPT !.pc = "call"]
<1>4. /\ p \in Requests /\ p.pc = "call" /\ p.op = req[r].op /\ p.todo = req[r].todo
      /\ p.known = req[r].known
  BY <1>3 DEF Requests
<1> HIDE DEF p
<1>5. req' = [req EXCEPT ![r] = p]
  BY <1>2 DEF p
<1>6. /\ req' \in [Request -> Requests] /\ req'[r] = p
      /\ \A q \in Request \ {r} : req'[q] = req[q]
  BY <1>1, <1>4, <1>5 DEF RequestsOK
<1>7. \A q \in Request : req[q].pc \notin {"call", "patch"}
  BY <1>1, <1>2, PartiesAssumption DEF RequestsOK
<1>8. \A q \in Request : lock' = q <=> req'[q].pc \in {"call", "patch"}
  BY <1>2, <1>4, <1>6, <1>7
<1>9. Planned(p)
  BY <1>3, <1>4 DEF Planned
<1>10. PlanOK'
  BY <1>1, <1>6, <1>9 DEF PlanOK, RequestsOK
<1>11. target' \in Folder \cup {None}
  <2>1. FolderAt(req[r].op.path) \in Folder \cup {None}
    <3> DEFINE P(d) == req[r].op.path \in Occupied => d # None
               D == {d \in Folder : account.at[d] = req[r].op.path} \cup {None}
    <3>1. \E d \in D : P(d)
      <4>1. CASE req[r].op.path \in Occupied
        BY <4>1, PartiesAssumption DEF Occupied
      <4>2. CASE req[r].op.path \notin Occupied
        BY <4>2
      <4> QED
        BY <4>1, <4>2
    <3> QED
      BY <3>1 DEF FolderAt
  <2> QED
    BY <2>1 DEF Lock
<1>12. Settled'
  <2>1. Head(p.todo) = p.todo[1]
    BY <1>3, <1>4, HeadTailProperties, EmptySeq DEF Planned, Requests
  <2>2. p.todo[1] \notin Decided
    BY <1>2, <1>3, <1>4 DEF Planned
  <2> QED
    BY <1>4, <1>6, <1>7, <2>1, <2>2 DEF Settled
<1> QED
  BY <1>1, <1>2, <1>6, <1>8, <1>10, <1>11, <1>12, NothingOK DEF TypeInv, RequestsOK, DataOK

LEMMA FailsKeepsTypes ==
  ASSUME TypeInv, NEW r \in Request, Fails(r)
  PROVE  TypeInv'
<1>1. RequestsOK /\ DataOK
  BY DEF TypeInv
<1>2. /\ req[r].pc = "call" /\ Fault /\ Answer(r, "error")
      /\ UNCHANGED <<account, cache, changes, drifted>>
  BY DEF Fails
<1>3. faults' \in 0 .. MaxFaults
  BY <1>1, <1>2, FaultOK DEF DataOK
<1> QED
  BY <1>1, <1>2, <1>3, AnswerData DEF DataOK

(* The request at a call, and what its operation says of it.               *)
LEMMA AtCall ==
  ASSUME TypeInv, NEW r \in Request, NEW call, At(r, call)
  PROVE  /\ RequestsOK /\ DataOK /\ req[r].pc = "call" /\ lock = r /\ r # None
         /\ Head(req[r].todo) = call /\ req[r] \in Requests
         /\ req[r].op \in Operations /\ Asked(req[r].op, call)
BY HolderFacts DEF TypeInv, At

LEMMA LiveReadGoesOn ==
  ASSUME TypeInv, NEW r \in Request, NEW call \in LiveReads, At(r, call)
  PROVE  Len(req[r].todo) > 1
<1>1. /\ Planned(req[r]) /\ Head(req[r].todo) = req[r].todo[1] /\ Head(req[r].todo) = call
      /\ Len(req[r].todo) \in Nat /\ Len(req[r].todo) > 0
  BY HolderFacts DEF TypeInv, At
<1> DEFINE todo == req[r].todo
<1>2. Plan(req[r].op, todo)
  BY <1>1 DEF Planned
<1> HIDE DEF todo
<1>3. todo[1] \in LiveReads /\ 1 \in 1 .. Len(todo) /\ Len(todo) \in Nat
  BY <1>1 DEF todo
<1>4. 1 + 1 <= Len(todo)
  BY <1>2, <1>3 DEF Plan
<1> QED
  BY <1>3, <1>4 DEF todo

LEMMA StoryCallsKeepTypes ==
  ASSUME TypeInv, NEW r \in Request,
         MarkRead(r) \/ ReplaceTags(r) \/ Save(r) \/ Star(r) \/ Unstar(r) \/ EditTags(r)
  PROVE  TypeInv'
<1> DEFINE op == req[r].op
           s  == req[r].op.story
<1>1. {"markRead", "replaceTags", "save", "star", "unstar", "editTags"} \subseteq Patching
  BY DEF Patching, Decided
<1>2. CASE MarkRead(r)
  <2>1. At(r, "markRead") /\ Landing(r, {s}, [account EXCEPT !.read[s] = op.read])
    BY <1>2 DEF MarkRead
  <2>2. s \in Story /\ op.read \in BOOLEAN
    BY <2>1, AtCall, CallsOnStories
  <2>3. [account EXCEPT !.read[s] = op.read] \in Accounts
    BY <2>1, <2>2, AtCall DEF DataOK, Accounts
  <2> QED
    BY <1>1, <2>1, <2>2, <2>3, AtCall, LandingData
<1>3. CASE ReplaceTags(r)
  <2>1. At(r, "replaceTags") /\ Landing(r, {s}, Starred(s, Distinct(op.set)))
    BY <1>3 DEF ReplaceTags
  <2>2. s \in Story /\ op.set \in Seq(Tag)
    BY <2>1, AtCall, CallsOnStories
  <2>3. Starred(s, Distinct(op.set)) \in Accounts
    BY <2>1, <2>2, AtCall, StarredIsAccount, DistinctTags DEF DataOK
  <2> QED
    BY <1>1, <2>1, <2>2, <2>3, AtCall, LandingData
<1>4. CASE Save(r)
  <2>1. At(r, "save") /\ Landing(r, {s}, Starred(s, Distinct(op.tags)))
    BY <1>4 DEF Save
  <2>2. s \in Story /\ op.tags \in Seq(Tag)
    BY <2>1, AtCall, CallsOnStories
  <2>3. Starred(s, Distinct(op.tags)) \in Accounts
    BY <2>1, <2>2, AtCall, StarredIsAccount, DistinctTags DEF DataOK
  <2> QED
    BY <1>1, <2>1, <2>2, <2>3, AtCall, LandingData
<1>5. CASE Star(r)
  <2>1. At(r, "star") /\ account' = Starred(s, Distinct(op.tags)) /\ UNCHANGED <<cache, changes>>
    BY <1>5 DEF Star
  <2>2. s \in Story /\ op.tags \in Seq(Tag) /\ RequestsOK /\ DataOK /\ req[r].pc = "call"
        /\ Head(req[r].todo) = "star"
    BY <2>1, AtCall, CallsOnStories
  <2>3. account' \in Accounts
    BY <2>1, <2>2, StarredIsAccount, DistinctTags DEF DataOK
  <2>4. CASE /\ req' = [req EXCEPT ![r].pc = "patch"]
             /\ Drift({x \in {s} : cache.copy[x] # None}, {}, {})
             /\ UNCHANGED <<lock, faults, since, target>>
    <3>1. RequestsOK'
      BY <1>1, <2>2, <2>4, PatchIsDue
    <3>2. drifted' \in Drifting
      BY <2>2, <2>4, DriftOK DEF DataOK
    <3> QED
      BY <2>1, <2>2, <2>3, <2>4, <3>1, <3>2 DEF TypeInv, DataOK
  <2>5. CASE Fault /\ Answer(r, "error") /\ Drift({s}, {s}, {})
    <3>1. drifted' \in Drifting /\ faults' \in 0 .. MaxFaults
      BY <2>2, <2>5, DriftOK, FaultOK DEF DataOK
    <3>2. cache' \in Caches /\ changes' = changes
      BY <2>1, <2>2 DEF DataOK
    <3> QED
      BY <2>2, <2>3, <2>5, <3>1, <3>2, AnswerData
  <2> QED
    BY <1>5, <2>4, <2>5 DEF Star
<1>6. CASE Unstar(r)
  <2>1. /\ At(r, "unstar")
        /\ Landing(r, {s}, [account EXCEPT !.starred = @ \ {s}, !.tags[s] = <<>>])
    BY <1>6 DEF Unstar
  <2>2. s \in Story
    BY <2>1, AtCall, CallsOnStories
  <2>3. [account EXCEPT !.starred = @ \ {s}, !.tags[s] = <<>>] \in Accounts
    <3>1. <<>> \in Seq(Tag)
      OBVIOUS
    <3> QED
      BY <2>1, <2>2, <3>1, AtCall DEF DataOK, Accounts
  <2> QED
    BY <1>1, <2>1, <2>2, <2>3, AtCall, LandingData
<1>7. CASE EditTags(r)
  <2>1. At(r, "editTags") /\ Landing(r, {s}, Starred(s, req[r].live))
    BY <1>7 DEF EditTags
  <2>2. s \in Story /\ req[r].live \in Seq(Tag)
    BY <2>1, AtCall, CallsOnStories DEF Requests
  <2>3. Starred(s, req[r].live) \in Accounts
    BY <2>1, <2>2, AtCall, StarredIsAccount DEF DataOK
  <2> QED
    BY <1>1, <2>1, <2>2, <2>3, AtCall, LandingData
<1> QED
  BY <1>2, <1>3, <1>4, <1>5, <1>6, <1>7

(* The live read of an edit: an answer, or the edited list to be written.  *)
LEMMA LiveTagsReads ==
  ASSUME TypeInv, NEW r \in Request, LiveTags(r)
  PROVE  LET op == req[r].op
         IN /\ op.story \in Story
            /\ UNCHANGED <<account, cache, changes, faults, drifted>>
            /\ \/ \E outcome \in {"ok", "refused", "error"} : Answer(r, outcome)
               \/ \E live \in Seq(Tag) :
                    /\ TagsOf(live) = (TagsOf(account.tags[op.story]) \ TagsOf(ListOf(op.remove)))
                                        \cup TagsOf(ListOf(op.add))
                    /\ req' = [req EXCEPT ![r] =
                         [req[r] EXCEPT !.pc = "call", !.todo = Tail(req[r].todo), !.live = live]]
                    /\ since' = [since EXCEPT !.tags = {}]
                    /\ lock' = lock /\ target' = target
<1> DEFINE op == req[r].op
           add == Distinct(ListOf(op.add))
           remove == Distinct(ListOf(op.remove))
           list == account.tags[op.story]
           next == ApplyTagEdit(list, add, remove)
<1>1. At(r, "liveTags") /\ ReadTags(r, list) /\ UNCHANGED <<account, cache, changes, faults, drifted>>
  BY DEF LiveTags
<1>2. /\ op.story \in Story /\ op.add \in Seq(Tag) \cup {None} /\ op.remove \in Seq(Tag) \cup {None}
      /\ req[r] \in Requests /\ req[r].pc = "call" /\ account \in Accounts
  BY <1>1, AtCall, CallsOnStories DEF DataOK
<1>3. /\ add \in Seq(Tag) /\ TagsOf(add) = TagsOf(ListOf(op.add))
      /\ remove \in Seq(Tag) /\ TagsOf(remove) = TagsOf(ListOf(op.remove))
  BY <1>2, ListsOfTags, DistinctTags
<1>4. list \in Seq(Tag)
  BY <1>2, FieldsOfAccount
<1> HIDE DEF add, remove, list
<1>5. next \in Seq(Tag) /\ TagsOf(next) = (TagsOf(list) \ TagsOf(remove)) \cup TagsOf(add)
  BY <1>3, <1>4, EditKeepsOthers
<1>6. \/ \E outcome \in {"ok", "refused", "error"} : Answer(r, outcome)
      \/ /\ req' = [req EXCEPT ![r] = [req[r] EXCEPT !.todo = Tail(req[r].todo), !.live = next]]
         /\ since' = [since EXCEPT !.tags = {}]
         /\ lock' = lock /\ target' = target
  BY <1>1 DEF ReadTags, add, remove
<1>7. [req[r] EXCEPT !.todo = Tail(req[r].todo), !.live = next]
        = [req[r] EXCEPT !.pc = "call", !.todo = Tail(req[r].todo), !.live = next]
  BY <1>2 DEF Requests
<1> HIDE DEF next
<1> QED
  BY <1>1, <1>2, <1>3, <1>5, <1>6, <1>7 DEF list

(* The live read of a rename or deletion: an answer, or the write is next. *)
LEMMA ReadCountsReads ==
  ASSUME TypeInv, NEW r \in Request, ReadCounts(r)
  PROVE  LET op == req[r].op
         IN /\ UNCHANGED <<account, cache, changes, faults, drifted>>
            /\ \/ Answer(r, "refused")
               \/ /\ ~(op.kind = "renameTag" /\ ~op.force /\ Merges(op.tag, op.name))
                  /\ req' = [req EXCEPT ![r] =
                       [req[r] EXCEPT !.pc = "call", !.todo = Tail(req[r].todo), !.live = req[r].live]]
                  /\ since' = [since EXCEPT !.tags = {}]
                  /\ lock' = lock /\ target' = target
<1>1. At(r, "liveCounts") /\ UNCHANGED <<account, cache, changes, faults, drifted>>
  BY DEF ReadCounts
<1>2. req[r] \in Requests /\ req[r].pc = "call"
  BY <1>1, AtCall
<1>3. \/ Answer(r, "refused")
      \/ /\ ~(req[r].op.kind = "renameTag" /\ ~req[r].op.force /\ Merges(req[r].op.tag, req[r].op.name))
         /\ req' = [req EXCEPT ![r] = [req[r] EXCEPT !.todo = Tail(req[r].todo)]]
         /\ since' = [since EXCEPT !.tags = {}]
         /\ lock' = lock /\ target' = target
  BY DEF ReadCounts
<1>4. [req[r] EXCEPT !.todo = Tail(req[r].todo)]
        = [req[r] EXCEPT !.pc = "call", !.todo = Tail(req[r].todo), !.live = req[r].live]
  BY <1>2 DEF Requests
<1> QED
  BY <1>1, <1>3, <1>4

LEMMA LiveReadsKeepTypes ==
  ASSUME TypeInv, NEW r \in Request, LiveTags(r) \/ ReadCounts(r)
  PROVE  TypeInv'
<1>1. [since EXCEPT !.tags = {}] \in Windows
  BY DEF TypeInv, DataOK, Windows
<1>2. PICK call \in LiveReads : At(r, call)
  BY DEF LiveTags, ReadCounts, LiveReads
<1>3. Len(req[r].todo) > 1 /\ RequestsOK /\ DataOK /\ req[r].pc = "call" /\ req[r].live \in Seq(Tag)
  BY <1>2, AtCall, LiveReadGoesOn DEF Requests
<1>4. UNCHANGED <<account, cache, changes, faults, drifted>>
  BY DEF LiveTags, ReadCounts
<1>5. \/ \E outcome \in {"ok", "refused", "error"} : Answer(r, outcome)
      \/ \E live \in Seq(Tag) :
           /\ req' = [req EXCEPT ![r] =
                [req[r] EXCEPT !.pc = "call", !.todo = Tail(req[r].todo), !.live = live]]
           /\ since' = [since EXCEPT !.tags = {}] /\ lock' = lock /\ target' = target
  <2>1. CASE LiveTags(r)
    BY <2>1, LiveTagsReads
  <2>2. CASE ReadCounts(r)
    BY <1>3, <2>2, ReadCountsReads
  <2> QED
    BY <2>1, <2>2
<1>6. ASSUME NEW outcome \in {"ok", "refused", "error"}, Answer(r, outcome) PROVE TypeInv'
  BY <1>3, <1>4, <1>6, AnswerData DEF DataOK
<1>7. ASSUME NEW live \in Seq(Tag),
             req' = [req EXCEPT ![r] =
               [req[r] EXCEPT !.pc = "call", !.todo = Tail(req[r].todo), !.live = live]],
             since' = [since EXCEPT !.tags = {}], lock' = lock, target' = target
      PROVE  TypeInv'
  <2>1. RequestsOK'
    BY <1>3, <1>7, NextCall
  <2> QED
    BY <1>1, <1>3, <1>4, <1>7, <2>1 DEF TypeInv, DataOK
<1> QED
  BY <1>5, <1>6, <1>7

(* A tag renamed or deleted in the account.                                *)
LEMMA ChangeTagWrites ==
  ASSUME TypeInv, NEW r \in Request, ChangeTag(r)
  PROVE  LET op     == req[r].op
             tagged == {s \in account.starred : op.tag \in TagsOf(account.tags[s])}
         IN /\ op.kind \in {"renameTag", "deleteTag"} /\ Head(req[r].todo) = op.kind
            /\ op.kind = "renameTag" => op.name # op.tag
            /\ account' \in Accounts
            /\ account'.starred = account.starred /\ account'.read = account.read
            /\ \A s \in Story : account'.tags[s] = IF s \in tagged THEN Retagged(account.tags[s], op)
                                                   ELSE account.tags[s]
            /\ \/ /\ req' = [req EXCEPT ![r].pc = "patch"]
                  /\ Drift(tagged \ req[r].known, {}, {})
                  /\ UNCHANGED <<lock, faults, since, target>>
               \/ Fault /\ Answer(r, "error") /\ Drift(tagged, {}, {})
            /\ UNCHANGED <<cache, changes>>
<1> DEFINE op == req[r].op
           tagged == {s \in account.starred : op.tag \in TagsOf(account.tags[s])}
<1>1. PICK call \in {"renameTag", "deleteTag"} : At(r, call)
  BY DEF ChangeTag
<1>2. /\ op \in Operations /\ account \in Accounts /\ Head(req[r].todo) = call
      /\ op.kind = call /\ (call = "renameTag" => op.name # op.tag)
  BY <1>1, AtCall, CallsOnStories DEF DataOK
<1>3. account' = [account EXCEPT !.tags =
        [s \in Story |-> IF s \in tagged THEN Retagged(account.tags[s], op) ELSE account.tags[s]]]
  BY DEF ChangeTag
<1>4. \A s \in Story : account.tags[s] \in Seq(Tag) /\ Retagged(account.tags[s], op) \in Seq(Tag)
  BY <1>2, FieldsOfAccount, RetaggedTags
<1> DEFINE tags == [s \in Story |-> IF s \in tagged THEN Retagged(account.tags[s], op)
                                    ELSE account.tags[s]]
<1>5. tags \in [Story -> Seq(Tag)]
  BY <1>4
<1>6. \A s \in Story : tags[s] = IF s \in tagged THEN Retagged(account.tags[s], op)
                                 ELSE account.tags[s]
  OBVIOUS
<1>7. account' = [account EXCEPT !.tags = tags]
  BY <1>3
<1> HIDE DEF tags
<1>8. /\ account' \in Accounts /\ account'.starred = account.starred
      /\ account'.read = account.read /\ account'.tags = tags
  BY <1>2, <1>5, <1>7 DEF Accounts
<1>9. /\ \/ /\ req' = [req EXCEPT ![r].pc = "patch"]
            /\ Drift(tagged \ req[r].known, {}, {})
            /\ UNCHANGED <<lock, faults, since, target>>
         \/ Fault /\ Answer(r, "error") /\ Drift(tagged, {}, {})
      /\ UNCHANGED <<cache, changes>>
  BY DEF ChangeTag
<1> QED
  BY <1>1, <1>2, <1>6, <1>8, <1>9

LEMMA ChangeTagKeepsTypes ==
  ASSUME TypeInv, NEW r \in Request, ChangeTag(r)
  PROVE  TypeInv'
<1> DEFINE tagged == {s \in account.starred : req[r].op.tag \in TagsOf(account.tags[s])}
<1>1. RequestsOK /\ DataOK /\ req[r].pc = "call" /\ Head(req[r].todo) \in Patching
  BY AtCall DEF ChangeTag, Patching, Decided
<1>2. /\ account' \in Accounts /\ UNCHANGED <<cache, changes>>
      /\ \/ /\ req' = [req EXCEPT ![r].pc = "patch"]
            /\ Drift(tagged \ req[r].known, {}, {})
            /\ UNCHANGED <<lock, faults, since, target>>
         \/ Fault /\ Answer(r, "error") /\ Drift(tagged, {}, {})
  BY ChangeTagWrites
<1>3. tagged \in SUBSET Story
  BY <1>1, FieldsOfAccount DEF DataOK
<1> HIDE DEF tagged
<1>4. CASE /\ req' = [req EXCEPT ![r].pc = "patch"]
           /\ Drift(tagged \ req[r].known, {}, {})
           /\ UNCHANGED <<lock, faults, since, target>>
  <2>1. RequestsOK'
    BY <1>1, <1>4, PatchIsDue
  <2>2. drifted' \in Drifting
    BY <1>1, <1>3, <1>4, DriftOK DEF DataOK
  <2> QED
    BY <1>1, <1>2, <1>4, <2>1, <2>2 DEF TypeInv, DataOK
<1>5. CASE Fault /\ Answer(r, "error") /\ Drift(tagged, {}, {})
  <2>1. drifted' \in Drifting /\ faults' \in 0 .. MaxFaults
    BY <1>1, <1>3, <1>5, DriftOK, FaultOK DEF DataOK
  <2> QED
    BY <1>1, <1>2, <1>5, <2>1, AnswerData DEF DataOK
<1> QED
  BY <1>2, <1>4, <1>5

FeedCalls == {"renameFolder", "moveFolder", "createFolder", "deleteFolder",
              "subscribe", "renameFeed", "moveFeed", "deleteFeed"}

(* A call on a folder or feed: an error, or a change of folders and feeds. *)
LEMMA FeedCallWrites ==
  ASSUME TypeInv, NEW r \in Request,
         \/ RenameFolder(r) \/ MoveFolder(r) \/ CreateFolder(r) \/ DeleteFolder(r)
         \/ Subscribe(r) \/ RenameFeed(r) \/ MoveFeed(r) \/ DeleteFeed(r)
  PROVE  \/ \E call \in FeedCalls : At(r, call) /\ \E p : Taken(r, p)
         \/ \E call \in FeedCalls, feeds \in SUBSET Feed, acc \in Accounts :
              /\ At(r, call) /\ Landed(r, feeds, acc)
              /\ acc.starred = account.starred /\ acc.tags = account.tags /\ acc.read = account.read
<1> DEFINE op == req[r].op
           Same(acc) == /\ acc \in Accounts /\ acc.starred = account.starred
                        /\ acc.tags = account.tags /\ acc.read = account.read
<1>1. account \in Accounts
  BY DEF TypeInv, DataOK
<1>2. \A from : \A to \in Path \cup {None} : Same(Relocated(from, to))
  BY <1>1, RelocatedIsAccount DEF Relocated, Accounts
<1>3. \A p \in Path, n \in Name : [p EXCEPT !.name = n] \in Path /\ [p EXCEPT !.parent = n] \in Path
  BY DEF Path
<1> {} \in SUBSET Feed
  OBVIOUS
<1>4. CASE RenameFolder(r)
  <2> DEFINE new == [op.path EXCEPT !.name = op.name]
  <2>1. /\ At(r, "renameFolder") /\ "renameFolder" \in FeedCalls
        /\ Taken(r, new) \/ Landed(r, {}, Relocated(op.path, new))
    BY <1>4 DEF RenameFolder, FeedCalls
  <2>2. new \in Path
    BY <1>3, <2>1, AtCall, CallsOnFeeds
  <2> HIDE DEF new
  <2>3. Same(Relocated(op.path, new))
    BY <1>2, <2>2
  <2> QED
    BY <2>1, <2>3
<1>5. CASE MoveFolder(r)
  <2> DEFINE from == MovedFrom(op)
             to == [from EXCEPT !.parent = op.to]
  <2>1. /\ At(r, "moveFolder") /\ "moveFolder" \in FeedCalls
        /\ Taken(r, to) \/ Landed(r, {}, Relocated(from, to))
    BY <1>5 DEF MoveFolder, FeedCalls
  <2>2. op.path \in Path /\ op.name \in Name \cup {None} /\ op.to \in Name
    BY <2>1, AtCall, CallsOnFeeds
  <2>3. from \in Path
    BY <1>3, <2>2 DEF MovedFrom
  <2> HIDE DEF from
  <2>4. to \in Path
    BY <1>3, <2>2, <2>3
  <2> HIDE DEF to
  <2>5. Same(Relocated(from, to))
    BY <1>2, <2>4
  <2> QED
    BY <2>1, <2>5
<1>6. CASE CreateFolder(r)
  <2>1. At(r, "createFolder") /\ "createFolder" \in FeedCalls
    BY <1>6 DEF CreateFolder, FeedCalls
  <2>2. op.path \in Path
    BY <2>1, AtCall, CallsOnFeeds
  <2>3. CASE Taken(r, op.path)
    BY <2>1, <2>3
  <2>4. CASE \E d \in Folder : Landed(r, {}, [account EXCEPT !.at[d] = op.path])
    <3>1. PICK d \in Folder : Landed(r, {}, [account EXCEPT !.at[d] = op.path])
      BY <2>4
    <3>2. Same([account EXCEPT !.at[d] = op.path])
      BY <1>1, <2>2 DEF Accounts
    <3> QED
      BY <2>1, <3>1, <3>2
  <2> QED
    BY <1>6, <2>3, <2>4 DEF CreateFolder
<1>7. CASE DeleteFolder(r)
  <2>1. /\ At(r, "deleteFolder") /\ "deleteFolder" \in FeedCalls
        /\ Landed(r, {}, Relocated(op.path, None))
    BY <1>7 DEF DeleteFolder, FeedCalls
  <2>2. Same(Relocated(op.path, None))
    BY <1>2
  <2> QED
    BY <2>1, <2>2
<1>8. CASE Subscribe(r)
  <2> DEFINE acc == [account EXCEPT !.feedIn[op.feed] = IF @ = None THEN op.place ELSE @]
  <2>1. At(r, "subscribe") /\ "subscribe" \in FeedCalls /\ Landed(r, {op.feed}, acc)
    BY <1>8 DEF Subscribe, FeedCalls
  <2>2. op.feed \in Feed /\ op.place \in Place
    BY <2>1, AtCall, CallsOnFeeds
  <2>3. Same(acc)
    BY <1>1, <2>2 DEF Accounts
  <2> QED
    BY <2>1, <2>2, <2>3
<1>9. CASE RenameFeed(r)
  <2> DEFINE acc == [account EXCEPT !.title[op.feed] = op.name]
  <2>1. At(r, "renameFeed") /\ "renameFeed" \in FeedCalls /\ Landed(r, {}, acc)
    BY <1>9 DEF RenameFeed, FeedCalls
  <2>2. op.feed \in Feed /\ op.name \in Name
    BY <2>1, AtCall, CallsOnFeeds
  <2>3. Same(acc)
    BY <1>1, <2>2 DEF Accounts
  <2> QED
    BY <2>1, <2>2, <2>3
<1>10. CASE MoveFeed(r)
  <2> DEFINE acc == [account EXCEPT !.feedIn[op.feed] = IF @ = op.from THEN op.to ELSE @]
  <2>1. At(r, "moveFeed") /\ "moveFeed" \in FeedCalls /\ Landed(r, {op.feed}, acc)
    BY <1>10 DEF MoveFeed, FeedCalls
  <2>2. op.feed \in Feed /\ op.to \in Place
    BY <2>1, AtCall, CallsOnFeeds
  <2>3. Same(acc)
    BY <1>1, <2>2 DEF Accounts
  <2> QED
    BY <2>1, <2>2, <2>3
<1>11. CASE DeleteFeed(r)
  <2> DEFINE acc == [account EXCEPT !.feedIn[op.feed] = IF @ \in req[r].known THEN None ELSE @]
  <2>1. At(r, "deleteFeed") /\ "deleteFeed" \in FeedCalls /\ Landed(r, {op.feed}, acc)
    BY <1>11 DEF DeleteFeed, FeedCalls
  <2>2. op.feed \in Feed
    BY <2>1, AtCall, CallsOnFeeds
  <2>3. Same(acc)
    BY <1>1, <2>2 DEF Accounts
  <2> QED
    BY <2>1, <2>2, <2>3
<1> QED
  BY <1>4, <1>5, <1>6, <1>7, <1>8, <1>9, <1>10, <1>11

LEMMA FeedCallsKeepTypes ==
  ASSUME TypeInv, NEW r \in Request,
         \/ RenameFolder(r) \/ MoveFolder(r) \/ CreateFolder(r) \/ DeleteFolder(r)
         \/ Subscribe(r) \/ RenameFeed(r) \/ MoveFeed(r) \/ DeleteFeed(r)
  PROVE  TypeInv' /\ Settled'
<1>1. CASE \E call \in FeedCalls : At(r, call) /\ \E p : Taken(r, p)
  <2>1. PICK call \in FeedCalls : At(r, call) /\ \E p : Taken(r, p)
    BY <1>1
  <2>2. Answer(r, "error") /\ UNCHANGED <<account, cache, changes, faults, drifted>>
    BY <2>1, Zenon DEF Taken
  <2>3. RequestsOK /\ DataOK /\ req[r].pc = "call"
    BY <2>1, AtCall
  <2>4. TypeInv'
    BY <2>2, <2>3, AnswerData DEF DataOK
  <2>5. Settled'
    BY <2>2, <2>3, AnswerOK
  <2> QED
    BY <2>4, <2>5
<1>2. CASE \E call \in FeedCalls, feeds \in SUBSET Feed, acc \in Accounts :
             At(r, call) /\ Landed(r, feeds, acc)
  <2>1. PICK call \in FeedCalls, feeds \in SUBSET Feed, acc \in Accounts :
          At(r, call) /\ Landed(r, feeds, acc)
    BY <1>2
  <2>2. call \notin LiveReads
    BY DEF FeedCalls, LiveReads
  <2> QED
    BY <2>1, <2>2, AtCall, LandedData
<1> QED
  BY <1>1, <1>2, FeedCallWrites

(* The stories whose cached entries a patch writes.                        *)
Reached(r) ==
  IF Head(req[r].todo) \in {"renameTag", "deleteTag"} THEN req[r].known ELSE {req[r].op.story}

LEMMA PatchFacts ==
  ASSUME TypeInv, NEW r \in Request, req[r].pc = "patch"
  PROVE  /\ RequestsOK /\ DataOK /\ lock = r /\ req[r] \in Requests /\ req[r].op \in Operations
         /\ Head(req[r].todo) \in Patching /\ Head(req[r].todo) \notin LiveReads
         /\ Asked(req[r].op, Head(req[r].todo))
         /\ Head(req[r].todo) \in {"renameTag", "deleteTag"} => req[r].known \in SUBSET Story
         /\ Head(req[r].todo) \notin {"renameTag", "deleteTag"} => req[r].op.story \in Story
         /\ Reached(r) \in SUBSET Story
<1>1. /\ RequestsOK /\ DataOK /\ lock = r /\ req[r] \in Requests /\ req[r].op \in Operations
      /\ Planned(req[r]) /\ Head(req[r].todo) = req[r].todo[1]
      /\ Asked(req[r].op, Head(req[r].todo))
  BY HolderFacts DEF TypeInv
<1>2. Head(req[r].todo) \in Patching
  BY <1>1 DEF Planned
<1>3. Head(req[r].todo) \notin LiveReads
  BY <1>2 DEF Patching, Decided, LiveReads
<1>4. Head(req[r].todo) \in {"renameTag", "deleteTag"} => req[r].known \in SUBSET Story
  BY <1>1, CallsOnStories DEF Planned
<1>5. Head(req[r].todo) \notin {"renameTag", "deleteTag"} => req[r].op.story \in Story
  BY <1>1, <1>2, CallsOnStories DEF Patching, Decided
<1> QED
  BY <1>1, <1>2, <1>3, <1>4, <1>5 DEF Reached

(* A patch writes no other entry, and leaves a copy a copy.                *)
LEMMA PatchedCache ==
  ASSUME TypeInv, NEW r \in Request, req[r].pc = "patch"
  PROVE  /\ PatchedList(r) \in SUBSET Story /\ PatchedCopies(r) \in [Story -> Copies]
         /\ \A s \in Story \ Reached(r) : /\ s \in PatchedList(r) <=> s \in cache.listed
                                          /\ PatchedCopies(r)[s] = cache.copy[s]
<1> DEFINE op == req[r].op
           call == Head(req[r].todo)
           copy == cache.copy
<1>1. /\ op \in Operations /\ call \in Patching /\ Asked(op, call) /\ req[r] \in Requests
      /\ call \notin {"renameTag", "deleteTag"} => op.story \in Story
      /\ account \in Accounts /\ cache.listed \in SUBSET Story /\ copy \in [Story -> Copies]
  BY PatchFacts DEF DataOK, Caches
<1> DEFINE Good(copies) == /\ copies \in [Story -> Copies]
                           /\ \A s \in Story \ Reached(r) : copies[s] = copy[s]
<1>2. /\ PatchedList(r) \in SUBSET Story
      /\ \A s \in Story \ Reached(r) : s \in PatchedList(r) <=> s \in cache.listed
  <2>1. CASE call \in {"star", "save", "replaceTags", "editTags"}
    BY <1>1, <2>1 DEF PatchedList, Reached
  <2>2. CASE call = "unstar"
    BY <1>1, <2>2 DEF PatchedList, Reached
  <2>3. CASE call \notin {"star", "save", "replaceTags", "editTags", "unstar"}
    BY <1>1, <2>3 DEF PatchedList, Reached
  <2> QED
    BY <2>1, <2>2, <2>3
<1>3. Good(copy)
  BY <1>1
<1>4. ASSUME NEW s \in Story, Reached(r) = {s}, NEW list \in Seq(Tag) PROVE Good(WithTags(copy, s, list))
  <2>1. CASE copy[s] = None
    BY <1>3, <2>1 DEF WithTags
  <2>2. CASE copy[s] # None
    <3>1. [copy[s] EXCEPT !.tags = list] \in Copies
      BY <1>1, <2>2 DEF Copies
    <3> QED
      BY <1>1, <1>4, <2>2, <3>1 DEF WithTags
  <2> QED
    BY <2>1, <2>2
<1>5. ASSUME NEW s \in Story, Reached(r) = {s}, NEW read \in BOOLEAN PROVE Good(WithRead(copy, s, read))
  <2>1. CASE copy[s] = None
    BY <1>3, <2>1 DEF WithRead
  <2>2. CASE copy[s] # None
    <3>1. [copy[s] EXCEPT !.read = read] \in Copies
      BY <1>1, <2>2 DEF Copies
    <3> QED
      BY <1>1, <1>5, <2>2, <3>1 DEF WithRead
  <2> QED
    BY <2>1, <2>2
<1>6. ASSUME NEW s \in Story, Reached(r) = {s} PROVE Good(WithSaved(copy, s))
  <2>1. CopyOf(account, s) \in Copies
    BY <1>1 DEF CopyOf, Copies, Accounts
  <2> QED
    BY <1>1, <1>3, <1>6, <2>1 DEF WithSaved
<1>7. ASSUME op.kind \in {"renameTag", "deleteTag"}, Reached(r) = req[r].known
      PROVE  Good(WithTag(copy, req[r].known, op))
  <2>1. ASSUME NEW s \in Story, copy[s] # None
        PROVE  [copy[s] EXCEPT !.tags = Retagged(@, op)] \in Copies
    <3>1. copy[s].tags \in Seq(Tag)
      BY <1>1, <2>1 DEF Copies
    <3>2. Retagged(copy[s].tags, op) \in Seq(Tag)
      BY <1>1, <1>7, <3>1, RetaggedTags
    <3> QED
      BY <1>1, <2>1, <3>2 DEF Copies
  <2> QED
    BY <1>1, <1>7, <2>1 DEF WithTag
<1>8. Good(PatchedCopies(r))
  <2>1. CASE call = "markRead"
    <3>1. op.story \in Story /\ op.read \in BOOLEAN /\ Reached(r) = {op.story}
      BY <1>1, <2>1, CallsOnStories DEF Reached
    <3>2. PatchedCopies(r) = WithRead(copy, op.story, op.read)
      BY <2>1 DEF PatchedCopies
    <3> QED
      BY <1>5, <3>1, <3>2
  <2>2. CASE call = "replaceTags"
    <3>1. op.story \in Story /\ op.set \in Seq(Tag) /\ Reached(r) = {op.story}
      BY <1>1, <2>2, CallsOnStories DEF Reached
    <3>2. PatchedCopies(r) = WithTags(copy, op.story, Distinct(op.set)) /\ Distinct(op.set) \in Seq(Tag)
      BY <2>2, <3>1, DistinctTags DEF PatchedCopies
    <3> QED
      BY <1>4, <3>1, <3>2
  <2>3. CASE call = "editTags"
    <3>1. op.story \in Story /\ req[r].live \in Seq(Tag) /\ Reached(r) = {op.story}
      BY <1>1, <2>3, CallsOnStories DEF Reached, Requests
    <3>2. PatchedCopies(r) = WithTags(copy, op.story, req[r].live)
      BY <2>3 DEF PatchedCopies
    <3> QED
      BY <1>4, <3>1, <3>2
  <2>4. CASE call = "save"
    <3>1. op.story \in Story /\ Reached(r) = {op.story}
      BY <1>1, <2>4, CallsOnStories DEF Reached
    <3>2. PatchedCopies(r) = WithSaved(copy, op.story)
      BY <2>4 DEF PatchedCopies
    <3> QED
      BY <1>6, <3>1, <3>2
  <2>5. CASE call \in {"renameTag", "deleteTag"}
    <3>1. op.kind \in {"renameTag", "deleteTag"} /\ Reached(r) = req[r].known
      BY <1>1, <2>5, CallsOnStories DEF Reached
    <3>2. PatchedCopies(r) = WithTag(copy, req[r].known, op)
      BY <2>5 DEF PatchedCopies
    <3> QED
      BY <1>7, <3>1, <3>2
  <2>6. CASE call \notin {"markRead", "replaceTags", "editTags", "save", "renameTag", "deleteTag"}
    <3>1. PatchedCopies(r) = copy
      BY <2>6 DEF PatchedCopies
    <3> QED
      BY <1>3, <3>1
  <2> QED
    BY <2>1, <2>2, <2>3, <2>4, <2>5, <2>6
<1> QED
  BY <1>2, <1>8

(* What a patch leaves: each of its two parts is made, or its entries      *)
(* drift.                                                                  *)
LEMMA PatchCacheWrites ==
  ASSUME TypeInv, NEW r \in Request, PatchCache(r)
  PROVE  /\ TypeInv' /\ Settled' /\ account' = account /\ changes' = changes
         /\ \E list, copies \in BOOLEAN :
              /\ cache'.listed = IF list THEN PatchedList(r) ELSE cache.listed
              /\ cache'.copy = IF copies THEN PatchedCopies(r) ELSE cache.copy
              /\ drifted'.copies = IF copies THEN drifted.copies ELSE drifted.copies \cup Reached(r)
              /\ drifted'.list = IF list THEN drifted.list ELSE drifted.list \cup Reached(r)
<1>1. req[r].pc = "patch" /\ Proceed(r) /\ UNCHANGED <<account, changes>>
  BY DEF PatchCache
<1>2. RequestsOK /\ DataOK /\ Head(req[r].todo) \notin LiveReads /\ Reached(r) \in SUBSET Story
  BY <1>1, PatchFacts
<1>3. PatchedList(r) \in SUBSET Story /\ PatchedCopies(r) \in [Story -> Copies]
  BY <1>1, PatchedCache
<1>4. PICK list \in BOOLEAN, copies \in BOOLEAN :
        /\ IF list /\ copies THEN UNCHANGED faults ELSE Fault
        /\ cache' = [cache EXCEPT !.listed = IF list THEN PatchedList(r) ELSE @,
                                  !.copy = IF copies THEN PatchedCopies(r) ELSE @]
        /\ Drift(IF copies THEN {} ELSE Reached(r), IF list THEN {} ELSE Reached(r), {})
  BY DEF PatchCache, Reached
<1>5. faults' \in 0 .. MaxFaults
  BY <1>2, <1>4, FaultOK DEF DataOK
<1>6. /\ cache' \in Caches
      /\ cache'.listed = IF list THEN PatchedList(r) ELSE cache.listed
      /\ cache'.copy = IF copies THEN PatchedCopies(r) ELSE cache.copy
  BY <1>2, <1>3, <1>4 DEF DataOK, Caches
<1>7. drifted' \in Drifting
  BY <1>2, <1>4, DriftOK DEF DataOK
<1>8. /\ drifted'.copies = IF copies THEN drifted.copies ELSE drifted.copies \cup Reached(r)
      /\ drifted'.list = IF list THEN drifted.list ELSE drifted.list \cup Reached(r)
  BY <1>4 DEF Drift
<1>9. RequestsOK' /\ Settled' /\ since' \in {since, Nothing} /\ target' \in {target, None}
  BY <1>1, <1>2, ProceedOK
<1>10. TypeInv'
  BY <1>1, <1>2, <1>5, <1>6, <1>7, <1>9, NothingOK DEF TypeInv, DataOK
<1> QED
  BY <1>1, <1>6, <1>8, <1>9, <1>10

THEOREM TypesAreKept == TypeInv /\ [Next]_vars => TypeInv'
<1> SUFFICES ASSUME TypeInv, [Next]_vars PROVE TypeInv'
  OBVIOUS
<1>1. CASE UNCHANGED vars
  BY <1>1 DEF vars, history, TypeInv, RequestsOK, PlanOK, DataOK
<1>2. CASE \E r \in Request : \E op \in Op[r] : Submit(r, op)
  BY <1>2, SubmitKeepsTypes
<1>3. ASSUME NEW r \in Request, Lock(r) \/ Call(r) \/ Fails(r) \/ PatchCache(r) PROVE TypeInv'
  <2>1. CASE Lock(r)
    BY <2>1, LockKeepsTypes
  <2>2. CASE Fails(r)
    BY <2>2, FailsKeepsTypes
  <2>3. CASE PatchCache(r)
    BY <2>3, PatchCacheWrites
  <2>4. CASE Call(r)
    BY <2>4, StoryCallsKeepTypes, LiveReadsKeepTypes, ChangeTagKeepsTypes, FeedCallsKeepTypes
       DEF Call
  <2> QED
    BY <1>3, <2>1, <2>2, <2>3, <2>4
<1>4. CASE OtherParties
  BY <1>4, OthersKeepTypes
<1>5. CASE AllAnswered
  BY <1>1, <1>5 DEF AllAnswered
<1> QED
  BY <1>1, <1>2, <1>3, <1>4, <1>5 DEF Next

LEMMA TypesAtFirst == Init => TypeInv
<1> SUFFICES ASSUME Init PROVE TypeInv
  OBVIOUS
<1>1. account \in Accounts
  BY AccountAssumption DEF Init
<1>2. \A s \in Story : CopyOf(account, s) \in Copies /\ None \in Copies
  BY <1>1 DEF CopyOf, Copies, Accounts
<1>3. cache \in Caches
  BY <1>1, <1>2 DEF Init, Caches, Accounts
<1>4. NoRequest \in Requests /\ NoRequest.pc = "idle"
  <2>1. /\ <<>> \in Seq(CallName) /\ <<>> \in Seq(Tag)
        /\ {} \in SUBSET (Story \cup Place \cup {None})
    OBVIOUS
  <2> QED
    BY <2>1 DEF NoRequest, Requests
<1>5. RequestsOK
  BY <1>4, PartiesAssumption DEF Init, RequestsOK, PlanOK
<1>6. DataOK
  BY <1>1, <1>3, NothingOK, BoundsAssumption DEF Init, DataOK, Drifting
<1> QED
  BY <1>5, <1>6 DEF TypeInv

LEMMA Types == Spec => []TypeInv
BY TypesAtFirst, TypesAreKept, PTL DEF Spec

(* Whatever is asked for, and whatever fails: every variable has its type, *)
(* and at most one request is past mutateMu.Lock, the one that holds it.   *)
THEOREM TypeCorrect == Spec => []TypeOK
BY Types, TypeInvImpliesTypeOK, PTL

-----------------------------------------------------------------------------
(* What a live read promises to the write that it decides on.              *)

DecidedInv == MergeInv /\ EditInv

LEMMA SettledDecides == Settled => DecidedInv /\ WrittenInv
BY DEF Settled, DecidedInv, MergeInv, EditInv, WrittenInv, At, Decided

(* A write that lands, or a call that is answered, leaves no request at a  *)
(* call.                                                                   *)
LEMMA LandingLeavesNoCall ==
  ASSUME RequestsOK, NEW r \in Request, req[r].pc = "call", Head(req[r].todo) \in Patching,
         \/ lock' = lock /\ req' = [req EXCEPT ![r].pc = "patch"]
         \/ Answer(r, "error")
  PROVE  DecidedInv'
<1>1. \A q \in Request : req'[q].pc # "call"
  <2>1. CASE lock' = lock /\ req' = [req EXCEPT ![r].pc = "patch"]
    <3>1. /\ \A q \in Request \ {r} : req'[q] = req[q] /\ req[q].pc \notin {"call", "patch"}
          /\ req'[r].pc = "patch"
      BY <2>1, PatchIsDue
    <3> QED
      BY <3>1
  <2>2. CASE Answer(r, "error")
    <3>1. RequestsOK' /\ lock' = None
      BY <2>2, AnswerOK
    <3> QED
      BY <3>1, PartiesAssumption DEF RequestsOK
  <2> QED
    BY <2>1, <2>2
<1> QED
  BY <1>1 DEF DecidedInv, MergeInv, EditInv, At

LEMMA StoryCallsDecide ==
  ASSUME TypeInv, NEW r \in Request,
         \/ MarkRead(r) \/ ReplaceTags(r) \/ Save(r) \/ Star(r) \/ Unstar(r) \/ EditTags(r)
         \/ ChangeTag(r)
  PROVE  DecidedInv'
<1>1. PICK call \in Patching : At(r, call)
  BY DEF MarkRead, ReplaceTags, Save, Star, Unstar, EditTags, ChangeTag, Patching, Decided
<1>2. \/ lock' = lock /\ req' = [req EXCEPT ![r].pc = "patch"]
      \/ Answer(r, "error")
  BY DEF MarkRead, ReplaceTags, Save, Star, Unstar, EditTags, ChangeTag, Landing
<1> QED
  BY <1>1, <1>2, AtCall, LandingLeavesNoCall

LEMMA LiveReadsDecide ==
  ASSUME TypeInv, NEW r \in Request, LiveTags(r) \/ ReadCounts(r)
  PROVE  DecidedInv'
<1>1. PICK call \in LiveReads : At(r, call)
  BY DEF LiveTags, ReadCounts, LiveReads
<1>2. /\ Len(req[r].todo) > 1 /\ RequestsOK /\ DataOK /\ req[r].pc = "call" /\ req[r].op \in Operations
      /\ req[r].live \in Seq(Tag) /\ account' = account /\ Asked(req[r].op, call)
  BY <1>1, AtCall, LiveReadGoesOn DEF Requests, LiveTags, ReadCounts
<1>3. ASSUME NEW outcome \in {"ok", "refused", "error"}, Answer(r, outcome) PROVE DecidedInv'
  <2>1. Settled'
    BY <1>2, <1>3, AnswerOK
  <2> QED
    BY <2>1 DEF Settled, DecidedInv, MergeInv, EditInv, At, Decided
<1>4. CASE LiveTags(r)
  <2>1. CASE \E outcome \in {"ok", "refused", "error"} : Answer(r, outcome)
    BY <1>3, <2>1
  <2>2. ASSUME NEW live \in Seq(Tag),
               TagsOf(live) = (TagsOf(account.tags[req[r].op.story]) \ TagsOf(ListOf(req[r].op.remove)))
                                \cup TagsOf(ListOf(req[r].op.add)),
               req' = [req EXCEPT ![r] =
                 [req[r] EXCEPT !.pc = "call", !.todo = Tail(req[r].todo), !.live = live]],
               lock' = lock
        PROVE  DecidedInv'
    <3>1. /\ \A q \in Request \ {r} : req'[q] = req[q] /\ req[q].pc \notin {"call", "patch"}
          /\ req'[r].op = req[r].op /\ req'[r].live = live
          /\ Asked(req[r].op, Head(req'[r].todo))
      BY <1>2, <2>2, NextCall
    <3>2. req[r].op.kind = "patchStory"
      BY <1>2, <1>4, CallsOnStories, AtCall DEF LiveTags
    <3>3. Head(req'[r].todo) # "renameTag"
      BY <1>2, <3>1, <3>2, CallsOnStories
    <3>4. MergeInv'
      BY <3>1, <3>3 DEF MergeInv, At
    <3>5. EditInv'
      BY <1>2, <2>2, <3>1 DEF EditInv, At
    <3> QED
      BY <3>4, <3>5 DEF DecidedInv
  <2> QED
    BY <1>4, <2>1, <2>2, LiveTagsReads
<1>5. CASE ReadCounts(r)
  <2>1. CASE Answer(r, "refused")
    BY <1>3, <2>1
  <2>2. CASE /\ ~(req[r].op.kind = "renameTag" /\ ~req[r].op.force /\ Merges(req[r].op.tag, req[r].op.name))
             /\ req' = [req EXCEPT ![r] =
                  [req[r] EXCEPT !.pc = "call", !.todo = Tail(req[r].todo), !.live = req[r].live]]
             /\ lock' = lock
    <3>1. /\ \A q \in Request \ {r} : req'[q] = req[q] /\ req[q].pc \notin {"call", "patch"}
          /\ req'[r].op = req[r].op /\ Asked(req[r].op, Head(req'[r].todo))
      BY <1>2, <2>2, NextCall
    <3>2. req[r].op.kind \in {"renameTag", "deleteTag"}
      BY <1>2, <1>5, CallsOnStories, AtCall DEF ReadCounts
    <3>3. Head(req'[r].todo) # "editTags"
      BY <1>2, <3>1, <3>2, CallsOnStories
    <3>4. EditInv'
      BY <3>1, <3>3 DEF EditInv, At
    <3>5. Head(req'[r].todo) = "renameTag" => req[r].op.kind = "renameTag"
      BY <1>2, <3>1, CallsOnStories
    <3>6. LiveCounts' = LiveCounts
      BY <1>2 DEF LiveCounts
    <3>7. MergeInv'
      <4> SUFFICES ASSUME At(r, "renameTag")', ~req'[r].op.force,
                          NEW tag \in LiveCounts' \ {req'[r].op.tag},
                          tag = req'[r].op.name \/ {tag, req'[r].op.name} \in SameName
                   PROVE  FALSE
        BY <3>1 DEF MergeInv, At
      <4>1. req[r].op.kind = "renameTag" /\ ~req[r].op.force
        BY <3>1, <3>5 DEF At
      <4>2. Merges(req[r].op.tag, req[r].op.name)
        BY <3>1, <3>6 DEF Merges
      <4> QED
        BY <2>2, <4>1, <4>2
    <3> QED
      BY <3>4, <3>7 DEF DecidedInv
  <2> QED
    BY <1>5, <2>1, <2>2, ReadCountsReads
<1> QED
  BY <1>4, <1>5

(* What another party gives a story while a request holds mutateMu is      *)
(* noted.                                                                  *)
LEMMA OthersAreNoted ==
  ASSUME TypeInv, OtherParties
  PROVE  /\ lock' = lock /\ req' = req
         /\ lock # None =>
              /\ since.tags \subseteq since'.tags
              /\ \A s \in Story : TagsOf(account'.tags[s]) \subseteq TagsOf(account.tags[s]) \cup since'.tags
              /\ LiveCounts' \subseteq LiveCounts \cup since'.tags
<1> DEFINE Goal == lock # None =>
              /\ since.tags \subseteq since'.tags
              /\ \A s \in Story : TagsOf(account'.tags[s]) \subseteq TagsOf(account.tags[s]) \cup since'.tags
              /\ LiveCounts' \subseteq LiveCounts \cup since'.tags
<1>1. account \in Accounts /\ since \in Windows
  BY DEF TypeInv, DataOK
<1>2. lock' = lock /\ req' = req
  BY DEF OtherParties, AppTagsStory, AppStars, AppReads, AppMovesFolder, AppMovesFeed, Fetch, Change
<1>3. ASSUME NEW tags, NEW things, Noted(tags, things), lock # None PROVE since'.tags = since.tags \cup tags
  BY <1>3 DEF Noted
<1>4. ASSUME account'.tags = account.tags, account'.starred = account.starred,
             since.tags \subseteq since'.tags \/ lock = None
      PROVE  Goal
  BY <1>4 DEF LiveCounts
<1>5. ASSUME NEW s \in Story, AppTagsStory(s) PROVE Goal
  <2>1. s \in account.starred
    BY <1>5 DEF AppTagsStory
  <2>2. PICK list \in AppTags :
          /\ account' = [account EXCEPT !.tags[s] = list]
          /\ Noted(TagsOf(list) \ TagsOf(account.tags[s]), {s})
    BY <1>5 DEF AppTagsStory
  <2>3. /\ account'.starred = account.starred /\ account'.tags[s] = list
        /\ \A x \in Story \ {s} : account'.tags[x] = account.tags[x]
    BY <1>1, <2>2 DEF Accounts
  <2>4. lock # None => since'.tags = since.tags \cup (TagsOf(list) \ TagsOf(account.tags[s]))
    BY <1>3, <2>2
  <2>5. account.starred \subseteq Story
    BY <1>1, FieldsOfAccount
  <2> QED
    BY <2>1, <2>3, <2>4, <2>5 DEF LiveCounts
<1>6. ASSUME NEW s \in Story, AppStars(s) PROVE Goal
  <2>1. PICK list \in IF s \in account.starred THEN {<<>>} ELSE AppTags :
          /\ account' = [account EXCEPT !.starred = IF s \in @ THEN @ \ {s} ELSE @ \cup {s},
                                        !.tags[s] = list]
          /\ Noted(TagsOf(list), {s})
    BY <1>6 DEF AppStars
  <2>2. /\ account'.starred \subseteq account.starred \cup {s} /\ account'.tags[s] = list
        /\ \A x \in Story \ {s} : account'.tags[x] = account.tags[x]
    BY <1>1, <2>1 DEF Accounts
  <2>3. lock # None => since'.tags = since.tags \cup TagsOf(list)
    BY <1>3, <2>1
  <2>4. account.starred \subseteq Story
    BY <1>1, FieldsOfAccount
  <2> QED
    BY <2>2, <2>3, <2>4 DEF LiveCounts
<1>7. ASSUME NEW s \in Story, AppReads(s) PROVE Goal
  <2>1. account' = [account EXCEPT !.read[s] = ~@] /\ Noted({}, {s})
    BY <1>7 DEF AppReads
  <2>2. account'.tags = account.tags /\ account'.starred = account.starred
    BY <1>1, <2>1 DEF Accounts
  <2> QED
    BY <1>3, <1>4, <2>1, <2>2
<1>8. ASSUME NEW d \in Folder, AppMovesFolder(d) PROVE Goal
  <2>1. PICK p \in AppPaths : account' = [account EXCEPT !.at[d] = p]
    BY <1>8 DEF AppMovesFolder
  <2>2. account'.tags = account.tags /\ account'.starred = account.starred
    BY <1>1, <2>1 DEF Accounts
  <2>3. Noted({}, {d})
    BY <1>8 DEF AppMovesFolder
  <2> QED
    BY <1>3, <1>4, <2>2, <2>3
<1>9. ASSUME NEW f \in Feed, AppMovesFeed(f) PROVE Goal
  <2>1. PICK p \in Place : account' = [account EXCEPT !.feedIn[f] = p]
    BY <1>9 DEF AppMovesFeed
  <2>2. account'.tags = account.tags /\ account'.starred = account.starred
    BY <1>1, <2>1 DEF Accounts
  <2>3. Noted({}, {f})
    BY <1>9 DEF AppMovesFeed
  <2> QED
    BY <1>3, <1>4, <2>2, <2>3
<1>10. ASSUME Fetch PROVE Goal
  <2>1. account' = account /\ since' = since
    BY <1>10 DEF Fetch
  <2> QED
    BY <1>4, <2>1
<1> QED
  BY <1>2, <1>5, <1>6, <1>7, <1>8, <1>9, <1>10 DEF OtherParties

LEMMA OthersDecide == TypeInv /\ DecidedInv /\ OtherParties => DecidedInv'
<1> SUFFICES ASSUME TypeInv, DecidedInv, OtherParties PROVE DecidedInv'
  OBVIOUS
<1>1. lock' = lock /\ req' = req
  BY OthersAreNoted
<1>2. ASSUME NEW r \in Request, NEW call, At(r, call)'
      PROVE  /\ At(r, call) /\ req[r].op \in Operations /\ Asked(req[r].op, call)
             /\ since.tags \subseteq since'.tags
             /\ \A s \in Story : TagsOf(account'.tags[s]) \subseteq TagsOf(account.tags[s]) \cup since'.tags
             /\ LiveCounts' \subseteq LiveCounts \cup since'.tags
  <2>1. At(r, call)
    BY <1>1, <1>2 DEF At
  <2>2. lock # None /\ req[r].op \in Operations /\ Asked(req[r].op, call)
    BY <2>1, AtCall
  <2> QED
    BY <2>1, <2>2, OthersAreNoted
<1>3. MergeInv'
  <2> SUFFICES ASSUME NEW r \in Request, At(r, "renameTag")', ~req'[r].op.force,
                      NEW tag \in LiveCounts' \ {req'[r].op.tag},
                      tag = req'[r].op.name \/ {tag, req'[r].op.name} \in SameName
               PROVE  tag \in since'.tags
    BY DEF MergeInv
  <2> QED
    BY <1>1, <1>2 DEF DecidedInv, MergeInv
<1>4. EditInv'
  <2> SUFFICES ASSUME NEW r \in Request, At(r, "editTags")'
               PROVE  TagsOf(account'.tags[req[r].op.story]) \ TagsOf(req[r].live)
                        \subseteq TagsOf(ListOf(req[r].op.remove)) \cup since'.tags
    BY <1>1 DEF EditInv
  <2>1. req[r].op.story \in Story
    BY <1>2, CallsOnStories
  <2> QED
    BY <1>2, <2>1 DEF DecidedInv, EditInv
<1> QED
  BY <1>3, <1>4 DEF DecidedInv

LEMMA SubmitDecides ==
  ASSUME TypeInv, DecidedInv, NEW r \in Request, NEW op \in Op[r], Submit(r, op)
  PROVE  DecidedInv'
<1>1. /\ TypeInv' /\ \A q \in Request \ {r} : req'[q] = req[q]
      /\ req[r].pc = "idle" /\ UNCHANGED <<account, since, lock>>
  BY SubmitKeepsTypes DEF Submit, history
<1>2. req'[r].pc # "call"
  BY <1>1 DEF TypeInv, RequestsOK
<1> QED
  BY <1>1, <1>2 DEF DecidedInv, MergeInv, EditInv, At, LiveCounts

LEMMA DecidedIsKept == TypeInv /\ DecidedInv /\ [Next]_vars => DecidedInv'
<1> SUFFICES ASSUME TypeInv, DecidedInv, [Next]_vars PROVE DecidedInv'
  OBVIOUS
<1>1. CASE UNCHANGED vars
  BY <1>1 DEF vars, history, DecidedInv, MergeInv, EditInv, At, LiveCounts
<1>2. ASSUME Settled' PROVE DecidedInv'
  BY <1>2 DEF Settled, DecidedInv, MergeInv, EditInv, At, Decided
<1>3. ASSUME NEW r \in Request, Lock(r) \/ Call(r) \/ Fails(r) \/ PatchCache(r) PROVE DecidedInv'
  <2>1. CASE Lock(r)
    BY <1>2, <2>1, LockKeepsTypes
  <2>2. CASE Fails(r)
    BY <1>2, <2>2, AnswerOK DEF Fails, TypeInv
  <2>3. CASE PatchCache(r)
    BY <1>2, <2>3, PatchCacheWrites
  <2>4. CASE Call(r)
    BY <1>2, <2>4, StoryCallsDecide, LiveReadsDecide, FeedCallsKeepTypes DEF Call
  <2> QED
    BY <1>3, <2>1, <2>2, <2>3, <2>4
<1>4. CASE AllAnswered
  BY <1>1, <1>4 DEF AllAnswered
<1> QED
  BY <1>1, <1>3, <1>4, SubmitDecides, OthersDecide DEF Next

LEMMA DecidedAtFirst == Init => DecidedInv
<1> SUFFICES ASSUME Init PROVE DecidedInv
  OBVIOUS
<1>1. \A r \in Request : req[r].pc = "idle"
  BY DEF Init, NoRequest
<1> QED
  BY <1>1 DEF DecidedInv, MergeInv, EditInv, At

LEMMA Decisions == Spec => []DecidedInv
BY Types, DecidedAtFirst, DecidedIsKept, PTL DEF Spec

(* patchTag refuses a rename that would merge two tags on the counts it    *)
(* has just read: at the rename itself only a tag that an app has set      *)
(* since then can be in the way.                                           *)
THEOREM MergesOnlyByApps == Spec => NoSilentMerge
<1>1. TypeInv /\ DecidedInv /\ [Next]_vars =>
        [\A r \in Request :
           LET op == req[r].op
           IN Own /\ At(r, "renameTag") /\ account' # account /\ ~op.force =>
                \A s \in account.starred : \A tag \in TagsOf(account.tags[s]) \ {op.tag} :
                  tag = op.name \/ {tag, op.name} \in SameName => tag \in since.tags]_vars
  BY DEF DecidedInv, MergeInv, LiveCounts
<1> QED
  BY <1>1, Types, Decisions, PTL DEF Spec, NoSilentMerge

-----------------------------------------------------------------------------
(* Tags that are lost.                                                     *)

Excused(s, tag) ==
  LET op == req[lock].op
  IN \/ op.kind \in {"deleteStory", "createStory", "saveStory"} /\ op.story = s
     \/ op.kind = "patchStory" /\ op.story = s /\ op.set # None /\ op.force
     \/ op.kind = "patchStory" /\ op.story = s /\ tag \in TagsOf(ListOf(op.remove))
     \/ op.kind \in {"renameTag", "deleteTag"} /\ op.tag = tag
     \/ tag \in since.tags

LossExcused ==
  Own => \A s \in Story : \A tag \in TagsOf(account.tags[s]) \ TagsOf(account'.tags[s]) :
           Excused(s, tag)

LEMMA StarringLoses ==
  ASSUME account \in Accounts, NEW x \in Story, NEW list \in Seq(Tag),
         account' = Starred(x, list)
  PROVE  account'.tags[x] = list /\ \A s \in Story \ {x} : account'.tags[s] = account.tags[s]
BY DEF Starred, Accounts

LEMMA CallsLoseOnRequest ==
  ASSUME TypeInv, DecidedInv, NEW r \in Request, Call(r)
  PROVE  LossExcused
<1> DEFINE op == req[r].op
<1>1. account \in Accounts
  BY DEF TypeInv, DataOK
<1>2. ASSUME account'.tags = account.tags PROVE LossExcused
  BY <1>2 DEF LossExcused
<1>3. CASE MarkRead(r)
  <2>1. account' = [account EXCEPT !.read[op.story] = op.read]
    BY <1>3 DEF MarkRead, Landing
  <2>2. account'.tags = account.tags
    BY <1>1, <2>1 DEF Accounts
  <2> QED
    BY <1>2, <2>2
<1>4. CASE ReplaceTags(r)
  <2>1. At(r, "replaceTags") /\ account' = Starred(op.story, Distinct(op.set))
    BY <1>4 DEF ReplaceTags, Landing
  <2>2. /\ lock = r /\ op.kind = "patchStory" /\ op.story \in Story /\ op.set \in Seq(Tag)
        /\ op.set # None /\ op.force
    BY <2>1, AtCall, CallsOnStories
  <2>3. \A s \in Story \ {op.story} : account'.tags[s] = account.tags[s]
    BY <1>1, <2>1, <2>2, DistinctTags, StarringLoses
  <2> QED
    BY <2>2, <2>3 DEF LossExcused, Excused
<1>5. CASE Save(r) \/ Star(r)
  <2>1. PICK call \in {"save", "star"} : At(r, call)
    BY <1>5 DEF Save, Star
  <2>2. account' = Starred(op.story, Distinct(op.tags))
    BY <1>5 DEF Save, Star, Landing
  <2>3. /\ lock = r /\ op.kind \in {"createStory", "saveStory"} /\ op.story \in Story
        /\ op.tags \in Seq(Tag)
    BY <2>1, AtCall, CallsOnStories
  <2>4. \A s \in Story \ {op.story} : account'.tags[s] = account.tags[s]
    BY <1>1, <2>2, <2>3, DistinctTags, StarringLoses
  <2> QED
    BY <2>3, <2>4 DEF LossExcused, Excused
<1>6. CASE Unstar(r)
  <2>1. At(r, "unstar") /\ account' = [account EXCEPT !.starred = @ \ {op.story}, !.tags[op.story] = <<>>]
    BY <1>6 DEF Unstar, Landing
  <2>2. lock = r /\ op.kind = "deleteStory" /\ op.story \in Story
    BY <2>1, AtCall, CallsOnStories
  <2>3. \A s \in Story \ {op.story} : account'.tags[s] = account.tags[s]
    BY <1>1, <2>1, <2>2 DEF Accounts
  <2> QED
    BY <2>2, <2>3 DEF LossExcused, Excused
<1>7. CASE LiveTags(r) \/ ReadCounts(r)
  BY <1>2, <1>7 DEF LiveTags, ReadCounts
<1>8. CASE EditTags(r)
  <2>1. At(r, "editTags") /\ account' = Starred(op.story, req[r].live)
    BY <1>8 DEF EditTags, Landing
  <2>2. lock = r /\ op.kind = "patchStory" /\ op.story \in Story /\ req[r].live \in Seq(Tag)
    BY <2>1, AtCall, CallsOnStories DEF Requests
  <2>3. /\ account'.tags[op.story] = req[r].live
        /\ \A s \in Story \ {op.story} : account'.tags[s] = account.tags[s]
    BY <1>1, <2>1, <2>2, StarringLoses
  <2>4. TagsOf(account.tags[op.story]) \ TagsOf(req[r].live)
          \subseteq TagsOf(ListOf(op.remove)) \cup since.tags
    BY <2>1 DEF DecidedInv, EditInv
  <2> QED
    BY <2>2, <2>3, <2>4 DEF LossExcused, Excused
<1>9. CASE ChangeTag(r)
  <2>1. PICK call \in {"renameTag", "deleteTag"} : At(r, call)
    BY <1>9 DEF ChangeTag
  <2>2. lock = r /\ op \in Operations /\ op.kind \in {"renameTag", "deleteTag"}
    BY <2>1, AtCall, CallsOnStories
  <2>3. \A s \in Story : account.tags[s] \in Seq(Tag)
    BY <1>1, FieldsOfAccount
  <2>4. \A s \in Story : account'.tags[s] = account.tags[s]
                         \/ account'.tags[s] = Retagged(account.tags[s], op)
    BY <1>9, ChangeTagWrites
  <2>5. \A s \in Story : TagsOf(account.tags[s]) \ {op.tag} \subseteq TagsOf(account'.tags[s])
    BY <2>2, <2>3, <2>4, RetaggedTags
  <2> QED
    BY <2>2, <2>5 DEF LossExcused, Excused
<1>10. CASE \/ RenameFolder(r) \/ MoveFolder(r) \/ CreateFolder(r) \/ DeleteFolder(r)
            \/ Subscribe(r) \/ RenameFeed(r) \/ MoveFeed(r) \/ DeleteFeed(r)
  <2>1. account'.tags = account.tags
    BY <1>10, FeedCallWrites, Zenon DEF Taken, Landed
  <2> QED
    BY <1>2, <2>1
<1> QED
  BY <1>3, <1>4, <1>5, <1>6, <1>7, <1>8, <1>9, <1>10 DEF Call

(* However old the index's copy is, and whatever the apps do meanwhile: a  *)
(* mutation takes off a story only the tags that its caller asked it to,   *)
(* or that an app gave the story after the live read.                      *)
THEOREM TagsAreKept == Spec => TagsLostOnlyOnRequest
<1>1. TypeInv /\ DecidedInv /\ [Next]_vars => [LossExcused]_vars
  <2> SUFFICES ASSUME TypeInv, DecidedInv, Next PROVE LossExcused
    OBVIOUS
  <2>1. ASSUME account'.tags = account.tags PROVE LossExcused
    BY <2>1 DEF LossExcused
  <2>2. CASE \E r \in Request : \E op \in Op[r] : Submit(r, op)
    BY <2>1, <2>2 DEF Submit
  <2>3. ASSUME NEW r \in Request, Lock(r) \/ Fails(r) \/ PatchCache(r) PROVE LossExcused
    BY <2>1, <2>3 DEF Lock, Fails, PatchCache
  <2>4. CASE OtherParties
    <3>1. Change
      BY <2>4 DEF OtherParties, AppTagsStory, AppStars, AppReads, AppMovesFolder, AppMovesFeed, Fetch
    <3>2. changes' = changes + 1 /\ changes \in 0 .. MaxChanges
      BY <3>1 DEF Change, TypeInv, DataOK
    <3>3. changes' # changes
      BY <3>2, BoundsAssumption
    <3> QED
      BY <3>3 DEF LossExcused, Own
  <2>5. CASE AllAnswered
    BY <2>1, <2>5 DEF AllAnswered, vars
  <2> QED
    BY <2>2, <2>3, <2>4, <2>5, CallsLoseOnRequest DEF Next
<1>2. [][LossExcused]_vars => TagsLostOnlyOnRequest
  BY Zenon DEF TagsLostOnlyOnRequest, LossExcused, Excused
<1> QED
  BY <1>1, <1>2, Types, Decisions, PTL DEF Spec

-----------------------------------------------------------------------------
(* The cache follows the account.                                          *)

SameStory(acc, x) == /\ x \in acc.starred <=> x \in account.starred
                     /\ acc.tags[x] = account.tags[x] /\ acc.read[x] = account.read[x]

LEMMA NotPending ==
  ASSUME RequestsOK
  PROVE  ~Pending <=> \A r \in Request : req[r].pc # "patch"
BY PartiesAssumption DEF RequestsOK, Pending

LEMMA SettledNext == RequestsOK' /\ Settled' => ~Pending' /\ WrittenInv'
BY DEF RequestsOK, Settled, Pending, WrittenInv

LEMMA AgreesAlike ==
  ASSUME NEW c, NEW acc, NEW x, SameStory(acc, x), Agrees(c, account, x)
  PROVE  Agrees(c, acc, x)
BY DEF Agrees, SameStory

(* No patch is due, before and after: what has changed in the account has  *)
(* drifted.                                                                *)
LEMMA QuietKeeps ==
  ASSUME CacheInv, ~Pending, ~Pending', WrittenInv', NEW D \in SUBSET Story,
         cache'.copy = cache.copy, cache'.listed = cache.listed,
         drifted.copies \cup D \subseteq drifted'.copies,
         drifted.list \subseteq drifted'.list,
         \A x \in Story \ D : SameStory(account', x),
         \A x \in Story \ drifted'.list : x \in account'.starred <=> x \in account.starred
  PROVE  CacheInv'
<1>1. CopyInv'
  <2> SUFFICES ASSUME NEW x \in Story \ drifted'.copies
               PROVE  Agrees(cache'.copy[x], account', x)
    BY DEF CopyInv
  <2>1. Agrees(cache.copy[x], account, x)
    BY DEF CacheInv, CopyInv
  <2> QED
    BY <2>1, AgreesAlike
<1>2. ListInv'
  <2> SUFFICES ASSUME NEW x \in Story \ drifted'.list
               PROVE  x \in cache'.listed <=> x \in account'.starred
    BY DEF ListInv
  <2>1. x \in cache.listed <=> x \in account.starred
    BY DEF CacheInv, ListInv
  <2> QED
    BY <2>1
<1> QED
  BY <1>1, <1>2 DEF CacheInv

(* A call that is answered with an error, its write landed or not.         *)
LEMMA ErrorKeeps ==
  ASSUME TypeInv, CacheInv, NEW r \in Request, req[r].pc = "call", Answer(r, "error"),
         cache' = cache, NEW D \in SUBSET Story, NEW L \in SUBSET Story, Drift(D, L, {}),
         \A x \in Story \ D : SameStory(account', x),
         \A x \in Story \ L : x \in account'.starred <=> x \in account.starred
  PROVE  CacheInv'
<1>1. RequestsOK' /\ Settled'
  BY AnswerOK DEF TypeInv
<1>2. ~Pending' /\ WrittenInv'
  BY <1>1, SettledNext
<1>3. ~Pending
  BY DEF TypeInv, RequestsOK, Pending
<1>4. drifted'.copies = drifted.copies \cup D /\ drifted'.list = drifted.list \cup L
  BY DEF Drift
<1> QED
  BY <1>2, <1>3, <1>4, QuietKeeps

(* A write that lands, and that a patch of the cache is to follow.         *)
LEMMA LandingKeeps ==
  ASSUME TypeInv, CacheInv, NEW r \in Request, NEW call \in Patching, At(r, call),
         req' = [req EXCEPT ![r].pc = "patch"], lock' = lock, since' = since, cache' = cache,
         Written(req[r], account', since.things),
         \A x \in Story \ drifted'.copies : Agrees(cache.copy[x], account, x) =>
            Agrees(PatchOf(req[r], account', x, cache.copy[x]), account', x),
         \A x \in Story \ drifted'.list :
            (x \in cache.listed <=> x \in account.starred) =>
              (WouldList(req[r], x, cache.listed) <=> x \in account'.starred),
         drifted.copies \subseteq drifted'.copies, drifted.list \subseteq drifted'.list
  PROVE  CacheInv'
<1>1. RequestsOK /\ req[r].pc = "call" /\ lock = r /\ r # None /\ Head(req[r].todo) = call
  BY AtCall
<1>2. /\ \A q \in Request \ {r} : req'[q] = req[q] /\ req[q].pc \notin {"call", "patch"}
      /\ req'[r].pc = "patch" /\ req'[r].op = req[r].op /\ req'[r].todo = req[r].todo
      /\ req'[r].live = req[r].live /\ req'[r].known = req[r].known
  BY <1>1, PatchIsDue
<1>3. ~Pending /\ Pending' /\ lock' = r
  BY <1>1, <1>2 DEF Pending
<1>4. Written(req'[r], account', since'.things)
  BY <1>2 DEF Written
<1>5. WrittenInv'
  BY <1>2, <1>4 DEF WrittenInv
<1>6. \A x : /\ PatchOf(req'[r], account', x, cache'.copy[x]) = PatchOf(req[r], account', x, cache.copy[x])
             /\ WouldList(req'[r], x, cache'.listed) <=> WouldList(req[r], x, cache.listed)
  BY <1>2 DEF PatchOf, WouldList
<1>7. CopyInv'
  <2> SUFFICES ASSUME NEW x \in Story \ drifted'.copies
               PROVE  Agrees(PatchOf(req'[r], account', x, cache'.copy[x]), account', x)
    BY <1>3 DEF CopyInv
  <2>1. Agrees(cache.copy[x], account, x)
    BY <1>3 DEF CacheInv, CopyInv
  <2> QED
    BY <1>6, <2>1
<1>8. ListInv'
  <2> SUFFICES ASSUME NEW x \in Story \ drifted'.list
               PROVE  WouldList(req'[r], x, cache'.listed) <=> x \in account'.starred
    BY <1>3 DEF ListInv
  <2>1. x \in cache.listed <=> x \in account.starred
    BY <1>3 DEF CacheInv, ListInv
  <2> QED
    BY <1>6, <2>1
<1> QED
  BY <1>5, <1>7, <1>8 DEF CacheInv

(* The same, of a write that changes one story and drifts no entry of      *)
(* another.                                                                *)
LEMMA LandingOfOneStory ==
  ASSUME TypeInv, CacheInv, NEW r \in Request, NEW call \in Patching \ {"star", "renameTag", "deleteTag"},
         At(r, call), NEW s \in Story, s = req[r].op.story, NEW acc \in Accounts,
         Landing(r, {s}, acc), \A x \in Story \ {s} : SameStory(acc, x),
         Written(req[r], acc, since.things),
         Agrees(cache.copy[s], account, s) => Agrees(PatchOf(req[r], acc, s, cache.copy[s]), acc, s),
         (s \in cache.listed <=> s \in account.starred) =>
           (WouldList(req[r], s, cache.listed) <=> s \in acc.starred)
  PROVE  CacheInv'
<1>1. account' = acc /\ cache' = cache /\ req[r].pc = "call" /\ Head(req[r].todo) = call
  BY AtCall DEF Landing
<1>2. CASE Fault /\ Answer(r, "error") /\ Drift({s}, {s}, {})
  <2>1. \A x \in Story \ {s} : x \in account'.starred <=> x \in account.starred
    BY <1>1 DEF SameStory
  <2> QED
    BY <1>1, <1>2, <2>1, ErrorKeeps
<1>3. CASE /\ req' = [req EXCEPT ![r].pc = "patch"]
           /\ UNCHANGED <<lock, faults, since, target, drifted>>
  <2>1. ASSUME NEW x \in Story \ {s}
        PROVE  /\ PatchOf(req[r], account', x, cache.copy[x]) = cache.copy[x]
               /\ WouldList(req[r], x, cache.listed) <=> x \in cache.listed
    BY <1>1 DEF PatchOf, WouldList
  <2>2. ASSUME NEW x \in Story, Agrees(cache.copy[x], account, x)
        PROVE  Agrees(PatchOf(req[r], account', x, cache.copy[x]), account', x)
    BY <1>1, <2>1, <2>2, AgreesAlike
  <2>3. ASSUME NEW x \in Story, x \in cache.listed <=> x \in account.starred
        PROVE  WouldList(req[r], x, cache.listed) <=> x \in account'.starred
    BY <1>1, <2>1, <2>3 DEF SameStory
  <2> QED
    BY <1>1, <1>3, <2>2, <2>3, LandingKeeps
<1> QED
  BY <1>2, <1>3 DEF Landing

LEMMA CopyFields ==
  ASSUME NEW c \in Copies, c # None
  PROVE  /\ c.tags \in Seq(Tag) /\ c.read \in BOOLEAN
         /\ \A list : [c EXCEPT !.tags = list].tags = list /\ [c EXCEPT !.tags = list].read = c.read
         /\ \A read : [c EXCEPT !.read = read].tags = c.tags /\ [c EXCEPT !.read = read].read = read
BY DEF Copies

LEMMA StoryFacts ==
  ASSUME TypeInv, NEW s \in Story
  PROVE  cache.copy[s] \in Copies /\ account \in Accounts /\ account.tags[s] \in Seq(Tag)
BY FieldsOfAccount DEF TypeInv, DataOK, Caches

LEMMA StarredStories ==
  ASSUME account \in Accounts, NEW s \in Story, NEW list \in Seq(Tag)
  PROVE  LET acc == Starred(s, list)
         IN /\ s \in acc.starred /\ acc.tags[s] = list /\ acc.read = account.read
            /\ \A x \in Story \ {s} : SameStory(acc, x)
BY DEF Starred, Accounts, SameStory

LEMMA MarkReadKeeps ==
  ASSUME TypeInv, CacheInv, NEW r \in Request, MarkRead(r) PROVE CacheInv'
<1> DEFINE op == req[r].op
           s == req[r].op.story
           c == cache.copy[s]
           acc == [account EXCEPT !.read[s] = op.read]
<1>1. At(r, "markRead") /\ Landing(r, {s}, acc)
  BY DEF MarkRead
<1>2. s \in Story /\ op.read \in BOOLEAN /\ Head(req[r].todo) = "markRead"
  BY <1>1, AtCall, CallsOnStories
<1>3. c \in Copies /\ account \in Accounts
  BY <1>2, StoryFacts
<1>4. /\ acc \in Accounts /\ acc.read[s] = op.read /\ acc.starred = account.starred
      /\ acc.tags = account.tags /\ \A x \in Story \ {s} : SameStory(acc, x)
  BY <1>2, <1>3 DEF Accounts, SameStory
<1> HIDE DEF acc
<1>5. Written(req[r], acc, since.things)
  BY <1>2, <1>4 DEF Written
<1>6. Agrees(c, account, s) => Agrees(PatchOf(req[r], acc, s, c), acc, s)
  <2>1. CASE c = None
    BY <1>2, <2>1 DEF PatchOf, Agrees
  <2>2. CASE c # None
    <3>1. PatchOf(req[r], acc, s, c) = [c EXCEPT !.read = op.read]
      BY <1>2, <2>2 DEF PatchOf
    <3> DEFINE d == PatchOf(req[r], acc, s, c)
    <3>2. d.tags = c.tags /\ d.read = op.read
      BY <1>3, <2>2, <3>1, CopyFields
    <3> HIDE DEF d, c, s, op
    <3>3. Agrees(c, account, s) => Agrees(d, acc, s)
      BY <1>4, <2>2, <3>2 DEF Agrees
    <3> QED
      BY <3>3 DEF d
  <2> QED
    BY <2>1, <2>2
<1>7. WouldList(req[r], s, cache.listed) <=> s \in cache.listed
  BY <1>2 DEF WouldList
<1>8. "markRead" \in Patching \ {"star", "renameTag", "deleteTag"}
  BY DEF Patching, Decided
<1> QED
  BY <1>1, <1>2, <1>4, <1>5, <1>6, <1>7, <1>8, LandingOfOneStory

(* The two writes of a story's tags.                                       *)
LEMMA TagWritesKeep ==
  ASSUME TypeInv, CacheInv, NEW r \in Request, NEW call \in {"replaceTags", "editTags"}, At(r, call),
         NEW list \in Seq(Tag),
         list = IF call = "editTags" THEN req[r].live ELSE Distinct(req[r].op.set),
         Landing(r, {req[r].op.story}, Starred(req[r].op.story, list))
  PROVE  CacheInv'
<1> DEFINE s == req[r].op.story
           c == cache.copy[s]
           acc == Starred(s, list)
<1>1. s \in Story /\ Head(req[r].todo) = call
  BY AtCall, CallsOnStories
<1>2. c \in Copies /\ account \in Accounts
  BY <1>1, StoryFacts
<1>3. /\ acc \in Accounts /\ s \in acc.starred /\ acc.tags[s] = list /\ acc.read = account.read
      /\ \A x \in Story \ {s} : SameStory(acc, x)
  BY <1>1, <1>2, StarredIsAccount, StarredStories
<1> HIDE DEF acc
<1>4. Written(req[r], acc, since.things)
  BY <1>1, <1>3 DEF Written
<1>5. Agrees(c, account, s) => Agrees(PatchOf(req[r], acc, s, c), acc, s)
  <2>1. CASE c = None
    BY <1>1, <2>1 DEF PatchOf, Agrees
  <2>2. CASE c # None
    <3>1. PatchOf(req[r], acc, s, c) = [c EXCEPT !.tags = list]
      BY <1>1, <2>2 DEF PatchOf
    <3> DEFINE d == PatchOf(req[r], acc, s, c)
    <3>2. d.tags = list /\ d.read = c.read
      BY <1>2, <2>2, <3>1, CopyFields
    <3> HIDE DEF d, c, s
    <3>3. Agrees(c, account, s) => Agrees(d, acc, s)
      BY <1>3, <2>2, <3>2 DEF Agrees
    <3> QED
      BY <3>3 DEF d
  <2> QED
    BY <2>1, <2>2
<1>6. WouldList(req[r], s, cache.listed)
  BY <1>1 DEF WouldList
<1>7. call \in Patching \ {"star", "renameTag", "deleteTag"}
  BY DEF Patching, Decided
<1> QED
  BY <1>1, <1>3, <1>4, <1>5, <1>6, <1>7, LandingOfOneStory DEF acc

LEMMA SaveKeeps ==
  ASSUME TypeInv, CacheInv, NEW r \in Request, Save(r) PROVE CacheInv'
<1> DEFINE s == req[r].op.story
           c == cache.copy[s]
           acc == Starred(s, Distinct(req[r].op.tags))
<1>1. At(r, "save") /\ Landing(r, {s}, acc)
  BY DEF Save
<1>2. s \in Story /\ req[r].op.tags \in Seq(Tag) /\ Head(req[r].todo) = "save"
  BY <1>1, AtCall, CallsOnStories
<1>3. account \in Accounts /\ Distinct(req[r].op.tags) \in Seq(Tag)
  BY <1>2, StoryFacts, DistinctTags
<1>4. acc \in Accounts /\ s \in acc.starred /\ \A x \in Story \ {s} : SameStory(acc, x)
  BY <1>2, <1>3, StarredIsAccount, StarredStories
<1> HIDE DEF acc
<1>5. Written(req[r], acc, since.things)
  BY <1>2, <1>4 DEF Written
<1>6. Agrees(PatchOf(req[r], acc, s, c), acc, s)
  <2>1. PatchOf(req[r], acc, s, c) = CopyOf(acc, s)
    BY <1>2, <1>4 DEF PatchOf
  <2> QED
    BY <2>1 DEF Agrees, CopyOf
<1>7. WouldList(req[r], s, cache.listed)
  BY <1>2 DEF WouldList
<1>8. "save" \in Patching \ {"star", "renameTag", "deleteTag"}
  BY DEF Patching, Decided
<1> QED
  BY <1>1, <1>2, <1>4, <1>5, <1>6, <1>7, <1>8, LandingOfOneStory

LEMMA UnstarKeeps ==
  ASSUME TypeInv, CacheInv, NEW r \in Request, Unstar(r) PROVE CacheInv'
<1> DEFINE s == req[r].op.story
           c == cache.copy[s]
           acc == [account EXCEPT !.starred = @ \ {s}, !.tags[s] = <<>>]
<1>1. At(r, "unstar") /\ Landing(r, {s}, acc)
  BY DEF Unstar
<1>2. s \in Story /\ Head(req[r].todo) = "unstar"
  BY <1>1, AtCall, CallsOnStories
<1>3. account \in Accounts
  BY <1>2, StoryFacts
<1>4. /\ acc \in Accounts /\ s \notin acc.starred /\ acc.read = account.read
      /\ \A x \in Story \ {s} : SameStory(acc, x)
  <2>1. <<>> \in Seq(Tag)
    OBVIOUS
  <2> QED
    BY <1>2, <1>3, <2>1 DEF Accounts, SameStory
<1> HIDE DEF acc
<1>5. Written(req[r], acc, since.things)
  BY <1>2, <1>4 DEF Written
<1>6. Agrees(c, account, s) => Agrees(PatchOf(req[r], acc, s, c), acc, s)
  BY <1>2, <1>4 DEF PatchOf, Agrees
<1>7. ~WouldList(req[r], s, cache.listed)
  BY <1>2 DEF WouldList
<1>8. "unstar" \in Patching \ {"star", "renameTag", "deleteTag"}
  BY DEF Patching, Decided
<1> QED
  BY <1>1, <1>2, <1>4, <1>5, <1>6, <1>7, <1>8, LandingOfOneStory

(* StarStory patches the list only: a copy that is there has drifted.      *)
LEMMA StarKeeps ==
  ASSUME TypeInv, CacheInv, NEW r \in Request, Star(r) PROVE CacheInv'
<1> DEFINE s == req[r].op.story
           acc == Starred(s, Distinct(req[r].op.tags))
<1>1. At(r, "star") /\ account' = acc /\ cache' = cache
  BY DEF Star
<1>2. /\ s \in Story /\ req[r].op.tags \in Seq(Tag) /\ Head(req[r].todo) = "star"
      /\ req[r].pc = "call"
  BY <1>1, AtCall, CallsOnStories
<1>3. account \in Accounts /\ Distinct(req[r].op.tags) \in Seq(Tag)
  BY <1>2, StoryFacts, DistinctTags
<1>4. s \in acc.starred /\ \A x \in Story \ {s} : SameStory(acc, x)
  BY <1>2, <1>3, StarredStories
<1> HIDE DEF acc
<1>5. CASE Fault /\ Answer(r, "error") /\ Drift({s}, {s}, {})
  <2>1. \A x \in Story \ {s} : x \in account'.starred <=> x \in account.starred
    BY <1>1, <1>4 DEF SameStory
  <2> QED
    BY <1>1, <1>2, <1>4, <1>5, <2>1, ErrorKeeps
<1>6. CASE /\ req' = [req EXCEPT ![r].pc = "patch"]
           /\ Drift({x \in {s} : cache.copy[x] # None}, {}, {})
           /\ UNCHANGED <<lock, faults, since, target>>
  <2>1. Written(req[r], account', since.things)
    BY <1>1, <1>2, <1>4 DEF Written
  <2>2. /\ drifted'.copies = drifted.copies \cup {x \in {s} : cache.copy[x] # None}
        /\ drifted'.list = drifted.list
    BY <1>6 DEF Drift
  <2>3. ASSUME NEW x \in Story \ drifted'.copies, Agrees(cache.copy[x], account, x)
        PROVE  Agrees(PatchOf(req[r], account', x, cache.copy[x]), account', x)
    <3>1. PatchOf(req[r], account', x, cache.copy[x]) = cache.copy[x]
      BY <1>2 DEF PatchOf
    <3>2. CASE x = s
      BY <2>2, <3>1, <3>2 DEF Agrees
    <3>3. CASE x # s
      BY <1>1, <1>4, <2>3, <3>1, <3>3, AgreesAlike
    <3> QED
      BY <3>2, <3>3
  <2>4. ASSUME NEW x \in Story, x \in cache.listed <=> x \in account.starred
        PROVE  WouldList(req[r], x, cache.listed) <=> x \in account'.starred
    BY <1>1, <1>2, <1>4, <2>4 DEF WouldList, SameStory
  <2>5. "star" \in Patching
    BY DEF Patching
  <2> QED
    BY <1>1, <1>6, <2>1, <2>2, <2>3, <2>4, <2>5, LandingKeeps
<1> QED
  BY <1>5, <1>6 DEF Star

(* A rename or deletion of a tag: the copies of its holders will follow.   *)
LEMMA ChangeTagKeeps ==
  ASSUME TypeInv, CacheInv, NEW r \in Request, ChangeTag(r) PROVE CacheInv'
<1> DEFINE op == req[r].op
           tagged == {s \in account.starred : op.tag \in TagsOf(account.tags[s])}
<1>1. PICK call \in {"renameTag", "deleteTag"} : At(r, call)
  BY DEF ChangeTag
<1>2. /\ RequestsOK /\ DataOK /\ req[r].pc = "call" /\ op \in Operations
      /\ Head(req[r].todo) = call /\ op.kind = call /\ account \in Accounts
      /\ call = "renameTag" => op.name # op.tag
  BY <1>1, AtCall, CallsOnStories DEF DataOK
<1>3. /\ account'.starred = account.starred /\ account'.read = account.read
      /\ \A s \in Story : account'.tags[s] = IF s \in tagged THEN Retagged(account.tags[s], op)
                                             ELSE account.tags[s]
      /\ \/ /\ req' = [req EXCEPT ![r].pc = "patch"]
            /\ Drift(tagged \ req[r].known, {}, {})
            /\ UNCHANGED <<lock, faults, since, target>>
         \/ Fault /\ Answer(r, "error") /\ Drift(tagged, {}, {})
      /\ cache' = cache
  BY ChangeTagWrites
<1>4. tagged \in SUBSET Story /\ account.starred \subseteq Story
  BY <1>2, FieldsOfAccount
<1>5. \A x \in Story \ tagged : SameStory(account', x)
  BY <1>3 DEF SameStory
<1>6. \A x \in Story : x \in tagged <=> x \in account.starred /\ op.tag \in TagsOf(account.tags[x])
  OBVIOUS
<1> HIDE DEF tagged
<1>7. CASE Fault /\ Answer(r, "error") /\ Drift(tagged, {}, {})
  BY <1>2, <1>3, <1>4, <1>5, <1>7, ErrorKeeps
<1>8. CASE /\ req' = [req EXCEPT ![r].pc = "patch"]
           /\ Drift(tagged \ req[r].known, {}, {})
           /\ UNCHANGED <<lock, faults, since, target>>
  <2>1. \A x \in Story : op.tag \notin TagsOf(Retagged(account.tags[x], op))
    BY <1>2, FieldsOfAccount, RetaggedTags
  <2>2. \A x \in account.starred : op.tag \notin TagsOf(account'.tags[x])
    BY <1>3, <1>4, <1>6, <2>1
  <2>3. Written(req[r], account', since.things)
    BY <1>2, <1>3, <2>2 DEF Written
  <2>4. /\ drifted'.copies = drifted.copies \cup (tagged \ req[r].known)
        /\ drifted'.list = drifted.list
    BY <1>8 DEF Drift
  <2>5. ASSUME NEW x \in Story \ drifted'.copies, Agrees(cache.copy[x], account, x)
        PROVE  Agrees(PatchOf(req[r], account', x, cache.copy[x]), account', x)
    <3> DEFINE c == cache.copy[x]
    <3>1. CASE c = None
      BY <1>2, <3>1 DEF PatchOf, Agrees
    <3>2. CASE c # None /\ x \in req[r].known /\ op.tag \in TagsOf(c.tags)
      <4>1. PatchOf(req[r], account', x, c) = [c EXCEPT !.tags = Retagged(c.tags, op)]
        BY <1>2, <3>2 DEF PatchOf
      <4>2. c \in Copies
        BY StoryFacts
      <4>3. /\ PatchOf(req[r], account', x, c).tags = Retagged(c.tags, op)
            /\ PatchOf(req[r], account', x, c).read = c.read /\ c.tags \in Seq(Tag)
        BY <3>2, <4>1, <4>2, CopyFields
      <4>4. ASSUME x \in account.starred
            PROVE  TagsOf(Retagged(c.tags, op)) = TagsOf(account'.tags[x])
        <5>1. TagsOf(c.tags) = TagsOf(account.tags[x])
          BY <2>5, <3>2, <4>4 DEF Agrees
        <5>2. account'.tags[x] = Retagged(account.tags[x], op) /\ account.tags[x] \in Seq(Tag)
          BY <1>3, <1>6, <3>2, <4>4, <5>1, StoryFacts
        <5>3. /\ TagsOf(Retagged(c.tags, op)) = (TagsOf(c.tags) \ {op.tag})
                 \cup {t \in Tag : op.kind = "renameTag" /\ op.tag \in TagsOf(c.tags) /\ t = op.name}
              /\ TagsOf(Retagged(account.tags[x], op)) = (TagsOf(account.tags[x]) \ {op.tag})
                 \cup {t \in Tag : op.kind = "renameTag" /\ op.tag \in TagsOf(account.tags[x])
                                   /\ t = op.name}
          BY <1>2, <4>3, <5>2, RetaggedTags
        <5> QED
          BY <5>1, <5>2, <5>3
      <4> QED
        BY <1>3, <2>5, <3>2, <4>3, <4>4 DEF Agrees
    <3>3. CASE c # None /\ ~(x \in req[r].known /\ op.tag \in TagsOf(c.tags))
      <4>1. PatchOf(req[r], account', x, c) = c
        BY <1>2, <3>3 DEF PatchOf
      <4>2. x \notin tagged
        BY <1>6, <2>4, <2>5, <3>3 DEF Agrees
      <4> QED
        BY <1>5, <2>5, <4>1, <4>2, AgreesAlike
    <3> QED
      BY <3>1, <3>2, <3>3
  <2>6. ASSUME NEW x \in Story, x \in cache.listed <=> x \in account.starred
        PROVE  WouldList(req[r], x, cache.listed) <=> x \in account'.starred
    BY <1>2, <1>3, <2>6 DEF WouldList
  <2>7. call \in Patching
    BY DEF Patching, Decided
  <2> QED
    BY <1>1, <1>3, <1>8, <2>3, <2>4, <2>5, <2>6, <2>7, LandingKeeps
<1> QED
  BY <1>3, <1>7, <1>8

LEMMA EditsKeep ==
  ASSUME TypeInv, CacheInv, NEW r \in Request, ReplaceTags(r) \/ EditTags(r) PROVE CacheInv'
<1>1. CASE ReplaceTags(r)
  <2>1. At(r, "replaceTags") /\ Landing(r, {req[r].op.story}, Starred(req[r].op.story, Distinct(req[r].op.set)))
    BY <1>1 DEF ReplaceTags
  <2>2. Distinct(req[r].op.set) \in Seq(Tag)
    BY <2>1, AtCall, CallsOnStories, DistinctTags
  <2> QED
    BY <2>1, <2>2, TagWritesKeep
<1>2. CASE EditTags(r)
  <2>1. At(r, "editTags") /\ Landing(r, {req[r].op.story}, Starred(req[r].op.story, req[r].live))
    BY <1>2 DEF EditTags
  <2>2. req[r].live \in Seq(Tag)
    BY <2>1, AtCall DEF Requests
  <2> QED
    BY <2>1, <2>2, TagWritesKeep
<1> QED
  BY <1>1, <1>2

(* Steps that leave the stories of the account and of the cache alone,     *)
(* where no patch is due before or after.                                  *)
LEMMA IdleKeeps ==
  ASSUME CacheInv, ~Pending, ~Pending', WrittenInv',
         account'.starred = account.starred, account'.tags = account.tags,
         account'.read = account.read, cache' = cache,
         drifted'.copies = drifted.copies, drifted'.list = drifted.list
  PROVE  CacheInv'
<1>1. \A x \in Story \ {} : SameStory(account', x)
  BY DEF SameStory
<1>2. \A x \in Story \ drifted'.list : x \in account'.starred <=> x \in account.starred
  OBVIOUS
<1>3. drifted.copies \cup {} \subseteq drifted'.copies /\ drifted.list \subseteq drifted'.list
  OBVIOUS
<1>4. {} \in SUBSET Story /\ cache'.copy = cache.copy /\ cache'.listed = cache.listed
  OBVIOUS
<1> QED
  BY <1>1, <1>2, <1>3, <1>4, QuietKeeps

LEMMA LiveReadsKeep ==
  ASSUME TypeInv, CacheInv, NEW r \in Request, LiveTags(r) \/ ReadCounts(r) PROVE CacheInv'
<1>1. PICK call \in LiveReads : At(r, call)
  BY DEF LiveTags, ReadCounts, LiveReads
<1>2. /\ Len(req[r].todo) > 1 /\ RequestsOK /\ req[r].pc = "call" /\ lock = r
      /\ req[r].live \in Seq(Tag)
  BY <1>1, AtCall, LiveReadGoesOn DEF Requests
<1>3. UNCHANGED <<account, cache, drifted>>
  BY DEF LiveTags, ReadCounts
<1>4. \/ \E outcome \in {"ok", "refused", "error"} : Answer(r, outcome)
      \/ \E live \in Seq(Tag) :
           /\ req' = [req EXCEPT ![r] =
                [req[r] EXCEPT !.pc = "call", !.todo = Tail(req[r].todo), !.live = live]]
           /\ lock' = lock
  <2>1. CASE LiveTags(r)
    BY <2>1, LiveTagsReads
  <2>2. CASE ReadCounts(r)
    BY <1>2, <2>2, ReadCountsReads
  <2> QED
    BY <2>1, <2>2
<1>5. ~Pending
  BY <1>2 DEF Pending
<1>6. ~Pending' /\ WrittenInv'
  <2>1. ASSUME NEW outcome \in {"ok", "refused", "error"}, Answer(r, outcome)
        PROVE  ~Pending' /\ WrittenInv'
    <3>1. RequestsOK' /\ Settled'
      BY <1>2, <2>1, AnswerOK
    <3> QED
      BY <3>1, SettledNext
  <2>2. ASSUME NEW live \in Seq(Tag), lock' = lock,
               req' = [req EXCEPT ![r] =
                 [req[r] EXCEPT !.pc = "call", !.todo = Tail(req[r].todo), !.live = live]]
        PROVE  ~Pending' /\ WrittenInv'
    <3>1. /\ \A q \in Request \ {r} : req'[q] = req[q] /\ req[q].pc \notin {"call", "patch"}
          /\ req'[r].pc = "call"
      BY <1>2, <2>2, NextCall
    <3> QED
      BY <1>2, <2>2, <3>1 DEF Pending, WrittenInv
  <2> QED
    BY <1>4, <2>1, <2>2
<1> QED
  BY <1>3, <1>5, <1>6, IdleKeeps

LEMMA LockKeeps ==
  ASSUME TypeInv, CacheInv, NEW r \in Request, Lock(r) PROVE CacheInv'
<1>1. TypeInv' /\ Settled' /\ UNCHANGED <<account, cache, drifted>>
  BY LockKeepsTypes
<1>2. ~Pending
  BY DEF Lock, Pending
<1>3. ~Pending' /\ WrittenInv'
  BY <1>1, SettledNext DEF TypeInv
<1> QED
  BY <1>1, <1>2, <1>3, IdleKeeps

LEMMA FailsKeeps ==
  ASSUME TypeInv, CacheInv, NEW r \in Request, Fails(r) PROVE CacheInv'
<1>1. RequestsOK /\ req[r].pc = "call" /\ Answer(r, "error") /\ UNCHANGED <<account, cache, drifted>>
  BY DEF Fails, TypeInv
<1>2. ~Pending
  BY <1>1 DEF RequestsOK, Pending
<1>3. RequestsOK' /\ Settled'
  BY <1>1, AnswerOK
<1>4. ~Pending' /\ WrittenInv'
  BY <1>3, SettledNext
<1> QED
  BY <1>1, <1>2, <1>4, IdleKeeps

LEMMA FeedCallsKeep ==
  ASSUME TypeInv, CacheInv, NEW r \in Request,
         \/ RenameFolder(r) \/ MoveFolder(r) \/ CreateFolder(r) \/ DeleteFolder(r)
         \/ Subscribe(r) \/ RenameFeed(r) \/ MoveFeed(r) \/ DeleteFeed(r)
  PROVE  CacheInv'
<1>1. TypeInv' /\ Settled'
  BY FeedCallsKeepTypes
<1>2. ~Pending' /\ WrittenInv'
  BY <1>1, SettledNext DEF TypeInv
<1>3. PICK call \in FeedCalls : At(r, call)
  BY FeedCallWrites
<1>4. ~Pending
  BY <1>3, AtCall DEF Pending
<1>5. /\ account'.starred = account.starred /\ account'.tags = account.tags
      /\ account'.read = account.read /\ cache' = cache
      /\ drifted'.copies = drifted.copies /\ drifted'.list = drifted.list
  <2>1. CASE \E c \in FeedCalls : At(r, c) /\ \E p : Taken(r, p)
    BY <2>1, Zenon DEF Taken
  <2>2. ASSUME NEW feeds \in SUBSET Feed, NEW acc \in Accounts, Landed(r, feeds, acc),
               acc.starred = account.starred, acc.tags = account.tags, acc.read = account.read
        PROVE  /\ account'.starred = account.starred /\ account'.tags = account.tags
               /\ account'.read = account.read /\ cache' = cache
               /\ drifted'.copies = drifted.copies /\ drifted'.list = drifted.list
    BY <2>2 DEF Landed, Drift
  <2> QED
    BY <2>1, <2>2, FeedCallWrites
<1> QED
  BY <1>2, <1>4, <1>5, IdleKeeps

LEMMA SubmitKeeps ==
  ASSUME TypeInv, CacheInv, NEW r \in Request, NEW op \in Op[r], Submit(r, op) PROVE CacheInv'
<1>1. /\ TypeInv' /\ \A q \in Request \ {r} : req'[q] = req[q]
      /\ req[r].pc = "idle" /\ UNCHANGED <<account, cache, lock, since, drifted>>
  BY SubmitKeepsTypes DEF Submit, history
<1>2. lock # r /\ (lock # None => lock \in Request \ {r})
  BY <1>1 DEF TypeInv, RequestsOK
<1>3. req'[r].pc # "patch"
  BY <1>1, <1>2 DEF TypeInv, RequestsOK
<1>4. lock # None => req'[lock] = req[lock]
  BY <1>1, <1>2
<1>5. Pending' <=> Pending
  BY <1>1, <1>4 DEF Pending
<1>6. WrittenInv'
  BY <1>1, <1>3 DEF CacheInv, WrittenInv
<1>7. Pending => lock # None
  BY DEF Pending
<1>8. CopyInv'
  BY <1>1, <1>4, <1>5, <1>7 DEF CacheInv, CopyInv
<1>9. ListInv'
  BY <1>1, <1>4, <1>5, <1>7 DEF CacheInv, ListInv
<1> QED
  BY <1>6, <1>8, <1>9 DEF CacheInv

(* The patch of the cache, story by story.                                 *)
LEMMA PatchedCopy ==
  ASSUME TypeInv, NEW r \in Request, req[r].pc = "patch", NEW x \in Story
  PROVE  PatchedCopies(r)[x] = PatchOf(req[r], account, x, cache.copy[x])
<1> DEFINE op == req[r].op
           call == Head(req[r].todo)
           copy == cache.copy
<1>1. /\ op \in Operations /\ call \in Patching /\ Asked(op, call)
      /\ call \notin {"renameTag", "deleteTag"} => op.story \in Story
      /\ copy \in [Story -> Copies]
  BY PatchFacts DEF DataOK, Caches
<1>2. ASSUME call \in {"replaceTags", "editTags"}, op.story \in Story,
             NEW list, list = IF call = "editTags" THEN req[r].live ELSE Distinct(op.set)
      PROVE  WithTags(copy, op.story, list)[x] = PatchOf(req[r], account, x, copy[x])
  <2>1. CASE copy[op.story] = None \/ x # op.story
    <3>1. WithTags(copy, op.story, list)[x] = copy[x]
      BY <1>1, <2>1 DEF WithTags
    <3>2. PatchOf(req[r], account, x, copy[x]) = copy[x]
      BY <1>2, <2>1 DEF PatchOf
    <3> QED
      BY <3>1, <3>2
  <2>2. CASE copy[op.story] # None /\ x = op.story
    <3>1. WithTags(copy, op.story, list)[x] = [copy[x] EXCEPT !.tags = list]
      BY <1>1, <1>2, <2>2 DEF WithTags
    <3>2. PatchOf(req[r], account, x, copy[x]) = [copy[x] EXCEPT !.tags = list]
      BY <1>2, <2>2 DEF PatchOf
    <3> QED
      BY <3>1, <3>2
  <2> QED
    BY <2>1, <2>2
<1>3. CASE call = "markRead"
  <2>1. PatchedCopies(r) = WithRead(copy, op.story, op.read)
    BY <1>3 DEF PatchedCopies
  <2>2. CASE copy[op.story] = None \/ x # op.story
    <3>1. WithRead(copy, op.story, op.read)[x] = copy[x]
      BY <1>1, <2>2 DEF WithRead
    <3>2. PatchOf(req[r], account, x, copy[x]) = copy[x]
      BY <1>3, <2>2 DEF PatchOf
    <3> QED
      BY <2>1, <3>1, <3>2
  <2>3. CASE copy[op.story] # None /\ x = op.story
    <3>1. WithRead(copy, op.story, op.read)[x] = [copy[x] EXCEPT !.read = op.read]
      BY <1>1, <2>3 DEF WithRead
    <3>2. PatchOf(req[r], account, x, copy[x]) = [copy[x] EXCEPT !.read = op.read]
      BY <1>3, <2>3 DEF PatchOf
    <3> QED
      BY <2>1, <3>1, <3>2
  <2> QED
    BY <2>2, <2>3
<1>4. CASE call = "replaceTags"
  <2>1. PatchedCopies(r) = WithTags(copy, op.story, Distinct(op.set))
    BY <1>4 DEF PatchedCopies
  <2> QED
    BY <1>1, <1>2, <1>4, <2>1
<1>5. CASE call = "editTags"
  <2>1. PatchedCopies(r) = WithTags(copy, op.story, req[r].live)
    BY <1>5 DEF PatchedCopies
  <2> QED
    BY <1>1, <1>2, <1>5, <2>1
<1>6. CASE call = "save"
  <2>1. PatchedCopies(r) = WithSaved(copy, op.story)
    BY <1>6 DEF PatchedCopies
  <2>2. PatchOf(req[r], account, x, copy[x])
          = IF x = op.story /\ x \in account.starred THEN CopyOf(account, x) ELSE copy[x]
    BY <1>6 DEF PatchOf
  <2> QED
    BY <1>1, <1>6, <2>1, <2>2 DEF WithSaved
<1>7. CASE call \in {"renameTag", "deleteTag"}
  <2>1. PatchedCopies(r) = WithTag(copy, req[r].known, op)
    BY <1>7 DEF PatchedCopies
  <2> QED
    BY <1>7, <2>1 DEF WithTag, PatchOf
<1>8. CASE call \notin {"markRead", "replaceTags", "editTags", "save", "renameTag", "deleteTag"}
  BY <1>8 DEF PatchedCopies, PatchOf
<1> QED
  BY <1>3, <1>4, <1>5, <1>6, <1>7, <1>8

LEMMA PatchedListing ==
  ASSUME TypeInv, NEW r \in Request, req[r].pc = "patch", NEW x \in Story
  PROVE  x \in PatchedList(r) <=> WouldList(req[r], x, cache.listed)
<1> DEFINE call == Head(req[r].todo)
<1>1. CASE call \in {"star", "save", "replaceTags", "editTags"}
  BY <1>1 DEF PatchedList, WouldList
<1>2. CASE call = "unstar"
  BY <1>2 DEF PatchedList, WouldList
<1>3. CASE call \notin {"star", "save", "replaceTags", "editTags", "unstar"}
  BY <1>3 DEF PatchedList, WouldList
<1> QED
  BY <1>1, <1>2, <1>3

LEMMA PatchCacheKeeps ==
  ASSUME TypeInv, CacheInv, NEW r \in Request, PatchCache(r) PROVE CacheInv'
<1>1. req[r].pc = "patch"
  BY DEF PatchCache
<1>2. lock = r /\ Pending
  BY <1>1, HolderFacts DEF TypeInv, Pending
<1>3. TypeInv' /\ Settled' /\ account' = account
  BY PatchCacheWrites
<1>4. ~Pending' /\ WrittenInv'
  BY <1>3, SettledNext DEF TypeInv
<1>5. PICK list \in BOOLEAN, copies \in BOOLEAN :
        /\ cache'.listed = IF list THEN PatchedList(r) ELSE cache.listed
        /\ cache'.copy = IF copies THEN PatchedCopies(r) ELSE cache.copy
        /\ drifted'.copies = IF copies THEN drifted.copies ELSE drifted.copies \cup Reached(r)
        /\ drifted'.list = IF list THEN drifted.list ELSE drifted.list \cup Reached(r)
  BY PatchCacheWrites
<1>6. CopyInv'
  <2> SUFFICES ASSUME NEW x \in Story \ drifted'.copies
               PROVE  Agrees(cache'.copy[x], account, x)
    BY <1>3, <1>4 DEF CopyInv
  <2>1. x \notin drifted.copies /\ cache'.copy[x] = PatchedCopies(r)[x]
    <3>1. CASE copies
      BY <1>5, <3>1
    <3>2. CASE ~copies
      <4>1. x \in Story \ Reached(r) /\ x \notin drifted.copies /\ cache'.copy = cache.copy
        BY <1>5, <3>2
      <4>2. PatchedCopies(r)[x] = cache.copy[x]
        BY <1>1, <4>1, PatchedCache
      <4> QED
        BY <4>1, <4>2
    <3> QED
      BY <3>1, <3>2
  <2>2. Agrees(PatchOf(req[r], account, x, cache.copy[x]), account, x)
    BY <1>2, <2>1 DEF CacheInv, CopyInv
  <2> QED
    BY <1>1, <2>1, <2>2, PatchedCopy
<1>7. ListInv'
  <2> SUFFICES ASSUME NEW x \in Story \ drifted'.list
               PROVE  x \in cache'.listed <=> x \in account.starred
    BY <1>3, <1>4 DEF ListInv
  <2>1. x \notin drifted.list /\ (x \in cache'.listed <=> x \in PatchedList(r))
    <3>1. CASE list
      BY <1>5, <3>1
    <3>2. CASE ~list
      <4>1. x \in Story \ Reached(r) /\ x \notin drifted.list /\ cache'.listed = cache.listed
        BY <1>5, <3>2
      <4>2. x \in PatchedList(r) <=> x \in cache.listed
        BY <1>1, <4>1, PatchedCache
      <4> QED
        BY <4>1, <4>2
    <3> QED
      BY <3>1, <3>2
  <2>2. WouldList(req[r], x, cache.listed) <=> x \in account.starred
    BY <1>2, <2>1 DEF CacheInv, ListInv
  <2> QED
    BY <1>1, <2>1, <2>2, PatchedListing
<1> QED
  BY <1>4, <1>6, <1>7 DEF CacheInv

(* A step of another party, which drifts what it changes: what the holder  *)
(* of mutateMu wrote still stands elsewhere.                               *)
LEMMA OthersKeepWritten ==
  ASSUME TypeInv, TypeInv', WrittenInv, lock' = lock, req' = req, NEW D \in SUBSET Story,
         lock # None => since.things \cup D \subseteq since'.things,
         \A x \in Story \ D : SameStory(account', x)
  PROVE  WrittenInv'
<1> SUFFICES ASSUME NEW r \in Request, req[r].pc = "patch"
             PROVE  Written(req[r], account', since'.things)
  BY DEF WrittenInv
<1> DEFINE call == Head(req[r].todo)
           s    == req[r].op.story
<1>1. /\ lock # None /\ Written(req[r], account, since.things)
      /\ call \notin {"renameTag", "deleteTag"} => s \in Story
  BY HolderFacts, PatchFacts DEF TypeInv, WrittenInv
<1>2. since.things \cup D \subseteq since'.things /\ account'.starred \subseteq Story
  BY <1>1, FieldsOfAccount DEF TypeInv, DataOK, Accounts
<1>3. CASE call \notin {"renameTag", "deleteTag"}
  <2>1. CASE s \in since'.things
    BY <1>3, <2>1 DEF Written
  <2>2. CASE s \notin since'.things
    <3>1. s \notin since.things /\ SameStory(account', s)
      BY <1>1, <1>2, <1>3, <2>2
    <3> QED
      BY <1>1, <1>3, <3>1 DEF Written, SameStory
  <2> QED
    BY <2>1, <2>2
<1>4. CASE call \in {"renameTag", "deleteTag"}
  <2>1. ASSUME NEW x \in account'.starred \ since'.things
        PROVE  req[r].op.tag \notin TagsOf(account'.tags[x])
    <3>1. x \in Story \ D /\ x \notin since.things /\ SameStory(account', x)
      BY <1>2, <2>1
    <3>2. x \in account.starred \ since.things /\ account'.tags[x] = account.tags[x]
      BY <2>1, <3>1 DEF SameStory
    <3> QED
      BY <1>1, <1>4, <3>2 DEF Written
  <2> QED
    BY <1>4, <2>1 DEF Written
<1> QED
  BY <1>3, <1>4

LEMMA OthersDrift ==
  ASSUME TypeInv, TypeInv', CacheInv, lock' = lock, req' = req, NEW D \in SUBSET Story,
         lock # None => since.things \cup D \subseteq since'.things,
         \A x \in Story \ D : SameStory(account', x),
         cache'.copy = cache.copy, cache'.listed = cache.listed,
         drifted.copies \cup D \subseteq drifted'.copies, drifted.list \subseteq drifted'.list,
         \A x \in Story \ drifted'.list : x \in account'.starred <=> x \in account.starred
  PROVE  CacheInv'
<1>1. WrittenInv'
  BY OthersKeepWritten DEF CacheInv
<1>2. Pending' <=> Pending
  BY DEF Pending
<1>3. CopyInv'
  <2> SUFFICES ASSUME NEW x \in Story \ drifted'.copies
               PROVE  Agrees(IF Pending THEN PatchOf(req[lock], account', x, cache.copy[x])
                                        ELSE cache.copy[x], account', x)
    BY <1>2 DEF CopyInv
  <2>1. SameStory(account', x) /\ x \in Story \ drifted.copies
    OBVIOUS
  <2>2. PatchOf(req[lock], account', x, cache.copy[x]) = PatchOf(req[lock], account, x, cache.copy[x])
    <3>1. CopyOf(account', x) = CopyOf(account, x)
      BY <2>1 DEF SameStory, CopyOf
    <3> QED
      BY <2>1, <3>1 DEF SameStory, PatchOf
  <2>3. Agrees(IF Pending THEN PatchOf(req[lock], account, x, cache.copy[x])
                          ELSE cache.copy[x], account, x)
    BY <2>1 DEF CacheInv, CopyInv
  <2> QED
    BY <2>1, <2>2, <2>3, AgreesAlike
<1>4. ListInv'
  <2> SUFFICES ASSUME NEW x \in Story \ drifted'.list
               PROVE  (IF Pending THEN WouldList(req[lock], x, cache.listed) ELSE x \in cache.listed)
                        <=> x \in account'.starred
    BY <1>2 DEF ListInv
  <2>1. (IF Pending THEN WouldList(req[lock], x, cache.listed) ELSE x \in cache.listed)
          <=> x \in account.starred
    BY DEF CacheInv, ListInv
  <2> QED
    BY <2>1
<1> QED
  BY <1>1, <1>3, <1>4 DEF CacheInv

(* What a fetch has read in between, the patch that is due leaves as it is.*)
LEMMA FetchKeeps ==
  ASSUME TypeInv, CacheInv, Fetch PROVE CacheInv'
<1>1. /\ UNCHANGED <<account, since, lock, req>> /\ account \in Accounts
      /\ cache.copy \in [Story -> Copies]
  BY DEF Fetch, Change, TypeInv, DataOK, Caches
<1>2. PICK again \in SUBSET Story :
        LET fetched == {s \in account.starred : cache.copy[s] = None \/ s \in again}
        IN /\ cache' = [listed |-> account.starred,
                        copy |-> [s \in Story |-> IF s \in fetched THEN CopyOf(account, s)
                                                  ELSE cache.copy[s]],
                        feedIn |-> account.feedIn]
           /\ drifted' = [copies |-> (drifted.copies \ fetched) \cup (since.things \cap Story),
                          list |-> since.things \cap Story, feeds |-> drifted.feeds]
  BY DEF Fetch
<1> DEFINE fetched == {s \in account.starred : cache.copy[s] = None \/ s \in again}
<1>3. /\ cache'.listed = account.starred /\ fetched \subseteq account.starred
      /\ \A x \in Story : cache'.copy[x] = IF x \in fetched THEN CopyOf(account, x) ELSE cache.copy[x]
      /\ drifted'.copies = (drifted.copies \ fetched) \cup (since.things \cap Story)
      /\ drifted'.list = since.things \cap Story
  BY <1>2
<1> HIDE DEF fetched
<1>4. WrittenInv'
  BY <1>1 DEF CacheInv, WrittenInv
<1>5. Pending' <=> Pending
  BY <1>1 DEF Pending
<1>6. Pending => LET q == req[lock]
                     call == Head(q.todo)
                 IN /\ Written(q, account, since.things) /\ q.op \in Operations
                    /\ Asked(q.op, call)
                    /\ call \notin {"renameTag", "deleteTag"} => q.op.story \in Story
  <2>1. Pending => lock \in Request /\ req[lock].pc = "patch"
    BY DEF TypeInv, RequestsOK, Pending
  <2> QED
    BY <2>1, PatchFacts DEF CacheInv, WrittenInv
<1>7. CopyInv'
  <2> SUFFICES ASSUME NEW x \in Story \ drifted'.copies
               PROVE  Agrees(IF Pending THEN PatchOf(req[lock], account, x, cache'.copy[x])
                                        ELSE cache'.copy[x], account, x)
    BY <1>1, <1>5 DEF CopyInv
  <2>1. CASE x \notin fetched
    <3>1. cache'.copy[x] = cache.copy[x] /\ x \in Story \ drifted.copies
      BY <1>3, <2>1
    <3> QED
      BY <3>1 DEF CacheInv, CopyInv
  <2>2. CASE x \in fetched
    <3> DEFINE c == CopyOf(account, x)
    <3>1. x \in account.starred /\ x \notin since.things /\ cache'.copy[x] = c
      BY <1>3, <2>2
    <3>2. c.tags = account.tags[x] /\ c.read = account.read[x] /\ c \in Copies
      BY <1>1 DEF CopyOf, Copies, Accounts
    <3>3. Agrees(c, account, x)
      BY <3>2 DEF Agrees
    <3> HIDE DEF c
    <3>4. ASSUME Pending PROVE Agrees(PatchOf(req[lock], account, x, c), account, x)
      <4> DEFINE q == req[lock]
                 call == Head(req[lock].todo)
      <4>1. Written(q, account, since.things)
        BY <1>6, <3>4
      <4>2. CASE c # None /\ x = q.op.story /\ call = "markRead"
        <5>1. PatchOf(q, account, x, c) = [c EXCEPT !.read = q.op.read]
          BY <4>2 DEF PatchOf
        <5>2. account.read[x] = q.op.read
          BY <3>1, <4>1, <4>2 DEF Written
        <5> QED
          BY <3>2, <4>2, <5>1, <5>2, CopyFields DEF Agrees
      <4>3. CASE c # None /\ x = q.op.story /\ call \in {"replaceTags", "editTags"}
        <5> DEFINE list == IF call = "editTags" THEN q.live ELSE Distinct(q.op.set)
        <5>1. PatchOf(q, account, x, c) = [c EXCEPT !.tags = list]
          BY <4>3 DEF PatchOf
        <5>2. account.tags[x] = list
          BY <3>1, <4>1, <4>3 DEF Written
        <5> HIDE DEF list
        <5> QED
          BY <3>2, <4>3, <5>1, <5>2, CopyFields DEF Agrees
      <4>4. CASE x = q.op.story /\ call = "save"
        <5>1. PatchOf(q, account, x, c) = c
          BY <3>1, <4>4 DEF PatchOf, c
        <5> QED
          BY <3>3, <5>1
      <4>5. CASE call \in {"renameTag", "deleteTag"}
        <5>1. q.op.tag \notin TagsOf(c.tags)
          BY <3>1, <3>2, <4>1, <4>5 DEF Written
        <5>2. PatchOf(q, account, x, c) = c
          BY <4>5, <5>1 DEF PatchOf
        <5> QED
          BY <3>3, <5>2
      <4>6. CASE ~(call \in {"markRead", "replaceTags", "editTags"} /\ x = q.op.story /\ c # None)
                 /\ ~(call = "save" /\ x = q.op.story) /\ call \notin {"renameTag", "deleteTag"}
        <5>1. PatchOf(q, account, x, c) = c
          BY <4>6 DEF PatchOf
        <5> QED
          BY <3>3, <5>1
      <4> QED
        BY <4>2, <4>3, <4>4, <4>5, <4>6
    <3> QED
      BY <3>1, <3>3, <3>4
  <2> QED
    BY <2>1, <2>2
<1>8. ListInv'
  <2> SUFFICES ASSUME NEW x \in Story \ drifted'.list
               PROVE  (IF Pending THEN WouldList(req[lock], x, account.starred)
                                  ELSE x \in account.starred) <=> x \in account.starred
    BY <1>1, <1>3, <1>5 DEF ListInv
  <2>1. x \notin since.things
    BY <1>3
  <2> QED
    BY <1>6, <2>1 DEF Written, WouldList
<1> QED
  BY <1>4, <1>7, <1>8 DEF CacheInv

LEMMA OthersKeep ==
  ASSUME TypeInv, CacheInv, OtherParties PROVE CacheInv'
<1>1. TypeInv' /\ lock' = lock /\ req' = req /\ account \in Accounts /\ drifted \in Drifting
  BY OthersKeepTypes, OthersAreNoted DEF TypeInv, DataOK
<1>2. ASSUME NEW tags, NEW things, Noted(tags, things), lock # None
      PROVE  since'.things = since.things \cup things
  BY <1>2 DEF Noted
<1>3. ASSUME NEW copies, NEW list, NEW feeds, Drift(copies, list, feeds)
      PROVE  drifted'.copies = drifted.copies \cup copies /\ drifted'.list = drifted.list \cup list
  BY <1>3 DEF Drift
<1>4. ASSUME NEW D \in SUBSET Story, cache' = cache,
             lock # None => since.things \cup D \subseteq since'.things,
             \A x \in Story \ D : SameStory(account', x),
             drifted.copies \cup D \subseteq drifted'.copies, drifted.list \subseteq drifted'.list,
             account'.starred = account.starred \/ drifted'.list = drifted.list \cup D
      PROVE  CacheInv'
  <2>1. \A x \in Story \ drifted'.list : x \in account'.starred <=> x \in account.starred
    BY <1>4 DEF SameStory
  <2> QED
    BY <1>1, <1>4, <2>1, OthersDrift
<1>5. ASSUME NEW s \in Story, AppTagsStory(s) PROVE CacheInv'
  <2>1. PICK list \in AppTags :
          /\ account' = [account EXCEPT !.tags[s] = list]
          /\ Noted(TagsOf(list) \ TagsOf(account.tags[s]), {s})
    BY <1>5 DEF AppTagsStory
  <2>2. Drift({s}, {}, {}) /\ cache' = cache
    BY <1>5 DEF AppTagsStory
  <2>3. account'.starred = account.starred /\ \A x \in Story \ {s} : SameStory(account', x)
    BY <1>1, <2>1 DEF Accounts, SameStory
  <2> QED
    BY <1>2, <1>3, <1>4, <2>1, <2>2, <2>3
<1>6. ASSUME NEW s \in Story, AppStars(s) PROVE CacheInv'
  <2>1. PICK list \in IF s \in account.starred THEN {<<>>} ELSE AppTags :
          /\ account' = [account EXCEPT !.starred = IF s \in @ THEN @ \ {s} ELSE @ \cup {s},
                                        !.tags[s] = list]
          /\ Noted(TagsOf(list), {s})
    BY <1>6 DEF AppStars
  <2>2. Drift({s}, {s}, {}) /\ cache' = cache
    BY <1>6 DEF AppStars
  <2>3. \A x \in Story \ {s} : SameStory(account', x)
    BY <1>1, <2>1 DEF Accounts, SameStory
  <2> QED
    BY <1>2, <1>3, <1>4, <2>1, <2>2, <2>3
<1>7. ASSUME NEW s \in Story, AppReads(s) PROVE CacheInv'
  <2>1. /\ account' = [account EXCEPT !.read[s] = ~@] /\ Noted({}, {s})
        /\ Drift({s}, {}, {}) /\ cache' = cache
    BY <1>7 DEF AppReads
  <2>2. account'.starred = account.starred /\ \A x \in Story \ {s} : SameStory(account', x)
    BY <1>1, <2>1 DEF Accounts, SameStory
  <2> QED
    BY <1>2, <1>3, <1>4, <2>1, <2>2
<1>8. ASSUME NEW d \in Folder, AppMovesFolder(d) PROVE CacheInv'
  <2>1. PICK p \in AppPaths : account' = [account EXCEPT !.at[d] = p]
    BY <1>8 DEF AppMovesFolder
  <2>2. Noted({}, {d}) /\ cache' = cache /\ drifted' = drifted
    BY <1>8 DEF AppMovesFolder
  <2>3. account'.starred = account.starred /\ \A x \in Story \ {} : SameStory(account', x)
    BY <1>1, <2>1 DEF Accounts, SameStory
  <2>4. lock # None => since.things \cup {} \subseteq since'.things
    BY <1>2, <2>2
  <2> QED
    BY <1>4, <2>2, <2>3, <2>4
<1>9. ASSUME NEW f \in Feed, AppMovesFeed(f) PROVE CacheInv'
  <2>1. PICK p \in Place : account' = [account EXCEPT !.feedIn[f] = p]
    BY <1>9 DEF AppMovesFeed
  <2>2. Noted({}, {f}) /\ cache' = cache /\ Drift({}, {}, {f})
    BY <1>9 DEF AppMovesFeed
  <2>3. account'.starred = account.starred /\ \A x \in Story \ {} : SameStory(account', x)
    BY <1>1, <2>1 DEF Accounts, SameStory
  <2>4. lock # None => since.things \cup {} \subseteq since'.things
    BY <1>2, <2>2
  <2> QED
    BY <1>3, <1>4, <2>2, <2>3, <2>4
<1> QED
  BY <1>5, <1>6, <1>7, <1>8, <1>9, FetchKeeps DEF OtherParties

LEMMA CacheIsKept == TypeInv /\ CacheInv /\ [Next]_vars => CacheInv'
<1> SUFFICES ASSUME TypeInv, CacheInv, [Next]_vars PROVE CacheInv'
  OBVIOUS
<1>1. CASE UNCHANGED vars
  BY <1>1 DEF vars, history, CacheInv, WrittenInv, CopyInv, ListInv, Pending
<1>2. ASSUME NEW r \in Request, Lock(r) \/ Call(r) \/ Fails(r) \/ PatchCache(r) PROVE CacheInv'
  <2>1. CASE Lock(r)
    BY <2>1, LockKeeps
  <2>2. CASE Fails(r)
    BY <2>2, FailsKeeps
  <2>3. CASE PatchCache(r)
    BY <2>3, PatchCacheKeeps
  <2>4. CASE Call(r)
    BY <2>4, MarkReadKeeps, EditsKeep, SaveKeeps, StarKeeps, UnstarKeeps, LiveReadsKeep,
       ChangeTagKeeps, FeedCallsKeep DEF Call
  <2> QED
    BY <1>2, <2>1, <2>2, <2>3, <2>4
<1>3. CASE AllAnswered
  BY <1>1, <1>3 DEF AllAnswered
<1> QED
  BY <1>1, <1>2, <1>3, SubmitKeeps, OthersKeep DEF Next

LEMMA CacheAtFirst == Init => CacheInv
<1> SUFFICES ASSUME Init PROVE CacheInv
  OBVIOUS
<1>1. (\A r \in Request : req[r].pc = "idle") /\ ~Pending
  BY DEF Init, NoRequest, Pending
<1>2. \A s \in Story : Agrees(cache.copy[s], account, s)
  BY DEF Init, Agrees, CopyOf
<1>3. cache.listed = account.starred
  BY DEF Init
<1> QED
  BY <1>1, <1>2, <1>3 DEF CacheInv, WrittenInv, CopyInv, ListInv

LEMMA CacheStays == Spec => []CacheInv
BY Types, CacheAtFirst, CacheIsKept, PTL DEF Spec

(* Each mutation patches what it wrote: whenever none is under way, every  *)
(* entry that no other party, failure or late listing made differ is what  *)
(* the account has.                                                        *)
THEOREM CacheFollows == Spec => []CacheFollowsAccount
<1>1. TypeInv /\ CacheInv => CacheFollowsAccount
  <2> SUFFICES ASSUME TypeInv, CacheInv, lock = None
               PROVE  /\ \A s \in account.starred \ drifted.copies :
                           cache.copy[s] # None =>
                             /\ TagsOf(cache.copy[s].tags) = TagsOf(account.tags[s])
                             /\ cache.copy[s].read = account.read[s]
                      /\ \A s \in Story \ drifted.list : s \in cache.listed <=> s \in account.starred
    BY DEF CacheFollowsAccount
  <2>1. ~Pending /\ account.starred \subseteq Story
    BY FieldsOfAccount DEF Pending, TypeInv, DataOK
  <2>2. \A s \in Story \ drifted.copies : Agrees(cache.copy[s], account, s)
    BY <2>1 DEF CacheInv, CopyInv
  <2>3. \A s \in Story \ drifted.list : s \in cache.listed <=> s \in account.starred
    BY <2>1 DEF CacheInv, ListInv
  <2> QED
    BY <2>1, <2>2, <2>3 DEF Agrees
<1> QED
  BY <1>1, Types, CacheStays, PTL

-----------------------------------------------------------------------------
(* What a reader finds.                                                    *)

(* A listing goes by which tags a story has, in whatever order.            *)
LEMMA MatchesAlike ==
  ASSUME NEW store, NEW truth, NEW s, TagsOf(store[s].tags) = TagsOf(truth[s].tags),
         store[s].read = truth[s].read, NEW filter, \A p \in filter : p.dim \in Dimensions
  PROVE  Matches(store, s, filter) <=> Matches(truth, s, filter)
<1>1. ASSUME NEW dim \in Dimensions
      PROVE  TagsOf(Facets(store, s, dim)) = TagsOf(Facets(truth, s, dim))
  <2>1. CASE dim = "feed"
    BY <2>1 DEF Facets
  <2>2. CASE dim = "read"
    BY <2>2 DEF Facets
  <2>3. CASE dim = "user_tag"
    BY <2>3 DEF Facets
  <2>4. CASE dim = "story_tag"
    BY <2>4 DEF Facets
  <2>5. CASE dim = "age_band"
    BY <2>5 DEF Facets
  <2> QED
    BY <2>1, <2>2, <2>3, <2>4, <2>5 DEF Dimensions
<1> QED
  BY <1>1 DEF Matches

LEMMA ListingsAlike ==
  ASSUME NEW store, NEW truth, NEW sure,
         \A s \in sure : s \in DOMAIN store <=> s \in DOMAIN truth,
         \A s \in sure \cap DOMAIN store : /\ TagsOf(store[s].tags) = TagsOf(truth[s].tags)
                                           /\ store[s].read = truth[s].read,
         NEW node, NEW filter, \A p \in filter : p.dim \in Dimensions
  PROVE  Listed(store, node, filter) \cap sure = Listed(truth, node, filter) \cap sure
<1>1. ASSUME NEW s \in sure PROVE s \in Children(store, node) <=> s \in Children(truth, node)
  <2>1. s \in DOMAIN store => (HasTag(store, s, node[2]) <=> HasTag(truth, s, node[2]))
    BY DEF HasTag
  <2>2. CASE node[1] = "stories"
    BY <2>2 DEF Children
  <2>3. CASE node[1] = "feed"
    BY <2>3 DEF Children
  <2>4. CASE node[1] = "tag"
    BY <2>1, <2>4 DEF Children
  <2>5. CASE node[1] \notin {"stories", "feed", "tag"}
    BY <2>5 DEF Children
  <2> QED
    BY <2>2, <2>3, <2>4, <2>5
<1>2. ASSUME NEW s \in sure, s \in Children(store, node)
      PROVE  Matches(store, s, filter) <=> Matches(truth, s, filter)
  <2>1. s \in DOMAIN store
    <3>1. CASE node[1] = "stories"
      BY <1>2, <3>1 DEF Children
    <3>2. CASE node[1] = "feed"
      BY <1>2, <3>2 DEF Children
    <3>3. CASE node[1] = "tag"
      BY <1>2, <3>3 DEF Children
    <3>4. CASE node[1] \notin {"stories", "feed", "tag"}
      BY <1>2, <3>4 DEF Children
    <3> QED
      BY <3>1, <3>2, <3>3, <3>4
  <2> QED
    BY <2>1, MatchesAlike
<1> QED
  BY <1>1, <1>2 DEF Listed

(* A mutation's effect is found where a reader looks for it, in every      *)
(* container and under every filter: a listing out of the patched cache    *)
(* has the stories it would have out of the account, among those whose     *)
(* copy is there and certain.                                              *)
THEOREM ListingsFollow == Spec => ListingsFollowAccount
<1>1. TypeInv' /\ CacheFollowsAccount' =>
        [Patched =>
           LET store == Snapshot(cache'.listed, cache'.copy)
               truth == [s \in account'.starred |-> CopyOf(account', s)]
               sure  == {s \in Story \ (drifted'.copies \cup drifted'.list) :
                           cache'.copy[s] # None}
           IN \A node \in Container, filter \in Filter :
                Listed(store, node, filter) \cap sure = Listed(truth, node, filter) \cap sure]_vars
  <2> SUFFICES ASSUME TypeInv', CacheFollowsAccount', lock' = None
               PROVE  LET store == Snapshot(cache'.listed, cache'.copy)
                          truth == [s \in account'.starred |-> CopyOf(account', s)]
                          sure  == {s \in Story \ (drifted'.copies \cup drifted'.list) :
                                      cache'.copy[s] # None}
                      IN \A node \in Container, filter \in Filter :
                           Listed(store, node, filter) \cap sure
                             = Listed(truth, node, filter) \cap sure
    BY DEF Patched
  <2> DEFINE store == Snapshot(cache'.listed, cache'.copy)
             truth == [s \in account'.starred |-> CopyOf(account', s)]
             sure  == {s \in Story \ (drifted'.copies \cup drifted'.list) : cache'.copy[s] # None}
  <2>1. /\ \A s \in account'.starred \ drifted'.copies :
             cache'.copy[s] # None =>
               /\ TagsOf(cache'.copy[s].tags) = TagsOf(account'.tags[s])
               /\ cache'.copy[s].read = account'.read[s]
        /\ \A s \in Story \ drifted'.list : s \in cache'.listed <=> s \in account'.starred
    BY DEF CacheFollowsAccount
  <2>2. /\ \A s \in sure : s \in DOMAIN store <=> s \in cache'.listed
        /\ \A s \in sure : s \in DOMAIN truth <=> s \in account'.starred
        /\ \A s \in DOMAIN store : store[s] = cache'.copy[s]
        /\ \A s \in DOMAIN truth : truth[s] = CopyOf(account', s)
    BY DEF Snapshot
  <2>3. \A s \in sure : s \in DOMAIN store <=> s \in DOMAIN truth
    BY <2>1, <2>2
  <2>4. ASSUME NEW s \in sure \cap DOMAIN store
        PROVE  /\ TagsOf(store[s].tags) = TagsOf(truth[s].tags)
               /\ store[s].read = truth[s].read
    <3>1. s \in account'.starred \ drifted'.copies /\ cache'.copy[s] # None
      BY <2>1, <2>2
    <3>2. truth[s].tags = account'.tags[s] /\ truth[s].read = account'.read[s]
      BY <2>2, <2>3 DEF CopyOf
    <3> QED
      BY <2>1, <2>2, <3>1, <3>2
  <2> HIDE DEF store, truth, sure
  <2>5. ASSUME NEW node \in Container, NEW filter \in Filter
        PROVE  Listed(store, node, filter) \cap sure = Listed(truth, node, filter) \cap sure
    <3>1. \A p \in filter : p.dim \in Dimensions
      BY FilterAssumption
    <3> QED
      BY <2>3, <2>4, <3>1, ListingsAlike
  <2> QED
    BY <2>5 DEF store, truth, sure
<1> QED
  BY <1>1, Types, CacheFollows, PTL DEF ListingsFollowAccount
-----------------------------------------------------------------------------
(* What is read out of the cache.                                          *)

(* The facts about a snapshot of stories on which its counts rest.         *)
Stored(store) ==
  /\ DOMAIN store \in SUBSET Story
  /\ store \in [DOMAIN store -> [tags : Seq(Tag), read : BOOLEAN]]
  /\ \A s \in DOMAIN store : IsInjective(store[s].tags)

LEMMA StoredIsSound ==
  ASSUME StoryTagsAreSets, NEW store, Stored(store)
  PROVE  /\ Sound(store) /\ IsFiniteSet(DOMAIN store)
         /\ \A s \in DOMAIN store : /\ s \in Story /\ StoryTags[s] \in Seq(Tag)
                                    /\ TagsOf(store[s].tags) \in SUBSET Tag
                                    /\ TagsOf(StoryTags[s]) \in SUBSET Tag
<1>1. IsFiniteSet(DOMAIN store)
  BY StoriesAssumption, FS_Subset DEF Stored
<1>2. \A s \in DOMAIN store : s \in Story /\ StoryTags[s] \in Seq(Tag) /\ Age[s] \in Int
  BY StoriesAssumption DEF Stored
<1>3. Sound(store)
  BY <1>1, <1>2 DEF Sound, Stored, StoryTagsAreSets
<1>4. \A list \in Seq(Tag) : TagsOf(list) \in SUBSET Tag
  BY TagsOfType
<1> QED
  BY <1>1, <1>2, <1>3, <1>4 DEF Stored

LEMMA FacetsAgree ==
  ASSUME StoryTagsAreSets, NEW store, Stored(store), NEW node, NEW filter
  PROVE  FacetsAreListings(store, node, filter)
<1>1. Sound(store)
  BY StoredIsSound
<1> SUFFICES ASSUME NEW dim \in Dimensions, NEW value \in DOMAIN Counts(store, node, filter, dim)
             PROVE  Counts(store, node, filter, dim)[value]
                      = Cardinality(Listed(store, node, filter \cup {[dim |-> dim, value |-> value]}))
  BY DEF FacetsAreListings
<1> QED
  BY <1>1, FacetCounts

LEMMA FeedsAgree ==
  ASSUME NEW store, NEW filter PROVE FeedsAreListings(store, filter)
<1> SUFFICES ASSUME NEW f \in DOMAIN ByContainer(store, filter)
             PROVE  ByContainer(store, filter)[f] = Cardinality(Listed(store, <<"feed", f>>, filter))
  BY DEF FeedsAreListings
<1> DEFINE matched == Listed(store, <<"stories">>, filter)
<1>1. ByContainer(store, filter)[f] = Cardinality({s \in matched : FeedOf[s] = f})
  BY DEF ByContainer
<1>2. {s \in matched : FeedOf[s] = f} = Listed(store, <<"feed", f>>, filter)
  <2>1. Children(store, <<"stories">>) = DOMAIN store
    BY DEF Children
  <2>2. Children(store, <<"feed", f>>) = {s \in DOMAIN store : FeedOf[s] = f}
    BY DEF Children
  <2> QED
    BY <2>1, <2>2 DEF Listed
<1> QED
  BY <1>1, <1>2

LEMMA ScopesAgree ==
  ASSUME NEW store, NEW node \in Container, NEW s \in DOMAIN store
  PROVE  InScope(store, node, s) <=> s \in Children(store, node)
<1>1. node[1] \in {"stories", "feed", "tag"}
  BY NodesAssumption
<1>2. CASE node[1] = "stories"
  BY <1>2 DEF InScope, Children
<1>3. CASE node[1] = "feed"
  BY <1>3 DEF InScope, Children
<1>4. CASE node[1] = "tag"
  BY <1>4 DEF InScope, Children
<1> QED
  BY <1>1, <1>2, <1>3, <1>4

LEMMA NodesAgree ==
  ASSUME StoryTagsAreSets, NEW store, Stored(store)
  PROVE  /\ TagNodes(store) = {t \in Tag \ {EmptyTag} : Children(store, <<"tag", t>>) # {}}
         /\ External \in FeedNodes(store, Feed) <=> Children(store, <<"feed", External>>) # {}
<1>1. \A t : Children(store, <<"tag", t>>) = {s \in DOMAIN store : HasTag(store, s, t)}
  BY DEF Children
<1>2. \A s \in DOMAIN store : TagsOf(store[s].tags) \in SUBSET Tag /\ TagsOf(StoryTags[s]) \in SUBSET Tag
  BY StoredIsSound
<1>3. TagNodes(store) = {t \in Tag \ {EmptyTag} : Children(store, <<"tag", t>>) # {}}
  BY <1>1, <1>2 DEF TagNodes, HasTag
<1>4. Children(store, <<"feed", External>>) = {s \in DOMAIN store : FeedOf[s] = External}
  BY DEF Children
<1>5. External \in FeedNodes(store, Feed) <=> Children(store, <<"feed", External>>) # {}
  BY <1>4, NodesAssumption DEF FeedNodes
<1> QED
  BY <1>3, <1>5

LEMMA QueriesAgree ==
  ASSUME StoryTagsAreSets, NEW store, Stored(store)
  PROVE  QueriesAnswerFacets(store)
<1>1. /\ IsFiniteSet(DOMAIN store)
      /\ \A s \in DOMAIN store : Age[s] \in Int /\ IsInjective(store[s].tags)
  BY StoredIsSound DEF Sound
<1>2. \A query : /\ Query(store, query) \in Seq(DOMAIN store)
                 /\ Len(Query(store, query)) = Cardinality({s \in DOMAIN store : Selects(query, store, s)})
  BY <1>1, QueryCounts
<1>3. ASSUME NEW t \in Tag PROVE ByTag(store, t) = Len(Query(store, [tag |-> t]))
  <2> DEFINE lists == [s \in DOMAIN store |-> store[s].tags]
  <2>1. IsFiniteSet(DOMAIN lists) /\ \A s \in DOMAIN lists : IsInjective(lists[s])
    BY <1>1
  <2>2. {s \in DOMAIN lists : t \in TagsOf(lists[s])}
          = {s \in DOMAIN store : Selects([tag |-> t], store, s)}
    BY DEF Selects, Asks
  <2> HIDE DEF lists
  <2>3. Occurrences(lists, t) = Cardinality({s \in DOMAIN lists : t \in TagsOf(lists[s])})
    BY <2>1, OccurrencesInLists
  <2> QED
    BY <1>2, <2>2, <2>3 DEF ByTag, lists
<1>4. ASSUME NEW f PROVE ByFeed(store, f) = Len(Query(store, [feed |-> f]))
  <2>1. {s \in DOMAIN store : FeedOf[s] = f} = {s \in DOMAIN store : Selects([feed |-> f], store, s)}
    BY DEF Selects, Asks
  <2> QED
    BY <1>2, <2>1 DEF ByFeed
<1>5. ASSUME NEW r \in BOOLEAN PROVE ByStatus(store, r) = Len(Query(store, [read |-> r]))
  <2>1. {s \in DOMAIN store : store[s].read = r} = {s \in DOMAIN store : Selects([read |-> r], store, s)}
    BY DEF Selects, Asks
  <2> QED
    BY <1>2, <2>1 DEF ByStatus
<1>6. ASSUME NEW r \in BOOLEAN, NEW i \in DOMAIN Query(store, [read |-> r])
      PROVE  Page(Query(store, [read |-> r]), i - 1, 1) = <<Query(store, [read |-> r])[i]>>
  <2>1. Query(store, [read |-> r]) \in Seq(DOMAIN store)
    BY <1>2
  <2> QED
    BY <2>1, PagesOfOne
<1> QED
  BY <1>3, <1>4, <1>5, <1>6 DEF QueriesAnswerFacets

(* Whatever is asked of such a snapshot, the counts are those of the       *)
(* listings.                                                               *)
THEOREM StoredIsConsistent ==
  ASSUME StoryTagsAreSets, NEW store, Stored(store)
  PROVE  store \in Readable
<1>1. Consistent(store)
  BY FacetsAgree, FeedsAgree, ScopesAgree, NodesAgree, QueriesAgree DEF Consistent
<1>2. ASSUME NEW list \in Seq(Tag), IsInjective(list) PROVE list \in Lists
  <2>1. Cardinality(TagsOf(list)) = Len(list) /\ Len(list) \in Nat
    BY <1>2, LengthBoundsTags, LenProperties
  <2>2. TagsOf(list) \in SUBSET Tag
    BY TagsOfType
  <2>3. Len(list) <= Cardinality(Tag) /\ Cardinality(Tag) \in Nat
    BY <2>1, <2>2, StoriesAssumption, FS_Subset, FS_CardinalityType
  <2>4. list \in [1 .. Len(list) -> Tag] /\ Len(list) \in 0 .. Cardinality(Tag)
    BY <2>1, <2>3, LenProperties
  <2>5. list \in BoundedSeq(Tag, Cardinality(Tag))
    BY <2>4 DEF BoundedSeq, SeqOf
  <2> QED
    BY <1>2, <2>5 DEF Lists
<1>3. store \in Snapshots
  <2> DEFINE D == DOMAIN store
  <2>1. \A s \in D : store[s] \in [tags : Seq(Tag), read : BOOLEAN] /\ store[s].tags \in Lists
    BY <1>2 DEF Stored
  <2>2. \A s \in D : store[s] \in [tags : Lists, read : BOOLEAN]
    BY <2>1
  <2>4. store \in [D -> [tags : Lists, read : BOOLEAN]]
    BY <2>2 DEF Stored
  <2>3. D \in SUBSET Story
    BY DEF Stored
  <2> HIDE DEF D
  <2> QED
    BY <2>3, <2>4 DEF Snapshots
<1> QED
  BY <1>1, <1>3 DEF Readable
-----------------------------------------------------------------------------
(* No list of tags repeats one: in the account, in the copies, in a live   *)
(* read.                                                                   *)

LiveSets    == \A r \in Request : IsInjective(req[r].live)
AccountSets == \A s \in Story : IsInjective(account.tags[s])
CopySets    == \A s \in Story : cache.copy[s] # None => IsInjective(cache.copy[s].tags)

Unrepeated == LiveSets /\ AccountSets /\ CopySets

LEMMA EmptyIsSet == IsInjective(<<>>)
BY DEF IsInjective

LEMMA RetaggedIsSet ==
  ASSUME NEW list \in Seq(Tag), NEW op \in Operations, op.kind \in {"renameTag", "deleteTag"}
  PROVE  IsInjective(Retagged(list, op))
<1>1. op.kind = "renameTag" => op.name \in Tag
  BY FieldsOfStories
<1> QED
  BY <1>1, RenamedIsSet, DroppedIsSet DEF Retagged

LEMMA LiveStays ==
  ASSUME TypeInv, LiveSets, NEW r \in Request, req[r].pc \in {"call", "patch"},
         \/ \E outcome : Answer(r, outcome)
         \/ req' = [req EXCEPT ![r].pc = "patch"]
         \/ Proceed(r)
         \/ \E live \in Seq(Tag) :
              /\ IsInjective(live)
              /\ req' = [req EXCEPT ![r] =
                   [req[r] EXCEPT !.pc = "call", !.todo = Tail(req[r].todo), !.live = live]]
  PROVE  LiveSets'
<1>1. req \in [Request -> Requests] /\ req[r] \in Requests
  BY DEF TypeInv, RequestsOK
<1>2. ASSUME NEW q, req' = [req EXCEPT ![r] = q], IsInjective(q.live) PROVE LiveSets'
  BY <1>1, <1>2 DEF LiveSets
<1>3. ASSUME NEW outcome, Answer(r, outcome) PROVE LiveSets'
  <2> DEFINE q == [req[r] EXCEPT !.pc = "done", !.todo = <<>>, !.live = <<>>, !.known = {},
                                 !.outcome = outcome]
  <2>1. req' = [req EXCEPT ![r] = q]
    BY <1>3 DEF Answer, Ends
  <2>2. q.live = <<>>
    BY <1>1 DEF Requests
  <2> HIDE DEF q
  <2> QED
    BY <1>2, <2>1, <2>2, EmptyIsSet
<1>4. CASE req' = [req EXCEPT ![r].pc = "patch"]
  <2> DEFINE q == [req[r] EXCEPT !.pc = "patch"]
  <2>1. req' = [req EXCEPT ![r] = q] /\ q.live = req[r].live
    BY <1>1, <1>4 DEF Requests
  <2> HIDE DEF q
  <2> QED
    BY <1>2, <2>1 DEF LiveSets
<1>5. CASE Proceed(r)
  <2>1. CASE Len(req[r].todo) = 1
    BY <1>3, <1>5, <2>1 DEF Proceed
  <2>2. CASE Len(req[r].todo) # 1
    <3> DEFINE q == [req[r] EXCEPT !.pc = "call", !.todo = Tail(req[r].todo)]
    <3>1. req' = [req EXCEPT ![r] = q]
      BY <1>5, <2>2 DEF Proceed
    <3>2. q.live = req[r].live
      BY <1>1 DEF Requests
    <3> HIDE DEF q
    <3> QED
      BY <1>2, <3>1, <3>2 DEF LiveSets
  <2> QED
    BY <2>1, <2>2
<1>6. ASSUME NEW live \in Seq(Tag), IsInjective(live),
             req' = [req EXCEPT ![r] =
               [req[r] EXCEPT !.pc = "call", !.todo = Tail(req[r].todo), !.live = live]]
      PROVE  LiveSets'
  <2> DEFINE q == [req[r] EXCEPT !.pc = "call", !.todo = Tail(req[r].todo), !.live = live]
  <2>1. req' = [req EXCEPT ![r] = q]
    BY <1>6
  <2>2. q.live = live
    BY <1>1 DEF Requests
  <2> HIDE DEF q
  <2> QED
    BY <1>2, <1>6, <2>1, <2>2
<1> QED
  BY <1>3, <1>4, <1>5, <1>6

LEMMA LandingSets ==
  ASSUME TypeInv, Unrepeated, NEW r \in Request, req[r].pc = "call", NEW stories, NEW acc,
         Landing(r, stories, acc), \A s \in Story : IsInjective(acc.tags[s])
  PROVE  Unrepeated'
<1>1. account' = acc /\ cache' = cache
  BY DEF Landing
<1>2. LiveSets'
  <2>1. req' = [req EXCEPT ![r].pc = "patch"] \/ Answer(r, "error")
    BY DEF Landing
  <2> QED
    BY <2>1, LiveStays DEF Unrepeated
<1> QED
  BY <1>1, <1>2 DEF Unrepeated, AccountSets, CopySets

LEMMA StarredSets ==
  ASSUME account \in Accounts, AccountSets, NEW s \in Story, NEW list, IsInjective(list)
  PROVE  \A x \in Story : IsInjective(Starred(s, list).tags[x])
BY DEF Accounts, AccountSets, Starred

LEMMA StoryCallsUnrepeated ==
  ASSUME TypeInv, Unrepeated, NEW r \in Request,
         MarkRead(r) \/ ReplaceTags(r) \/ Save(r) \/ Star(r) \/ Unstar(r) \/ EditTags(r)
  PROVE  Unrepeated'
<1> DEFINE op == req[r].op
           s  == req[r].op.story
<1>1. account \in Accounts /\ AccountSets
  BY DEF TypeInv, DataOK, Unrepeated
<1>2. CASE MarkRead(r)
  <2>1. At(r, "markRead") /\ Landing(r, {s}, [account EXCEPT !.read[s] = op.read])
    BY <1>2 DEF MarkRead
  <2>2. [account EXCEPT !.read[s] = op.read].tags = account.tags
    BY <1>1 DEF Accounts
  <2> QED
    BY <1>1, <2>1, <2>2, LandingSets DEF At, AccountSets
<1>3. CASE ReplaceTags(r)
  <2>1. At(r, "replaceTags") /\ Landing(r, {s}, Starred(s, Distinct(op.set)))
    BY <1>3 DEF ReplaceTags
  <2>2. s \in Story /\ op.set \in Seq(Tag)
    BY <2>1, AtCall, CallsOnStories
  <2>3. IsInjective(Distinct(op.set))
    BY <2>2, DistinctInjective
  <2> QED
    BY <1>1, <2>1, <2>2, <2>3, StarredSets, LandingSets DEF At
<1>4. CASE Save(r)
  <2>1. At(r, "save") /\ Landing(r, {s}, Starred(s, Distinct(op.tags)))
    BY <1>4 DEF Save
  <2>2. s \in Story /\ op.tags \in Seq(Tag)
    BY <2>1, AtCall, CallsOnStories
  <2>3. IsInjective(Distinct(op.tags))
    BY <2>2, DistinctInjective
  <2> QED
    BY <1>1, <2>1, <2>2, <2>3, StarredSets, LandingSets DEF At
<1>5. CASE Star(r)
  <2>1. At(r, "star") /\ account' = Starred(s, Distinct(op.tags)) /\ cache' = cache
        /\ (req' = [req EXCEPT ![r].pc = "patch"] \/ Answer(r, "error"))
    BY <1>5 DEF Star
  <2>2. s \in Story /\ op.tags \in Seq(Tag)
    BY <2>1, AtCall, CallsOnStories
  <2>3. IsInjective(Distinct(op.tags))
    BY <2>2, DistinctInjective
  <2>4. AccountSets'
    BY <1>1, <2>1, <2>2, <2>3, StarredSets DEF AccountSets
  <2>5. LiveSets'
    BY <2>1, LiveStays DEF At, Unrepeated
  <2> QED
    BY <2>1, <2>4, <2>5 DEF Unrepeated, CopySets
<1>6. CASE Unstar(r)
  <2> DEFINE acc == [account EXCEPT !.starred = @ \ {s}, !.tags[s] = <<>>]
  <2>1. At(r, "unstar") /\ Landing(r, {s}, acc)
    BY <1>6 DEF Unstar
  <2>2. s \in Story
    BY <2>1, AtCall, CallsOnStories
  <2>3. \A x \in Story : IsInjective(acc.tags[x])
    BY <1>1, <2>2, EmptyIsSet DEF Accounts, AccountSets
  <2> HIDE DEF acc
  <2> QED
    BY <2>1, <2>3, LandingSets DEF At
<1>7. CASE EditTags(r)
  <2>1. At(r, "editTags") /\ Landing(r, {s}, Starred(s, req[r].live))
    BY <1>7 DEF EditTags
  <2>2. s \in Story
    BY <2>1, AtCall, CallsOnStories
  <2>3. IsInjective(req[r].live)
    BY DEF Unrepeated, LiveSets
  <2> QED
    BY <1>1, <2>1, <2>2, <2>3, StarredSets, LandingSets DEF At
<1> QED
  BY <1>2, <1>3, <1>4, <1>5, <1>6, <1>7

LEMMA LiveReadsUnrepeated ==
  ASSUME TypeInv, Unrepeated, NEW r \in Request, LiveTags(r) \/ ReadCounts(r)
  PROVE  Unrepeated'
<1>1. UNCHANGED <<account, cache>> /\ req[r].pc = "call"
  BY DEF LiveTags, ReadCounts, At
<1>2. LiveSets'
  <2>1. CASE LiveTags(r)
    <3> DEFINE op == req[r].op
               list == account.tags[op.story]
               next == ApplyTagEdit(list, Distinct(ListOf(op.add)), Distinct(ListOf(op.remove)))
    <3>1. At(r, "liveTags") /\ ReadTags(r, list)
      BY <2>1 DEF LiveTags
    <3>2. /\ op.story \in Story /\ op.add \in Seq(Tag) \cup {None} /\ op.remove \in Seq(Tag) \cup {None}
          /\ req[r] \in Requests /\ account \in Accounts
      BY <3>1, AtCall, CallsOnStories DEF DataOK
    <3>3. list \in Seq(Tag) /\ Distinct(ListOf(op.add)) \in Seq(Tag) /\ Distinct(ListOf(op.remove)) \in Seq(Tag)
      BY <3>2, FieldsOfAccount, ListsOfTags, DistinctTags
    <3>4. next \in Seq(Tag)
      BY <3>3, EditKeepsOthers
    <3>5. IsInjective(next)
      BY <3>3, EditIsSet
    <3> DEFINE q == [req[r] EXCEPT !.todo = Tail(req[r].todo), !.live = next]
    <3>6. (\E outcome : Answer(r, outcome)) \/ req' = [req EXCEPT ![r] = q]
      BY <3>1 DEF ReadTags
    <3>7. q = [req[r] EXCEPT !.pc = "call", !.todo = Tail(req[r].todo), !.live = next]
      BY <1>1, <3>2 DEF Requests
    <3> HIDE DEF next, q
    <3> QED
      BY <1>1, <3>4, <3>5, <3>6, <3>7, LiveStays DEF Unrepeated
  <2>2. CASE ReadCounts(r)
    <3>1. req[r].live \in Seq(Tag) /\ IsInjective(req[r].live)
      BY DEF TypeInv, RequestsOK, Requests, Unrepeated, LiveSets
    <3>2. \/ Answer(r, "refused")
          \/ req' = [req EXCEPT ![r] =
               [req[r] EXCEPT !.pc = "call", !.todo = Tail(req[r].todo), !.live = req[r].live]]
      BY <2>2, ReadCountsReads
    <3> QED
      BY <1>1, <3>1, <3>2, LiveStays DEF Unrepeated
  <2> QED
    BY <2>1, <2>2
<1> QED
  BY <1>1, <1>2 DEF Unrepeated, AccountSets, CopySets

LEMMA ChangeTagUnrepeated ==
  ASSUME TypeInv, Unrepeated, NEW r \in Request, ChangeTag(r)
  PROVE  Unrepeated'
<1> DEFINE op == req[r].op
           tagged == {s \in account.starred : op.tag \in TagsOf(account.tags[s])}
<1>1. /\ op.kind \in {"renameTag", "deleteTag"}
      /\ \A s \in Story : account'.tags[s] = IF s \in tagged THEN Retagged(account.tags[s], op)
                                             ELSE account.tags[s]
      /\ req' = [req EXCEPT ![r].pc = "patch"] \/ Answer(r, "error")
      /\ cache' = cache
  BY ChangeTagWrites
<1>2. PICK call : At(r, call)
  BY DEF ChangeTag
<1>3. op \in Operations /\ req[r].pc = "call" /\ account \in Accounts
  BY <1>2, AtCall DEF DataOK
<1>4. AccountSets'
  <2>1. \A s \in Story : IsInjective(Retagged(account.tags[s], op)) /\ IsInjective(account.tags[s])
    BY <1>1, <1>3, FieldsOfAccount, RetaggedIsSet DEF Unrepeated, AccountSets
  <2> QED
    BY <1>1, <2>1 DEF AccountSets
<1>5. LiveSets'
  BY <1>1, <1>3, LiveStays DEF Unrepeated
<1> QED
  BY <1>1, <1>4, <1>5 DEF Unrepeated, CopySets

LEMMA FeedCallsUnrepeated ==
  ASSUME TypeInv, Unrepeated, NEW r \in Request,
         \/ RenameFolder(r) \/ MoveFolder(r) \/ CreateFolder(r) \/ DeleteFolder(r)
         \/ Subscribe(r) \/ RenameFeed(r) \/ MoveFeed(r) \/ DeleteFeed(r)
  PROVE  Unrepeated'
<1>1. /\ req[r].pc = "call" /\ cache' = cache /\ account'.tags = account.tags
      /\ Proceed(r) \/ Answer(r, "error")
  <2>1. CASE \E call \in FeedCalls : At(r, call) /\ \E p : Taken(r, p)
    BY <2>1, Zenon DEF Taken, At
  <2>2. CASE \E call \in FeedCalls, feeds \in SUBSET Feed, acc \in Accounts :
               At(r, call) /\ Landed(r, feeds, acc) /\ acc.tags = account.tags
    BY <2>2 DEF Landed, At
  <2> QED
    BY <2>1, <2>2, FeedCallWrites
<1>2. LiveSets'
  BY <1>1, LiveStays DEF Unrepeated
<1> QED
  BY <1>1, <1>2 DEF Unrepeated, AccountSets, CopySets

LEMMA PatchCacheUnrepeated ==
  ASSUME TypeInv, Unrepeated, NEW r \in Request, PatchCache(r)
  PROVE  Unrepeated'
<1>1. req[r].pc = "patch" /\ Proceed(r) /\ account' = account
  BY DEF PatchCache
<1>2. LiveSets'
  BY <1>1, LiveStays DEF Unrepeated
<1>3. cache'.copy = cache.copy \/ cache'.copy = PatchedCopies(r)
  BY PatchCacheWrites
<1>4. /\ req[r] \in Requests /\ req[r].op \in Operations /\ Asked(req[r].op, Head(req[r].todo))
      /\ cache.copy \in [Story -> Copies] /\ account \in Accounts
  BY <1>1, PatchFacts DEF DataOK, Caches
<1>5. ASSUME NEW x \in Story, PatchedCopies(r)[x] # None PROVE IsInjective(PatchedCopies(r)[x].tags)
  <2> DEFINE c == cache.copy[x]
             op == req[r].op
             call == Head(req[r].todo)
  <2>1. PatchedCopies(r)[x] = PatchOf(req[r], account, x, c)
    BY <1>1, PatchedCopy
  <2>2. c \in Copies /\ (c # None => c.tags \in Seq(Tag) /\ IsInjective(c.tags))
    BY <1>4, CopyFields DEF Unrepeated, CopySets
  <2>3. CASE PatchedCopies(r)[x] = c
    BY <1>5, <2>2, <2>3
  <2>4. CASE call = "markRead" /\ c # None /\ PatchedCopies(r)[x] = [c EXCEPT !.read = op.read]
    BY <2>2, <2>4, CopyFields
  <2>5. CASE call = "replaceTags" /\ c # None /\ PatchedCopies(r)[x] = [c EXCEPT !.tags = Distinct(op.set)]
    <3>1. op.set \in Seq(Tag)
      BY <1>4, <2>5, CallsOnStories
    <3> QED
      BY <2>2, <2>5, <3>1, CopyFields, DistinctInjective
  <2>6. CASE call = "editTags" /\ c # None /\ PatchedCopies(r)[x] = [c EXCEPT !.tags = req[r].live]
    BY <2>2, <2>6, CopyFields DEF Unrepeated, LiveSets
  <2>7. CASE PatchedCopies(r)[x] = CopyOf(account, x)
    BY <2>7 DEF CopyOf, Unrepeated, AccountSets
  <2>8. CASE call \in {"renameTag", "deleteTag"} /\ c # None
             /\ PatchedCopies(r)[x] = [c EXCEPT !.tags = Retagged(c.tags, op)]
    <3>1. op.kind \in {"renameTag", "deleteTag"}
      BY <1>4, <2>8, CallsOnStories
    <3>2. IsInjective(Retagged(c.tags, op))
      BY <1>4, <2>2, <2>8, <3>1, RetaggedIsSet
    <3> QED
      BY <2>2, <2>8, <3>2, CopyFields
  <2> HIDE DEF c, op, call
  <2>9. \/ PatchedCopies(r)[x] = c
        \/ call = "markRead" /\ c # None /\ PatchedCopies(r)[x] = [c EXCEPT !.read = op.read]
        \/ call = "replaceTags" /\ c # None /\ PatchedCopies(r)[x] = [c EXCEPT !.tags = Distinct(op.set)]
        \/ call = "editTags" /\ c # None /\ PatchedCopies(r)[x] = [c EXCEPT !.tags = req[r].live]
        \/ PatchedCopies(r)[x] = CopyOf(account, x)
        \/ call \in {"renameTag", "deleteTag"} /\ c # None
             /\ PatchedCopies(r)[x] = [c EXCEPT !.tags = Retagged(c.tags, op)]
    BY <2>1 DEF PatchOf, op, call
  <2> QED
    BY <2>3, <2>4, <2>5, <2>6, <2>7, <2>8, <2>9
<1> QED
  BY <1>1, <1>2, <1>3, <1>5 DEF Unrepeated, AccountSets, CopySets

LEMMA OthersUnrepeated ==
  ASSUME UserTagsAreSets, TypeInv, Unrepeated, OtherParties
  PROVE  Unrepeated'
<1>1. account \in Accounts /\ req' = req
  BY OthersAreNoted DEF TypeInv, DataOK
<1>2. LiveSets'
  BY <1>1 DEF Unrepeated, LiveSets
<1>3. ASSUME NEW s \in Story, NEW list, IsInjective(list), cache' = cache,
             account'.tags = [account.tags EXCEPT ![s] = list]
      PROVE  Unrepeated'
  BY <1>1, <1>2, <1>3 DEF Unrepeated, AccountSets, CopySets, Accounts
<1>4. ASSUME cache' = cache, account'.tags = account.tags PROVE Unrepeated'
  BY <1>2, <1>4 DEF Unrepeated, AccountSets, CopySets
<1>5. ASSUME NEW s \in Story, AppTagsStory(s) PROVE Unrepeated'
  <2>1. PICK list \in AppTags : account' = [account EXCEPT !.tags[s] = list]
    BY <1>5 DEF AppTagsStory
  <2>2. account'.tags = [account.tags EXCEPT ![s] = list]
    BY <1>1, <2>1 DEF Accounts
  <2> QED
    BY <1>3, <1>5, <2>1, <2>2 DEF AppTagsStory, UserTagsAreSets
<1>6. ASSUME NEW s \in Story, AppStars(s) PROVE Unrepeated'
  <2>1. PICK list \in IF s \in account.starred THEN {<<>>} ELSE AppTags :
          account' = [account EXCEPT !.starred = IF s \in @ THEN @ \ {s} ELSE @ \cup {s},
                                     !.tags[s] = list]
    BY <1>6 DEF AppStars
  <2>2. account'.tags = [account.tags EXCEPT ![s] = list]
    BY <1>1, <2>1 DEF Accounts
  <2>3. IsInjective(list)
    BY EmptyIsSet DEF UserTagsAreSets
  <2> QED
    BY <1>3, <1>6, <2>2, <2>3 DEF AppStars
<1>7. ASSUME NEW s \in Story, AppReads(s) PROVE Unrepeated'
  BY <1>1, <1>4, <1>7 DEF AppReads, Accounts
<1>8. ASSUME NEW d \in Folder, AppMovesFolder(d) PROVE Unrepeated'
  BY <1>1, <1>4, <1>8 DEF AppMovesFolder, Accounts
<1>9. ASSUME NEW f \in Feed, AppMovesFeed(f) PROVE Unrepeated'
  BY <1>1, <1>4, <1>9 DEF AppMovesFeed, Accounts
<1>10. ASSUME Fetch PROVE Unrepeated'
  <2>1. /\ account' = account
        /\ \A s \in Story : cache'.copy[s] \in {CopyOf(account, s), cache.copy[s]}
    BY <1>10 DEF Fetch
  <2>2. \A s \in Story : CopyOf(account, s).tags = account.tags[s]
    BY DEF CopyOf
  <2> QED
    BY <1>2, <2>1, <2>2 DEF Unrepeated, AccountSets, CopySets
<1> QED
  BY <1>5, <1>6, <1>7, <1>8, <1>9, <1>10 DEF OtherParties

LEMMA SubmitUnrepeated ==
  ASSUME TypeInv, Unrepeated, NEW r \in Request, NEW op \in Op[r], Submit(r, op)
  PROVE  Unrepeated'
<1>1. UNCHANGED <<account, cache>> /\ req \in [Request -> Requests]
  BY DEF Submit, TypeInv, RequestsOK
<1>2. \E q : req' = [req EXCEPT ![r] = q] /\ q.live = <<>>
  <2> DEFINE known == CASE op.kind \in {"renameTag", "deleteTag"} -> Holders(op.tag)
                        [] op.kind = "deleteFeed" -> {cache.feedIn[op.feed]}
                        [] OTHER -> {}
             ended(o) == [NoRequest EXCEPT !.op = op, !.pc = "done", !.outcome = o]
             waits    == [NoRequest EXCEPT !.op = op, !.pc = "lock", !.todo = Calls(op), !.known = known]
  <2>1. \/ \E o : req' = [req EXCEPT ![r] = ended(o)]
        \/ req' = [req EXCEPT ![r] = waits]
    BY DEF Submit, Refuse
  <2> HIDE DEF known
  <2>2. waits.live = <<>> /\ \A o : ended(o).live = <<>>
    BY DEF NoRequest
  <2> HIDE DEF ended, waits
  <2> QED
    BY <2>1, <2>2
<1> QED
  BY <1>1, <1>2, EmptyIsSet DEF Unrepeated, LiveSets, AccountSets, CopySets

LEMMA UnrepeatedIsKept ==
  ASSUME UserTagsAreSets PROVE TypeInv /\ Unrepeated /\ [Next]_vars => Unrepeated'
<1> SUFFICES ASSUME TypeInv, Unrepeated, [Next]_vars PROVE Unrepeated'
  OBVIOUS
<1>1. CASE UNCHANGED vars
  BY <1>1 DEF vars, history, Unrepeated, LiveSets, AccountSets, CopySets
<1>2. CASE \E r \in Request : \E op \in Op[r] : Submit(r, op)
  BY <1>2, SubmitUnrepeated
<1>3. ASSUME NEW r \in Request, Lock(r) \/ Call(r) \/ Fails(r) \/ PatchCache(r) PROVE Unrepeated'
  <2>1. CASE Lock(r)
    <3> DEFINE q == [req[r] EXCEPT !.pc = "call"]
    <3>1. UNCHANGED <<account, cache>> /\ req' = [req EXCEPT ![r] = q]
      BY <2>1 DEF Lock
    <3>2. req \in [Request -> Requests] /\ q.live = req[r].live
      BY DEF TypeInv, RequestsOK, Requests
    <3> HIDE DEF q
    <3> QED
      BY <3>1, <3>2 DEF Unrepeated, LiveSets, AccountSets, CopySets
  <2>2. CASE Fails(r)
    <3>1. UNCHANGED <<account, cache>> /\ Answer(r, "error") /\ req[r].pc = "call"
      BY <2>2 DEF Fails
    <3>2. LiveSets'
      BY <3>1, LiveStays DEF Unrepeated
    <3> QED
      BY <3>1, <3>2 DEF Unrepeated, AccountSets, CopySets
  <2>3. CASE PatchCache(r)
    BY <2>3, PatchCacheUnrepeated
  <2>4. CASE Call(r)
    BY <2>4, StoryCallsUnrepeated, LiveReadsUnrepeated, ChangeTagUnrepeated, FeedCallsUnrepeated
       DEF Call
  <2> QED
    BY <1>3, <2>1, <2>2, <2>3, <2>4
<1>4. CASE OtherParties
  BY <1>4, OthersUnrepeated
<1>5. CASE AllAnswered
  BY <1>1, <1>5 DEF AllAnswered
<1> QED
  BY <1>1, <1>2, <1>3, <1>4, <1>5 DEF Next

LEMMA UnrepeatedAtFirst ==
  ASSUME UserTagsAreSets PROVE Init => Unrepeated
<1> SUFFICES ASSUME Init PROVE Unrepeated
  OBVIOUS
<1>1. AccountSets
  BY DEF Init, UserTagsAreSets, AccountSets
<1>2. CopySets
  <2>1. \A s \in Story : cache.copy[s] # None => cache.copy[s].tags = account.tags[s]
    BY DEF Init, CopyOf
  <2> QED
    BY <1>1, <2>1 DEF AccountSets, CopySets
<1>3. LiveSets
  BY EmptyIsSet DEF Init, NoRequest, LiveSets
<1> QED
  BY <1>1, <1>2, <1>3 DEF Unrepeated

LEMMA TagsStaySets ==
  ASSUME UserTagsAreSets PROVE Spec => []Unrepeated
BY UnrepeatedAtFirst, UnrepeatedIsKept, Types, PTL DEF Spec

(* Where NewsBlur repeats no tag of a story, each count a reader is offered *)
(* is the number of nodes it gets: the plugin's own writes and patches     *)
(* repeat none either (distinctTags), and counts that add up occurrences   *)
(* count stories then.                                                     *)
THEOREM CountsMatch ==
  ASSUME UserTagsAreSets, StoryTagsAreSets
  PROVE  Spec => []CountsAreListings
<1>1. TypeInv /\ Unrepeated => CountsAreListings
  <2> SUFFICES ASSUME TypeInv, Unrepeated
               PROVE  Snapshot(cache.listed, cache.copy) \in Readable
    BY DEF CountsAreListings
  <2>1. cache.listed \in SUBSET Story /\ cache.copy \in [Story -> Copies]
    BY DEF TypeInv, DataOK, Caches
  <2>2. Stored(Snapshot(cache.listed, cache.copy))
    BY <2>1 DEF Snapshot, Stored, Unrepeated, CopySets, Copies
  <2> QED
    BY <2>2, StoredIsConsistent
<1> QED
  BY <1>1, Types, TagsStaySets, PTL
-----------------------------------------------------------------------------
(* What an answer promises.                                                *)

(* A request that waits for mutateMu or holds it has no outcome yet, asks  *)
(* for no tag to be both added and removed, and has a rest of its plan in  *)
(* which a rename is the first call, a move the last, and the last call is *)
(* the one that writes the tags or makes the move that was asked for.      *)
InHand(q) ==
  /\ q.outcome = None
  /\ q.op.kind = "patchStory" => ~RefusedTags(q.op)
  /\ \A i \in 1 .. Len(q.todo) :
       /\ q.todo[i] \in {"renameFolder", "renameFeed"} => i = 1
       /\ q.todo[i] \in {"moveFolder", "moveFeed"} => i = Len(q.todo)
  /\ q.op.kind = "patchStory" /\ q.op.set # None => q.todo[Len(q.todo)] = "replaceTags"
  /\ q.op.kind = "patchStory" /\ Editing(q.op) => q.todo[Len(q.todo)] = "editTags"
  /\ q.op.kind = "patchFolder" /\ q.op.to # None => q.todo[Len(q.todo)] = "moveFolder"
  /\ q.op.kind = "patchFeed" /\ q.op.to # None => q.todo[Len(q.todo)] = "moveFeed"

(* Before the lock, the first call is still to be made.                    *)
Unbegun(q) ==
  /\ q.op.kind = "patchStory" /\ q.op.read # None => q.todo[1] = "markRead"
  /\ q.op.kind = "patchFolder" /\ q.op.name # None => q.todo[1] = "renameFolder"
  /\ q.op.kind = "patchFeed" /\ q.op.name # None => q.todo[1] = "renameFeed"

HandInv ==
  \A r \in Request : /\ req[r].pc \in {"lock", "call", "patch"} => InHand(req[r])
                     /\ req[r].pc = "lock" => Unbegun(req[r])

(* What the calls that the request has made so far leave in the account,   *)
(* but for the things that another party has changed.                      *)
ReadSoFar(q, acc, things) ==
  q.op.kind = "patchStory" /\ q.op.read # None /\ q.op.story \notin things
  /\ ~(q.pc = "call" /\ Head(q.todo) = "markRead") => acc.read[q.op.story] = q.op.read

EditSoFar(q) ==
  Head(q.todo) = "editTags" => /\ TagsOf(ListOf(q.op.add)) \subseteq TagsOf(q.live)
                               /\ TagsOf(ListOf(q.op.remove)) \cap TagsOf(q.live) = {}

StarSoFar(q, acc, things) ==
  q.pc = "patch" /\ Head(q.todo) \in {"star", "save"} /\ q.op.story \notin things
    => acc.tags[q.op.story] = Distinct(q.op.tags)

FolderSoFar(q, acc, things, folder) ==
  q.op.kind = "patchFolder" /\ folder \notin things \cup {None}
    => acc.at[folder] = IF Head(q.todo) = "renameFolder" THEN q.op.path ELSE MovedFrom(q.op)

TitleSoFar(q, acc) ==
  q.op.kind = "patchFeed" /\ q.op.name # None /\ Head(q.todo) # "renameFeed"
    => acc.title[q.op.feed] = q.op.name

SoFar(q, acc, things, folder) ==
  /\ ReadSoFar(q, acc, things) /\ EditSoFar(q) /\ StarSoFar(q, acc, things)
  /\ FolderSoFar(q, acc, things, folder) /\ TitleSoFar(q, acc)

ProgressInv ==
  \A r \in Request : req[r].pc \in {"call", "patch"} => SoFar(req[r], account, since.things, target)

(* Where no other party has moved a feed, the index knows its folder, and  *)
(* so does a request to unsubscribe from it.                               *)
FeedInv ==
  \A f \in Feed \ drifted.feeds :
    /\ cache.feedIn[f] = account.feedIn[f]
    /\ \A r \in Request :
         req[r].pc \in {"lock", "call"} /\ req[r].op.kind = "deleteFeed" /\ req[r].op.feed = f
           => account.feedIn[f] \in req[r].known

AnswerInv == HandInv /\ ProgressInv /\ FeedInv

LEMMA JoinedEnds ==
  ASSUME NEW S, NEW a \in Seq(S), NEW b \in Seq(S)
  PROVE  /\ a \o b \in Seq(S) /\ Len(a \o b) = Len(a) + Len(b)
         /\ Len(a) > 0 => (a \o b)[1] = a[1]
         /\ Len(b) > 0 => (a \o b)[Len(a \o b)] = b[Len(b)]
         /\ \A i \in 1 .. Len(a \o b) :
              \/ i \in 1 .. Len(a) /\ (a \o b)[i] = a[i]
              \/ i - Len(a) \in 1 .. Len(b) /\ (a \o b)[i] = b[i - Len(a)]
<1>1. /\ Len(a) \in Nat /\ Len(b) \in Nat /\ a \o b \in Seq(S) /\ Len(a \o b) = Len(a) + Len(b)
      /\ \A i \in 1 .. Len(a) + Len(b) :
           (a \o b)[i] = IF i <= Len(a) THEN a[i] ELSE b[i - Len(a)]
  BY ConcatProperties, LenProperties
<1> DEFINE c == a \o b
<1>2. /\ Len(c) = Len(a) + Len(b)
      /\ \A i \in 1 .. Len(a) + Len(b) : c[i] = IF i <= Len(a) THEN a[i] ELSE b[i - Len(a)]
  BY <1>1
<1> HIDE DEF c
<1>3. Len(a) > 0 => c[1] = a[1]
  BY <1>1, <1>2
<1>4. ASSUME Len(b) > 0 PROVE c[Len(c)] = b[Len(b)]
  <2>1. /\ Len(c) \in 1 .. Len(a) + Len(b) /\ ~(Len(c) <= Len(a)) /\ Len(c) - Len(a) = Len(b)
    BY <1>1, <1>2, <1>4
  <2> QED
    BY <1>2, <2>1
<1>5. \A i \in 1 .. Len(c) : \/ i \in 1 .. Len(a) /\ c[i] = a[i]
                             \/ i - Len(a) \in 1 .. Len(b) /\ c[i] = b[i - Len(a)]
  BY <1>1, <1>2
<1> QED
  BY <1>1, <1>3, <1>4, <1>5 DEF c

LEMMA ShortLists ==
  ASSUME NEW S, NEW x \in S, NEW list \in {<<>>, <<x>>}
  PROVE  /\ list \in Seq(S) /\ Len(list) \in {0, 1} /\ \A i \in 1 .. Len(list) : i = 1 /\ list[i] = x
         /\ list = <<x>> => Len(list) = 1 /\ list[1] = x
<1>1. CASE list = <<>>
  <2>1. <<>> \in Seq(S) /\ Len(<<>>) = 0 /\ <<>> # <<x>>
    OBVIOUS
  <2> QED
    BY <1>1, <2>1
<1>2. CASE list = <<x>>
  <2>1. <<x>> \in Seq(S) /\ Len(<<x>>) = 1 /\ <<x>>[1] = x
    OBVIOUS
  <2> QED
    BY <1>2, <2>1
<1> QED
  BY <1>1, <1>2

(* The whole plan is in hand, and nothing of it has been done.             *)
LEMMA CallsAreInHand ==
  ASSUME NEW op \in Operations, ~NothingAsked(op), ~Refused(op),
         NEW q, q.op = op, q.todo = Calls(op), q.outcome = None
  PROVE  InHand(q) /\ Unbegun(q)
<1>1. /\ Calls(op) \in Seq(CallName) /\ Len(Calls(op)) \in Nat
      /\ \A i \in 1 .. Len(Calls(op)) : Asked(op, Calls(op)[i])
  BY CallsArePlanned, LenProperties DEF Plan
<1>2. CASE op.kind = "patchStory"
  <2> DEFINE a == IF op.read = None THEN <<>> ELSE <<"markRead">>
             b == IF op.set = None THEN <<>> ELSE <<"replaceTags">>
             c == IF Editing(op) THEN <<"liveTags", "editTags">> ELSE <<>>
             S == {"markRead", "replaceTags", "liveTags", "editTags"}
  <2>1. ~RefusedTags(op)
    BY <1>2 DEF Refused
  <2>2. Calls(op) = (a \o b) \o c
    BY <1>2 DEF Calls, PatchStoryCalls
  <2>3. /\ a \in Seq(S) /\ b \in Seq(S) /\ c \in Seq(S)
        /\ Len(a) \in Nat /\ Len(b) \in Nat
        /\ op.read # None => Len(a) = 1 /\ a[1] = "markRead"
        /\ op.set # None => Len(b) = 1 /\ b[1] = "replaceTags"
        /\ Editing(op) => Len(c) = 2 /\ c[2] = "editTags"
        /\ ~Editing(op) => Len(c) = 0
    <3>1. <<>> \in Seq(S) /\ <<"markRead">> \in Seq(S) /\ <<"replaceTags">> \in Seq(S)
          /\ <<"liveTags", "editTags">> \in Seq(S)
      OBVIOUS
    <3> QED
      BY <3>1
  <2> HIDE DEF a, b, c
  <2> DEFINE ab == a \o b
             abc == ab \o c
  <2>4. /\ ab \in Seq(S) /\ Len(ab) = Len(a) + Len(b)
        /\ Len(a) > 0 => ab[1] = a[1]
        /\ Len(b) > 0 => ab[Len(ab)] = b[Len(b)]
    BY <2>3, JoinedEnds
  <2> HIDE DEF ab
  <2>5. /\ Len(abc) = Len(ab) + Len(c)
        /\ Len(ab) > 0 => abc[1] = ab[1]
        /\ Len(c) > 0 => abc[Len(abc)] = c[Len(c)]
    <3>1. ab \in Seq(S) /\ c \in Seq(S)
      BY <2>3, <2>4
    <3> HIDE DEF S
    <3> QED
      BY <3>1, JoinedEnds
  <2>11. c = <<>> => abc = ab
    <3>1. ab \o <<>> = ab
      BY <2>4, ConcatEmptySeq
    <3> QED
      BY <3>1
  <2>10. Calls(op) = abc
    BY <2>2 DEF ab
  <2> HIDE DEF abc
  <2>6. op.read # None => Calls(op)[1] = "markRead"
    BY <2>3, <2>4, <2>5, <2>10
  <2>7. op.set # None => Calls(op)[Len(Calls(op))] = "replaceTags"
    <3> SUFFICES ASSUME op.set # None PROVE Calls(op)[Len(Calls(op))] = "replaceTags"
      OBVIOUS
    <3>1. ~Editing(op)
      BY <2>1 DEF RefusedTags
    <3>2. Len(c) = 0 /\ c \in Seq(S)
      BY <2>3, <3>1
    <3>3. c = <<>>
      BY <3>2, EmptySeq
    <3>4. Len(b) = 1 /\ b[1] = "replaceTags" /\ abc = ab
      BY <2>3, <2>11, <3>3
    <3>5. ab[Len(ab)] = b[1]
      BY <2>4, <3>4
    <3> QED
      BY <2>10, <3>4, <3>5
  <2>8. Editing(op) => Calls(op)[Len(Calls(op))] = "editTags"
    <3> SUFFICES ASSUME Editing(op) PROVE abc[Len(abc)] = "editTags"
      BY <2>10
    <3>1. Len(c) = 2 /\ c[2] = "editTags"
      BY <2>3
    <3>2. abc[Len(abc)] = c[Len(c)]
      BY <2>5, <3>1
    <3> QED
      BY <3>1, <3>2
  <2>9. \A i \in 1 .. Len(Calls(op)) :
          Calls(op)[i] \notin {"renameFolder", "renameFeed", "moveFolder", "moveFeed"}
    BY <1>1, <1>2 DEF Asked
  <2> QED
    BY <1>2, <2>1, <2>6, <2>7, <2>8, <2>9 DEF InHand, Unbegun
<1>3. ASSUME op.kind \in {"patchFolder", "patchFeed"},
             NEW x \in {"renameFolder", "renameFeed"}, NEW y \in {"moveFolder", "moveFeed"},
             x = IF op.kind = "patchFolder" THEN "renameFolder" ELSE "renameFeed",
             y = IF op.kind = "patchFolder" THEN "moveFolder" ELSE "moveFeed",
             Calls(op) = (IF op.name = None THEN <<>> ELSE <<x>>)
                         \o (IF op.to = None THEN <<>> ELSE <<y>>)
      PROVE  InHand(q) /\ Unbegun(q)
  <2> DEFINE a == IF op.name = None THEN <<>> ELSE <<x>>
             b == IF op.to = None THEN <<>> ELSE <<y>>
             S == {"renameFolder", "renameFeed", "moveFolder", "moveFeed"}
             t == Calls(op)
  <2>1. /\ a \in Seq(S) /\ Len(a) \in {0, 1} /\ (op.name # None => Len(a) = 1 /\ a[1] = x)
        /\ \A i \in 1 .. Len(a) : i = 1 /\ a[i] = x
        /\ b \in Seq(S) /\ Len(b) \in {0, 1} /\ (op.to # None => Len(b) = 1 /\ b[1] = y)
        /\ \A i \in 1 .. Len(b) : i = 1 /\ b[i] = y
    <3>1. x \in S /\ y \in S
      OBVIOUS
    <3>2. a \in {<<>>, <<x>>} /\ (op.name # None => a = <<x>>)
      OBVIOUS
    <3>3. b \in {<<>>, <<y>>} /\ (op.to # None => b = <<y>>)
      OBVIOUS
    <3> HIDE DEF a, b, S
    <3>4. /\ a \in Seq(S) /\ Len(a) \in {0, 1} /\ \A i \in 1 .. Len(a) : i = 1 /\ a[i] = x
          /\ a = <<x>> => Len(a) = 1 /\ a[1] = x
      BY <3>1, <3>2, ShortLists
    <3>5. /\ b \in Seq(S) /\ Len(b) \in {0, 1} /\ \A i \in 1 .. Len(b) : i = 1 /\ b[i] = y
          /\ b = <<y>> => Len(b) = 1 /\ b[1] = y
      BY <3>1, <3>3, ShortLists
    <3> QED
      BY <3>2, <3>3, <3>4, <3>5
  <2>2. t = a \o b
    BY <1>3
  <2> HIDE DEF a, b, t
  <2>3. /\ Len(t) = Len(a) + Len(b)
        /\ Len(a) > 0 => t[1] = a[1]
        /\ Len(b) > 0 => t[Len(t)] = b[Len(b)]
        /\ \A i \in 1 .. Len(t) : \/ i \in 1 .. Len(a) /\ t[i] = a[i]
                                  \/ i - Len(a) \in 1 .. Len(b) /\ t[i] = b[i - Len(a)]
    BY <2>1, <2>2, JoinedEnds
  <2>4. \A i \in 1 .. Len(t) : /\ t[i] = x => i = 1
                               /\ t[i] = y => i = Len(t)
                               /\ t[i] \in {x, y}
    <3> SUFFICES ASSUME NEW i \in 1 .. Len(t)
                 PROVE  (t[i] = x => i = 1) /\ (t[i] = y => i = Len(t)) /\ t[i] \in {x, y}
      OBVIOUS
    <3>1. CASE i \in 1 .. Len(a) /\ t[i] = a[i]
      BY <1>3, <2>1, <3>1
    <3>2. CASE i - Len(a) \in 1 .. Len(b) /\ t[i] = b[i - Len(a)]
      <4>1. i - Len(a) = 1 /\ t[i] = y /\ Len(b) = 1
        BY <2>1, <3>2
      <4> QED
        BY <1>3, <2>1, <2>3, <4>1
    <3> QED
      BY <2>3, <3>1, <3>2
  <2>5. (op.name # None => t[1] = x) /\ (op.to # None => t[Len(t)] = y)
    BY <2>1, <2>3
  <2>6. q.todo = t
    BY DEF t
  <2> QED
    BY <1>3, <2>4, <2>5, <2>6 DEF InHand, Unbegun
<1>4. CASE op.kind = "patchFolder"
  <2>1. Calls(op) = (IF op.name = None THEN <<>> ELSE <<"renameFolder">>)
                    \o (IF op.to = None THEN <<>> ELSE <<"moveFolder">>)
    BY <1>4 DEF Calls, PatchFolderCalls
  <2> QED
    BY <1>3, <1>4, <2>1
<1>5. CASE op.kind = "patchFeed"
  <2>1. Calls(op) = (IF op.name = None THEN <<>> ELSE <<"renameFeed">>)
                    \o (IF op.to = None THEN <<>> ELSE <<"moveFeed">>)
    BY <1>5 DEF Calls, PatchFeedCalls
  <2> QED
    BY <1>3, <1>5, <2>1
<1>6. CASE op.kind \notin {"patchStory", "patchFolder", "patchFeed"}
  <2>1. \A i \in 1 .. Len(Calls(op)) :
          Calls(op)[i] \notin {"renameFolder", "renameFeed", "moveFolder", "moveFeed"}
    BY <1>1, <1>6 DEF Asked
  <2> QED
    BY <1>6, <2>1 DEF InHand, Unbegun
<1> QED
  BY <1>2, <1>4, <1>5, <1>6

LEMMA RestIsInHand ==
  ASSUME NEW q, q.todo \in Seq(CallName), Len(q.todo) > 1, InHand(q),
         NEW p, p.op = q.op, p.todo = Tail(q.todo), p.outcome = q.outcome
  PROVE  InHand(p) /\ p.todo[1] \notin {"renameFolder", "renameFeed"} /\ p.todo[1] = Head(p.todo)
<1> DEFINE todo == q.todo
           rest == Tail(todo)
<1>1. /\ todo \in Seq(CallName) /\ Len(todo) \in Nat /\ rest \in Seq(CallName)
      /\ Len(rest) = Len(todo) - 1 /\ \A i \in 1 .. Len(rest) : rest[i] = todo[i + 1]
  BY HeadTailProperties, LenProperties, EmptySeq
<1>2. p.todo = rest
  OBVIOUS
<1> HIDE DEF todo, rest
<1>3. Len(todo) > 1
  BY DEF todo
<1>4. /\ Len(rest) \in 1 .. Len(rest) /\ 1 \in 1 .. Len(rest)
      /\ \A i \in 1 .. Len(rest) : i + 1 \in 1 .. Len(todo) /\ i + 1 # 1
      /\ \A i \in 1 .. Len(rest) : i + 1 = Len(todo) <=> i = Len(rest)
  BY <1>1, <1>3
<1>5. rest[Len(rest)] = todo[Len(todo)]
  BY <1>1, <1>4
<1>6. \A i \in 1 .. Len(todo) : /\ todo[i] \in {"renameFolder", "renameFeed"} => i = 1
                                /\ todo[i] \in {"moveFolder", "moveFeed"} => i = Len(todo)
  BY DEF InHand, todo
<1>7. \A i \in 1 .. Len(rest) : /\ rest[i] \notin {"renameFolder", "renameFeed"}
                                /\ rest[i] \in {"moveFolder", "moveFeed"} => i = Len(rest)
  BY <1>1, <1>4, <1>6
<1>8. rest[1] = Head(rest)
  BY <1>1, <1>4, HeadTailProperties, EmptySeq
<1>9. InHand(p)
  BY <1>2, <1>5, <1>7 DEF InHand, todo
<1> QED
  BY <1>2, <1>4, <1>7, <1>8, <1>9

(* What each kind of step makes of the requests in hand.                   *)
LEMMA AnswerEnds ==
  ASSUME RequestsOK, HandInv, NEW r \in Request, req[r].pc \in {"call", "patch"},
         NEW outcome \in {"ok", "refused", "error"}, Answer(r, outcome)
  PROVE  /\ HandInv' /\ req'[r].pc = "done" /\ req'[r].outcome = outcome
         /\ \A q \in Request \ {r} : req'[q] = req[q] /\ req[q].pc \notin {"call", "patch"}
         /\ \A q \in Request : req'[q].pc \notin {"call", "patch"}
<1>1. req[r] \in Requests /\ \A q \in Request \ {r} : req[q].pc \notin {"call", "patch"}
  BY HolderFacts
<1> DEFINE p == [req[r] EXCEPT !.pc = "done", !.todo = <<>>, !.live = <<>>, !.known = {},
                               !.outcome = outcome]
<1>2. req' = [req EXCEPT ![r] = p]
  BY DEF Answer, Ends
<1>3. p.pc = "done" /\ p.outcome = outcome
  BY <1>1 DEF Requests
<1> HIDE DEF p
<1>4. /\ req'[r].pc = "done" /\ req'[r].outcome = outcome
      /\ \A q \in Request \ {r} : req'[q] = req[q]
  BY <1>2, <1>3 DEF RequestsOK
<1> QED
  BY <1>1, <1>4 DEF HandInv

LEMMA WriteIsInHand ==
  ASSUME RequestsOK, HandInv, NEW r \in Request, req[r].pc = "call", Head(req[r].todo) \in Patching,
         req' = [req EXCEPT ![r].pc = "patch"], lock' = lock
  PROVE  HandInv' /\ req'[r].outcome = None
<1>1. req[r] \in Requests
  BY HolderFacts
<1>2. /\ req'[r].pc = "patch" /\ req'[r].op = req[r].op /\ req'[r].todo = req[r].todo
      /\ \A q \in Request \ {r} : req'[q] = req[q]
  BY PatchIsDue
<1>3. req'[r].outcome = req[r].outcome
  <2> DEFINE p == [req[r] EXCEPT !.pc = "patch"]
  <2>1. req' = [req EXCEPT ![r] = p]
    OBVIOUS
  <2>2. p.outcome = req[r].outcome
    BY <1>1 DEF Requests
  <2> HIDE DEF p
  <2> QED
    BY <2>1, <2>2 DEF RequestsOK
<1>4. InHand(req[r])
  BY DEF HandInv
<1>5. InHand(req'[r]) /\ req'[r].outcome = None
  BY <1>2, <1>3, <1>4 DEF InHand
<1> QED
  BY <1>2, <1>5 DEF HandInv

LEMMA NextIsInHand ==
  ASSUME RequestsOK, HandInv, NEW r \in Request, req[r].pc \in {"call", "patch"},
         Len(req[r].todo) > 1, NEW live \in Seq(Tag), lock' = lock,
         req' = [req EXCEPT ![r] = [req[r] EXCEPT !.pc = "call", !.todo = Tail(req[r].todo),
                                                  !.live = live]]
  PROVE  /\ HandInv' /\ req'[r].outcome = None
         /\ Head(req'[r].todo) \notin {"renameFolder", "renameFeed"}
<1>1. req[r] \in Requests /\ req[r].todo \in Seq(CallName) /\ InHand(req[r])
  BY HolderFacts DEF HandInv
<1>2. /\ req'[r].pc = "call" /\ req'[r].op = req[r].op
      /\ \A q \in Request \ {r} : req'[q] = req[q]
  BY NextCall
<1>3. req'[r].outcome = req[r].outcome /\ req'[r].todo = Tail(req[r].todo)
  <2> DEFINE p == [req[r] EXCEPT !.pc = "call", !.todo = Tail(req[r].todo), !.live = live]
  <2>1. req' = [req EXCEPT ![r] = p]
    OBVIOUS
  <2>2. p.outcome = req[r].outcome /\ p.todo = Tail(req[r].todo)
    BY <1>1 DEF Requests
  <2> HIDE DEF p
  <2> QED
    BY <2>1, <2>2 DEF RequestsOK
<1>4. /\ InHand(req'[r]) /\ req'[r].todo[1] \notin {"renameFolder", "renameFeed"}
      /\ req'[r].todo[1] = Head(req'[r].todo)
  <2> DEFINE q == req[r]
             p == req'[r]
  <2>1. /\ q.todo \in Seq(CallName) /\ Len(q.todo) > 1 /\ InHand(q)
        /\ p.op = q.op /\ p.todo = Tail(q.todo) /\ p.outcome = q.outcome
    BY <1>1, <1>2, <1>3
  <2> HIDE DEF q, p
  <2>2. InHand(p) /\ p.todo[1] \notin {"renameFolder", "renameFeed"} /\ p.todo[1] = Head(p.todo)
    BY <2>1, RestIsInHand
  <2> QED
    BY <2>2 DEF p
<1>5. req'[r].outcome = None
  BY <1>4 DEF InHand
<1> QED
  BY <1>2, <1>4, <1>5 DEF HandInv

(* The answer, or the next call.                                           *)
LEMMA ProceedsTo ==
  ASSUME RequestsOK, NEW r \in Request, req[r].pc \in {"call", "patch"}, Proceed(r)
  PROVE  \/ Len(req[r].todo) = 1 /\ Answer(r, "ok")
         \/ /\ Len(req[r].todo) > 1 /\ req[r].live \in Seq(Tag)
            /\ req' = [req EXCEPT ![r] = [req[r] EXCEPT !.pc = "call", !.todo = Tail(req[r].todo),
                                                        !.live = req[r].live]]
            /\ lock' = lock /\ since' = since /\ target' = target
<1>1. CASE Len(req[r].todo) = 1
  BY <1>1 DEF Proceed
<1>2. CASE Len(req[r].todo) # 1
  <2>1. req[r] \in Requests /\ Len(req[r].todo) \in Nat /\ Len(req[r].todo) > 0
    BY HolderFacts
  <2>2. Len(req[r].todo) > 1
    <3> DEFINE n == Len(req[r].todo)
    <3>1. n \in Nat /\ n > 0 /\ n # 1
      BY <1>2, <2>1
    <3> HIDE DEF n
    <3>2. n > 1
      BY <3>1
    <3> QED
      BY <3>2 DEF n
  <2>3. [req[r] EXCEPT !.pc = "call", !.todo = Tail(req[r].todo)]
          = [req[r] EXCEPT !.pc = "call", !.todo = Tail(req[r].todo), !.live = req[r].live]
    BY <2>1 DEF Requests
  <2>4. /\ req' = [req EXCEPT ![r] = [req[r] EXCEPT !.pc = "call", !.todo = Tail(req[r].todo)]]
        /\ lock' = lock /\ since' = since /\ target' = target
    BY <1>2 DEF Proceed
  <2>5. req[r].live \in Seq(Tag)
    BY <2>1 DEF Requests
  <2>6. req' = [req EXCEPT ![r] = [req[r] EXCEPT !.pc = "call", !.todo = Tail(req[r].todo),
                                                 !.live = req[r].live]]
    BY <2>3, <2>4, Zenon
  <2> QED
    BY <2>2, <2>4, <2>5, <2>6
<1> QED
  BY <1>1, <1>2

(* No request is answered ok in the step, but with all that it asked for.  *)
AnsweredTruly ==
  \A r \in Request : req[r].pc \in {"call", "patch"} /\ req'[r].outcome = "ok" => Done(req[r].op)

(* What is left to show of a step, by what it makes of the requests.       *)
LEMMA FeedsFollow ==
  ASSUME FeedInv, drifted.feeds \subseteq drifted'.feeds,
         \A f \in Feed \ drifted'.feeds : /\ account'.feedIn[f] = account.feedIn[f]
                                          /\ cache'.feedIn[f] \in {cache.feedIn[f], account.feedIn[f]},
         \A q \in Request :
           req'[q].pc \in {"lock", "call"} /\ req'[q].op.kind = "deleteFeed" =>
             \/ /\ req[q].pc \in {"lock", "call"}
                /\ req'[q].op = req[q].op /\ req'[q].known = req[q].known
             \/ req'[q].known = {cache.feedIn[req'[q].op.feed]}
  PROVE  FeedInv'
<1> SUFFICES ASSUME NEW f \in Feed \ drifted'.feeds
             PROVE  /\ cache'.feedIn[f] = account'.feedIn[f]
                    /\ \A r \in Request :
                         /\ req'[r].pc \in {"lock", "call"} /\ req'[r].op.kind = "deleteFeed"
                         /\ req'[r].op.feed = f
                         => account'.feedIn[f] \in req'[r].known
  BY DEF FeedInv
<1>1. f \in Feed \ drifted.feeds /\ cache.feedIn[f] = account.feedIn[f]
  BY DEF FeedInv
<1>2. account'.feedIn[f] = account.feedIn[f] /\ cache'.feedIn[f] = account.feedIn[f]
  BY <1>1
<1>3. ASSUME NEW r \in Request, req'[r].pc \in {"lock", "call"},
             req'[r].op.kind = "deleteFeed", req'[r].op.feed = f
      PROVE  account'.feedIn[f] \in req'[r].known
  <2>1. CASE /\ req[r].pc \in {"lock", "call"}
             /\ req'[r].op = req[r].op /\ req'[r].known = req[r].known
    BY <1>1, <1>2, <1>3, <2>1 DEF FeedInv
  <2>2. CASE req'[r].known = {cache.feedIn[req'[r].op.feed]}
    BY <1>1, <1>2, <1>3, <2>2
  <2> QED
    BY <1>3, <2>1, <2>2
<1> QED
  BY <1>2, <1>3

LEMMA AnswerLeaves ==
  ASSUME TypeInv, AnswerInv, NEW r \in Request, req[r].pc \in {"call", "patch"},
         NEW outcome \in {"ok", "refused", "error"}, Answer(r, outcome),
         drifted.feeds \subseteq drifted'.feeds, cache'.feedIn = cache.feedIn,
         \A f \in Feed \ drifted'.feeds : account'.feedIn[f] = account.feedIn[f],
         outcome = "ok" => Done(req[r].op)
  PROVE  AnswerInv' /\ AnsweredTruly
<1>1. /\ HandInv' /\ req'[r].pc = "done" /\ req'[r].outcome = outcome
      /\ \A q \in Request \ {r} : req'[q] = req[q] /\ req[q].pc \notin {"call", "patch"}
      /\ \A q \in Request : req'[q].pc \notin {"call", "patch"}
  BY AnswerEnds DEF TypeInv, AnswerInv
<1>2. ProgressInv'
  BY <1>1 DEF ProgressInv
<1>3. \A q \in Request : req'[q].pc \in {"lock", "call"} => req'[q] = req[q]
  BY <1>1
<1>4. FeedInv'
  BY <1>3, FeedsFollow DEF AnswerInv
<1> QED
  BY <1>1, <1>2, <1>4 DEF AnswerInv, AnsweredTruly

LEMMA GoesOn ==
  ASSUME TypeInv, AnswerInv, NEW r \in Request, req[r].pc \in {"call", "patch"},
         HandInv', req'[r].outcome = None,
         \A q \in Request \ {r} : req'[q] = req[q] /\ req[q].pc \notin {"call", "patch"},
         SoFar(req'[r], account', since'.things, target'),
         drifted.feeds \subseteq drifted'.feeds, cache'.feedIn = cache.feedIn,
         \A f \in Feed \ drifted'.feeds : account'.feedIn[f] = account.feedIn[f],
         req'[r].pc = "call" /\ req'[r].op.kind = "deleteFeed" =>
           req[r].pc = "call" /\ req'[r].op = req[r].op /\ req'[r].known = req[r].known,
         req'[r].pc # "lock"
  PROVE  AnswerInv' /\ AnsweredTruly
<1>1. ProgressInv'
  BY DEF ProgressInv
<1>2. FeedInv'
  BY FeedsFollow DEF AnswerInv
<1>3. None # "ok"
  BY PartiesAssumption
<1> QED
  BY <1>1, <1>2, <1>3 DEF AnswerInv, AnsweredTruly

(* A write of stories lands, and its patch is due or its answer is lost.   *)
LEMMA WriteLands ==
  ASSUME TypeInv, AnswerInv, NEW r \in Request, NEW call \in Patching, At(r, call),
         account'.feedIn = account.feedIn, cache' = cache,
         drifted'.feeds = drifted.feeds,
         call = "markRead" => account'.read[req[r].op.story] = req[r].op.read,
         call # "markRead" => account'.read = account.read,
         call \in {"star", "save"} => account'.tags[req[r].op.story] = Distinct(req[r].op.tags),
         \/ /\ req' = [req EXCEPT ![r].pc = "patch"]
            /\ UNCHANGED <<lock, since, target>>
         \/ Answer(r, "error")
  PROVE  AnswerInv' /\ AnsweredTruly
<1>1. /\ RequestsOK /\ req[r].pc = "call" /\ Head(req[r].todo) = call
      /\ req[r].op \in Operations /\ Asked(req[r].op, call)
  BY AtCall
<1>2. CASE Answer(r, "error")
  BY <1>1, <1>2, AnswerLeaves
<1>3. CASE /\ req' = [req EXCEPT ![r].pc = "patch"]
           /\ UNCHANGED <<lock, since, target>>
  <2>1. HandInv' /\ req'[r].outcome = None
    BY <1>1, <1>3, WriteIsInHand DEF AnswerInv
  <2>2. /\ \A q \in Request \ {r} : req'[q] = req[q] /\ req[q].pc \notin {"call", "patch"}
        /\ req'[r].pc = "patch" /\ req'[r].op = req[r].op /\ req'[r].todo = req[r].todo
        /\ req'[r].live = req[r].live
    BY <1>1, <1>3, PatchIsDue
  <2>3. SoFar(req[r], account, since.things, target)
    BY <1>1 DEF AnswerInv, ProgressInv
  <2>4. since' = since /\ target' = target
    BY <1>3
  <2>5. req[r].op.kind \notin {"patchFolder", "patchFeed"}
    BY <1>1 DEF Asked, Patching, Decided
  <2>6. ReadSoFar(req'[r], account', since'.things)
    BY <1>1, <2>2, <2>3, <2>4 DEF SoFar, ReadSoFar
  <2>7. EditSoFar(req'[r])
    BY <2>2, <2>3 DEF SoFar, EditSoFar
  <2>8. StarSoFar(req'[r], account', since'.things)
    BY <1>1, <2>2 DEF StarSoFar
  <2>9. SoFar(req'[r], account', since'.things, target')
    BY <2>2, <2>5, <2>6, <2>7, <2>8 DEF SoFar, FolderSoFar, TitleSoFar
  <2> QED
    BY <1>1, <2>1, <2>2, <2>9, GoesOn
<1> QED
  BY <1>2, <1>3

LEMMA StoryCallsTell ==
  ASSUME TypeInv, AnswerInv, NEW r \in Request,
         MarkRead(r) \/ ReplaceTags(r) \/ Save(r) \/ Star(r) \/ Unstar(r) \/ EditTags(r)
  PROVE  AnswerInv' /\ AnsweredTruly
<1> DEFINE s == req[r].op.story
<1>1. account \in Accounts
  BY DEF TypeInv, DataOK
<1>2. ASSUME NEW call \in Patching, At(r, call), NEW acc, Landing(r, {s}, acc),
             acc.feedIn = account.feedIn,
             call = "markRead" => acc.read[s] = req[r].op.read,
             call # "markRead" => acc.read = account.read,
             call = "save" => acc.tags[s] = Distinct(req[r].op.tags),
             call # "star"
      PROVE  AnswerInv' /\ AnsweredTruly
  <2>1. account' = acc /\ cache' = cache /\ drifted'.feeds = drifted.feeds
    BY <1>2 DEF Landing, Drift
  <2>2. \/ req' = [req EXCEPT ![r].pc = "patch"] /\ UNCHANGED <<lock, since, target>>
        \/ Answer(r, "error")
    BY <1>2 DEF Landing
  <2> QED
    BY <1>2, <2>1, <2>2, WriteLands
<1>3. ASSUME NEW list
      PROVE  /\ Starred(s, list).feedIn = account.feedIn /\ Starred(s, list).read = account.read
             /\ s \in Story => Starred(s, list).tags[s] = list
  BY <1>1 DEF Starred, Accounts
<1>4. CASE MarkRead(r)
  <2> DEFINE acc == [account EXCEPT !.read[s] = req[r].op.read]
  <2>1. At(r, "markRead") /\ Landing(r, {s}, acc)
    BY <1>4 DEF MarkRead
  <2>2. s \in Story
    BY <2>1, AtCall, CallsOnStories
  <2>3. acc.feedIn = account.feedIn /\ acc.read[s] = req[r].op.read
    BY <1>1, <2>2 DEF Accounts
  <2>4. "markRead" \in Patching
    BY DEF Patching
  <2> HIDE DEF acc
  <2> QED
    BY <1>2, <2>1, <2>3, <2>4
<1>5. CASE ReplaceTags(r)
  <2>1. At(r, "replaceTags") /\ Landing(r, {s}, Starred(s, Distinct(req[r].op.set)))
    BY <1>5 DEF ReplaceTags
  <2>2. "replaceTags" \in Patching
    BY DEF Patching
  <2> QED
    BY <1>2, <1>3, <2>1, <2>2
<1>6. CASE EditTags(r)
  <2>1. At(r, "editTags") /\ Landing(r, {s}, Starred(s, req[r].live))
    BY <1>6 DEF EditTags
  <2>2. "editTags" \in Patching
    BY DEF Patching, Decided
  <2> QED
    BY <1>2, <1>3, <2>1, <2>2
<1>7. CASE Save(r)
  <2>1. At(r, "save") /\ Landing(r, {s}, Starred(s, Distinct(req[r].op.tags)))
    BY <1>7 DEF Save
  <2>2. s \in Story /\ "save" \in Patching
    BY <2>1, AtCall, CallsOnStories DEF Patching
  <2> QED
    BY <1>2, <1>3, <2>1, <2>2
<1>8. CASE Unstar(r)
  <2> DEFINE acc == [account EXCEPT !.starred = @ \ {s}, !.tags[s] = <<>>]
  <2>1. At(r, "unstar") /\ Landing(r, {s}, acc)
    BY <1>8 DEF Unstar
  <2>2. acc.feedIn = account.feedIn /\ acc.read = account.read
    BY <1>1 DEF Accounts
  <2>3. "unstar" \in Patching
    BY DEF Patching
  <2> HIDE DEF acc
  <2> QED
    BY <1>2, <2>1, <2>2, <2>3
<1>9. CASE Star(r)
  <2>1. At(r, "star") /\ account' = Starred(s, Distinct(req[r].op.tags)) /\ cache' = cache
    BY <1>9 DEF Star
  <2>2. s \in Story /\ "star" \in Patching
    BY <2>1, AtCall, CallsOnStories DEF Patching
  <2>3. /\ drifted'.feeds = drifted.feeds
        /\ \/ req' = [req EXCEPT ![r].pc = "patch"] /\ UNCHANGED <<lock, since, target>>
           \/ Answer(r, "error")
    BY <1>9 DEF Star, Drift
  <2> QED
    BY <1>3, <2>1, <2>2, <2>3, WriteLands
<1> QED
  BY <1>4, <1>5, <1>6, <1>7, <1>8, <1>9

LEMMA ChangeTagTells ==
  ASSUME TypeInv, AnswerInv, NEW r \in Request, ChangeTag(r)
  PROVE  AnswerInv' /\ AnsweredTruly
<1> DEFINE op == req[r].op
<1>1. PICK call \in {"renameTag", "deleteTag"} : At(r, call)
  BY DEF ChangeTag
<1>2. /\ account'.read = account.read /\ cache' = cache
      /\ \/ req' = [req EXCEPT ![r].pc = "patch"] /\ UNCHANGED <<lock, since, target>>
         \/ Answer(r, "error")
  BY ChangeTagWrites
<1>3. account'.feedIn = account.feedIn /\ drifted'.feeds = drifted.feeds
  <2>1. account \in Accounts
    BY DEF TypeInv, DataOK
  <2> QED
    BY <2>1 DEF ChangeTag, Drift, Accounts
<1>4. call \in Patching
  BY DEF Patching, Decided
<1> QED
  BY <1>1, <1>2, <1>3, <1>4, WriteLands

LEMMA StoryIsPatched ==
  ASSUME NEW op, op.kind = "patchStory",
         op.story \notin since.things =>
           /\ op.read # None => account'.read[op.story] = op.read
           /\ op.set # None => TagsOf(account'.tags[op.story]) = TagsOf(op.set)
           /\ TagsOf(ListOf(op.add)) \subseteq TagsOf(account'.tags[op.story])
           /\ TagsOf(ListOf(op.remove)) \cap TagsOf(account'.tags[op.story]) = {}
  PROVE  Done(op)
BY DEF Done

(* The live read of an edit answers ok only where the list has the tags    *)
(* that the edit would leave.                                              *)
LEMMA LiveTagsTell ==
  ASSUME TypeInv, Unrepeated, AnswerInv, NEW r \in Request, LiveTags(r)
  PROVE  AnswerInv' /\ AnsweredTruly
<1> DEFINE op == req[r].op
           add == Distinct(ListOf(op.add))
           remove == Distinct(ListOf(op.remove))
           list == account.tags[op.story]
           next == ApplyTagEdit(list, add, remove)
<1>1. At(r, "liveTags") /\ ReadTags(r, list) /\ UNCHANGED <<account, cache, drifted>>
  BY DEF LiveTags
<1>2. /\ RequestsOK /\ req[r].pc = "call" /\ Head(req[r].todo) = "liveTags"
      /\ op.kind = "patchStory" /\ op.story \in Story
      /\ op.add \in Seq(Tag) \cup {None} /\ op.remove \in Seq(Tag) \cup {None}
      /\ req[r] \in Requests /\ account \in Accounts
  BY <1>1, AtCall, CallsOnStories DEF DataOK
<1>3. /\ InHand(req[r]) /\ SoFar(req[r], account, since.things, target)
      /\ ~RefusedTags(op)
  BY <1>2 DEF AnswerInv, HandInv, ProgressInv, InHand
<1>4. TagsOf(ListOf(op.add)) \cap TagsOf(ListOf(op.remove)) = {}
  BY <1>3 DEF RefusedTags
<1>5. /\ add \in Seq(Tag) /\ TagsOf(add) = TagsOf(ListOf(op.add))
      /\ remove \in Seq(Tag) /\ TagsOf(remove) = TagsOf(ListOf(op.remove))
  BY <1>2, ListsOfTags, DistinctTags
<1>6. list \in Seq(Tag) /\ IsInjective(list)
  BY <1>2, FieldsOfAccount DEF Unrepeated, AccountSets
<1> HIDE DEF add, remove, list
<1>7. next \in Seq(Tag) /\ TagsOf(next) = (TagsOf(list) \ TagsOf(remove)) \cup TagsOf(add)
  BY <1>5, <1>6, EditKeepsOthers
<1>8. \/ Answer(r, "error") \/ Answer(r, "refused")
      \/ SameTagSet(next, list) /\ Answer(r, "ok")
      \/ /\ req' = [req EXCEPT ![r] = [req[r] EXCEPT !.todo = Tail(req[r].todo), !.live = next]]
         /\ since' = [since EXCEPT !.tags = {}]
         /\ lock' = lock /\ target' = target
  BY <1>1 DEF ReadTags, add, remove
<1> HIDE DEF next
<1>9. CASE Answer(r, "error") \/ Answer(r, "refused")
  BY <1>1, <1>2, <1>9, AnswerLeaves
<1>10. CASE SameTagSet(next, list) /\ Answer(r, "ok")
  <2>1. TagsOf(list) = TagsOf(next)
    BY <1>6, <1>7, <1>10, SameTagSetIsEqual
  <2>2. /\ TagsOf(ListOf(op.add)) \subseteq TagsOf(list)
        /\ TagsOf(ListOf(op.remove)) \cap TagsOf(list) = {}
    BY <1>4, <1>5, <1>7, <2>1
  <2>3. op.set = None
    <3>1. Editing(op)
      BY <1>1, AtCall DEF Asked
    <3> QED
      BY <1>3, <3>1 DEF RefusedTags
  <2>4. op.read # None /\ op.story \notin since.things => account.read[op.story] = op.read
    BY <1>2, <1>3 DEF SoFar, ReadSoFar
  <2>5. account' = account /\ account'.tags[op.story] = list
    BY <1>1 DEF list
  <2>6. Done(op)
    BY <1>2, <2>2, <2>3, <2>4, <2>5, StoryIsPatched
  <2> QED
    BY <1>1, <1>2, <1>10, <2>6, AnswerLeaves
<1>11. CASE /\ req' = [req EXCEPT ![r] = [req[r] EXCEPT !.todo = Tail(req[r].todo), !.live = next]]
            /\ since' = [since EXCEPT !.tags = {}]
            /\ lock' = lock /\ target' = target
  <2>1. [req[r] EXCEPT !.todo = Tail(req[r].todo), !.live = next]
          = [req[r] EXCEPT !.pc = "call", !.todo = Tail(req[r].todo), !.live = next]
    BY <1>2 DEF Requests
  <2>2. req' = [req EXCEPT ![r] = [req[r] EXCEPT !.pc = "call", !.todo = Tail(req[r].todo),
                                                 !.live = next]]
    BY <1>11, <2>1, Zenon
  <2>3. Len(req[r].todo) > 1
    BY <1>1, LiveReadGoesOn DEF LiveReads
  <2>4. /\ \A q \in Request \ {r} : req'[q] = req[q] /\ req[q].pc \notin {"call", "patch"}
        /\ req'[r].pc = "call" /\ req'[r].op = op /\ req'[r].live = next
    BY <1>2, <1>7, <1>11, <2>2, <2>3, NextCall
  <2>5. HandInv' /\ req'[r].outcome = None
    BY <1>2, <1>7, <1>11, <2>2, <2>3, NextIsInHand DEF AnswerInv
  <2>6. since'.things = since.things
    BY <1>11 DEF TypeInv, DataOK, Windows
  <2>7. ReadSoFar(req'[r], account', since'.things)
    BY <1>1, <1>2, <1>3, <2>4, <2>6 DEF SoFar, ReadSoFar
  <2>8. EditSoFar(req'[r])
    BY <1>4, <1>5, <1>7, <2>4 DEF EditSoFar
  <2>9. SoFar(req'[r], account', since'.things, target')
    BY <1>2, <2>4, <2>7, <2>8 DEF SoFar, StarSoFar, FolderSoFar, TitleSoFar
  <2> QED
    BY <1>1, <1>2, <2>4, <2>5, <2>9, GoesOn
<1> QED
  BY <1>8, <1>9, <1>10, <1>11

LEMMA ReadCountsTell ==
  ASSUME TypeInv, AnswerInv, NEW r \in Request, ReadCounts(r)
  PROVE  AnswerInv' /\ AnsweredTruly
<1> DEFINE op == req[r].op
<1>1. /\ At(r, "liveCounts") /\ UNCHANGED <<account, cache, drifted>>
      /\ \/ Answer(r, "refused")
         \/ /\ req' = [req EXCEPT ![r] =
                 [req[r] EXCEPT !.pc = "call", !.todo = Tail(req[r].todo), !.live = req[r].live]]
            /\ since' = [since EXCEPT !.tags = {}]
            /\ lock' = lock /\ target' = target
  BY ReadCountsReads DEF ReadCounts
<1>2. /\ RequestsOK /\ req[r].pc = "call" /\ req[r] \in Requests
      /\ op.kind \in {"renameTag", "deleteTag"}
  BY <1>1, AtCall, CallsOnStories
<1>3. CASE Answer(r, "refused")
  BY <1>1, <1>2, <1>3, AnswerLeaves
<1>4. CASE /\ req' = [req EXCEPT ![r] =
                [req[r] EXCEPT !.pc = "call", !.todo = Tail(req[r].todo), !.live = req[r].live]]
           /\ since' = [since EXCEPT !.tags = {}]
           /\ lock' = lock /\ target' = target
  <2>1. Len(req[r].todo) > 1 /\ req[r].live \in Seq(Tag)
    BY <1>1, <1>2, LiveReadGoesOn DEF LiveReads, Requests
  <2>2. /\ \A q \in Request \ {r} : req'[q] = req[q] /\ req[q].pc \notin {"call", "patch"}
        /\ req'[r].pc = "call" /\ req'[r].op = op /\ Asked(op, Head(req'[r].todo))
    BY <1>2, <1>4, <2>1, NextCall
  <2>3. HandInv' /\ req'[r].outcome = None
    BY <1>2, <1>4, <2>1, NextIsInHand DEF AnswerInv
  <2>4. Head(req'[r].todo) # "editTags"
    BY <1>2, <2>2 DEF Asked
  <2>5. SoFar(req'[r], account', since'.things, target')
    BY <1>2, <2>2, <2>4
       DEF SoFar, ReadSoFar, EditSoFar, StarSoFar, FolderSoFar, TitleSoFar
  <2> QED
    BY <1>1, <1>2, <2>2, <2>3, <2>5, GoesOn
<1> QED
  BY <1>1, <1>3, <1>4

(* The patch after the last call: that call and those before it have done  *)
(* what was asked for.                                                     *)
LEMMA LastPatchIsTrue ==
  ASSUME TypeInv, CacheInv, AnswerInv, NEW r \in Request, req[r].pc = "patch",
         Len(req[r].todo) = 1, account' = account
  PROVE  Done(req[r].op)
<1> DEFINE op == req[r].op
           call == Head(req[r].todo)
           s == op.story
<1>1. /\ op \in Operations /\ call \in Patching /\ Asked(op, call)
      /\ account \in Accounts
  BY PatchFacts DEF DataOK
<1>2. /\ InHand(req[r]) /\ SoFar(req[r], account, since.things, target)
      /\ Written(req[r], account, since.things)
  BY DEF AnswerInv, HandInv, ProgressInv, CacheInv, WrittenInv
<1>3. call = req[r].todo[1]
  BY HolderFacts DEF TypeInv
<1>4. CASE op.kind = "patchStory"
  <2>1. /\ ~RefusedTags(op)
        /\ op.set # None => call = "replaceTags"
        /\ Editing(op) => call = "editTags"
    BY <1>2, <1>3, <1>4 DEF InHand
  <2>2. /\ op.set \in Seq(Tag) \cup {None} /\ op.add \in Seq(Tag) \cup {None}
        /\ op.remove \in Seq(Tag) \cup {None}
    BY <1>1, <1>4, FieldsOfStories
  <2> SUFFICES ASSUME s \notin since.things
               PROVE  /\ op.read # None => account.read[s] = op.read
                      /\ op.set # None => TagsOf(account.tags[s]) = TagsOf(op.set)
                      /\ TagsOf(ListOf(op.add)) \subseteq TagsOf(account.tags[s])
                      /\ TagsOf(ListOf(op.remove)) \cap TagsOf(account.tags[s]) = {}
    BY <1>4, StoryIsPatched
  <2>3. op.read # None => account.read[s] = op.read
    BY <1>2, <1>4 DEF SoFar, ReadSoFar
  <2>4. ASSUME op.set # None PROVE TagsOf(account.tags[s]) = TagsOf(op.set)
    <3>1. account.tags[s] = Distinct(op.set)
      BY <1>2, <2>1, <2>4 DEF Written
    <3> QED
      BY <2>2, <2>4, <3>1, DistinctTags
  <2>5. CASE Editing(op)
    <3>1. account.tags[s] = req[r].live
      BY <1>2, <2>1, <2>5 DEF Written
    <3> QED
      BY <1>2, <2>1, <2>3, <2>4, <2>5, <3>1 DEF SoFar, EditSoFar
  <2>6. CASE ~Editing(op)
    <3>1. ListOf(op.add) = <<>> /\ ListOf(op.remove) = <<>>
      BY <2>6 DEF Editing, ListOf
    <3>2. TagsOf(<<>>) = {}
      BY DEF TagsOf
    <3> QED
      BY <2>3, <2>4, <3>1, <3>2
  <2> QED
    BY <2>5, <2>6
<1>5. CASE op.kind \in {"createStory", "saveStory"}
  <2>1. call \in {"star", "save"} /\ op.tags \in Seq(Tag)
    BY <1>1, <1>5, FieldsOfStories DEF Asked
  <2>2. s \notin since.things => account.tags[s] = Distinct(op.tags) /\ s \in account.starred
    BY <1>2, <2>1 DEF SoFar, StarSoFar, Written
  <2>3. s \notin since.things => s \in account'.starred /\ TagsOf(account'.tags[s]) = TagsOf(op.tags)
    BY <2>1, <2>2, DistinctTags
  <2> QED
    BY <1>5, <2>3 DEF Done
<1>6. CASE op.kind = "deleteStory"
  <2>1. call = "unstar"
    BY <1>1, <1>6 DEF Asked
  <2>2. s \notin since.things => s \notin account'.starred
    BY <1>2, <2>1 DEF Written
  <2> QED
    BY <1>6, <2>2 DEF Done
<1>7. CASE op.kind \in {"renameTag", "deleteTag"}
  <2>1. call \in {"renameTag", "deleteTag"}
    BY <1>1, <1>7 DEF Asked, Patching, Decided
  <2>2. \A x \in account.starred \ since.things : op.tag \notin TagsOf(account.tags[x])
    BY <1>2, <2>1 DEF Written
  <2>3. account.starred \in SUBSET Story
    BY <1>1, FieldsOfAccount
  <2>4. Story \cap since.things = {} => \A x \in account'.starred : op.tag \notin TagsOf(account'.tags[x])
    BY <2>2, <2>3
  <2> QED
    BY <1>7, <2>4 DEF Done
<1> QED
  BY <1>1, <1>4, <1>5, <1>6, <1>7 DEF Asked, Patching, Decided

LEMMA PatchCacheTells ==
  ASSUME TypeInv, CacheInv, AnswerInv, NEW r \in Request, PatchCache(r)
  PROVE  AnswerInv' /\ AnsweredTruly
<1> DEFINE op == req[r].op
<1>1. /\ req[r].pc = "patch" /\ Proceed(r) /\ account' = account
      /\ drifted'.feeds = drifted.feeds
  BY DEF PatchCache, Drift
<1>2. cache'.feedIn = cache.feedIn
  <2>1. cache \in Caches
    BY DEF TypeInv, DataOK
  <2>2. PICK list \in BOOLEAN, copies \in BOOLEAN :
          cache' = [cache EXCEPT !.listed = IF list THEN PatchedList(r) ELSE @,
                                 !.copy = IF copies THEN PatchedCopies(r) ELSE @]
    BY DEF PatchCache
  <2> QED
    BY <2>1, <2>2 DEF Caches
<1>3. /\ RequestsOK /\ Head(req[r].todo) \in Patching /\ Head(req[r].todo) \notin LiveReads
      /\ Asked(op, Head(req[r].todo))
  BY <1>1, PatchFacts
<1>4. op.kind \notin {"patchFolder", "patchFeed", "deleteFeed"}
  BY <1>3 DEF Asked, Patching, Decided
<1>5. SoFar(req[r], account, since.things, target)
  BY <1>1 DEF AnswerInv, ProgressInv
<1>6. CASE Len(req[r].todo) = 1 /\ Answer(r, "ok")
  <2>1. Done(op)
    BY <1>1, <1>6, LastPatchIsTrue
  <2> QED
    BY <1>1, <1>2, <1>6, <2>1, AnswerLeaves
<1>7. CASE /\ Len(req[r].todo) > 1 /\ req[r].live \in Seq(Tag)
           /\ req' = [req EXCEPT ![r] = [req[r] EXCEPT !.pc = "call", !.todo = Tail(req[r].todo),
                                                       !.live = req[r].live]]
           /\ lock' = lock /\ since' = since /\ target' = target
  <2>1. /\ \A q \in Request \ {r} : req'[q] = req[q] /\ req[q].pc \notin {"call", "patch"}
        /\ req'[r].pc = "call" /\ req'[r].op = op /\ Settled'
    BY <1>1, <1>3, <1>7, NextCall
  <2>2. HandInv' /\ req'[r].outcome = None
    BY <1>1, <1>3, <1>7, NextIsInHand DEF AnswerInv
  <2>3. Head(req'[r].todo) # "editTags"
    BY <2>1 DEF Settled, Decided
  <2>4. ReadSoFar(req'[r], account', since'.things)
    BY <1>1, <1>5, <1>7, <2>1 DEF SoFar, ReadSoFar
  <2>5. SoFar(req'[r], account', since'.things, target')
    BY <1>4, <2>1, <2>3, <2>4 DEF SoFar, EditSoFar, StarSoFar, FolderSoFar, TitleSoFar
  <2> QED
    BY <1>1, <1>2, <1>4, <2>1, <2>2, <2>5, GoesOn
<1> QED
  BY <1>1, <1>3, <1>6, <1>7, ProceedsTo

(* The path that a patch of a folder asks for.                             *)
Final(op) == [name |-> IF op.name = None THEN op.path.name ELSE op.name,
              parent |-> IF op.to = None THEN op.path.parent ELSE op.to]

LEMMA FinalPath ==
  ASSUME NEW op, op.path \in Path
  PROVE  /\ op.to = None => MovedFrom(op) = Final(op)
         /\ op.to # None => [MovedFrom(op) EXCEPT !.parent = op.to] = Final(op)
<1>1. CASE op.name = None
  BY <1>1 DEF Path, MovedFrom, Final
<1>2. CASE op.name # None
  <2>1. MovedFrom(op) = [name |-> op.name, parent |-> op.path.parent]
    BY <1>2 DEF Path, MovedFrom
  <2>2. [[name |-> op.name, parent |-> op.path.parent] EXCEPT !.parent = op.to]
          = [name |-> op.name, parent |-> op.to]
    OBVIOUS
  <2> QED
    BY <1>2, <2>1, <2>2 DEF Final
<1> QED
  BY <1>1, <1>2

LEMMA FolderIsPatched ==
  ASSUME NEW op, op.kind = "patchFolder",
         target \notin since.things \cup {None} => account'.at[target] = Final(op)
  PROVE  Done(op)
BY DEF Done, Final

LEMMA FeedIsPatched ==
  ASSUME NEW op, op.kind = "patchFeed",
         op.name # None => account'.title[op.feed] = op.name,
         op.to # None /\ op.to # op.from => account'.feedIn[op.feed] # op.from
  PROVE  Done(op)
BY DEF Done

LEMMA OthersAreDone ==
  ASSUME NEW op, op.kind \in {"createFolder", "deleteFolder", "subscribe"} PROVE Done(op)
BY DEF Done

(* A call on a folder or a feed lands; the next call or an answer follows. *)
LEMMA FeedCallLands ==
  ASSUME TypeInv, AnswerInv, NEW r \in Request, NEW call \in FeedCalls, At(r, call),
         NEW feeds, NEW acc, Landed(r, feeds, acc),
         \A f \in Feed \ feeds : acc.feedIn[f] = account.feedIn[f],
         call = "renameFolder" /\ target \notin since.things \cup {None} =>
           acc.at[target] = MovedFrom(req[r].op),
         call = "renameFeed" => acc.title[req[r].op.feed] = req[r].op.name,
         Len(req[r].todo) = 1 => Done(req[r].op)
  PROVE  AnswerInv' /\ AnsweredTruly
<1> DEFINE op == req[r].op
<1>1. /\ RequestsOK /\ req[r].pc = "call" /\ Head(req[r].todo) = call
      /\ Head(req[r].todo) = req[r].todo[1] /\ Len(req[r].todo) \in Nat /\ Len(req[r].todo) > 0
      /\ op \in Operations /\ Asked(op, call) /\ call \notin LiveReads
      /\ op.kind # "patchStory"
  <2>1. RequestsOK /\ req[r].pc = "call" /\ Head(req[r].todo) = call
    BY AtCall
  <2>2. op \in Operations /\ Asked(op, call)
    BY AtCall
  <2> QED
    BY <2>1, <2>2, HolderFacts DEF FeedCalls, LiveReads, Asked
<1>2. /\ account' = acc /\ cache' = cache /\ drifted'.feeds = drifted.feeds \cup feeds
      /\ Proceed(r) \/ Answer(r, "error")
  BY DEF Landed, Drift
<1>3. /\ drifted.feeds \subseteq drifted'.feeds /\ cache'.feedIn = cache.feedIn
      /\ \A f \in Feed \ drifted'.feeds : account'.feedIn[f] = account.feedIn[f]
  BY <1>2
<1>4. CASE Answer(r, "error")
  BY <1>1, <1>3, <1>4, AnswerLeaves
<1>5. CASE Len(req[r].todo) = 1 /\ Answer(r, "ok")
  BY <1>1, <1>3, <1>5, AnswerLeaves
<1>6. CASE /\ Len(req[r].todo) > 1 /\ req[r].live \in Seq(Tag)
           /\ req' = [req EXCEPT ![r] = [req[r] EXCEPT !.pc = "call", !.todo = Tail(req[r].todo),
                                                       !.live = req[r].live]]
           /\ lock' = lock /\ since' = since /\ target' = target
  <2>1. /\ \A q \in Request \ {r} : req'[q] = req[q] /\ req[q].pc \notin {"call", "patch"}
        /\ req'[r].pc = "call" /\ req'[r].op = op /\ req'[r].known = req[r].known /\ Settled'
    BY <1>1, <1>6, NextCall
  <2>2. /\ HandInv' /\ req'[r].outcome = None
        /\ Head(req'[r].todo) \notin {"renameFolder", "renameFeed"}
    BY <1>1, <1>6, NextIsInHand DEF AnswerInv
  <2>3. Head(req'[r].todo) # "editTags"
    BY <2>1 DEF Settled, Decided
  <2>4. call \notin {"moveFolder", "moveFeed"}
    <3>1. InHand(req[r])
      BY <1>1 DEF AnswerInv, HandInv
    <3>2. 1 \in 1 .. Len(req[r].todo) /\ 1 # Len(req[r].todo)
      <4> DEFINE n == Len(req[r].todo)
      <4>1. n \in Nat /\ n > 1
        BY <1>1, <1>6
      <4> HIDE DEF n
      <4>2. 1 \in 1 .. n /\ 1 # n
        BY <4>1
      <4> QED
        BY <4>2 DEF n
    <3> QED
      BY <1>1, <3>1, <3>2 DEF InHand
  <2>5. op.kind = "patchFolder" => call = "renameFolder"
    BY <1>1, <2>4 DEF Asked
  <2>6. op.kind = "patchFeed" => call = "renameFeed"
    BY <1>1, <2>4 DEF Asked
  <2>7. FolderSoFar(req'[r], account', since'.things, target')
    BY <1>2, <1>6, <2>1, <2>2, <2>5 DEF FolderSoFar
  <2>8. TitleSoFar(req'[r], account')
    BY <1>2, <2>1, <2>6 DEF TitleSoFar
  <2>9. SoFar(req'[r], account', since'.things, target')
    BY <1>1, <2>1, <2>3, <2>7, <2>8 DEF SoFar, ReadSoFar, EditSoFar, StarSoFar
  <2> QED
    BY <1>1, <1>3, <2>1, <2>2, <2>9, GoesOn
<1> QED
  BY <1>1, <1>2, <1>4, <1>5, <1>6, ProceedsTo

LEMMA TakenTells ==
  ASSUME TypeInv, AnswerInv, NEW r \in Request, NEW call, At(r, call), NEW p, Taken(r, p)
  PROVE  AnswerInv' /\ AnsweredTruly
<1>1. Answer(r, "error") /\ UNCHANGED <<account, cache, drifted>>
  BY DEF Taken
<1>2. req[r].pc = "call"
  BY AtCall
<1> QED
  BY <1>1, <1>2, AnswerLeaves

LEMMA FolderCallsTell ==
  ASSUME TypeInv, AnswerInv, NEW r \in Request,
         RenameFolder(r) \/ MoveFolder(r) \/ CreateFolder(r) \/ DeleteFolder(r)
  PROVE  AnswerInv' /\ AnsweredTruly
<1> DEFINE op == req[r].op
<1>1. account \in Accounts /\ target \in Folder \cup {None}
  BY DEF TypeInv, DataOK
<1>2. ASSUME NEW from, NEW to
      PROVE  /\ Relocated(from, to).feedIn = account.feedIn
             /\ target # None /\ account.at[target] = from => Relocated(from, to).at[target] = to
  BY <1>1 DEF Relocated, Accounts
<1>3. ASSUME NEW call, At(r, call)
      PROVE  /\ req[r].pc = "call" /\ Head(req[r].todo) = call /\ call = req[r].todo[1]
             /\ InHand(req[r]) /\ FolderSoFar(req[r], account, since.things, target)
  BY <1>3, AtCall, HolderFacts DEF AnswerInv, HandInv, ProgressInv, SoFar
<1>4. CASE RenameFolder(r)
  <2> DEFINE new == [op.path EXCEPT !.name = op.name]
  <2>1. /\ At(r, "renameFolder") /\ "renameFolder" \in FeedCalls
        /\ Taken(r, new) \/ Landed(r, {}, Relocated(op.path, new))
    BY <1>4 DEF RenameFolder, FeedCalls
  <2>2. op.kind = "patchFolder" /\ op.path \in Path /\ op.name # None /\ new = MovedFrom(op)
    <3>1. Asked(op, "renameFolder") /\ op \in Operations
      BY <2>1, AtCall
    <3>2. op.kind = "patchFolder" /\ op.path \in Path /\ op.name # None
      BY <3>1, CallsOnFeeds DEF Asked
    <3> QED
      BY <3>2 DEF MovedFrom
  <2> HIDE DEF new
  <2>3. CASE Taken(r, new)
    BY <2>1, <2>3, TakenTells
  <2>4. CASE Landed(r, {}, Relocated(op.path, new))
    <3>1. target \notin since.things \cup {None} => Relocated(op.path, new).at[target] = MovedFrom(op)
      BY <1>2, <1>3, <2>1, <2>2 DEF FolderSoFar
    <3>2. ASSUME Len(req[r].todo) = 1 PROVE Done(op)
      <4>1. op.to = None
        BY <1>3, <2>1, <2>2, <3>2 DEF InHand
      <4>2. account' = Relocated(op.path, new)
        BY <2>4 DEF Landed
      <4> QED
        BY <2>2, <3>1, <4>1, <4>2, FinalPath, FolderIsPatched
    <3> QED
      BY <1>2, <2>1, <2>4, <3>1, <3>2, FeedCallLands
  <2> QED
    BY <2>1, <2>3, <2>4
<1>5. CASE MoveFolder(r)
  <2> DEFINE from == MovedFrom(op)
             to == [from EXCEPT !.parent = op.to]
  <2>1. /\ At(r, "moveFolder") /\ "moveFolder" \in FeedCalls
        /\ Taken(r, to) \/ Landed(r, {}, Relocated(from, to))
    BY <1>5 DEF MoveFolder, FeedCalls
  <2>2. op.kind = "patchFolder" /\ op.path \in Path /\ op.to # None
    <3>1. Asked(op, "moveFolder") /\ op \in Operations
      BY <2>1, AtCall
    <3> QED
      BY <3>1, CallsOnFeeds DEF Asked
  <2>3. to = Final(op)
    BY <2>2, FinalPath
  <2> HIDE DEF from, to
  <2>4. CASE Taken(r, to)
    BY <2>1, <2>4, TakenTells
  <2>5. CASE Landed(r, {}, Relocated(from, to))
    <3>1. target \notin since.things \cup {None} => account.at[target] = from
      BY <1>3, <2>1, <2>2 DEF FolderSoFar, from
    <3>2. account' = Relocated(from, to)
      BY <2>5 DEF Landed
    <3>3. target \notin since.things \cup {None} => account'.at[target] = Final(op)
      BY <1>2, <2>3, <3>1, <3>2
    <3>4. Done(op)
      BY <2>2, <3>3, FolderIsPatched
    <3> QED
      BY <1>2, <2>1, <2>5, <3>4, FeedCallLands
  <2> QED
    BY <2>1, <2>4, <2>5
<1>6. CASE CreateFolder(r)
  <2>1. At(r, "createFolder") /\ "createFolder" \in FeedCalls
    BY <1>6 DEF CreateFolder, FeedCalls
  <2>2. op.kind = "createFolder"
    BY <2>1, AtCall DEF Asked
  <2>3. CASE Taken(r, op.path)
    BY <2>1, <2>3, TakenTells
  <2>4. CASE \E d \in Folder : Landed(r, {}, [account EXCEPT !.at[d] = op.path])
    <3>1. PICK d \in Folder : Landed(r, {}, [account EXCEPT !.at[d] = op.path])
      BY <2>4
    <3>2. [account EXCEPT !.at[d] = op.path].feedIn = account.feedIn
      BY <1>1 DEF Accounts
    <3>3. Done(op)
      BY <2>2, OthersAreDone
    <3> QED
      BY <2>1, <3>1, <3>2, <3>3, FeedCallLands
  <2> QED
    BY <1>6, <2>3, <2>4 DEF CreateFolder
<1>7. CASE DeleteFolder(r)
  <2>1. /\ At(r, "deleteFolder") /\ "deleteFolder" \in FeedCalls
        /\ Landed(r, {}, Relocated(op.path, None))
    BY <1>7 DEF DeleteFolder, FeedCalls
  <2>2. op.kind = "deleteFolder"
    BY <2>1, AtCall DEF Asked
  <2>3. Done(op)
    BY <2>2, OthersAreDone
  <2> QED
    BY <1>2, <2>1, <2>3, FeedCallLands
<1> QED
  BY <1>4, <1>5, <1>6, <1>7

LEMMA FeedCallsTell ==
  ASSUME TypeInv, AnswerInv, NEW r \in Request,
         Subscribe(r) \/ RenameFeed(r) \/ MoveFeed(r) \/ DeleteFeed(r)
  PROVE  AnswerInv' /\ AnsweredTruly
<1> DEFINE op == req[r].op
           f == op.feed
<1>1. account \in Accounts
  BY DEF TypeInv, DataOK
<1>2. ASSUME NEW call, At(r, call)
      PROVE  /\ req[r].pc = "call" /\ Head(req[r].todo) = call /\ call = req[r].todo[1]
             /\ InHand(req[r]) /\ TitleSoFar(req[r], account)
             /\ op \in Operations /\ Asked(op, call)
  BY <1>2, AtCall, HolderFacts DEF AnswerInv, HandInv, ProgressInv, SoFar
<1>3. CASE Subscribe(r)
  <2> DEFINE acc == [account EXCEPT !.feedIn[f] = IF @ = None THEN op.place ELSE @]
  <2>1. At(r, "subscribe") /\ "subscribe" \in FeedCalls /\ Landed(r, {f}, acc)
    BY <1>3 DEF Subscribe, FeedCalls
  <2>2. op.kind = "subscribe"
    BY <1>2, <2>1 DEF Asked
  <2>3. \A g \in Feed \ {f} : acc.feedIn[g] = account.feedIn[g]
    BY <1>1 DEF Accounts
  <2> HIDE DEF acc
  <2>4. Done(op)
    BY <2>2, OthersAreDone
  <2> QED
    BY <2>1, <2>3, <2>4, FeedCallLands
<1>4. CASE RenameFeed(r)
  <2> DEFINE acc == [account EXCEPT !.title[f] = op.name]
  <2>1. At(r, "renameFeed") /\ "renameFeed" \in FeedCalls /\ Landed(r, {}, acc)
    BY <1>4 DEF RenameFeed, FeedCalls
  <2>2. op.kind = "patchFeed" /\ f \in Feed
    BY <1>2, <2>1, CallsOnFeeds
  <2>3. acc.feedIn = account.feedIn /\ acc.title[f] = op.name
    BY <1>1, <2>2 DEF Accounts
  <2> HIDE DEF acc
  <2>4. ASSUME Len(req[r].todo) = 1 PROVE Done(op)
    <3>1. op.to = None
      BY <1>2, <2>1, <2>2, <2>4 DEF InHand
    <3>2. account' = acc
      BY <2>1 DEF Landed
    <3> QED
      BY <2>2, <2>3, <3>1, <3>2, FeedIsPatched
  <2> QED
    BY <2>1, <2>3, <2>4, FeedCallLands
<1>5. CASE MoveFeed(r)
  <2> DEFINE acc == [account EXCEPT !.feedIn[f] = IF @ = op.from THEN op.to ELSE @]
  <2>1. At(r, "moveFeed") /\ "moveFeed" \in FeedCalls /\ Landed(r, {f}, acc)
    BY <1>5 DEF MoveFeed, FeedCalls
  <2>2. op.kind = "patchFeed" /\ f \in Feed
    BY <1>2, <2>1, CallsOnFeeds
  <2>3. /\ \A g \in Feed \ {f} : acc.feedIn[g] = account.feedIn[g]
        /\ acc.feedIn[f] = IF account.feedIn[f] = op.from THEN op.to ELSE account.feedIn[f]
        /\ acc.title = account.title
    BY <1>1, <2>2 DEF Accounts
  <2> HIDE DEF acc
  <2>4. op.name # None => account.title[f] = op.name
    BY <1>2, <2>1, <2>2 DEF TitleSoFar
  <2>5. account' = acc
    BY <2>1 DEF Landed
  <2>6. Done(op)
    BY <2>2, <2>3, <2>4, <2>5, FeedIsPatched
  <2> QED
    BY <2>1, <2>3, <2>6, FeedCallLands
<1>6. CASE DeleteFeed(r)
  <2> DEFINE acc == [account EXCEPT !.feedIn[f] = IF @ \in req[r].known THEN None ELSE @]
  <2>1. At(r, "deleteFeed") /\ "deleteFeed" \in FeedCalls /\ Landed(r, {f}, acc)
    BY <1>6 DEF DeleteFeed, FeedCalls
  <2>2. op.kind = "deleteFeed" /\ f \in Feed
    BY <1>2, <2>1, CallsOnFeeds
  <2>3. /\ \A g \in Feed \ {f} : acc.feedIn[g] = account.feedIn[g]
        /\ acc.feedIn[f] = IF account.feedIn[f] \in req[r].known THEN None ELSE account.feedIn[f]
    BY <1>1, <2>2 DEF Accounts
  <2> HIDE DEF acc
  <2>4. f \notin drifted.feeds => account.feedIn[f] \in req[r].known
    BY <1>2, <2>1, <2>2 DEF AnswerInv, FeedInv
  <2>5. account' = acc
    BY <2>1 DEF Landed
  <2>6. f \notin drifted.feeds => account'.feedIn[f] = None
    BY <2>3, <2>4, <2>5
  <2>7. Done(op)
    BY <2>2, <2>6 DEF Done
  <2> QED
    BY <2>1, <2>3, <2>7, FeedCallLands
<1> QED
  BY <1>3, <1>4, <1>5, <1>6

LEMMA NotedThings ==
  ASSUME NEW tags, NEW things, Noted(tags, things)
  PROVE  lock # None => since'.things = since.things \cup things
BY DEF Noted

(* The other parties keep what they do not note or let drift.              *)
LEMMA OthersLeave ==
  ASSUME TypeInv, OtherParties
  PROVE  /\ target' = target /\ account'.title = account.title
         /\ lock # None =>
              /\ since.things \subseteq since'.things
              /\ \A s \in Story \ since'.things : /\ account'.read[s] = account.read[s]
                                                  /\ account'.tags[s] = account.tags[s]
              /\ \A d \in Folder \ since'.things : account'.at[d] = account.at[d]
         /\ drifted.feeds \subseteq drifted'.feeds
         /\ \A f \in Feed \ drifted'.feeds :
              /\ account'.feedIn[f] = account.feedIn[f]
              /\ cache'.feedIn[f] \in {cache.feedIn[f], account.feedIn[f]}
<1>1. account \in Accounts
  BY DEF TypeInv, DataOK
<1>2. CASE \E s \in Story : AppTagsStory(s)
  <2>1. PICK s \in Story : AppTagsStory(s)
    BY <1>2
  <2>2. PICK list : account' = [account EXCEPT !.tags[s] = list]
                    /\ Noted(TagsOf(list) \ TagsOf(account.tags[s]), {s})
    BY <2>1 DEF AppTagsStory
  <2>3. lock # None => since'.things = since.things \cup {s}
    BY <2>2, NotedThings
  <2>4. target' = target /\ cache' = cache /\ drifted'.feeds = drifted.feeds
    BY <2>1 DEF AppTagsStory, Drift
  <2>5. /\ account'.title = account.title /\ account'.at = account.at /\ account'.read = account.read
        /\ account'.feedIn = account.feedIn /\ \A x \in Story \ {s} : account'.tags[x] = account.tags[x]
    BY <1>1, <2>2 DEF Accounts
  <2> QED
    BY <2>3, <2>4, <2>5
<1>3. CASE \E s \in Story : AppStars(s)
  <2>1. PICK s \in Story : AppStars(s)
    BY <1>3
  <2>2. PICK list : account' = [account EXCEPT !.starred = IF s \in @ THEN @ \ {s} ELSE @ \cup {s},
                                               !.tags[s] = list]
                    /\ Noted(TagsOf(list), {s})
    BY <2>1 DEF AppStars
  <2>3. lock # None => since'.things = since.things \cup {s}
    BY <2>2, NotedThings
  <2>4. target' = target /\ cache' = cache /\ drifted'.feeds = drifted.feeds
    BY <2>1 DEF AppStars, Drift
  <2>5. /\ account'.title = account.title /\ account'.at = account.at /\ account'.read = account.read
        /\ account'.feedIn = account.feedIn /\ \A x \in Story \ {s} : account'.tags[x] = account.tags[x]
    BY <1>1, <2>2 DEF Accounts
  <2> QED
    BY <2>3, <2>4, <2>5
<1>4. CASE \E s \in Story : AppReads(s)
  <2>1. PICK s \in Story : AppReads(s)
    BY <1>4
  <2>2. account' = [account EXCEPT !.read[s] = ~@] /\ Noted({}, {s})
    BY <2>1 DEF AppReads
  <2>3. lock # None => since'.things = since.things \cup {s}
    BY <2>2, NotedThings
  <2>4. target' = target /\ cache' = cache /\ drifted'.feeds = drifted.feeds
    BY <2>1 DEF AppReads, Drift
  <2>5. /\ account'.title = account.title /\ account'.at = account.at /\ account'.tags = account.tags
        /\ account'.feedIn = account.feedIn /\ \A x \in Story \ {s} : account'.read[x] = account.read[x]
    BY <1>1, <2>2 DEF Accounts
  <2> QED
    BY <2>3, <2>4, <2>5
<1>5. CASE \E d \in Folder : AppMovesFolder(d)
  <2>1. PICK d \in Folder : AppMovesFolder(d)
    BY <1>5
  <2>2. PICK p : account' = [account EXCEPT !.at[d] = p]
    BY <2>1 DEF AppMovesFolder
  <2>3. lock # None => since'.things = since.things \cup {d}
    BY <2>1, NotedThings DEF AppMovesFolder
  <2>4. target' = target /\ cache' = cache /\ drifted' = drifted
    BY <2>1 DEF AppMovesFolder
  <2>5. /\ account'.title = account.title /\ account'.tags = account.tags /\ account'.read = account.read
        /\ account'.feedIn = account.feedIn /\ \A x \in Folder \ {d} : account'.at[x] = account.at[x]
    BY <1>1, <2>2 DEF Accounts
  <2> QED
    BY <2>3, <2>4, <2>5
<1>6. CASE \E f \in Feed : AppMovesFeed(f)
  <2>1. PICK f \in Feed : AppMovesFeed(f)
    BY <1>6
  <2>2. PICK p : account' = [account EXCEPT !.feedIn[f] = p]
    BY <2>1 DEF AppMovesFeed
  <2>3. lock # None => since'.things = since.things \cup {f}
    BY <2>1, NotedThings DEF AppMovesFeed
  <2>4. target' = target /\ cache' = cache /\ drifted'.feeds = drifted.feeds \cup {f}
    BY <2>1 DEF AppMovesFeed, Drift
  <2>5. /\ account'.title = account.title /\ account'.tags = account.tags /\ account'.read = account.read
        /\ account'.at = account.at /\ \A x \in Feed \ {f} : account'.feedIn[x] = account.feedIn[x]
    BY <1>1, <2>2 DEF Accounts
  <2> QED
    BY <2>3, <2>4, <2>5
<1>7. CASE Fetch
  <2>1. /\ account' = account /\ target' = target /\ since' = since
        /\ cache'.feedIn = account.feedIn /\ drifted'.feeds = drifted.feeds
    BY <1>7 DEF Fetch
  <2> QED
    BY <2>1
<1> QED
  BY <1>2, <1>3, <1>4, <1>5, <1>6, <1>7 DEF OtherParties

LEMMA OthersTell ==
  ASSUME TypeInv, AnswerInv, OtherParties PROVE AnswerInv' /\ AnsweredTruly
<1>1. lock' = lock /\ req' = req /\ target' = target /\ account'.title = account.title
  BY OthersAreNoted, OthersLeave
<1>2. HandInv'
  BY <1>1 DEF AnswerInv, HandInv
<1>3. ASSUME NEW r \in Request, req[r].pc \in {"call", "patch"}
      PROVE  SoFar(req[r], account', since'.things, target)
  <2>1. /\ lock = r /\ r # None /\ req[r].op \in Operations
        /\ Asked(req[r].op, Head(req[r].todo))
    BY <1>3, HolderFacts DEF TypeInv
  <2>2. /\ since.things \subseteq since'.things
        /\ \A s \in Story \ since'.things : /\ account'.read[s] = account.read[s]
                                            /\ account'.tags[s] = account.tags[s]
        /\ \A d \in Folder \ since'.things : account'.at[d] = account.at[d]
    BY <2>1, OthersLeave
  <2>3. SoFar(req[r], account, since.things, target)
    BY <1>3 DEF AnswerInv, ProgressInv
  <2>4. req[r].op.kind = "patchStory" => req[r].op.story \in Story
    BY <2>1, FieldsOfStories
  <2>5. Head(req[r].todo) \in {"star", "save"} => req[r].op.story \in Story
    BY <2>1, CallsOnStories
  <2>6. target \in Folder \cup {None}
    BY DEF TypeInv, DataOK
  <2>7. ReadSoFar(req[r], account', since'.things)
    BY <2>2, <2>3, <2>4 DEF SoFar, ReadSoFar
  <2>8. StarSoFar(req[r], account', since'.things)
    BY <2>2, <2>3, <2>5 DEF SoFar, StarSoFar
  <2>9. FolderSoFar(req[r], account', since'.things, target)
    BY <2>2, <2>3, <2>6 DEF SoFar, FolderSoFar
  <2>10. TitleSoFar(req[r], account') /\ EditSoFar(req[r])
    BY <1>1, <2>3 DEF SoFar, TitleSoFar
  <2> QED
    BY <2>7, <2>8, <2>9, <2>10 DEF SoFar
<1>4. ProgressInv'
  BY <1>1, <1>3 DEF ProgressInv
<1>5. FeedInv'
  BY <1>1, OthersLeave, FeedsFollow DEF AnswerInv
<1>6. AnsweredTruly
  <2>1. \A r \in Request : req[r].pc \in {"call", "patch"} => req[r].outcome = None
    BY DEF AnswerInv, HandInv, InHand
  <2> QED
    BY <1>1, <2>1, PartiesAssumption DEF AnsweredTruly
<1> QED
  BY <1>2, <1>4, <1>5, <1>6 DEF AnswerInv

LEMMA FolderIsThere ==
  ASSUME NEW p, FolderAt(p) # None
  PROVE  account.at[FolderAt(p)] = p
<1> DEFINE P(d) == p \in Occupied => d # None
           D == {d \in Folder : account.at[d] = p} \cup {None}
<1>1. \E d \in D : P(d)
  <2>1. CASE p \in Occupied
    BY <2>1, PartiesAssumption DEF Occupied
  <2>2. CASE p \notin Occupied
    BY <2>2
  <2> QED
    BY <2>1, <2>2
<1>2. FolderAt(p) \in D
  BY <1>1 DEF FolderAt
<1> QED
  BY <1>2

LEMMA LockTells ==
  ASSUME TypeInv, AnswerInv, NEW r \in Request, Lock(r) PROVE AnswerInv' /\ AnsweredTruly
<1>1. RequestsOK /\ DataOK
  BY DEF TypeInv
<1>2. /\ req[r].pc = "lock" /\ lock = None /\ req' = [req EXCEPT ![r].pc = "call"]
      /\ target' = (IF req[r].op.kind = "patchFolder" THEN FolderAt(req[r].op.path) ELSE None)
      /\ since' = Nothing /\ UNCHANGED <<account, cache, drifted>>
  BY DEF Lock
<1>3. req[r] \in Requests /\ Planned(req[r]) /\ InHand(req[r]) /\ Unbegun(req[r])
  BY <1>1, <1>2 DEF RequestsOK, PlanOK, AnswerInv, HandInv
<1>4. Head(req[r].todo) = req[r].todo[1] /\ req[r].todo[1] # "editTags"
  BY <1>2, <1>3, HeadTailProperties, EmptySeq DEF Planned, Requests, Decided
<1> DEFINE p == [req[r] EXCEPT !.pc = "call"]
<1>5. /\ p.pc = "call" /\ p.op = req[r].op /\ p.todo = req[r].todo
      /\ p.known = req[r].known /\ p.outcome = req[r].outcome
  BY <1>3 DEF Requests
<1>6. req' = [req EXCEPT ![r] = p]
  BY <1>2
<1> HIDE DEF p
<1>7. req'[r] = p /\ \A q \in Request \ {r} : req'[q] = req[q]
  BY <1>1, <1>6 DEF RequestsOK
<1>8. \A q \in Request : req[q].pc \notin {"call", "patch"}
  BY <1>1, <1>2, PartiesAssumption DEF RequestsOK
<1>9. InHand(p)
  BY <1>3, <1>5 DEF InHand
<1>10. HandInv'
  BY <1>5, <1>7, <1>9 DEF HandInv, AnswerInv
<1>11. SoFar(p, account, since'.things, target')
  <2>1. ReadSoFar(p, account, since'.things)
    BY <1>3, <1>4, <1>5 DEF ReadSoFar, Unbegun
  <2>2. EditSoFar(p)
    BY <1>4, <1>5 DEF EditSoFar
  <2>3. StarSoFar(p, account, since'.things)
    BY <1>5 DEF StarSoFar
  <2>4. TitleSoFar(p, account)
    BY <1>3, <1>4, <1>5 DEF TitleSoFar, Unbegun
  <2>5. ASSUME p.op.kind = "patchFolder", target' # None
        PROVE  account.at[target'] = IF Head(p.todo) = "renameFolder" THEN p.op.path ELSE MovedFrom(p.op)
    <3>1. account.at[target'] = p.op.path
      BY <1>2, <1>5, <2>5, FolderIsThere
    <3>2. Head(p.todo) # "renameFolder" => MovedFrom(p.op) = p.op.path
      BY <1>3, <1>4, <1>5, <2>5 DEF Unbegun, MovedFrom
    <3> QED
      BY <3>1, <3>2
  <2>6. FolderSoFar(p, account, since'.things, target')
    BY <2>5 DEF FolderSoFar
  <2> QED
    BY <2>1, <2>2, <2>3, <2>4, <2>6 DEF SoFar
<1>12. ProgressInv'
  BY <1>2, <1>7, <1>8, <1>11 DEF ProgressInv
<1>13. \A q \in Request : req'[q].pc \in {"lock", "call"} =>
         req[q].pc \in {"lock", "call"} /\ req'[q].op = req[q].op /\ req'[q].known = req[q].known
  BY <1>2, <1>5, <1>7
<1>14. FeedInv'
  BY <1>2, <1>13, FeedsFollow DEF AnswerInv
<1>15. AnsweredTruly
  BY <1>8 DEF AnsweredTruly
<1> QED
  BY <1>10, <1>12, <1>14, <1>15 DEF AnswerInv

LEMMA SubmitTells ==
  ASSUME TypeInv, AnswerInv, NEW r \in Request, NEW op \in Op[r], Submit(r, op)
  PROVE  AnswerInv' /\ AnsweredTruly
<1>1. /\ req[r].pc = "idle" /\ UNCHANGED <<account, cache, since, target, drifted>>
      /\ req \in [Request -> Requests] /\ op \in Operations
  BY PartiesAssumption DEF Submit, history, TypeInv, RequestsOK
<1>2. ASSUME NEW p, req' = [req EXCEPT ![r] = p], p.pc \in {"lock", "done"},
             p.pc = "lock" => /\ InHand(p) /\ Unbegun(p) /\ p.op = op
                              /\ op.kind = "deleteFeed" => p.known = {cache.feedIn[op.feed]}
      PROVE  AnswerInv' /\ AnsweredTruly
  <2>1. req'[r] = p /\ \A q \in Request \ {r} : req'[q] = req[q]
    BY <1>1, <1>2
  <2>2. HandInv'
    BY <1>2, <2>1 DEF HandInv, AnswerInv
  <2>3. ProgressInv'
    BY <1>1, <1>2, <2>1 DEF ProgressInv, AnswerInv
  <2>4. \A q \in Request :
          req'[q].pc \in {"lock", "call"} /\ req'[q].op.kind = "deleteFeed" =>
            \/ /\ req[q].pc \in {"lock", "call"}
               /\ req'[q].op = req[q].op /\ req'[q].known = req[q].known
            \/ req'[q].known = {cache.feedIn[req'[q].op.feed]}
    BY <1>2, <2>1
  <2>5. FeedInv'
    BY <1>1, <2>4, FeedsFollow DEF AnswerInv
  <2>6. \A q \in Request : req[q].pc \in {"call", "patch"} => q # r /\ req[q].outcome = None
    BY <1>1 DEF AnswerInv, HandInv, InHand
  <2>7. AnsweredTruly
    BY <2>1, <2>6, PartiesAssumption DEF AnsweredTruly
  <2> QED
    BY <2>2, <2>3, <2>5, <2>7 DEF AnswerInv
<1>3. ASSUME NEW outcome \in {"ok", "refused"},
             req' = [req EXCEPT ![r] = [NoRequest EXCEPT !.op = op, !.pc = "done",
                                                         !.outcome = outcome]]
      PROVE  AnswerInv' /\ AnsweredTruly
  <2> DEFINE p == [NoRequest EXCEPT !.op = op, !.pc = "done", !.outcome = outcome]
  <2>1. p.pc = "done"
    BY DEF NoRequest
  <2> HIDE DEF p
  <2>2. req' = [req EXCEPT ![r] = p]
    BY <1>3 DEF p
  <2> QED
    BY <1>2, <2>1, <2>2
<1>4. ASSUME Found(op), ~NothingAsked(op), ~Refused(op),
             req' = [req EXCEPT ![r] = [NoRequest EXCEPT
               !.op = op, !.pc = "lock", !.todo = Calls(op),
               !.known = CASE op.kind \in {"renameTag", "deleteTag"} -> Holders(op.tag)
                           [] op.kind = "deleteFeed" -> {cache.feedIn[op.feed]}
                           [] OTHER -> {}]]
      PROVE  AnswerInv' /\ AnsweredTruly
  <2> DEFINE known == CASE op.kind \in {"renameTag", "deleteTag"} -> Holders(op.tag)
                        [] op.kind = "deleteFeed" -> {cache.feedIn[op.feed]}
                        [] OTHER -> {}
             p == [NoRequest EXCEPT !.op = op, !.pc = "lock", !.todo = Calls(op), !.known = known]
  <2>1. op.kind = "deleteFeed" => known = {cache.feedIn[op.feed]}
    OBVIOUS
  <2>2. req' = [req EXCEPT ![r] = p]
    BY <1>4
  <2> HIDE DEF known
  <2>3. /\ p.pc = "lock" /\ p.op = op /\ p.todo = Calls(op) /\ p.known = known
        /\ p.outcome = None
    BY DEF NoRequest
  <2> HIDE DEF p
  <2>4. InHand(p) /\ Unbegun(p)
    BY <1>1, <1>4, <2>3, CallsAreInHand
  <2> QED
    BY <1>2, <2>1, <2>2, <2>3, <2>4
<1> QED
  BY <1>3, <1>4, Zenon DEF Submit, Refuse

LEMMA AnswersAreTrue ==
  ASSUME TypeInv, CacheInv, Unrepeated, AnswerInv, [Next]_vars
  PROVE  AnswerInv' /\ AnsweredTruly
<1>1. CASE UNCHANGED vars
  <2>1. AnswerInv'
    BY <1>1 DEF vars, history, AnswerInv, HandInv, ProgressInv, FeedInv
  <2>2. AnsweredTruly
    <3>1. \A q \in Request : req[q].pc \in {"call", "patch"} => req[q].outcome = None
      BY DEF AnswerInv, HandInv, InHand
    <3> QED
      BY <1>1, <3>1, PartiesAssumption DEF vars, AnsweredTruly
  <2> QED
    BY <2>1, <2>2
<1>2. ASSUME NEW r \in Request, Call(r) PROVE AnswerInv' /\ AnsweredTruly
  BY <1>2, StoryCallsTell, LiveTagsTell, ReadCountsTell, ChangeTagTells,
     FolderCallsTell, FeedCallsTell DEF Call
<1>3. ASSUME NEW r \in Request, Fails(r) PROVE AnswerInv' /\ AnsweredTruly
  <2>1. req[r].pc = "call" /\ Answer(r, "error") /\ UNCHANGED <<account, cache, drifted>>
    BY <1>3 DEF Fails
  <2> QED
    BY <2>1, AnswerLeaves
<1>4. CASE AllAnswered
  BY <1>1, <1>4 DEF AllAnswered
<1> QED
  BY <1>1, <1>2, <1>3, <1>4, SubmitTells, LockTells, PatchCacheTells, OthersTell DEF Next

LEMMA AnswersAtFirst == Init => AnswerInv
<1> SUFFICES ASSUME Init PROVE AnswerInv
  OBVIOUS
<1>1. (\A r \in Request : req[r].pc = "idle") /\ cache.feedIn = account.feedIn
  BY DEF Init, NoRequest
<1> QED
  BY <1>1 DEF AnswerInv, HandInv, ProgressInv, FeedInv

(* A request that is answered ok has had all that it asked for, whichever  *)
(* fields and calls that takes and whoever acts in between, where NewsBlur *)
(* repeats no tag of a story: sameTagSet, which decides whether an edit    *)
(* has anything to write, takes lists for sets.                            *)
THEOREM AnswersHold ==
  ASSUME UserTagsAreSets PROVE Spec => AnswerIsTrue
<1>1. TypeInv /\ CacheInv /\ Unrepeated /\ AnswerInv /\ [Next]_vars => AnswerInv'
  BY AnswersAreTrue
<1>2. Spec => []AnswerInv
  BY <1>1, AnswersAtFirst, Types, CacheStays, TagsStaySets, PTL DEF Spec
<1>3. TypeInv /\ CacheInv /\ Unrepeated /\ AnswerInv /\ [Next]_vars =>
        [\A r \in Request :
           req[r].pc \in {"call", "patch"} /\ req'[r].outcome = "ok" => Done(req[r].op)]_vars
  BY AnswersAreTrue DEF AnsweredTruly
<1> QED
  BY <1>2, <1>3, Types, CacheStays, TagsStaySets, PTL DEF Spec, AnswerIsTrue
=============================================================================
