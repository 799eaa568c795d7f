------------------------------- MODULE Mutations -------------------------------
(***************************************************************************)
(* The plugin's mutations (internal/charlie/cgplugin/mutate.go,            *)
(* create_child.go, tag_mutate.go, tags.go) and the client calls under     *)
(* them (internal/alfa/newsblur).  A request is checked against the local  *)
(* index and its body, waits for mutateMu, and then makes its calls one by *)
(* one: a write that lands is followed by the patch of the local cache.    *)
(* The NewsBlur apps and another process's `nebulous fetch` act in between.*)
(*                                                                         *)
(* NewsBlur is the variable account and what a call does to it.  The index *)
(* answers from the cache as it is: how far a snapshot may lag behind it   *)
(* is StaleCache's subject, how fetch works StarredSync's.                 *)
(***************************************************************************)
EXTENDS Traversal

CONSTANTS
  Story,       \* story hashes
  SameName,    \* pairs of distinct tags that strings.EqualFold holds equal
  AppTags,     \* lists of tags that the apps give a story
  Folder,      \* folders
  Name,        \* names of folders, titles of feeds
  AppPaths,    \* the paths that the apps move a folder to
  Feed,        \* feeds
  Place,       \* the folders a feed can be in
  Request,     \* requests of the plugin's callers
  Op,          \* what each of them may ask for
  Account,     \* the accounts to begin with
  MaxChanges,  \* bound on changes of other parties
  MaxFaults,   \* bound on calls and cache patches that fail
  Container,   \* nodes to read: <<"stories">>, <<"feed", f>>, <<"tag", t>>
  Filter       \* facet filters to read them with

(* The paths a folder can be found under; None is the top.                 *)
Path == [name : Name, parent : Name \cup {None}]

Accounts ==
  [starred : SUBSET Story, tags : [Story -> Seq(Tag)], read : [Story -> BOOLEAN],
   at : [Folder -> Path \cup {None}], feedIn : [Feed -> Place \cup {None}],
   title : [Feed -> Name]]

(* What can be asked for; an absent field of a patch is None.              *)
Operations ==
       [kind : {"patchStory"}, story : Story, read : BOOLEAN \cup {None},
        set : Seq(Tag) \cup {None}, add : Seq(Tag) \cup {None},
        remove : Seq(Tag) \cup {None}, force : BOOLEAN]
  \cup [kind : {"createStory", "saveStory"}, story : Story, tags : Seq(Tag)]
  \cup [kind : {"deleteStory"}, story : Story]
  \cup [kind : {"renameTag"}, tag : Tag, name : Tag, force : BOOLEAN]
  \cup [kind : {"deleteTag"}, tag : Tag]
  \cup [kind : {"createFolder", "deleteFolder"}, path : Path]
  \cup [kind : {"patchFolder"}, path : Path, name : Name \cup {None},
        to : Name \cup {None}]
  \cup [kind : {"subscribe"}, feed : Feed, place : Place]
  \cup [kind : {"patchFeed"}, feed : Feed, name : Name \cup {None},
        from : Place \cup {None}, to : Place \cup {None}]
  \cup [kind : {"deleteFeed"}, feed : Feed]

ASSUME BoundsAssumption == MaxChanges \in Nat /\ MaxFaults \in Nat
ASSUME PartiesAssumption == /\ \A r \in Request : Op[r] \subseteq Operations
                            /\ None \notin Request \cup Folder \cup {"ok"}
                            /\ AppTags \subseteq Seq(Tag) /\ AppPaths \subseteq Path
ASSUME AccountAssumption == Account \subseteq Accounts
ASSUME FilterAssumption == \A filter \in Filter : \A p \in filter : p.dim \in Dimensions
ASSUME NodesAssumption == /\ External \notin Feed
                          /\ \A node \in Container : node[1] \in {"stories", "feed", "tag"}
ASSUME StoriesAssumption == /\ IsFiniteSet(Story) /\ IsFiniteSet(Tag)
                            /\ StoryTags \in [Story -> Seq(Tag)] /\ Age \in [Story -> Int]

(* NewsBlur repeats no tag of a story: none that a user gave it, in an     *)
(* account or from an app, and none of the feed's own.  It is not assumed: *)
(* the theorems that need it say so.                                       *)
UserTagsAreSets ==
  /\ \A list \in AppTags : IsInjective(list)
  /\ \A acc \in Account, s \in Story : IsInjective(acc.tags[s])
StoryTagsAreSets == \A s \in Story : IsInjective(StoryTags[s])

VARIABLES
  account,   \* [starred, tags, read, at, feedIn, title]: the stories starred,
             \*   their tags and read state, where each folder is, each feed's
             \*   folder and title
  cache,     \* [listed, copy, feedIn]: the list of starred hashes, the copies
             \*   of stories ([tags, read]), the feeds as last fetched
  lock,      \* the request that holds mutateMu
  req,       \* requests: [op, pc, todo, live, known, outcome]; known is what
             \*   the index told before the lock
  changes, faults,  \* counts for the bounds
  \* History variables: no action reads them.
  target,    \* the folder at the path of the request that holds the lock
  since,     \* [tags, things]: the tags given to a story by the apps since the
             \*   holder's live read, and what they changed since it got the lock
  drifted    \* [copies, list, feeds]: cached entries that may differ from the
             \*   account, because another party or a failure made them, or
             \*   (a feed: what an index read before the lock may say of it)

history == <<target, since, drifted>>
vars == <<account, cache, lock, req, changes, faults, history>>

NoRequest == [op |-> None, pc |-> "idle", todo |-> <<>>, live |-> <<>>,
              known |-> {}, outcome |-> None]
Nothing == [tags |-> {}, things |-> {}]

CopyOf(acc, s) == [tags |-> acc.tags[s], read |-> acc.read[s]]

(* An account, and a cache that a fetch has just brought up to date.       *)
Init ==
  /\ account \in Account
  /\ cache = [listed |-> account.starred,
              copy |-> [s \in Story |-> IF s \in account.starred
                                        THEN CopyOf(account, s) ELSE None],
              feedIn |-> account.feedIn]
  /\ lock = None
  /\ req = [r \in Request |-> NoRequest]
  /\ changes = 0 /\ faults = 0
  /\ target = None /\ since = Nothing
  /\ drifted = [copies |-> {}, list |-> {}, feeds |-> {}]

-----------------------------------------------------------------------------
(* The other parties.                                                      *)

Change == changes < MaxChanges /\ changes' = changes + 1 /\ UNCHANGED <<lock, req, faults>>

Noted(tags, things) ==
  since' = IF lock = None THEN since
           ELSE [tags |-> since.tags \cup tags, things |-> since.things \cup things]

Drift(copies, list, feeds) ==
  drifted' = [copies |-> drifted.copies \cup copies, list |-> drifted.list \cup list,
              feeds |-> drifted.feeds \cup feeds]

AppTagsStory(s) ==
  /\ Change
  /\ s \in account.starred
  /\ \E list \in AppTags :
       /\ account' = [account EXCEPT !.tags[s] = list]
       /\ Noted(TagsOf(list) \ TagsOf(account.tags[s]), {s})
  /\ Drift({s}, {}, {})
  /\ UNCHANGED <<cache, target>>

AppStars(s) ==
  /\ Change
  /\ \E list \in IF s \in account.starred THEN {<<>>} ELSE AppTags :
       /\ account' = [account EXCEPT !.starred = IF s \in @ THEN @ \ {s} ELSE @ \cup {s},
                                     !.tags[s] = list]
       /\ Noted(TagsOf(list), {s})
  /\ Drift({s}, {s}, {})
  /\ UNCHANGED <<cache, target>>

AppReads(s) ==
  /\ Change
  /\ account' = [account EXCEPT !.read[s] = ~@]
  /\ Noted({}, {s})
  /\ Drift({s}, {}, {})
  /\ UNCHANGED <<cache, target>>

Occupied == {account.at[d] : d \in Folder}

AppMovesFolder(d) ==
  /\ Change
  /\ account.at[d] # None
  /\ \E p \in AppPaths \ Occupied : account' = [account EXCEPT !.at[d] = p]
  /\ Noted({}, {d})
  /\ UNCHANGED <<cache, target, drifted>>

AppMovesFeed(f) ==
  /\ Change
  /\ account.feedIn[f] # None
  /\ \E p \in Place \ {account.feedIn[f]} : account' = [account EXCEPT !.feedIn[f] = p]
  /\ Noted({}, {f})
  /\ Drift({}, {}, {f})
  /\ UNCHANGED <<cache, target>>

(* Another process fetches: the list, the feeds, the copies that are       *)
(* missing and some of the others.  The patch of a mutation under way may  *)
(* be older than an app's change that the fetch has already seen.          *)
Fetch ==
  /\ Change
  /\ \E again \in SUBSET Story :
       LET fetched == {s \in account.starred : cache.copy[s] = None \/ s \in again}
       IN /\ cache' = [listed |-> account.starred,
                       copy |-> [s \in Story |-> IF s \in fetched THEN CopyOf(account, s)
                                                 ELSE cache.copy[s]],
                       feedIn |-> account.feedIn]
          /\ drifted' = [copies |-> (drifted.copies \ fetched) \cup (since.things \cap Story),
                        list |-> since.things \cap Story, feeds |-> drifted.feeds]
  /\ UNCHANGED <<account, target, since>>

-----------------------------------------------------------------------------
(* What a request asks for, and what is checked before the lock.           *)

Editing(op) == op.add # None \/ op.remove # None
ListOf(value) == IF value = None THEN <<>> ELSE value

(* A patch that names no field that is known changes nothing and succeeds. *)
NothingAsked(op) ==
  \/ op.kind = "patchStory" /\ op.read = None /\ op.set = None /\ ~Editing(op)
  \/ op.kind \in {"patchFeed", "patchFolder"} /\ op.name = None /\ op.to = None

(* StoryMetadata and FeedMetadata: what the local index knows.             *)
Found(op) ==
  /\ op.kind \in {"patchStory", "deleteStory"} => cache.copy[op.story] # None
  /\ op.kind \in {"patchFeed", "deleteFeed"} => cache.feedIn[op.feed] # None

(* createStory: a story that is cached, starred or not, is there already.  *)
RefusedStar(op) == cache.copy[op.story] # None \/ ~Writable(op.tags)

RefusedSave(op) == ~Writable(op.tags)

RefusedTags(op) ==
  \/ op.set # None /\ (Editing(op) \/ ~op.force)
  \/ ~Writable(ListOf(op.set)) \/ ~Writable(ListOf(op.add))
  \/ TagsOf(ListOf(op.add)) \cap TagsOf(ListOf(op.remove)) # {}

RefusedMove(op) == op.to # None /\ op.from = None

RefusedName(op) == ~Writable(<<op.name>>) \/ op.name = op.tag

Refused(op) ==
  \/ op.kind = "createStory" /\ RefusedStar(op)
  \/ op.kind = "saveStory" /\ RefusedSave(op)
  \/ op.kind = "patchStory" /\ RefusedTags(op)
  \/ op.kind = "patchFeed" /\ RefusedMove(op)
  \/ op.kind = "renameTag" /\ RefusedName(op)

(* userTagHolders                                                          *)
Holders(tag) ==
  {s \in cache.listed : cache.copy[s] # None /\ tag \in TagsOf(cache.copy[s].tags)}

PatchFolderCalls(op) ==
  (IF op.name = None THEN <<>> ELSE <<"renameFolder">>)
  \o (IF op.to = None THEN <<>> ELSE <<"moveFolder">>)

PatchFeedCalls(op) ==
  (IF op.name = None THEN <<>> ELSE <<"renameFeed">>)
  \o (IF op.to = None THEN <<>> ELSE <<"moveFeed">>)

PatchStoryCalls(op) ==
  (IF op.read = None THEN <<>> ELSE <<"markRead">>)
  \o (IF op.set = None THEN <<>> ELSE <<"replaceTags">>)
  \o (IF Editing(op) THEN <<"liveTags", "editTags">> ELSE <<>>)

Calls(op) ==
  CASE op.kind = "createStory" -> <<"star">>
    [] op.kind = "saveStory"   -> <<"save">>
    [] op.kind = "deleteStory" -> <<"unstar">>
    [] op.kind = "patchStory"  -> PatchStoryCalls(op)
    [] op.kind = "renameTag"   -> <<"liveCounts", "renameTag">>
    [] op.kind = "deleteTag"   -> <<"liveCounts", "deleteTag">>
    [] op.kind = "patchFolder" -> PatchFolderCalls(op)
    [] op.kind = "patchFeed"   -> PatchFeedCalls(op)
    [] OTHER -> <<op.kind>>    \* createFolder, deleteFolder, subscribe, deleteFeed

Refuse(r, op) ==
  req' = [req EXCEPT ![r] = [NoRequest EXCEPT !.op = op, !.pc = "done",
                                              !.outcome = "refused"]]

(* PatchNode, CreateNode, CreateChild, DeleteNode up to mutateMu.Lock.     *)
Submit(r, op) ==
  /\ req[r].pc = "idle"
  /\ \/ Found(op) /\ NothingAsked(op)
        /\ req' = [req EXCEPT ![r] = [NoRequest EXCEPT !.op = op, !.pc = "done",
                                                       !.outcome = "ok"]]
     \/ (~Found(op) \/ (~NothingAsked(op) /\ Refused(op))) /\ Refuse(r, op)
     \/ /\ Found(op) /\ ~NothingAsked(op) /\ ~Refused(op)
        /\ req' = [req EXCEPT ![r] = [NoRequest EXCEPT
             !.op = op, !.pc = "lock", !.todo = Calls(op),
             !.known = CASE op.kind \in {"renameTag", "deleteTag"} -> Holders(op.tag)
                         [] op.kind = "deleteFeed" -> {cache.feedIn[op.feed]}
                         [] OTHER -> {}]]
  /\ UNCHANGED <<account, cache, lock, changes, faults, history>>

FolderAt(p) == CHOOSE d \in {d \in Folder : account.at[d] = p} \cup {None} :
                 p \in Occupied => d # None

\* Mutant of Lock: mutateMu is not waited for.
LockFree(r) ==
  /\ req[r].pc = "lock"
  /\ lock' = r
  /\ req' = [req EXCEPT ![r].pc = "call"]
  /\ target' = IF req[r].op.kind = "patchFolder" THEN FolderAt(req[r].op.path) ELSE None
  /\ since' = Nothing
  /\ UNCHANGED <<account, cache, changes, faults, drifted>>

Lock(r) ==
  /\ req[r].pc = "lock"
  /\ lock = None
  /\ lock' = r
  /\ req' = [req EXCEPT ![r].pc = "call"]
  /\ target' = IF req[r].op.kind = "patchFolder" THEN FolderAt(req[r].op.path) ELSE None
  /\ since' = Nothing
  /\ UNCHANGED <<account, cache, changes, faults, drifted>>

-----------------------------------------------------------------------------
(* Calls.  The deferred Unlock releases mutateMu whatever the outcome.     *)

At(r, call) == req[r].pc = "call" /\ Head(req[r].todo) = call

Ends(r, outcome) ==
  req' = [req EXCEPT ![r] = [@ EXCEPT !.pc = "done", !.todo = <<>>, !.live = <<>>,
                                      !.known = {}, !.outcome = outcome]]

Answer(r, outcome) ==
  /\ Ends(r, outcome)
  /\ lock' = None
  /\ since' = Nothing /\ target' = None

(* The next call, or the answer after the last one.                        *)
Proceed(r) ==
  IF Len(req[r].todo) = 1 THEN Answer(r, "ok")
  ELSE /\ req' = [req EXCEPT ![r] = [@ EXCEPT !.pc = "call", !.todo = Tail(req[r].todo)]]
       /\ UNCHANGED <<lock, since, target>>

Fault == faults < MaxFaults /\ faults' = faults + 1

(* A call that fails and changes nothing: a live read, or a write that is  *)
(* rejected, be it by a negative code in a 200.                            *)
Fails(r) ==
  /\ req[r].pc = "call"
  /\ Fault
  /\ Answer(r, "error")
  /\ UNCHANGED <<account, cache, changes, drifted>>

(* post: the write lands, and its answer arrives or is lost.  What is      *)
(* cached about the stories drifts if it is, as no patch follows.          *)
Landing(r, stories, acc) ==
  /\ account' = acc
  /\ \/ /\ req' = [req EXCEPT ![r].pc = "patch"]
        /\ UNCHANGED <<lock, faults, since, target, drifted>>
     \/ Fault /\ Answer(r, "error") /\ Drift(stories, stories, {})
  /\ UNCHANGED <<cache, changes>>

MarkRead(r) ==
  LET s == req[r].op.story
  IN At(r, "markRead") /\ Landing(r, {s}, [account EXCEPT !.read[s] = req[r].op.read])

(* mark_story_hash_as_starred, which REPLACES the tags of a starred story. *)
Starred(s, list) == [account EXCEPT !.starred = @ \cup {s}, !.tags[s] = list]

ReplaceTags(r) ==
  LET s == req[r].op.story
  IN At(r, "replaceTags") /\ Landing(r, {s}, Starred(s, Distinct(req[r].op.set)))

(* save_story updates a story that is there already.                       *)
Save(r) ==
  LET s == req[r].op.story
  IN At(r, "save") /\ Landing(r, {s}, Starred(s, Distinct(req[r].op.tags)))

(* StarStory patches the list only: a copy made since the existence check  *)
(* keeps its tags.                                                         *)
Star(r) ==
  LET s == req[r].op.story
  IN /\ At(r, "star")
     /\ account' = Starred(s, Distinct(req[r].op.tags))
     /\ \/ /\ req' = [req EXCEPT ![r].pc = "patch"]
           /\ Drift({x \in {s} : cache.copy[x] # None}, {}, {})
           /\ UNCHANGED <<lock, faults, since, target>>
        \/ Fault /\ Answer(r, "error") /\ Drift({s}, {s}, {})
     /\ UNCHANGED <<cache, changes>>

Unstar(r) ==
  LET s == req[r].op.story
  IN /\ At(r, "unstar")
     /\ Landing(r, {s}, [account EXCEPT !.starred = @ \ {s}, !.tags[s] = <<>>])

-----------------------------------------------------------------------------
(* editStoryTags: a live read, the edit of what it found, and the write.   *)

ReadTags(r, list) ==
  LET op   == req[r].op
      next == ApplyTagEdit(list, Distinct(ListOf(op.add)), Distinct(ListOf(op.remove)))
  IN \/ /\ op.story \notin account.starred  \* "returned no starred story"
        /\ Answer(r, "error")
     \/ /\ op.story \in account.starred
        /\ next = <<>> /\ list # <<>>
        /\ Answer(r, "refused")
     \/ /\ op.story \in account.starred
        /\ next # <<>> \/ list = <<>>
        /\ IF SameTagSet(next, list) THEN Answer(r, "ok")
           ELSE /\ req' = [req EXCEPT ![r] = [@ EXCEPT !.todo = Tail(req[r].todo),
                                                  !.live = next]]
                /\ since' = [since EXCEPT !.tags = {}]
                /\ UNCHANGED <<lock, target>>

\* Mutant of LiveTags: the edit starts from the cached copy.
CachedTags(r) ==
  /\ At(r, "liveTags")
  /\ ReadTags(r, cache.copy[req[r].op.story].tags)
  /\ UNCHANGED <<account, cache, changes, faults, drifted>>

LiveTags(r) ==
  /\ At(r, "liveTags")
  /\ ReadTags(r, account.tags[req[r].op.story])
  /\ UNCHANGED <<account, cache, changes, faults, drifted>>

EditTags(r) ==
  LET s == req[r].op.story
  IN At(r, "editTags") /\ Landing(r, {s}, Starred(s, req[r].live))

-----------------------------------------------------------------------------
(* patchTag, deleteTag                                                     *)

LiveCounts == UNION {TagsOf(account.tags[s]) : s \in account.starred}

\* Mutant of Merges: the names are compared as they are.
MergesExactly(tag, name) == name \in LiveCounts \ {tag}

Merges(tag, name) ==
  \E existing \in LiveCounts \ {tag} :
    existing = name \/ {existing, name} \in SameName

ReadCounts(r) ==
  LET op == req[r].op
  IN /\ At(r, "liveCounts")
     /\ IF \/ op.tag \notin LiveCounts
           \/ op.kind = "renameTag" /\ ~op.force /\ Merges(op.tag, op.name)
        THEN Answer(r, "refused")
        ELSE /\ req' = [req EXCEPT ![r].todo = Tail(@)]
             /\ since' = [since EXCEPT !.tags = {}]
             /\ UNCHANGED <<lock, target>>
     /\ UNCHANGED <<account, cache, changes, faults, drifted>>

Retagged(list, op) ==
  IF op.kind = "renameTag" THEN Renamed(list, op.tag, op.name) ELSE Dropped(list, op.tag)

(* The stories whose copy the patch will not reach, because they were no   *)
(* holders when those were listed, before the lock, drift.                 *)
ChangeTag(r) ==
  LET op     == req[r].op
      tagged == {s \in account.starred : op.tag \in TagsOf(account.tags[s])}
  IN /\ At(r, "renameTag") \/ At(r, "deleteTag")
     /\ account' = [account EXCEPT !.tags =
          [s \in Story |-> IF s \in tagged THEN Retagged(@[s], op) ELSE @[s]]]
     /\ \/ /\ req' = [req EXCEPT ![r].pc = "patch"]
           /\ Drift(tagged \ req[r].known, {}, {})
           /\ UNCHANGED <<lock, faults, since, target>>
        \/ Fault /\ Answer(r, "error") /\ Drift(tagged, {}, {})
     /\ UNCHANGED <<cache, changes>>

-----------------------------------------------------------------------------
(* Patches of the cache: each is best effort, and its error is swallowed.  *)

PatchedList(r) ==
  LET s == req[r].op.story
  IN CASE Head(req[r].todo) \in {"star", "save", "replaceTags", "editTags"} -> {s} \cup cache.listed
       [] Head(req[r].todo) = "unstar" -> cache.listed \ {s}
       [] OTHER -> cache.listed

(* The copies after a patch; one that is not there is left out.            *)
WithRead(copy, s, read) ==
  IF copy[s] = None THEN copy ELSE [copy EXCEPT ![s].read = read]

WithTags(copy, s, list) ==
  IF copy[s] = None THEN copy ELSE [copy EXCEPT ![s].tags = list]

WithTag(copy, stories, op) ==
  [s \in Story |->
     IF s \in stories /\ copy[s] # None /\ op.tag \in TagsOf(copy[s].tags)
     THEN [copy[s] EXCEPT !.tags = Retagged(@, op)] ELSE copy[s]]

(* A saved story is read again from NewsBlur.                              *)
WithSaved(copy, s) ==
  IF s \in account.starred THEN [copy EXCEPT ![s] = CopyOf(account, s)] ELSE copy

\* Mutant of PatchedCopies: an edit patches the list only.
PatchedCopiesButEdits(r) ==
  LET op   == req[r].op
      call == Head(req[r].todo)
  IN CASE call = "markRead" -> WithRead(cache.copy, op.story, op.read)
       [] call = "replaceTags" -> WithTags(cache.copy, op.story, Distinct(op.set))
       [] OTHER -> cache.copy

PatchedCopies(r) ==
  LET op   == req[r].op
      call == Head(req[r].todo)
  IN CASE call = "markRead" -> WithRead(cache.copy, op.story, op.read)
       [] call = "replaceTags" -> WithTags(cache.copy, op.story, Distinct(op.set))
       [] call = "editTags" -> WithTags(cache.copy, op.story, req[r].live)
       [] call = "save" -> WithSaved(cache.copy, op.story)
       [] call \in {"renameTag", "deleteTag"} -> WithTag(cache.copy, req[r].known, op)
       [] OTHER -> cache.copy

PatchCache(r) ==
  /\ req[r].pc = "patch"
  /\ \E list, copies \in BOOLEAN :  \* which of them succeed
       LET written == IF Head(req[r].todo) \in {"renameTag", "deleteTag"} THEN req[r].known
                      ELSE {req[r].op.story}
       IN /\ IF list /\ copies THEN UNCHANGED faults ELSE Fault
          /\ cache' = [cache EXCEPT
               !.listed = IF list THEN PatchedList(r) ELSE @,
               !.copy = IF copies THEN PatchedCopies(r) ELSE @]
          /\ Drift(IF copies THEN {} ELSE written, IF list THEN {} ELSE written, {})
  /\ Proceed(r)
  /\ UNCHANGED <<account, changes>>

-----------------------------------------------------------------------------
(* Folders and feeds: nothing is cached about a folder, and no patch is    *)
(* made for a feed.  A call for a path or a folder that NewsBlur does not  *)
(* find the thing under changes nothing and is answered all the same.      *)

Landed(r, feeds, acc) ==
  /\ account' = acc
  /\ Drift({}, {}, feeds)
  /\ \/ Proceed(r) /\ UNCHANGED faults
     \/ Fault /\ Answer(r, "error")
  /\ UNCHANGED <<cache, changes>>

Relocated(from, to) ==
  [account EXCEPT !.at = [d \in Folder |-> IF @[d] = from THEN to ELSE @[d]]]

(* NewsBlur rejects a name that is taken.                                  *)
Taken(r, p) ==
  /\ p \in Occupied
  /\ Answer(r, "error")
  /\ UNCHANGED <<account, cache, changes, faults, drifted>>

RenameFolder(r) ==
  LET op  == req[r].op
      new == [op.path EXCEPT !.name = op.name]
  IN /\ At(r, "renameFolder")
     /\ Taken(r, new) \/ (new \notin Occupied /\ Landed(r, {}, Relocated(op.path, new)))

\* Mutant of MovedFrom: the name the request came with.
MovedFromOldPath(op) == op.path

(* The own name that a rename just before has given it.                    *)
MovedFrom(op) == IF op.name = None THEN op.path ELSE [op.path EXCEPT !.name = op.name]

MoveFolder(r) ==
  LET from == MovedFrom(req[r].op)
      to   == [from EXCEPT !.parent = req[r].op.to]
  IN /\ At(r, "moveFolder")
     /\ Taken(r, to) \/ (to \notin Occupied /\ Landed(r, {}, Relocated(from, to)))

CreateFolder(r) ==
  LET p == req[r].op.path
  IN /\ At(r, "createFolder")
     /\ \/ Taken(r, p)
        \/ /\ p \notin Occupied
           /\ \E d \in Folder : account.at[d] = None
                                /\ Landed(r, {}, [account EXCEPT !.at[d] = p])

DeleteFolder(r) ==
  At(r, "deleteFolder") /\ Landed(r, {}, Relocated(req[r].op.path, None))

(* NewsBlur names the feed, and finds one it has already.                  *)
Subscribe(r) ==
  LET op == req[r].op
  IN /\ At(r, "subscribe")
     /\ Landed(r, {op.feed}, [account EXCEPT !.feedIn[op.feed] =
                                IF @ = None THEN op.place ELSE @])

RenameFeed(r) ==
  LET op == req[r].op
  IN At(r, "renameFeed") /\ Landed(r, {}, [account EXCEPT !.title[op.feed] = op.name])

(* patchFeed's move, from the folder that the caller names.                *)
MoveFeed(r) ==
  LET op == req[r].op
  IN /\ At(r, "moveFeed")
     /\ Landed(r, {op.feed}, [account EXCEPT !.feedIn[op.feed] =
                                IF @ = op.from THEN op.to ELSE @])

(* deleteFeed, from the folder that the index knew when it was asked.      *)
DeleteFeed(r) ==
  LET op == req[r].op
  IN /\ At(r, "deleteFeed")
     /\ Landed(r, {op.feed}, [account EXCEPT !.feedIn[op.feed] =
                                IF @ \in req[r].known THEN None ELSE @])

-----------------------------------------------------------------------------

Call(r) ==
  \/ MarkRead(r) \/ ReplaceTags(r) \/ Save(r) \/ Star(r) \/ Unstar(r)
  \/ LiveTags(r) \/ EditTags(r)
  \/ ReadCounts(r) \/ ChangeTag(r)
  \/ RenameFolder(r) \/ MoveFolder(r) \/ CreateFolder(r) \/ DeleteFolder(r)
  \/ Subscribe(r) \/ RenameFeed(r) \/ MoveFeed(r) \/ DeleteFeed(r)

OtherParties ==
  \/ \E s \in Story : AppTagsStory(s) \/ AppStars(s) \/ AppReads(s)
  \/ \E d \in Folder : AppMovesFolder(d)
  \/ \E f \in Feed : AppMovesFeed(f)
  \/ Fetch

(* The only end: a request that waits for ever for mutateMu is a deadlock. *)
AllAnswered == (\A r \in Request : req[r].pc = "done") /\ UNCHANGED vars

Next ==
  \/ \E r \in Request :
       \/ \E op \in Op[r] : Submit(r, op)
       \/ Lock(r) \/ Call(r) \/ Fails(r) \/ PatchCache(r)
  \/ OtherParties
  \/ AllAnswered

Spec == Init /\ [][Next]_vars
-----------------------------------------------------------------------------
(* Properties.                                                             *)

Copies == {None} \cup [tags : Seq(Tag), read : BOOLEAN]
CallName ==
  {"markRead", "replaceTags", "star", "save", "unstar", "liveTags", "editTags",
   "liveCounts", "renameTag", "deleteTag", "renameFolder", "moveFolder", "createFolder",
   "deleteFolder", "subscribe", "renameFeed", "moveFeed", "deleteFeed"}
Requests ==
  [op : {None} \cup Operations, pc : {"idle", "lock", "call", "patch", "done"},
   todo : Seq(CallName), live : Seq(Tag), known : SUBSET (Story \cup Place \cup {None}),
   outcome : {None, "ok", "refused", "error"}]

(* Every variable has its type, and the request that is past mutateMu.Lock *)
(* and not yet answered is the one that holds mutateMu.                    *)
TypeOK ==
  /\ account \in Accounts
  /\ cache \in [listed : SUBSET Story, copy : [Story -> Copies],
                feedIn : [Feed -> Place \cup {None}]]
  /\ lock \in Request \cup {None}
  /\ req \in [Request -> Requests]
  /\ \A r \in Request : lock = r <=> req[r].pc \in {"call", "patch"}
  /\ changes \in 0 .. MaxChanges /\ faults \in 0 .. MaxFaults
  /\ target \in Folder \cup {None}
  /\ since \in [tags : SUBSET Tag, things : SUBSET (Story \cup Folder \cup Feed)]
  /\ drifted \in [copies : SUBSET Story, list : SUBSET Story, feeds : SUBSET Feed]

(* When no mutation is under way, the cache agrees with the account: each  *)
(* copy of a starred story has its tags and read state, and the list its   *)
(* starred stories, but for the entries that another party or a failed     *)
(* call or patch made differ, or that a tag's holders, listed before the   *)
(* lock, left out.  A copy is read again only when fetch refreshes it, so  *)
(* a patch that a mutation forgets would stay unseen.                      *)
CacheFollowsAccount ==
  lock = None =>
    /\ \A s \in account.starred \ drifted.copies :
         cache.copy[s] # None =>
           /\ TagsOf(cache.copy[s].tags) = TagsOf(account.tags[s])
           /\ cache.copy[s].read = account.read[s]
    /\ \A s \in Story \ drifted.list : s \in cache.listed <=> s \in account.starred

Own == changes' = changes  \* a step of the plugin

(* A mutation takes a tag off a story only if its caller asked for that:   *)
(* it unstars the story, replaces or sets its whole list, removes, renames *)
(* or deletes this tag; or if an app gave it to a story after the live     *)
(* read, in the window that editStoryTags admits.  In particular a patch   *)
(* that adds or removes tags keeps those it does not name, however old the *)
(* index's copy is.                                                        *)
TagsLostOnlyOnRequest ==
  [][Own => \A s \in Story :
       \A tag \in TagsOf(account.tags[s]) \ TagsOf(account'.tags[s]) :
         LET op == req[lock].op
         IN \/ op.kind \in {"deleteStory", "createStory", "saveStory"} /\ op.story = s
            \/ op.kind = "patchStory" /\ op.story = s /\ op.set # None /\ op.force
            \/ op.kind = "patchStory" /\ op.story = s /\ tag \in TagsOf(ListOf(op.remove))
            \/ op.kind \in {"renameTag", "deleteTag"} /\ op.tag = tag
            \/ tag \in since.tags]_vars

(* What a request asked for, of the account as it is after this step,      *)
(* where no other party changed the thing since the request got the lock.  *)
Done(op) ==
  LET s     == op.story
      tags  == TagsOf(account'.tags[s])
      final == [name |-> IF op.name = None THEN op.path.name ELSE op.name,
                parent |-> IF op.to = None THEN op.path.parent ELSE op.to]
      alone == s \notin since.things
  IN CASE op.kind = "patchStory" ->
            alone => /\ op.read # None => account'.read[s] = op.read
                     /\ op.set # None => tags = TagsOf(op.set)
                     /\ TagsOf(ListOf(op.add)) \subseteq tags
                     /\ TagsOf(ListOf(op.remove)) \cap tags = {}
       [] op.kind \in {"createStory", "saveStory"} ->
            alone => s \in account'.starred /\ tags = TagsOf(op.tags)
       [] op.kind = "deleteStory" -> alone => s \notin account'.starred
       [] op.kind \in {"renameTag", "deleteTag"} ->
            Story \cap since.things = {} =>
              \A x \in account'.starred : op.tag \notin TagsOf(account'.tags[x])
       [] op.kind = "patchFolder" ->
            target \notin since.things \cup {None} => account'.at[target] = final
       [] op.kind = "patchFeed" ->
            op.feed \notin since.things =>
              /\ op.name # None => account'.title[op.feed] = op.name
              /\ op.to # None /\ op.to # op.from => account'.feedIn[op.feed] # op.from
       [] op.kind = "deleteFeed" ->
            op.feed \notin drifted.feeds => account'.feedIn[op.feed] = None
       [] OTHER -> TRUE

(* A request is answered ok only when all that it asked for is so: every   *)
(* field of a patch is applied, the folder that was renamed is the one     *)
(* that is moved, a feed is unsubscribed unless it had been moved without  *)
(* the index knowing, no story keeps a tag that was renamed or deleted.    *)
AnswerIsTrue ==
  [][\A r \in Request :
       req[r].pc \in {"call", "patch"} /\ req'[r].outcome = "ok" => Done(req[r].op)]_vars

(* A rename that is not forced joins no two tags, by the case-insensitive  *)
(* comparison of NewsBlur, but for a tag that an app sets between the      *)
(* counts and the rename.                                                  *)
NoSilentMerge ==
  [][\A r \in Request :
       LET op == req[r].op
       IN Own /\ At(r, "renameTag") /\ account' # account /\ ~op.force =>
            \A s \in account.starred : \A tag \in TagsOf(account.tags[s]) \ {op.tag} :
              tag = op.name \/ {tag, op.name} \in SameName => tag \in since.tags]_vars

-----------------------------------------------------------------------------
(* What is read out of the cache, as soon as a mutation has patched it.    *)

Patched == lock # None /\ lock' = None /\ cache' # cache

Lists == {list \in BoundedSeq(Tag, Cardinality(Tag)) : IsInjective(list)}

Snapshots == UNION {[stories -> [tags : Lists, read : BOOLEAN]] : stories \in SUBSET Story}

FacetsAreListings(store, node, filter) ==
  \A dim \in Dimensions :
    LET counts == Counts(store, node, filter, dim)
    IN \A value \in DOMAIN counts :
         counts[value] = Cardinality(Listed(store, node,
                           filter \cup {[dim |-> dim, value |-> value]}))

FeedsAreListings(store, filter) ==
  LET feeds == ByContainer(store, filter)
  IN \A f \in DOMAIN feeds : feeds[f] = Cardinality(Listed(store, <<"feed", f>>, filter))

QueriesAnswerFacets(store) ==
  /\ \A t \in Tag \ {EmptyTag} : ByTag(store, t) = Len(Query(store, [tag |-> t]))
  /\ \A f \in Feed \cup {External} : ByFeed(store, f) = Len(Query(store, [feed |-> f]))
  /\ \A r \in BOOLEAN :
       LET results == Query(store, [read |-> r])
       IN /\ ByStatus(store, r) = Len(results)
          /\ \A i \in DOMAIN results : Page(results, i - 1, 1) = <<results[i]>>

Consistent(store) ==
  /\ \A filter \in Filter : /\ FeedsAreListings(store, filter)
                           /\ \A node \in Container : FacetsAreListings(store, node, filter)
  /\ \A node \in Container, s \in DOMAIN store :
       InScope(store, node, s) <=> s \in Children(store, node)
  /\ TagNodes(store) = {t \in Tag \ {EmptyTag} : Children(store, <<"tag", t>>) # {}}
  /\ External \in FeedNodes(store, Feed) <=> Children(store, <<"feed", External>>) # {}
  /\ QueriesAnswerFacets(store)

(* As the image of a set, which TLC enumerates only once.                  *)
Readable == {store : store \in {store \in Snapshots : Consistent(store)}}

(* Every count a reader is offered is the number of nodes it gets when it  *)
(* asks for them: a facet value picked as one more filter, in the listing  *)
(* of the same container; an entry of the breakdown by feed, in the        *)
(* listing of that feed; a tag, feed or status of story_query's facets, in *)
(* its results, which pages of one story deliver without gap or repeat.  A *)
(* search under a container looks at the stories the container lists, and  *)
(* a tag, or the feed of stories without one, is listed exactly when a     *)
(* story is under it.  The empty tag is no node and is not counted.        *)
CountsAreListings == lock = None => Snapshot(cache.listed, cache.copy) \in Readable

(* A mutation's effect is where a reader looks for it: each container      *)
(* lists, under each filter, the stories that the account has there, but   *)
(* for the stories whose copy is missing or may differ by another party's  *)
(* doing or a failure.                                                     *)
ListingsFollowAccount ==
  [][Patched =>
       LET store == Snapshot(cache'.listed, cache'.copy)
           truth == [s \in account'.starred |-> CopyOf(account', s)]
           sure  == {s \in Story \ (drifted'.copies \cup drifted'.list) :
                       cache'.copy[s] # None}
       IN \A node \in Container, filter \in Filter :
            Listed(store, node, filter) \cap sure = Listed(truth, node, filter) \cap sure]_vars
=============================================================================
