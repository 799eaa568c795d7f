------------------------------ MODULE MCMutations ------------------------------
(* Two requests out of a menu that names every call of the plugin.         *)
EXTENDS Mutations, TLC

CONSTANTS A, B, b, X,        \* tags: B and b differ in case, X is malformed
          s1, s2,            \* stories
          home, work, other  \* names of folders

MCSameName == {{B, b}}
MCAppTags == {<<>>, <<A, X>>, <<B>>}
MCName == {home, work, other}
MCAppPaths == {[name |-> work, parent |-> other]}

Patch == [kind |-> "patchStory", story |-> s1, read |-> None, set |-> None,
          add |-> None, remove |-> None, force |-> FALSE]

Edit(add, remove) == [Patch EXCEPT !.add = add, !.remove = remove]

TheFeed == CHOOSE f \in Feed : TRUE
AtHome == [name |-> home, parent |-> None]

Menu1 ==
  { Edit(<<B>>, <<X, X>>),
    [Edit(None, <<B>>) EXCEPT !.read = TRUE],
    Edit(<<A>>, <<A>>),
    [Patch EXCEPT !.set = <<B, B>>, !.force = TRUE],
    Patch,
    [kind |-> "createStory", story |-> s2, tags |-> <<A>>],
    [kind |-> "renameTag", tag |-> A, name |-> b, force |-> FALSE],
    [kind |-> "renameTag", tag |-> A, name |-> B, force |-> TRUE],
    [kind |-> "patchFolder", path |-> AtHome, name |-> work, to |-> other],
    [kind |-> "deleteFeed", feed |-> TheFeed] }

Menu2 ==
  { Edit(<<A>>, None),
    [kind |-> "saveStory", story |-> s2, tags |-> <<B>>],
    [kind |-> "deleteStory", story |-> s1],
    [kind |-> "deleteTag", tag |-> B],
    [kind |-> "createFolder", path |-> [name |-> work, parent |-> None]],
    [kind |-> "deleteFolder", path |-> AtHome],
    [kind |-> "subscribe", feed |-> TheFeed, place |-> home],
    [kind |-> "patchFeed", feed |-> TheFeed, name |-> other, from |-> home, to |-> work],
    [kind |-> "patchFeed", feed |-> TheFeed, name |-> None, from |-> None, to |-> work] }

CONSTANTS r1, r2, d1, d2

MCOp == (r1 :> Menu1) @@ (r2 :> Menu2)

(* Two requests that touch the same kind of things: of stories and tags,   *)
(* or of feeds and folders.                                                *)
OfStories(op) == op.kind \in {"patchStory", "createStory", "saveStory", "deleteStory",
                              "renameTag", "deleteTag"}

Related == (\A r \in Request : req[r].op # None)
             => (OfStories(req[r1].op) <=> OfStories(req[r2].op))

(* s2 was saved from a URL, and s1's feed gave it a tag.                   *)
MCFeedOf    == [s \in {s1, s2} |-> IF s = s1 THEN TheFeed ELSE External]
MCStoryTags == [s \in {s1, s2} |-> IF s = s1 THEN <<b>> ELSE <<>>]
MCAge       == [s \in {s1, s2} |-> IF s = s1 THEN 7 ELSE Undated]

MCContainer == {<<"stories">>, <<"feed", TheFeed>>, <<"tag", b>>}
MCFilter == {{}, {[dim |-> "read", value |-> FALSE]}}

(* One story starred, or both; a folder at home, and one yet to be made.   *)
MCAccount ==
  LET Tagged(starred, tags) ==
        [starred |-> starred, tags |-> tags, read |-> [s \in Story |-> FALSE],
         at |-> (d1 :> AtHome) @@ (d2 :> None),
         feedIn |-> [f \in Feed |-> home], title |-> [f \in Feed |-> home]]
  IN { Tagged({s1}, (s1 :> <<A, X>>) @@ (s2 :> <<>>)),
       Tagged({s1, s2}, (s1 :> <<B>>) @@ (s2 :> <<A, X>>)) }

ASSUME UserTagsAreSets /\ StoryTagsAreSets
=============================================================================
