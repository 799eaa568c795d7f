-------------------------------- MODULE TagSets --------------------------------
(***************************************************************************)
(* The edits of a story's user tags (internal/charlie/cgplugin/tags.go and *)
(* PatchCachedUserTag of internal/alfa/newsblur/starred_tags.go): lists of *)
(* tags that stand for sets.                                               *)
(***************************************************************************)
EXTENDS Sublists

CONSTANTS
  Tag,        \* tags
  Malformed   \* those that checkTag refuses, which NewsBlur may hold all the same

ASSUME MalformedAssumption == Malformed \subseteq Tag

TagsOf(list) == {list[i] : i \in DOMAIN list}

(* checkTag, of every tag of the list.                                     *)
Writable(list) == TagsOf(list) \cap Malformed = {}

(* The list without repetitions, in the order of the first occurrences.    *)
Distinct(list) ==
  Picked(list, {i \in DOMAIN list : \A j \in 1 .. i - 1 : list[j] # list[i]})

Without(list, tags) == Picked(list, {i \in DOMAIN list : list[i] \notin tags})

ApplyTagEdit(current, add, remove) ==
  Distinct(Without(current, TagsOf(remove)) \o add)

SameTagSet(a, b) == Len(a) = Len(b) /\ TagsOf(b) \subseteq TagsOf(a)

(* A tag renamed, or dropped, in one story's list.                         *)
Renamed(list, old, new) ==
  Distinct([i \in DOMAIN list |-> IF list[i] = old THEN new ELSE list[i]])

Dropped(list, old) == Distinct(Without(list, {old}))
=============================================================================
