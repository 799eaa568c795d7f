------------------------------- MODULE Traversal -------------------------------
(***************************************************************************)
(* What the plugin and the MCP tools read out of a snapshot of the stories *)
(* (internal/charlie/cgplugin: traversal.go, facets.go, search.go,         *)
(* external_feed.go; internal/bravo/tools: story_store.go, read_index.go,  *)
(* story_query.go, facets.go): listings, facet counts, search scopes,      *)
(* queries.  A snapshot is a function from the hashes of the stories it    *)
(* holds to the parts of their copies that change: [tags, read].           *)
(*                                                                         *)
(* Of the fields that never change there are the feed, the feed's own tags *)
(* and the date; year and month are treated as they are.                   *)
(***************************************************************************)
EXTENDS Integers, TagSets, SequencesExt

CONSTANTS
  FeedOf,    \* of each story: its feed, or External
  StoryTags, \* of each story: the list of tags its feed gave it
  Age,       \* of each story: the days since it was published, or
  Undated,   \*   Undated, which is more
  External,  \* feed 0, of stories saved from a URL
  EmptyTag,  \* "", which NewsBlur may hold and no node is named after
  None       \* an absent value

ASSUME EmptyTagAssumption == EmptyTag \in Tag => EmptyTag \in Malformed

\* Mutant of Snapshot: the list is not consulted.
SnapshotOfCopies(listed, copy) == [s \in {s \in DOMAIN copy : copy[s] # None} |-> copy[s]]

(* storyStore.build: the listed stories whose copy is cached.              *)
Snapshot(listed, copy) == [s \in {s \in listed : copy[s] # None} |-> copy[s]]

-----------------------------------------------------------------------------
(* Nodes: <<"stories">>, <<"feed", f>>, <<"tag", t>>, and others.          *)

HasTag(store, s, t) == t \in TagsOf(store[s].tags) \cup TagsOf(StoryTags[s])

(* Stories, FeedStories, StoriesByTag                                      *)
Children(store, node) ==
  CASE node[1] = "stories" -> DOMAIN store
    [] node[1] = "feed"    -> {s \in DOMAIN store : FeedOf[s] = node[2]}
    [] node[1] = "tag"     -> {s \in DOMAIN store : HasTag(store, s, node[2])}
    [] OTHER -> {}

(* Tags, under the root of tags: those that snapshot.userTags and storyTags*)
(* count, which leave out the empty one.                                   *)
TagNodes(store) ==
  (UNION {TagsOf(store[s].tags) \cup TagsOf(StoryTags[s]) : s \in DOMAIN store}) \ {EmptyTag}

(* feedsWithExternal                                                       *)
FeedNodes(store, feeds) ==
  feeds \cup {f \in {External} : \E s \in DOMAIN store : FeedOf[s] = f}

(* ageBandOf, by the day                                                   *)
Bands == {"today", "this-week", "this-month", "older"}

AgeBand(days) ==
  CASE days <= 0  -> "today"
    [] days \in 1 .. 6  -> "this-week"
    [] days \in 7 .. 30 -> "this-month"
    [] OTHER -> "older"

(* storyFacetValues: the list of a story's values in each dimension.       *)
Dimensions == {"feed", "read", "user_tag", "story_tag", "age_band"}

Facets(store, s, dim) ==
  CASE dim = "feed" -> <<FeedOf[s]>>
    [] dim = "read" -> <<store[s].read>>
    [] dim = "user_tag" -> store[s].tags
    [] dim = "story_tag" -> StoryTags[s]
    [] dim = "age_band" -> IF Age[s] = Undated THEN <<>> ELSE <<AgeBand(Age[s])>>

(* FacetFilter: a set of [dim, value], all of which a node must have.      *)
Matches(store, s, filter) == \A p \in filter : p.value \in TagsOf(Facets(store, s, p.dim))

(* ListEnriched                                                            *)
Listed(store, node, filter) ==
  {s \in Children(store, node) : Matches(store, s, filter)}

(* How often the value is in the stories' lists.                           *)
Occurrences(lists, value) ==
  Cardinality(UNION {{s} \X {i \in DOMAIN lists[s] : lists[s][i] = value} : s \in DOMAIN lists})

(* storyFacetCounts, liftFacets: once for each value in each list; every   *)
(* band is there as soon as a story is.                                    *)
Counts(store, node, filter, dim) ==
  LET matched == Listed(store, node, filter)
      lists   == [s \in matched |-> Facets(store, s, dim)]
  IN [value \in UNION {TagsOf(lists[s]) : s \in matched}
                \cup {band \in Bands : dim = "age_band" /\ matched # {}} |->
        Occurrences(lists, value)]

\* Mutant of ByContainer: the breakdown is of all stories.
ByContainerOfAll(store, filter) ==
  LET matched == DOMAIN store
  IN [f \in {FeedOf[s] : s \in matched} |-> Cardinality({s \in matched : FeedOf[s] = f})]

(* The breakdown of the stories' summary by feed.                          *)
ByContainer(store, filter) ==
  LET matched == Listed(store, <<"stories">>, filter)
  IN [f \in {FeedOf[s] : s \in matched} |-> Cardinality({s \in matched : FeedOf[s] = f})]

(* searchScope                                                             *)
InScope(store, node, s) ==
  CASE node[1] \in {"stories", "feeds"} -> TRUE
    [] node[1] = "tags"  -> store[s].tags # <<>> \/ StoryTags[s] # <<>>
    [] node[1] = "feed"  -> FeedOf[s] = node[2]
    [] node[1] = "tag"   -> HasTag(store, s, node[2])
    [] node[1] = "story" -> s = node[2]
    [] OTHER -> FALSE

-----------------------------------------------------------------------------
(* story_query without words, and the facets that it is chosen from.       *)

Asks(query, field, value) == field \in DOMAIN query => query[field] = value

(* storyStore.build: the snapshot's stories, newest first.                 *)
Newest(store) ==
  CHOOSE order \in SetToSeqs(DOMAIN store) :
    \A i, j \in DOMAIN order : i < j => Age[order[i]] <= Age[order[j]]

(* queryDetailed: those of them that have what is asked for.               *)
Selects(query, store, s) ==
  /\ "tag" \in DOMAIN query => query.tag \in TagsOf(store[s].tags)
  /\ Asks(query, "feed", FeedOf[s])
  /\ Asks(query, "read", store[s].read)

Query(store, query) ==
  LET order == Newest(store)
  IN Picked(order, {i \in DOMAIN order : Selects(query, store, order[i])})

Page(results, offset, limit) ==
  SubSeq(results, offset + 1,
         IF Len(results) < offset + limit THEN Len(results) ELSE offset + limit)

(* storyStore.facets: of the tags, all but the empty one.                  *)
ByTag(store, t)    == Occurrences([s \in DOMAIN store |-> store[s].tags], t)
ByFeed(store, f)   == Cardinality({s \in DOMAIN store : FeedOf[s] = f})
ByStatus(store, r) == Cardinality({s \in DOMAIN store : store[s].read = r})
=============================================================================
