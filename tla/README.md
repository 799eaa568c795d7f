# nebulous: models and proofs

nebulous keeps a local copy of a NewsBlur account and serves it: `nebulous fetch`
(a timer starts it) downloads the account into a cache, `nebulous serve mcp`
and the cutting-garden plugin `nebulous traversal-serve` answer from the cache,
and both serving processes may change the account and patch the cache
themselves. This directory holds TLA+ models of that program, the TLC
configurations that check them on small instances, and proofs that TLAPS checks
for every value of the constants.

Run TLC with `tlc -config X.cfg M.tla` (the table under *Runs* pairs them) and
the proofs with `tlapm ManifestProofs.tla`, and so on for the other `...Proofs`
(`MutationsProofs` takes about ten minutes, the others up to three).
`PROJECT.json` maps every definition to the lines it models.

## The system

| Component | Source | State | Operations |
|---|---|---|---|
| Blob store | `internal/0/madder` | files by digest | write (once, committed on close), read |
| Cache manifest | `internal/0/manifest` | `manifest.json`: key -> entry; per process a copy, the modification time it remembers, the time of its last check | open, `Lookup`, `All`, `ForceRefresh`, `Record`, `RecordBatch`, `Delete` |
| Response cache, client | `internal/alfa/newsblur/{cache,client,stories,feeds}.go` | a count of local writes; session cookie | cached get, put, live get and post, local patches |
| Starred-story sync | `cmd/nebulous/{main,refresh}.go`, `newsblur/{sync_state,reader,cache_patch,starred_tags,save_story}.go` | hash list, story copies, `StarredSyncState` (stamp per story, `FullSyncAt`) | fetch phases 2 and 3b; the plugin's mutations and patches |
| Serving snapshots | `internal/bravo/tools/{stale_cache,story_store,feed_index}.go` | a snapshot each, its stat and its count of writes | `current()` |
| Capture scan | `cmd/nebulous/capture.go`, `newsblur/capture_state.go`, `alfa/capture` | watermark, record per (story, format), registry of formats, last-scan stamp | phase 4 of fetch; `nebulous capture [--backfill]` |
| Original text | `cmd/nebulous/original_text.go`, `newsblur/original_text_status.go` | answer or failure stamp per story | phase 3 of fetch: missing ones first, then the oldest retries, up to a cap |
| Rate-limit backoff | `cmd/nebulous/main.go` | base wait, extra wait | learn, grow, reset |
| Word index | `alfa/wordindex`, `bravo/tools/word_*.go`, `cmd/nebulous/index.go` | `words.idx` (postings, digest of the story set) | build and swap, reopen, look up |
| Queries and facets | `bravo/tools/{story_query,facets,corpus,read_index}.go` | none (functions of a snapshot) | filter, order, count |
| MCP tools | `bravo/tools/{reader,feeds,import_export,registry}.go` | none of its own | bulk mutations, OPML |
| Plugin mutations | `charlie/cgplugin/{mutate,create_child,tag_mutate,tags,bulk_mutate}.go` | `mutateMu`, one mutation at a time | stories, feeds, folders, tags |
| Plugin traversal | `charlie/cgplugin/{traversal,facets,search,leaf,url}.go` | memo keyed by the facet version | list, read, facet |
| Plugin process | `cmd/nebulous/traversal_{serve,config}.go`, `token.go` | credential, fetched on first write | start, shutdown on EOF |
| Migration | `cmd/migrate-cache` | none | copies an old cache into the manifest |

How they interact. All processes share two things only: the blob directory and
`manifest.json`. A value is written as a blob first and entered in the manifest
second, so an entry never names half a blob; the interesting races are between
processes that save the manifest, and between a process's copy of it and the
file. Inside a serving process the caches call each other: a write of the
response cache is counted, and the count invalidates the story store; building
the feed index writes the titles it has seen, which is again a write. Fetch and
the plugin talk to NewsBlur and never to each other; what one believes about the
account can be out of date the moment the other, or one of NewsBlur's apps,
changes it.

What is hard here: there is no lock between processes (manifest, hash list,
story copies, format registry and watermark are all read, changed and written
back); staleness is decided by modification times, debounces and counters;
fetch runs for hours, may be interrupted or killed anywhere and must repair
itself in a later run; NewsBlur reports neither a version nor a deleted tag;
single saves of a longer operation fail and the operation goes on.

What makes each part correct, in a sentence each:

- **Manifest**: a process answers with what the file holds, up to changes it
  could not have seen yet; a save changes what its caller asked for and nothing
  else; changes of other processes arrive.
- **Sync**: a story the incremental refresh passes over needs no download; once
  the account rests the cache becomes the account; an interruption costs time
  and no data.
- **Snapshots**: a read after a local write sees it; an unchanged stat means an
  unchanged content; rebuilding ends.
- **Capture**: every eligible pair is captured in the end, a stamped scan left
  nothing out, the registry knows every format that has a record.
- **Mutations**: an edit changes what its caller named; what failed is reported
  as failed and what landed as landed; the cache patch agrees with the account.
- **Original text**: every missing text is asked for, failed ones again and in
  turn, and no sooner than NewsBlur allows.
- **Word index**: it covers the stories its digest names, or is rebuilt; an
  answer is true, and says so when it may miss something.
- **Listings and counts**: whatever a reader is offered to pick from is there
  when it is picked, and a mutation's effect is where a reader looks for it.

`PROJECT.json` lists the hazards behind these sentences, each at its line.

## Modules

| Module | Models | Abstract from / to |
|---|---|---|
| `CacheMap` | keys, entries, edits | data of the next two |
| `SharedMap` | what the manifest promises: one map, changed edit by edit | abstract specification |
| `Manifest` | `manifest.go`, any number of processes | implements `SharedMap` when edits do not overlap |
| `StarredSync` | fetch's phases 2 and 3b, the plugin's story mutations, the apps | |
| `StaleCache` | `staleCache` under the story store and the feed index | |
| `Capture` | the capture scan of fetch beside a manual one | |
| `Sublists` | what a loop that appends some elements of a slice makes of it | a pure operator |
| `TagSets` | the tag-set edits of `tags.go` and `starred_tags.go` | pure operators |
| `Traversal` | listings, facet counts, search scopes, queries | pure operators of a snapshot |
| `Mutations` | the plugin's mutations, the apps, another fetch | uses `TagSets` and `Traversal` |
| `TextIndex` | fetch's text and index phases, `nebulous index`, the searches of a serving process | |
| `ManifestProofs`, `StarredSyncProofs`, `StaleCacheProofs`, `CaptureProofs`, `MutationsProofs`, `TextIndexProofs` | theorems about the module of that name | |
| `SublistsProofs` | the lemmas on lists that the next ones cite | |
| `TraversalProofs` | lemmas about the operators of `TagSets` and `Traversal` | |
| `MC*` | instances for TLC | |

`Manifest` is the bottom layer. The modules above it treat one manifest
save as one step: what the window inside a save does is said by `Manifest`, and
repeating it in them would multiply their states without a new question. What
they do keep is every gap *between* two saves or between a read and the save
that depends on it. (`Mutations` is the exception: a cache patch is one step
there, because `StarredSync` has its two halves against fetch, and the questions
of `Mutations` lie between calls and patches.)

### Manifest

A process has one program counter, because `m.mu` serialises its operations:
`down`, `opened` (loaded, not stat'ed), `idle`, `checking` (stat'ed, about to
reload), `loaded` (reloaded for an edit), `saving`, `saved` (renamed, not
stat'ed). `mem`, `seen` and `recent` are `m.entries`, `m.lastMtimeNanos` and the
debounce. `NewManifest` is `Open; OpenStat`; `refreshIfStale` is `Lookup` or
`ForceRefresh`, then `Refresh`; `Record`, `RecordBatch` and `Delete` are
`Reload; Merge; Rename; SavedStat`. Every load can fail (`RefreshFails`,
`MergeUnread`), every save (`SaveFails`), and a process can die between any two
steps (`Crash`). A modification time is the number of the save, never repeated.
Three history variables (`changed`, `phantom`, `raced`) let the properties say
exactly which windows are excepted.

### StarredSync

A story copy is its set of user tags, for these are what an account changes;
NewsBlur's stamp of a story is the second of its last save, which two saves may
share. The fetch goes through `list`, `starred` (phase 2), `refresh` and
`record` (a chunk of phase 3b), `counts` and `holders` (stories with a deleted
tag); `just`, `live`, `wrec` and `full` are its locals of those names
(`justFetched`, live stamps, `state.Timestamps`, `plan.Full`). A mutation of the
plugin changes the account and then owes its cache patches: the hash list is
read and put in two steps, the copy in one or, for a saved story, in a download
and a put. `Interrupt` is an error or a cancelled context (phase 3b saves what
it has), `Kill` the end of the process, `MutationLost` the end of the plugin,
`StoreFails` a story that is skipped. Phase 3b ends early only with chunks left to
download: with none, it saves stamps and `FullSyncAt` together. A patch of the
list or of the copy may fail on its own (`PatchFails`), and the other is made all
the same. A chunk and a batch hold one story, one fetch runs at a time (a second
one would wait for the timer's unit), and `CountTags` compares account and cache
in one step. It looks at no tag that is empty or not trimmed (`untrimmed`), which
NewsBlur's counts need not list: such a tag deleted in an app is noticed by a
full re-sync only, and `Faithful` says so.

### StaleCache

The story store and the feed index of one process. `Call; Read; Install` are
`current()` and its build (`titles` is the feed index's extra save), `Stat` what
each watches, `Write; CountWrite` a mutation's save and the counter's increment,
`ForeignSave` and `SwapIndex` a fetch beside it. Calls that answer from the
snapshot change nothing and are left out, and with them the one-second debounce.
A save of this process may leave the file's time unmoved, and the feed index is
built whether or not the titles it has seen can be saved. A refresh of the
manifest and a save are one step.

### Capture

`scan[p]` holds the locals of `runCaptureLoop` in fetch and in a manual run.
`ReadWatermark`, `PutWatermark`, `ListStories`, `NextStory`, `NextFormat`,
`Captured`/`CaptureFails`, `PutRecord`, `ReadFormats`, `PutFormats` and
`PutLastScan` are its file accesses and tool calls in their order; `SaveFails`,
`Interrupt` (a cancelled context is looked at before each story; within one the
tool is killed and its pair counts as failed) and `Kill` go wrong at any of
them. A blob that cannot be read looks like an entry that is not there
(`cache.go`), so a failed read of the watermark sets a new one and a failed read
of the registry starts an empty one. Stories and formats are taken in any order,
stories are not unstarred, the tool's output is one outcome. An unreadable
last-scan stamp and a missing tool are left out: they only add or skip a scan.

### TagSets, Traversal and Mutations

A story has a list of user tags, as the code has: `TagSets` edits lists, and
their order and repetitions matter where `sameTagSet` compares lengths. A loop
that appends some elements of a slice to a new one is `Picked(list, I)`: the
positions `I` in their order.
`Traversal` reads a snapshot (a function from hashes to `[tags, read]`):
`Children` is what `Stories`, `FeedStories` and `StoriesByTag` return, `Listed`
is `ListEnriched` with a filter, `Counts` and `ByContainer` are what
`storyFacetCounts` sums up, `InScope` is `searchScope`, `Newest` is the order in
which `build` sorts a snapshot (one of the orders by date: `sort.Slice` is not
stable), `TagNodes` the tags that have a node (the empty one, `EmptyTag`, has
none), `Query` what `queryDetailed` picks from it without words, `Page` a page of
that, `ByTag`, `ByFeed` and `ByStatus` the facets of
the `stories/facets` resource.

In `Mutations` a request is an `op` (the node and the decoded body, `Operations`
says which there are). `Submit` is
everything up to `mutateMu.Lock`: the existence check against the index
(`Found`), a body that names no known field (`NothingAsked`), the checks of the
body (`Refused*`), and what the index is asked for before the lock (`known`: a
tag's holders, a feed's folder). `Calls` lists the calls of the handler in their
order; after `Lock` each is an action of its own (`MarkRead`, `LiveTags`,
`EditTags`, `ReadCounts`, `ChangeTag`, `RenameFolder`, `MoveFolder`, ...). A
write can land and its answer be lost (`Landing`), or fail and change nothing
(`Fails`: transport errors, rate limits, a credential that cannot be had, and
the negative codes that `mutationFailure` finds in a 200). `PatchCache` is the
patch after a write: either half of it may fail, silently, as in the code. The
deferred unlock is in `Answer`. `OtherParties` tag, star, read and move in the
apps, and another process fetches.

NewsBlur is modelled by what the code's comments say was seen of it: starring
replaces the tags, renaming a tag on to another joins them, a feed is moved or
removed only from the folder it is in, and a call for a folder that is not there
is answered like any other.

`account`, `cache`, `lock` and `req` are the state; `target`, `since` and
`drifted` are history: the folder a request means, what the apps did since the
lock was taken (or, for tags, since the live read), and which cached entries
another party, a failure or a tag's late holder made differ.

### TextIndex

A story has one word of its copy, which is another one once the story was edited
in the account and downloaded again (`amended`), and one of its text, which is
`missing`, `failed` or there; `failed` holds the failed answers in the order of
their stamps, and the retry interval is a choice of how many of them are old
enough. `fetch` holds the locals of `fetchAll` (`changed` is what
`runFetchIndexPhase` is told), `backoff` is `adaptiveBackoff` in seconds, with
`peak`. `build` is `BuildWordIndex` of fetch and of `nebulous index`, story by
story; `Swap` is the rename at the end of `WriteFile`. `Stat; Refresh; Lookup;
Answered` are `SearchWords` over the holder that concurrent searches share;
`ListStore; OpenIndex; LoadStories` are the build of the snapshot that
`story_query` uses, which keeps the index it opened or tokenizes in memory.
`Mutate` is a story starred, saved or unstarred meanwhile, or edited and
downloaded again. `Interrupt` ends a run anywhere; so does `-no-index` before the
index phase. `RefreshStories` is phase 3b: it downloads stories again, edited
perhaps, and sets `changed` when it has counted one; `RefreshFails` is one whose
chunk fails partway, so that copies have changed and none is counted.

`owed` records that the file may be older than the cache without fetch being
able to tell (a run that ended, a copy replaced by another party or by a refresh
that failed), `ahead` which failed answers a story has to wait for (those that
were there before its own and were not asked for since, of the stories that
stayed starred: a run does not plan a retry for a story that was not starred when
it read the list, and starring it again meanwhile changes nothing), `cleared`
the longest wait that ended a burst, `calm` the readers during which nothing
moved. No action reads them.

## Runs

| Run | Module, cfg | Distinct states | Shows |
|---|---|---|---|
| manifest | `MCManifest`, `Manifest.cfg` | 1,449,352 | two processes, two keys, three saves, every failure: `ReadsCommitted`, `StampedIsCurrent`, `SavesKeepOthers` |
| manifest_serial | `MCManifest`, `ManifestSerial.cfg` | 47,708 | non-overlapping edits implement `SharedMap`; changes arrive |
| manifest_stamp | `MCManifest`, `ManifestStamp.cfg` | violation | the stat after a load or rename may be another file's |
| sync | `MCStarredSync`, `StarredSync.cfg` | 1,324,840 | two stories, two changes, one fault: `SyncedIsCurrent`; the cache converges to the account, with and without full re-syncs, and with tags the counts leave out (`EventuallyFaithful`); the holders of deleted tags are not downloaded for ever (`HoldersSettle`) |
| sync_race | `MCStarredSync`, `StarredSyncRace.cfg` | violation | a save between phase 2 and the stamps |
| sync_resume | `MCStarredSync`, `StarredSyncResume.cfg` | violation | a full re-sync that was interrupted starts over |
| stale | `StaleCache`, `StaleCache.cfg` | 1,322,179 | local writes are served, the shortcut is right, the caches catch up and rest |
| capture | `MCCapture`, `Capture.cfg` | 735,929 | fetch's scan and a manual one, one fault: registry, no gap, every pair captured |
| capture_watermark | `MCCapture`, `CaptureWatermark.cfg` | violation | two first scans both set a watermark |
| mutations | `MCMutations`, `Mutations.cfg` | 698,629 | `TagsLostOnlyOnRequest`, `AnswerIsTrue`, `NoSilentMerge`, `CacheFollowsAccount`; every count is a listing (`CountsAreListings`) and listings follow the account (`ListingsFollowAccount`); no request waits for ever |
| texts | `MCTextIndex`, `TextIndex.cfg` | 2,754,505 | `IndexCoversTexts`, `HolderIsCurrent`, `SearchAnswers`, `NoteTellsAll`, `RetriesInTurn`, `WaitsAreLearned` |
| texts_backoff | `MCTextIndex`, `TextIndexBackoff.cfg` | violation | once the learned base exceeds the maximum, waits shrink to nothing |

**Bounds.** A lost update needs two writers and two keys (the edited one and the
one lost), and three saves let a process carry on from each of them; that is
`Manifest.cfg`. In the sync runs one change creates a story and one falls into a
window of the fetch, and two stories let one be stored while the other waits.
`setting` is fixed in a behaviour: full re-syncs, or none, and then the tag is
either an ordinary one or one a refresh does not look for (`MCSetting`).
One fault falls anywhere; two faults hold as well for ordinary tags (2,092,149
states), which is too long for the regular run. In `StaleCache.cfg` one foreign change and one local write meet
the two caches' own saves, which already chase each other. In `Capture.cfg` one
story lies before the first scan and one after it, fetch captures both formats
and the manual scan one of them, so that the two work on the same pair and on
different ones; one pair always fails, and the one fault can be any save, read,
interrupt or kill. `Linkless` is empty there: a linkless story is passed over in
one step.

`Mutations.cfg` has two requests, each with one operation out of a menu that
together name every call, over two stories (one saved from a URL, one whose feed
gave it a tag), four tags (two differ in case, one is the empty one), two folders
and a feed. Two changes by others put one before the lock and one after it, or
both between two calls of a request; one fault is any call or half of a patch.
`Related` leaves out pairs of an operation on stories with one on feeds or
folders, which share nothing but the lock. `CountsAreListings` asks that the
snapshot is among those whose counts agree, which TLC finds once: all those over
lists that repeat no tag (`Lists`). Another list would be reported. Lists with a
repeated tag do not come up, though one request removes a tag twice:
`MCMutations` assumes of the instance what the proofs take as a hypothesis.

`TextIndex.cfg` splits its bounds into eight kinds of behaviour, so that each
question has the budget it needs: two runs with five rate-limited answers (one
burst that teaches a base above the maximum, and enough after it for the addition
to turn negative and to double); two runs while a story is unstarred and starred
again, which may put it behind another; two runs, a build by hand, a mutation and
a fault; a run, a build and a mutation with three searches by two readers; and
the same with the snapshot of `story_query`; and these last three once more with a
refresh of phase 3b and a fault in place of the mutation. The
cap is one retry in a run, so that two failed answers compete for it.

Every counter that would grow is bounded by a constant whose name
starts with `Max`, and the bound stands in a guard.

Symmetry is used only in runs without liveness properties and over model values
the modules never tell apart. `CHECK_DEADLOCK FALSE` stands where the system may
rest: the stale caches when nothing changes, `TextIndex` when its budget is
spent, and the violation run of the manifest when its saves are used up. In
`Mutations` deadlock is checked: `AllAnswered` is the only state it may stop in,
so a lock that is not released, or a request that nothing answers, is an error.

**Fairness.** An operation that has begun goes on (weak fairness of its steps):
every step of it is the process's own, but for the requests to NewsBlur and the
calls of the capture tool. Neither has a time limit in the code (`http.Client{}`
in `client.go`, `CommandContext` in `capture.go`), and the fetch service is a
oneshot unit that systemd does not start twice: that each of them returns, with
an answer or an error, is an assumption about the network and the tool. Without
it one hung call holds off every later fetch, and no liveness property holds.
The timer starts fetch again (`StartFetch`, `ReadHashes`); the full re-sync and
the capture interval are clock time and pass. In `Manifest` the clients of a
serving process keep asking; a look at the file is only enabled between other
operations, hence the strong fairness of `Expire`, `Lookup` and `Refresh`. In
`StaleCache` reads keep coming. `Mutations` and `TextIndex` state safety only and
assume no fairness. Nothing is assumed of the account, of the apps,
of mutations starting, or of scans started by hand. Failures are never fair, and
the liveness properties are about behaviours in which they end: each bound on
them does that, and "the account rests" is part of the property or of the bound.

## What disagrees with the text

- `manifest.go:255` (also 63 and 205): the stat is taken after the load or the
  rename and may read the time of another process's newer file, which then is
  never reloaded until some later save; `manifest.go:89-91` promises it is.
- `refresh.go:149`: a story saved between its download in phase 2 and the reading
  of the stamps is recorded with the new stamp over the old copy;
  `main.go:448-450` and `refresh.go:62` call it current.
- `refresh.go:74`: an interrupted full re-sync downloads again what it had
  recorded; `refresh.go:36-38` says it resumes.
- `capture.go:85`: two first scans both set the watermark; `capture_state.go:184`
  says it is set once.
- `main.go:506`: once the learned base exceeds the maximum, the addition is cut to
  a negative number and goes on doubling, which no cut ends: the waits of the
  next long burst go 401, 300, 200, 0 seconds, and then fetch asks again at once.
  `main.go:482` calls the base a learned floor. (`WaitsAreLearned` claims what is
  left: the first wait of a burst is longer than the learned one, and no wait is
  shorter than NewsBlur asks for.)

Smaller ones, met while modelling; a property claims only what holds, and the
exception is in the model or named here:

- `mutate.go:392-393`: the checks before any write are to leave no body half
  applied. A `remove_tags` that would empty the set is refused by
  `editStoryTags`, after the read state has landed. (`Done` is asked of `ok`
  answers only.)
- `index.go:14-22`, `word_index.go:100-104`: a run that fetched texts and ended
  before its index was built leaves an index that every later run takes for
  current until the set of stories changes; and an index begun earlier may be
  renamed over a later one. (`owed`.) The serving side then uses it as current
  and does not fall back to memory, and `story_query` gives no note.
- `capture_state.go:61`: the record and the registry are two saves; a scan that
  ends between them leaves a format unlisted, and its record keeps later scans
  from the pair. `capture_state.go:98`: two scans that update the registry at the
  same time lose one of two formats. `capture_state.go:71-72` says it lists every
  format that has a record. (`Registered` without `hurt` is violated in 11 states
  with one fault, in 21 without.)
- `refresh.go:167`: a chunk that fails partway has stored stories and is not
  counted; fetch then takes nothing for changed and keeps an index without their
  new words. `refresh.go:222-223` says that the phase reports whether any cached
  story was re-downloaded. (`RefreshFails`, `owed`; an edit by the plugin leaves
  the index behind in the same way.)
- `word_search.go:113-116`: the hits of a list that may be incomplete "are
  correct". Until the index is built again, a story that was edited and downloaded
  again is still found by a word it no longer has. (`SearchAnswers` claims a word
  the story has ever had, and more only when the index is not `owed` a rebuild.)
- `tags.go:104`, `mutate.go:492`: `sameTagSet` compares lengths and looks in one
  direction. If NewsBlur's list held a tag twice, `A, A`, adding `B` would give
  `A, B`, "the same set", and be answered ok without a write. The code's own
  edits write no such list, and whether the apps can is not known.
- A story that is unstarred keeps its cached copy, and `createStory` asks for a
  copy: starring it again is refused until the copy is gone. A story that an app
  starred is not known yet, and creating it replaces its tags.
- `tag_mutate.go:59`, `mutate.go:632`: a tag's holders and a feed's folder are
  read before the lock. (`known`, `drifted`.)
- `cache_patch.go:104`: the patch of a list can bring back a story that an app
  unstarred and a fetch has already dropped. (`Fetch` sets `drifted` for it.)
- `original_text.go:88`: a retry that ends in an error keeps its stamp; with the
  cap, stories that always end so take the same places in every run.
- `facets.go:195-215` (plugin): the version of `feed/{id}` is the unread count,
  which neither a new tag nor a star moves, though both are facets; and the
  manifest's time moves with mutations too, not only with fetch.
- `resources.go:244`: the feed facets count the feeds that have an indexed word.
- `tools/facets.go:43`: the title beside a feed's count is that of a story.
- `facets.go:516` (plugin), `tools/facets.go:38`: a tag that a list holds twice
  is counted twice and listed once; the code's own edits write no such list.
- `story_query_tool.go:105`: `total` is the number of results on the page.
- `migrate-cache/main.go:134`: a key is looked up long before the batch that
  records it, so that "entries already present are preserved" does not hold for
  one that another process records meanwhile.

## Proofs

TLAPS checks these for every set of processes, keys, entries, stories, formats,
dates, requests and operations, and every bound. The assumptions are the named
`ASSUME`s of the modules, which TLC evaluates in the runs: the bounds are natural
numbers; `Missing`, `None` and `NoCopy` are none of the values they stand beside;
the stories of `TextIndex` are finitely many and `"store"` is not the name of a
search; the requests, the apps and the first account of `Mutations` have the
types the code gives them, and no outcome is none (`PartiesAssumption`,
`AccountAssumption`), the empty tag is a malformed one (`EmptyTagAssumption`), a
filter names dimensions that exist (`FilterAssumption`), the nodes read are of the three kinds and the feed of stories
without one is not a feed (`NodesAssumption`), stories and tags are finitely many,
each with its feed's tags and its age (`StoriesAssumption`). `CONSTRAINT`s and the
menus of the `MC` modules play no part in the proofs.

| Theorem | Says |
|---|---|
| `ManifestProofs!TypeCorrect` | `TypeOK` of Manifest |
| `ManifestProofs!AnswersCommitted` | `ReadsCommitted` |
| `ManifestProofs!ShortcutIsRight` | `StampedIsCurrent` |
| `ManifestProofs!LossesOnlyInWindow` | `SavesKeepOthers` |
| `ManifestProofs!SerialRefinement` | `SerialSpec` implements `SharedMap` |
| `StarredSyncProofs!TypeCorrect` | `TypeOK` of StarredSync |
| `StarredSyncProofs!RecordedStampsVouch` | `SyncedIsCurrent` |
| `StaleCacheProofs!TypeCorrect` | `TypeOK` of StaleCache |
| `StaleCacheProofs!LocalWritesAreServed` | `LocalWritesServed` |
| `StaleCacheProofs!ShortcutIsRight` | `ShortcutIsCurrent` |
| `CaptureProofs!TypeCorrect` | `TypeOK` of Capture |
| `CaptureProofs!RegistryComplete` | `Registered` |
| `CaptureProofs!NoGapBehindTheStamp` | `StampedScanLeftNoGap` |
| `TraversalProofs!EditKeepsOthers` | an edited list has what it had and is not to be removed, and what is to be added |
| `MutationsProofs!TypeCorrect` | `TypeOK` of Mutations, mutual exclusion included |
| `MutationsProofs!MergesOnlyByApps` | `NoSilentMerge` |
| `MutationsProofs!TagsAreKept` | `TagsLostOnlyOnRequest` |
| `MutationsProofs!CacheFollows` | `CacheFollowsAccount` |
| `MutationsProofs!ListingsFollow` | `ListingsFollowAccount` |
| `MutationsProofs!AnswersHold` | `AnswerIsTrue`, where NewsBlur repeats no tag |
| `MutationsProofs!StoredIsConsistent` | in every snapshot whose lists repeat no tag, every count is a listing |
| `MutationsProofs!CountsMatch` | `CountsAreListings`, where NewsBlur repeats no tag |
| `TextIndexProofs!TypeCorrect` | `TypeOK` of TextIndex |
| `TextIndexProofs!RetriedInTurn` | `RetriesInTurn` |
| `TextIndexProofs!IndexCovers` | `IndexCoversTexts` |
| `TextIndexProofs!AnswersAreTrue` | `SearchAnswers` |
| `TextIndexProofs!NotesTellAll` | `NoteTellsAll` |
| `TextIndexProofs!HolderCurrent` | `HolderIsCurrent` |
| `TextIndexProofs!WaitsLearned` | `WaitsAreLearned` |

*Manifest.* `ReadsCommitted` is inductive only together with its boundary cases:
a process that is down holds nothing, and before the first save nobody can have
changed anything (`MemoryInv`). A remembered time equal to the file's says that
nobody saved since the process read the file, unless the stamping was raced
(`StampInv`). `IInv` is both and the types. `ReadsCommitted` and
`StampedIsCurrent` follow at once, `SavesKeepOthers` because a rename writes the
memory, which differs from the file only where `MemoryInv` lets it. For the
refinement `SerialInv` adds that the one process inside an edit has seen every
change and holds its own edit, so that its rename is `Commit` of that edit and
every other step a stutter.

*StarredSync.* `SyncedIsCurrent` speaks of a recorded stamp, which is made out of
one that was read earlier and over a copy that was put before or after that. So
the invariant follows every stamp the fetch has in hand: none is later than the
story's own (`StampInv`), and one that equals it, recorded, about to be recorded
(`wrec`), or implied by phase 2's download, vouches for the copy (`VouchedInv`). A
story under way (`got`, downloaded and not yet put) holds the account's tags, or
none of the stamps in hand is the story's, so that putting it can make no stamp
vouch for what it does not say (`ComingInv`). A save of the account raises the
stamp, hence no old one vouches. Where it does not, the history variables carry
the exception through the proof: a deleted tag (`gone`), a second save in the same
second, a patch that another change has overtaken or a download that could not be
stored (`suspect`), a save between phase 2's download and the stamps (`raced`).

*StaleCache.* A snapshot is right if its stamp and its count were taken before
what it holds was read. `CallInv` says so of a call that is under way and
`ShownInv` of the snapshot served: both are `Earlier`, and if nothing has moved
since (`Unmoved`) the content read is the content of the file (`Reads`). `MemInv`
adds that the process's own saves are in its copy of the manifest and that an
unmoved time means the copy is the file, `CountInv` that a mutation saves before
it counts, `FeedsInv` that the feeds do not vanish, `BoundInv` that bounds add up.

*Capture.* `Registered` alone is not inductive: saving a registry that was read
before could drop a format. `RegInv` adds that, outside the windows `hurt`
records, at most one scan is about to save the registry and what it read is still
what the registry holds. For the stamp, `GapInv` follows what fetch listed through
the loop: each pair is of a story still to come, still to do, being worked on,
recorded, or failed; the stories listed stay eligible, since the scan's watermark
and mode do not change after the listing; and the loop is left only when nothing
is to come or to do. Steps of the other scan only add records.

*Sublists and TagSets.* The rank of a position among those picked is its position
in the result; `Rank` is a bijection from `I` to `1 .. Cardinality(I)`, by
counting and with no induction. From it: a picked list has the elements at `I` and
no others, keeps their order, and repeats none if the list did not. `TraversalProofs`
needs the first (`EditKeepsOthers`: an edit of tags keeps what it does not name),
`TextIndex` all three.

*Mutations.* Which call a request is at, and what it may rest on, is `PlanOK`: what
is left of its `todo` is an end of a plan that its operation allows, in which a
live read (`LiveTags`, `ReadCounts`) stands right before the write it decides and
in front of it nothing but a read state. With the lock, that is `RequestsOK`: the
other requests are not past `Lock`. What a live read promises the write is
`MergeInv` (every tag counted that the new name would meet, an app has set since)
and `EditInv` (what the account's list has over the edited one is asked to be
removed, or an app added it since); both hold until the write because only apps
can step in. A landed write is in the account until its patch (`WrittenInv`),
except where an app changed the thing again. `CopyInv` and `ListInv` then say that
the cache *as the patch that is due will leave it* (`PatchOf`, `WouldList`) agrees
with the account: a call moves the account and makes a patch due, the patch makes
it so, a fault or an app puts the story among the `drifted`. With no lock held that
is `CacheFollowsAccount`, and `ListingsFollowAccount` follows from it alone, since
a listing under a filter tells lists of tags apart only by their sets.

*Mutations, answers.* An `ok` comes at the end of a plan and speaks of all of it.
`HandInv` says what is left of a plan: a rename is its first call, a move its last,
and the call that writes the tags that were asked for comes last, so that one is
still to come or is the one just made. `ProgressInv` says what the calls made so
far have left in the account, but for the things another party has touched: the
read state, a story's tags, where the folder is, a feed's title. What has landed
just now is `WrittenInv`. `FeedInv` is for `deleteFeed`: where no party has moved
a feed, the folder that the index told before the lock is still the feed's.
One `ok` needs more: a live read whose edit would leave "the same set" is answered
without a write, by `sameTagSet`, which compares lengths. For a list that repeats a
tag that is wrong (see *What disagrees with the text*), so the theorem has
the hypothesis `UserTagsAreSets`: NewsBlur's lists of a user's tags, those of the
first account and those the apps write, repeat none. `Unrepeated` shows that then
no list ever does, in the account, in a copy or in a request's hands: each write
and each patch goes through `Distinct`. The hypothesis is about NewsBlur and
not taken as an `ASSUME`; `MCMutations` asks TLC to evaluate it for the instance.

*Counts.* `CountsAreListings` is a fact about snapshots, not about steps:
`StoredIsConsistent` proves it for every snapshot without a repeated tag, of any
number of stories, and `Unrepeated` says the cache is one. A facet counts
occurrences of a value in the stories' lists, a listing counts stories, so the two
agree only where a story has a value once; for the feeds' own tags, which are
values too, that is `StoryTagsAreSets`. What `Query` returns is the filtered order
of `Newest`; that such an order exists is shown without induction over the stories,
by the rank of each one among those before it (`NewestIsAnOrder`), and that it
loses and repeats none by counting (`InjectionIsOnto`).

*TextIndex, texts.* `RetriesInTurn` says of the story asked for now what has to be
known of all the queue: the stories that `x` waits for are before it in `failed`
(`AheadInv`), fetch's plan holds each story once, none with a text, and in front
of a failed one all that it waits for (`InTurn`), which a plan has because it
takes the oldest first (`RankMonotone`: cutting and picking keep the order).
Trying to prove it showed that the property as first stated was false with two
changes, a story unstarred and starred again while a run is on its way; the
definition of `ahead` says now what the code does, and the regular run has those
two changes.

*TextIndex, index and searches.* No build and no file holds a word that the
story has never had in the cache, or, without an excuse, one that it no longer
has; and a word that is missing has an excuse: `owed`, a run that has changed
something and will build again, a build that is `late`, or a story the build has
still to read (`CoverInv`). With fetch idle only `owed` is left, which is
`IndexCoversTexts`. For the answers, `ServeInv` says what a reader holds: an index
whose words the stories have or had, hence no hit that was never true; and while
it is `calm`, nothing is being fetched or built (`Quiet`), what it has looked at is the file, and the
snapshot's list is the list.

*TextIndex, holder and waits.* `HolderIsCurrent` needs to know that every stamp a
search or the holder remembers is that of a swap that has happened (`Past`): then the file that
is renamed into place next has a stamp none of them holds. That it is no absent
value needs `BuildInv`, which says what a build writes, and `NoneAssumption`. For
the waits, `BackoffInv` keeps the base at the larger of its first value and
`cleared`, and base and addition within the maximum except for the second a burst
begins with; it says nothing of the sign of the addition, which is the finding.

Model-checked only:

- everything temporal with fairness (`ChangesArrive`, `EventuallyFaithful`,
  `HoldersSettle`, `SnapshotsCatchUp`, `RebuildsEnd`, `EveryPairCaptured`) and the
  absence of deadlock, which are beyond the prover.

## Plan

In this order; those marked *done* are above.

1. `Manifest` over `SharedMap`, with proofs. *Done.*
2. `StarredSync`, `StaleCache`, `Capture`, with Capture's proofs. *Done.*
3. `TagSets`, `Traversal`, `Mutations`. *Done.*
4. `TextIndex`: original texts, backoff, word index, searches. *Done.*
5. Proofs of the safety properties of `StaleCache`, `StarredSync`, `TextIndex`
   and `Mutations`. *Done.*
6. `AnswerIsTrue` and `CountsAreListings`, for lists that repeat no tag. *Done.*
7. The credential of a plugin process and the migration, if they get a question
   of their own.


## Not modelled

The blob store (content-addressed, nothing is deleted; the order blob first,
entry second is what the models rest on). HTTP and JSON. The MCP tools: each is
one client call under the lock of its process, with the patches that `Mutations`
has; the two that mark a whole feed or everything as read patch nothing.
`BulkMutate`, which hands each node to cutting-garden, which calls the handlers
one by one. The facets of the feed listing, the version token (the memo it keys
is cutting-garden's), labels, leaves and all rendering. The feed index by word.
The start and end of the plugin process, and the credential lookup but for its
failing. OPML and configuration parsing, logging and profiling, packaging and
timers. The migration, a tool that is run once and by hand. `PROJECT.json` says
so for each component, and lists the hazards among these that no property
covers.
