-------------------------------- MODULE Capture --------------------------------
(***************************************************************************)
(* The capture scan (cmd/nebulous/capture.go, newsblur/capture_state.go):  *)
(* every eligible starred story is captured once in each format by an      *)
(* external tool.  `nebulous fetch` runs the scan as its last phase when   *)
(* its interval has elapsed (runFetchCapturePhase); `nebulous capture`     *)
(* runs it by hand, perhaps over the whole corpus, and perhaps while a     *)
(* fetch is running.  What the scans remember is kept in the shared        *)
(* manifest, each entry saved on its own: the watermark, one record for    *)
(* each captured pair, the registry of formats, and when fetch's scan last *)
(* ended.  A save is atomic here (the manifest's own windows are           *)
(* Manifest's subject), a read of an entry may fail (the cache answers a   *)
(* blob it cannot read like an entry that is not there).                   *)
(*                                                                         *)
(* A scan takes stories and formats in the order of the corpus; here in    *)
(* any order.  Stories are not unstarred, and the parsing of the tool's    *)
(* output is one outcome: a clean receipt, or not.                         *)
(***************************************************************************)
EXTENDS Naturals

CONSTANTS Story, Format,
          Date,          \* when each story was published
          Linkless,      \* the stories without a permalink
          Bad,           \* the pairs whose capture fails every time
          FetchFormats,  \* what `nebulous fetch` is configured to capture
          ManualFormats, \* and what `nebulous capture` is called with
          MaxNow,        \* bound on the clock
          MaxFaults,     \* bound on failures, interrupts and kills
          None           \* not set

ASSUME ConstantsAssumption ==
  /\ Date \in [Story -> Nat] /\ Linkless \subseteq Story
  /\ Bad \subseteq Story \X Format
  /\ FetchFormats \subseteq Format /\ ManualFormats \subseteq Format
  /\ MaxNow \in Nat /\ MaxFaults \in Nat
  /\ None \notin Nat \cup (Story \X Format)

Scanner == {"fetch", "capture"}

VARIABLES
  now,        \* the clock
  corpus,     \* the cached starred stories
  watermark,  \* the persisted entries: CaptureWatermark,
  records,    \*   the pairs with a capture record,
  formats,    \*   the known formats (CaptureFormats),
  lastScan,   \*   CaptureLastScanAt: "never", "recent", or an interval ago
  scan,       \* the running scan of each process, its locals
  faults,     \* faults so far
  \* History variable: no action reads it.
  hurt        \* the registry has been through one of its windows

entries == <<watermark, records, formats, lastScan>>
vars == <<now, corpus, watermark, records, formats, lastScan, scan, faults, hurt>>

(* The locals of runCaptureLoop.  `listed` and `failed` record, for the    *)
(* properties, what fetch's scan listed and what it tried in vain.         *)
NoScan == [pc |-> "idle", backfill |-> FALSE, cancelled |-> FALSE,
           since |-> None, todo |-> {}, left |-> {}, pair |-> None,
           known |-> {}, listed |-> {}, failed |-> {}]

Init ==
  /\ now = 0
  /\ corpus = {}
  /\ watermark = None
  /\ records = {}
  /\ formats = {}
  /\ lastScan = "never"
  /\ scan = [p \in Scanner |-> NoScan]
  /\ faults = 0
  /\ hurt = FALSE

(* One thing goes wrong.                                                   *)
Fault == faults < MaxFaults /\ faults' = faults + 1

FormatsOf(p) == IF p = "fetch" THEN FetchFormats ELSE ManualFormats
NextPair(p) == [scan[p] EXCEPT !.pc = "next", !.pair = None, !.known = {}]
At(p, pc) == scan[p].pc = pc

(* A step of p that changes only its locals.                               *)
Locals(p, s) == scan' = [scan EXCEPT ![p] = s]

-----------------------------------------------------------------------------
(* The surroundings.                                                       *)

Tick == /\ now < MaxNow
        /\ now' = now + 1
        /\ UNCHANGED <<corpus, entries, scan, faults, hurt>>

(* fetch caches a newly starred story.                                     *)
Arrive(s) == /\ s \notin corpus /\ Date[s] <= now
             /\ corpus' = corpus \cup {s}
             /\ UNCHANGED <<now, entries, scan, faults, hurt>>

IntervalElapses == /\ lastScan = "recent"
                   /\ lastScan' = "due"
                   /\ UNCHANGED <<now, corpus, watermark, records, formats,
                                  scan, faults, hurt>>

-----------------------------------------------------------------------------
(* The start of a scan.                                                    *)

(* fetch's last phase, unless the interval gate holds it off.              *)
StartFetch ==
  /\ At("fetch", "idle") /\ lastScan # "recent"
  /\ Locals("fetch", [NoScan EXCEPT !.pc = "watermark"])
  /\ UNCHANGED <<now, corpus, entries, faults, hurt>>

StartManual == \E backfill \in BOOLEAN :
  /\ At("capture", "idle")
  /\ Locals("capture", [NoScan EXCEPT !.pc = "watermark", !.backfill = backfill])
  /\ UNCHANGED <<now, corpus, entries, faults, hurt>>

(* The scan returns: to the end of its process, or in fetch, without an    *)
(* error, to the stamp.                                                    *)
Returned(p) ==
  IF p = "fetch" THEN [scan[p] EXCEPT !.pc = "stamp"] ELSE NoScan

\* Mutant of Anchored: the first run goes on with the unset watermark.
AnchoredUnset(seen) == seen

(* The watermark the scan goes by: on the first run, the present.          *)
Anchored(seen) == IF seen = None THEN now ELSE seen

(* A watermark that cannot be read counts as none.                         *)
ReadWatermark(p) == \E seen \in {watermark, None} :
  /\ At(p, "watermark")
  /\ IF seen = watermark THEN UNCHANGED faults ELSE Fault
  /\ Locals(p, [scan[p] EXCEPT !.pc = IF seen = None THEN "anchor" ELSE "list",
                               !.since = Anchored(seen)])
  /\ UNCHANGED <<now, corpus, entries, hurt>>

PutWatermark(p) ==
  /\ At(p, "anchor")
  /\ watermark' = scan[p].since
  /\ Locals(p, IF scan[p].backfill THEN [scan[p] EXCEPT !.pc = "list"]
                                   ELSE Returned(p))
  /\ UNCHANGED <<now, corpus, records, formats, lastScan, faults, hurt>>

Eligible(p, s) == /\ s \notin Linkless
                  /\ scan[p].backfill \/ Date[s] >= scan[p].since

ListStories(p) ==
  /\ At(p, "list")
  /\ Locals(p, [scan[p] EXCEPT !.pc = "next", !.todo = corpus,
                               !.listed = {s \in corpus : p = "fetch" /\ Eligible(p, s)}])
  /\ UNCHANGED <<now, corpus, entries, faults, hurt>>

-----------------------------------------------------------------------------
(* The loop over stories and formats.                                      *)

NextStory(p) == \E s \in scan[p].todo :
  /\ At(p, "next") /\ scan[p].left = {} /\ ~scan[p].cancelled
  /\ Locals(p, [scan[p] EXCEPT !.todo = @ \ {s},
                   !.left = IF Eligible(p, s) THEN {s} \X FormatsOf(p) ELSE {}])
  /\ UNCHANGED <<now, corpus, entries, faults, hurt>>

(* The context is looked at before each story.                             *)
Cancelled(p) ==
  /\ At(p, "next") /\ scan[p].left = {} /\ scan[p].todo # {}
  /\ scan[p].cancelled
  /\ Locals(p, NoScan)
  /\ UNCHANGED <<now, corpus, entries, faults, hurt>>

LoopEnds(p) ==
  /\ At(p, "next") /\ scan[p].left = {} /\ scan[p].todo = {}
  /\ Locals(p, Returned(p))
  /\ UNCHANGED <<now, corpus, entries, faults, hurt>>

(* A pair that has a record is skipped.                                    *)
NextFormat(p) == \E pair \in scan[p].left :
  /\ At(p, "next")
  /\ Locals(p, IF pair \in records
               THEN [scan[p] EXCEPT !.left = @ \ {pair}]
               ELSE [scan[p] EXCEPT !.pc = "capture", !.left = @ \ {pair},
                                    !.pair = pair])
  /\ UNCHANGED <<now, corpus, entries, faults, hurt>>

Captured(p) ==
  /\ At(p, "capture") /\ ~scan[p].cancelled /\ scan[p].pair \notin Bad
  /\ Locals(p, [scan[p] EXCEPT !.pc = "record"])
  /\ UNCHANGED <<now, corpus, entries, faults, hurt>>

Tried(p) == IF p = "fetch" THEN scan[p].failed \cup {scan[p].pair} ELSE {}

\* Mutant of Failed: the other formats of the story are given up.
FailedBreak(p) == [NextPair(p) EXCEPT !.left = {}, !.failed = Tried(p)]

\* Mutant of Failed: the scan returns the error.
FailedReturn(p) == NoScan

(* A failure is logged, and the scan goes on.                              *)
Failed(p) == [NextPair(p) EXCEPT !.failed = Tried(p)]

(* The tool fails, or is killed with the context that was cancelled.       *)
CaptureFails(p) ==
  /\ At(p, "capture")
  /\ IF scan[p].pair \in Bad \/ scan[p].cancelled THEN UNCHANGED faults ELSE Fault
  /\ Locals(p, Failed(p))
  /\ UNCHANGED <<now, corpus, entries, hurt>>

-----------------------------------------------------------------------------
(* PutCaptureRecordFor: the record, and then the format of the registry.   *)

PutRecord(p) ==
  /\ At(p, "record")
  /\ records' = records \cup {scan[p].pair}
  /\ Locals(p, [scan[p] EXCEPT !.pc = "registry"])
  /\ UNCHANGED <<now, corpus, watermark, formats, lastScan, faults, hurt>>

Registering(p) == At(p, "registry") \/ At(p, "register")

(* A registry that cannot be read counts as empty.  Two scans between      *)
(* their reads and writes of it overlap.                                   *)
ReadFormats(p) == \E known \in {formats, {}} :
  /\ At(p, "registry")
  /\ IF known = formats THEN UNCHANGED faults ELSE Fault
  /\ hurt' = (\/ hurt \/ known # formats
              \/ \E q \in Scanner \ {p} : At(q, "register"))
  /\ Locals(p, IF scan[p].pair[2] \in known
               THEN NextPair(p)
               ELSE [scan[p] EXCEPT !.pc = "register", !.known = known])
  /\ UNCHANGED <<now, corpus, entries>>

\* Mutant of Union: the registry is replaced.
UnionAlone(known, f) == {f}

Union(known, f) == known \cup {f}

PutFormats(p) ==
  /\ At(p, "register")
  /\ formats' = Union(scan[p].known, scan[p].pair[2])
  /\ Locals(p, NextPair(p))
  /\ UNCHANGED <<now, corpus, watermark, records, lastScan, faults, hurt>>

(* fetch's scan returned without an error.                                 *)
PutLastScan ==
  /\ At("fetch", "stamp")
  /\ lastScan' = "recent"
  /\ Locals("fetch", NoScan)
  /\ UNCHANGED <<now, corpus, watermark, records, formats, faults, hurt>>

-----------------------------------------------------------------------------
(* Faults.                                                                 *)

(* A save fails: the pair counts as failed, whether it was the record or   *)
(* the registry; a scan without a watermark or a corpus returns the error; *)
(* a scan without its stamp ends.                                          *)
SaveFails(p) ==
  /\ Fault
  /\ \/ At(p, "record") /\ Locals(p, Failed(p)) /\ UNCHANGED hurt
     \/ At(p, "register") /\ Locals(p, Failed(p)) /\ hurt' = TRUE
     \/ /\ scan[p].pc \in {"anchor", "list", "stamp"}
        /\ Locals(p, NoScan) /\ UNCHANGED hurt
  /\ UNCHANGED <<now, corpus, entries>>

Interrupt(p) ==
  /\ Fault
  /\ ~At(p, "idle") /\ ~scan[p].cancelled
  /\ Locals(p, [scan[p] EXCEPT !.cancelled = TRUE])
  /\ UNCHANGED <<now, corpus, entries, hurt>>

(* The process is killed.                                                  *)
Kill(p) ==
  /\ Fault
  /\ ~At(p, "idle")
  /\ Locals(p, NoScan)
  /\ hurt' = (hurt \/ Registering(p))
  /\ UNCHANGED <<now, corpus, entries>>

-----------------------------------------------------------------------------

Run(p) == \/ ReadWatermark(p) \/ PutWatermark(p) \/ ListStories(p)
          \/ NextStory(p) \/ Cancelled(p) \/ LoopEnds(p)
          \/ NextFormat(p) \/ Captured(p) \/ CaptureFails(p)
          \/ PutRecord(p) \/ ReadFormats(p) \/ PutFormats(p)
          \/ p = "fetch" /\ PutLastScan

Next == \/ Tick \/ IntervalElapses \/ StartFetch \/ StartManual
        \/ \E s \in Story : Arrive(s)
        \/ \E p \in Scanner : Run(p) \/ SaveFails(p) \/ Interrupt(p) \/ Kill(p)

(* The timer starts fetch again and again, and a fetch gets on: each call  *)
(* of the tool returns (nothing in the code limits its time).  Nothing is  *)
(* assumed of the scans that are started by hand.                          *)
Fairness == /\ WF_vars(StartFetch) /\ WF_vars(Run("fetch"))
            /\ WF_vars(IntervalElapses)

Spec == Init /\ [][Next]_vars /\ Fairness

-----------------------------------------------------------------------------

Based(s) ==
  /\ s.pc \notin {"idle", "watermark"} => s.since # None
  /\ s.pc \in {"capture", "record", "registry", "register"} => s.pair # None
Pairs == Story \X Format
Steps == {"idle", "watermark", "anchor", "list", "next", "capture",
          "record", "registry", "register", "stamp"}
Scans == [pc : Steps, backfill : BOOLEAN, cancelled : BOOLEAN,
          since : Nat \cup {None}, todo : SUBSET Story,
          left : SUBSET Pairs, pair : Pairs \cup {None}, known : SUBSET Format,
          listed : SUBSET Story, failed : SUBSET Pairs]

(* Every variable has its type; a scan that compares dates has a date to   *)
(* compare with, and one that works on a pair has a pair.                  *)
TypeOK ==
  /\ now \in 0 .. MaxNow /\ corpus \subseteq Story
  /\ watermark \in Nat \cup {None}
  /\ records \subseteq Pairs /\ formats \subseteq Format
  /\ lastScan \in {"never", "recent", "due"}
  /\ scan \in [Scanner -> Scans]
  /\ \A p \in Scanner : Based(scan[p])
  /\ faults \in 0 .. MaxFaults /\ hurt \in BOOLEAN

(* The registry lists the format of every record, so that tree traversal   *)
(* finds the receipts (CaptureFormats), up to the save that is under way.  *)
(* The windows in which it comes not to: a scan ends, or its save fails,   *)
(* between the two saves; the registry could not be read; two scans        *)
(* updated it at the same time.                                            *)
Registered ==
  ~hurt => \A pair \in records :
             \/ pair[2] \in formats
             \/ \E p \in Scanner : Registering(p) /\ scan[p].pair[2] = pair[2]

(* A scan holds the next ones off for an interval only when it has been    *)
(* through all it listed: each pair has its record, or failed in it.       *)
StampedScanLeftNoGap ==
  At("fetch", "stamp") =>
    \A s \in scan["fetch"].listed, f \in FetchFormats :
      <<s, f>> \in records \cup scan["fetch"].failed

(* A capture that failed is tried again by a later scan, and pairs that    *)
(* always fail, interrupted runs and scans by hand keep no other pair from *)
(* being captured (docs/features/0001: self-healing by construction).      *)
EveryPairCaptured ==
  \A s \in Story \ Linkless, f \in FetchFormats :
    <<s, f>> \notin Bad =>
      (<>[](s \in corpus /\ watermark # None /\ Date[s] >= watermark)
         => <>(<<s, f>> \in records))

(* "Called once, the first time `nebulous capture` ever runs"              *)
(* (PutCaptureWatermark): a watermark, once established, stays.            *)
WatermarkSetOnce == [][watermark # None => watermark' = watermark]_watermark
=============================================================================
