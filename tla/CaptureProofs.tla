---------------------------- MODULE CaptureProofs ----------------------------
(***************************************************************************)
(* Proofs about Capture.tla for any stories, formats, dates and number of  *)
(* faults.                                                                 *)
(***************************************************************************)
EXTENDS Capture, TLAPS

-----------------------------------------------------------------------------
(* Types.                                                                  *)

LEMMA NoScanType == NoScan \in Scans /\ Based(NoScan)
BY DEF NoScan, Scans, Steps, Based

(* A step of p changes its locals to s: the others' keep their types.      *)
LEMMA LocalsType ==
  ASSUME TypeOK, NEW p \in Scanner, NEW s \in Scans, Based(s), Locals(p, s)
  PROVE  scan' \in [Scanner -> Scans] /\ \A q \in Scanner : Based(scan'[q])
BY DEF Locals, TypeOK

(* What the steps of a scan make of its locals.                            *)
LEMMA NextPairType ==
  ASSUME TypeOK, NEW p \in Scanner, scan[p].since # None
  PROVE  NextPair(p) \in Scans /\ Based(NextPair(p))
<1>1. PICK s \in Scans : s = scan[p] /\ s.since # None
  BY DEF TypeOK
<1>2. NextPair(p) = [s EXCEPT !.pc = "next", !.pair = None, !.known = {}]
  BY <1>1 DEF NextPair
<1> QED
  BY <1>1, <1>2 DEF Scans, Steps, Based

LEMMA FailedType ==
  ASSUME TypeOK, NEW p \in Scanner, scan[p].since # None, scan[p].pair # None
  PROVE  Failed(p) \in Scans /\ Based(Failed(p))
<1>1. Tried(p) \in SUBSET Pairs
  BY DEF TypeOK, Scans, Tried
<1>2. PICK s \in Scans : s = NextPair(p) /\ Based(s)
  BY NextPairType
<1>3. Failed(p) = [s EXCEPT !.failed = Tried(p)]
  BY <1>2 DEF Failed
<1> QED
  BY <1>1, <1>2, <1>3 DEF Scans, Based

LEMMA ReturnedType ==
  ASSUME TypeOK, NEW p \in Scanner, scan[p].since # None
  PROVE  Returned(p) \in Scans /\ Based(Returned(p))
<1>1. CASE p = "fetch"
  <2>1. PICK s \in Scans : s = scan[p] /\ s.since # None
    BY DEF TypeOK
  <2>2. Returned(p) = [s EXCEPT !.pc = "stamp"]
    BY <1>1, <2>1 DEF Returned
  <2> QED
    BY <2>1, <2>2 DEF Scans, Steps, Based
<1>2. CASE p # "fetch"
  BY <1>2, NoScanType DEF Returned
<1> QED
  BY <1>1, <1>2

LEMMA TypeInit == Init => TypeOK
<1> SUFFICES ASSUME Init PROVE TypeOK
  OBVIOUS
<1>1. scan \in [Scanner -> Scans] /\ \A p \in Scanner : Based(scan[p])
  BY NoScanType DEF Init
<1>2. now \in 0 .. MaxNow /\ faults \in 0 .. MaxFaults
  BY ConstantsAssumption DEF Init
<1> QED
  BY <1>1, <1>2 DEF Init, TypeOK

LEMMA TypeRun == ASSUME TypeOK, NEW p \in Scanner, Run(p) PROVE TypeOK'
<1> USE ConstantsAssumption DEF entries
<1>a. scan[p] \in Scans /\ Based(scan[p])
  BY DEF TypeOK
<1>1. CASE ReadWatermark(p)
  <2>1. PICK seen \in {watermark, None} :
          Locals(p, [scan[p] EXCEPT !.pc = IF seen = None THEN "anchor" ELSE "list",
                                    !.since = Anchored(seen)])
    BY <1>1 DEF ReadWatermark
  <2>2. Anchored(seen) \in Nat /\ Anchored(seen) # None
    BY DEF TypeOK, Anchored
  <2>3. PICK s \in Scans :
          s = [scan[p] EXCEPT !.pc = IF seen = None THEN "anchor" ELSE "list",
                              !.since = Anchored(seen)]
    BY <1>a, <2>2 DEF Scans, Steps
  <2>4. Based(s)
    BY <1>a, <2>2, <2>3 DEF Based, Scans
  <2> QED
    BY <1>1, <2>1, <2>3, <2>4, LocalsType DEF ReadWatermark, TypeOK, Fault
<1>2. CASE PutWatermark(p)
  <2>1. scan[p].since \in Nat /\ scan[p].since # None
    BY <1>a, <1>2 DEF PutWatermark, At, Based, Scans
  <2>2. CASE scan[p].backfill
    <3>1. PICK s \in Scans : s = [scan[p] EXCEPT !.pc = "list"]
      BY <1>a DEF Scans, Steps
    <3>2. Based(s) /\ Locals(p, s)
      BY <1>a, <1>2, <2>1, <2>2, <3>1 DEF Based, Scans, PutWatermark
    <3> QED
      BY <1>2, <2>1, <3>2, LocalsType DEF PutWatermark, TypeOK
  <2>3. CASE ~scan[p].backfill
    BY <1>2, <2>1, <2>3, ReturnedType, LocalsType DEF PutWatermark, TypeOK
  <2> QED
    BY <2>2, <2>3
<1>3. CASE ListStories(p)
  <2>1. PICK s \in Scans :
          s = [scan[p] EXCEPT !.pc = "next", !.todo = corpus,
                 !.listed = {t \in corpus : p = "fetch" /\ Eligible(p, t)}]
    BY <1>a DEF Scans, Steps, TypeOK
  <2>2. Based(s) /\ Locals(p, s)
    BY <1>a, <1>3, <2>1 DEF Based, Scans, ListStories, At
  <2> QED
    BY <1>3, <2>2, LocalsType DEF ListStories, TypeOK
<1>4. CASE NextStory(p)
  <2>1. PICK t \in scan[p].todo :
          Locals(p, [scan[p] EXCEPT !.todo = @ \ {t},
                       !.left = IF Eligible(p, t) THEN {t} \X FormatsOf(p) ELSE {}])
    BY <1>4 DEF NextStory
  <2>2. (IF Eligible(p, t) THEN {t} \X FormatsOf(p) ELSE {}) \in SUBSET Pairs
    BY <1>a DEF Scans, FormatsOf, Pairs
  <2>3. PICK s \in Scans :
          s = [scan[p] EXCEPT !.todo = @ \ {t},
                 !.left = IF Eligible(p, t) THEN {t} \X FormatsOf(p) ELSE {}]
    BY <1>a, <2>2 DEF Scans
  <2>4. Based(s)
    BY <1>a, <2>3 DEF Based, Scans
  <2> QED
    BY <1>4, <2>1, <2>3, <2>4, LocalsType DEF NextStory, TypeOK
<1>5. CASE Cancelled(p)
  BY <1>5, NoScanType, LocalsType DEF Cancelled, TypeOK
<1>6. CASE LoopEnds(p)
  <2>1. scan[p].since # None
    BY <1>a, <1>6 DEF LoopEnds, At, Based
  <2> QED
    BY <1>6, <2>1, ReturnedType, LocalsType DEF LoopEnds, TypeOK
<1>7. CASE NextFormat(p)
  <2>1. PICK pair \in scan[p].left :
          Locals(p, IF pair \in records
                    THEN [scan[p] EXCEPT !.left = @ \ {pair}]
                    ELSE [scan[p] EXCEPT !.pc = "capture", !.left = @ \ {pair},
                                         !.pair = pair])
    BY <1>7 DEF NextFormat
  <2>2. scan[p].since # None
    BY <1>a, <1>7 DEF NextFormat, At, Based
  <2>3. pair \in Pairs /\ pair # None
    BY <1>a DEF Scans, Pairs
  <2>4. CASE pair \in records
    <3>1. PICK s \in Scans : s = [scan[p] EXCEPT !.left = @ \ {pair}]
      BY <1>a DEF Scans
    <3>2. Based(s) /\ Locals(p, s)
      BY <1>a, <2>1, <2>4, <3>1 DEF Based, Scans
    <3> QED
      BY <1>7, <3>2, LocalsType DEF NextFormat, TypeOK
  <2>5. CASE pair \notin records
    <3>1. PICK s \in Scans : s = [scan[p] EXCEPT !.pc = "capture",
                                     !.left = @ \ {pair}, !.pair = pair]
      BY <1>a, <2>3 DEF Scans, Steps
    <3>2. Based(s) /\ Locals(p, s)
      BY <1>a, <2>1, <2>2, <2>3, <2>5, <3>1 DEF Based, Scans
    <3> QED
      BY <1>7, <3>2, LocalsType DEF NextFormat, TypeOK
  <2> QED
    BY <2>4, <2>5
<1>8. CASE Captured(p)
  <2>1. PICK s \in Scans : s = [scan[p] EXCEPT !.pc = "record"]
    BY <1>a DEF Scans, Steps
  <2>2. Based(s) /\ Locals(p, s)
    BY <1>a, <1>8, <2>1 DEF Based, Scans, Captured, At
  <2> QED
    BY <1>8, <2>2, LocalsType DEF Captured, TypeOK
<1>9. CASE CaptureFails(p)
  <2>1. scan[p].since # None /\ scan[p].pair # None
    BY <1>a, <1>9 DEF CaptureFails, At, Based
  <2> QED
    BY <1>9, <2>1, FailedType, LocalsType DEF CaptureFails, TypeOK, Fault
<1>10. CASE PutRecord(p)
  <2>1. PICK s \in Scans : s = [scan[p] EXCEPT !.pc = "registry"]
    BY <1>a DEF Scans, Steps
  <2>2. Based(s) /\ Locals(p, s)
    BY <1>a, <1>10, <2>1 DEF Based, Scans, PutRecord, At
  <2>3. scan[p].pair \in Pairs
    BY <1>a, <1>10 DEF Based, Scans, PutRecord, At
  <2> QED
    BY <1>10, <2>2, <2>3, LocalsType DEF PutRecord, TypeOK
<1>11. CASE ReadFormats(p)
  <2>1. PICK known \in {formats, {}} :
          Locals(p, IF scan[p].pair[2] \in known
                    THEN NextPair(p)
                    ELSE [scan[p] EXCEPT !.pc = "register", !.known = known])
    BY <1>11 DEF ReadFormats
  <2>2. scan[p].since # None /\ scan[p].pair # None
    BY <1>a, <1>11 DEF ReadFormats, At, Based
  <2>3. faults' \in 0 .. MaxFaults /\ hurt' \in BOOLEAN
    BY <1>11 DEF ReadFormats, Fault, TypeOK
  <2>4. CASE scan[p].pair[2] \in known
    BY <1>11, <2>1, <2>2, <2>3, <2>4, NextPairType, LocalsType DEF ReadFormats, TypeOK
  <2>5. CASE scan[p].pair[2] \notin known
    <3>1. PICK s \in Scans : s = [scan[p] EXCEPT !.pc = "register", !.known = known]
      BY <1>a DEF Scans, Steps, TypeOK
    <3>2. Based(s) /\ Locals(p, s)
      BY <1>a, <2>1, <2>2, <2>5, <3>1 DEF Based, Scans
    <3> QED
      BY <1>11, <2>3, <3>2, LocalsType DEF ReadFormats, TypeOK
  <2> QED
    BY <2>4, <2>5
<1>12. CASE PutFormats(p)
  <2>1. scan[p].since # None /\ scan[p].pair \in Pairs /\ scan[p].known \subseteq Format
    BY <1>a, <1>12 DEF PutFormats, At, Based, Scans
  <2>2. Union(scan[p].known, scan[p].pair[2]) \subseteq Format
    BY <2>1 DEF Union, Pairs
  <2> QED
    BY <1>12, <2>1, <2>2, NextPairType, LocalsType DEF PutFormats, TypeOK
<1>13. CASE PutLastScan
  BY <1>13, NoScanType, LocalsType DEF PutLastScan, TypeOK, Scanner
<1> QED
  BY <1>1, <1>2, <1>3, <1>4, <1>5, <1>6, <1>7, <1>8, <1>9, <1>10, <1>11, <1>12,
     <1>13 DEF Run

LEMMA TypeFault ==
  ASSUME TypeOK, NEW p \in Scanner, SaveFails(p) \/ Interrupt(p) \/ Kill(p)
  PROVE  TypeOK'
<1> USE ConstantsAssumption DEF entries
<1>a. scan[p] \in Scans /\ Based(scan[p])
  BY DEF TypeOK
<1>1. CASE SaveFails(p)
  <2>1. faults' \in 0 .. MaxFaults
    BY <1>1 DEF SaveFails, Fault, TypeOK
  <2>2. CASE At(p, "record") \/ At(p, "register")
    <3>1. scan[p].since # None /\ scan[p].pair # None
      BY <1>a, <2>2 DEF At, Based
    <3>2. Locals(p, Failed(p)) /\ hurt' \in BOOLEAN
      BY <1>1, <2>2 DEF SaveFails, At, TypeOK
    <3> QED
      BY <1>1, <2>1, <3>1, <3>2, FailedType, LocalsType DEF SaveFails, TypeOK
  <2>3. CASE scan[p].pc \in {"anchor", "list", "stamp"}
    <3>1. Locals(p, NoScan) /\ hurt' = hurt
      BY <1>1, <2>3 DEF SaveFails, At
    <3> QED
      BY <1>1, <2>1, <3>1, NoScanType, LocalsType DEF SaveFails, TypeOK
  <2> QED
    BY <1>1, <2>2, <2>3 DEF SaveFails
<1>2. CASE Interrupt(p)
  <2>1. PICK s \in Scans : s = [scan[p] EXCEPT !.cancelled = TRUE]
    BY <1>a DEF Scans
  <2>2. Based(s) /\ Locals(p, s)
    BY <1>a, <1>2, <2>1 DEF Based, Scans, Interrupt
  <2> QED
    BY <1>2, <2>2, LocalsType DEF Interrupt, TypeOK, Fault
<1>3. CASE Kill(p)
  BY <1>3, NoScanType, LocalsType DEF Kill, TypeOK, Fault
<1> QED
  BY <1>1, <1>2, <1>3

LEMMA TypeNext == TypeOK /\ [Next]_vars => TypeOK'
<1> SUFFICES ASSUME TypeOK, [Next]_vars PROVE TypeOK'
  OBVIOUS
<1> USE ConstantsAssumption DEF entries
<1>1. CASE Tick
  BY <1>1 DEF Tick, TypeOK
<1>2. CASE IntervalElapses
  BY <1>2 DEF IntervalElapses, TypeOK
<1>3. CASE StartFetch
  <2>1. PICK s \in Scans : s = [NoScan EXCEPT !.pc = "watermark"]
    BY NoScanType DEF Scans, Steps
  <2>2. Based(s)
    BY <2>1, NoScanType DEF Based, Scans
  <2>3. Locals("fetch", s)
    BY <1>3, <2>1 DEF StartFetch
  <2> QED
    BY <1>3, <2>2, <2>3, LocalsType DEF StartFetch, TypeOK, Scanner
<1>4. CASE StartManual
  <2>1. PICK backfill \in BOOLEAN :
          Locals("capture", [NoScan EXCEPT !.pc = "watermark", !.backfill = backfill])
    BY <1>4 DEF StartManual
  <2>2. PICK s \in Scans :
          s = [NoScan EXCEPT !.pc = "watermark", !.backfill = backfill]
    BY NoScanType DEF Scans, Steps
  <2>3. Based(s)
    BY <2>2, NoScanType DEF Based, Scans
  <2> QED
    BY <1>4, <2>1, <2>2, <2>3, LocalsType DEF StartManual, TypeOK, Scanner
<1>5. ASSUME NEW s \in Story, Arrive(s) PROVE TypeOK'
  BY <1>5 DEF Arrive, TypeOK
<1>6. ASSUME NEW p \in Scanner, Run(p) PROVE TypeOK'
  BY <1>6, TypeRun
<1>7. ASSUME NEW p \in Scanner, SaveFails(p) \/ Interrupt(p) \/ Kill(p)
      PROVE  TypeOK'
  BY <1>7, TypeFault
<1>8. CASE UNCHANGED vars
  BY <1>8 DEF vars, TypeOK
<1> QED
  BY <1>1, <1>2, <1>3, <1>4, <1>5, <1>6, <1>7, <1>8 DEF Next

(* The types hold in every state (TypeOK of Capture.tla).                  *)
THEOREM TypeCorrect == Spec => []TypeOK
BY TypeInit, TypeNext, PTL DEF Spec

-----------------------------------------------------------------------------
(* The registry lists the formats of the records.  Outside its windows,    *)
(* the scan that is about to save the registry is the only one, and what   *)
(* it read is still what the registry holds.                               *)

KnownIsCurrent == \A p \in Scanner : At(p, "register") => scan[p].known = formats
OneRegisters == \A p, q \in Scanner :
                  At(p, "register") /\ At(q, "register") => p = q
RegInv == Registered /\ (~hurt => KnownIsCurrent /\ OneRegisters)

(* A step of p outside PutCaptureRecordFor.                                *)
LEMMA Aside ==
  ASSUME TypeOK, RegInv, NEW p \in Scanner, NEW s, Locals(p, s),
         ~Registering(p), s.pc \notin {"registry", "register"},
         UNCHANGED <<records, formats, hurt>>
  PROVE  RegInv'
<1>1. \A q \in Scanner : q # p => scan'[q] = scan[q]
  BY DEF Locals, TypeOK
<1>2. scan'[p] = s
  BY DEF Locals, TypeOK
<1>3. \A q \in Scanner : Registering(q) => q # p /\ scan'[q] = scan[q]
  BY <1>1
<1>4. \A q \in Scanner : At(q, "register")' => q # p /\ scan'[q] = scan[q]
  BY <1>1, <1>2 DEF At
<1>5. Registered'
  <2> SUFFICES ASSUME ~hurt, NEW pair \in records, pair[2] \notin formats
               PROVE  \E q \in Scanner : Registering(q)' /\ scan'[q].pair[2] = pair[2]
    BY DEF Registered
  <2>1. PICK q \in Scanner : Registering(q) /\ scan[q].pair[2] = pair[2]
    BY DEF RegInv, Registered
  <2> QED
    BY <2>1, <1>3 DEF Registering, At
<1>6. ~hurt => KnownIsCurrent' /\ OneRegisters'
  BY <1>4 DEF RegInv, KnownIsCurrent, OneRegisters, At
<1> QED
  BY <1>5, <1>6 DEF RegInv

LEMMA RegRun == ASSUME TypeOK, RegInv, NEW p \in Scanner, Run(p) PROVE RegInv'
<1> USE DEF entries
<1>a. scan[p] \in Scans /\ Based(scan[p])
  BY DEF TypeOK
<1>b. NoScan.pc = "idle" /\ Returned(p).pc \in {"stamp", "idle"}
  BY <1>a DEF NoScan, Returned, Scans
<1>c. NextPair(p).pc = "next" /\ Failed(p).pc = "next"
  BY <1>a DEF NextPair, Failed, Scans
<1>d. \A q \in Scanner : q # p => scan'[q] = scan[q]
  BY DEF Run, ReadWatermark, PutWatermark, ListStories, NextStory, Cancelled,
         LoopEnds, NextFormat, Captured, CaptureFails, PutRecord, ReadFormats,
         PutFormats, PutLastScan, Locals, TypeOK
<1>1. CASE ReadWatermark(p)
  <2>1. PICK seen \in {watermark, None} :
          Locals(p, [scan[p] EXCEPT !.pc = IF seen = None THEN "anchor" ELSE "list",
                                    !.since = Anchored(seen)])
    BY <1>1 DEF ReadWatermark
  <2> QED
    BY <1>1, <1>a, <2>1, Aside DEF ReadWatermark, Registering, At, Scans
<1>2. CASE PutWatermark(p)
  BY <1>2, <1>a, <1>b, Aside DEF PutWatermark, Registering, At, Scans
<1>3. CASE ListStories(p)
  BY <1>3, <1>a, Aside DEF ListStories, Registering, At, Scans
<1>4. CASE NextStory(p)
  <2>1. PICK t \in scan[p].todo :
          Locals(p, [scan[p] EXCEPT !.todo = @ \ {t},
                       !.left = IF Eligible(p, t) THEN {t} \X FormatsOf(p) ELSE {}])
    BY <1>4 DEF NextStory
  <2> QED
    BY <1>4, <1>a, <2>1, Aside DEF NextStory, Registering, At, Scans
<1>5. CASE Cancelled(p)
  BY <1>5, <1>b, Aside DEF Cancelled, Registering, At
<1>6. CASE LoopEnds(p)
  BY <1>6, <1>b, Aside DEF LoopEnds, Registering, At
<1>7. CASE NextFormat(p)
  <2>1. PICK pair \in scan[p].left :
          Locals(p, IF pair \in records
                    THEN [scan[p] EXCEPT !.left = @ \ {pair}]
                    ELSE [scan[p] EXCEPT !.pc = "capture", !.left = @ \ {pair},
                                         !.pair = pair])
    BY <1>7 DEF NextFormat
  <2>2. CASE pair \in records
    BY <1>7, <1>a, <2>1, <2>2, Aside DEF NextFormat, Registering, At, Scans
  <2>3. CASE pair \notin records
    BY <1>7, <1>a, <2>1, <2>3, Aside DEF NextFormat, Registering, At, Scans
  <2> QED
    BY <2>2, <2>3
<1>8. CASE Captured(p)
  BY <1>8, <1>a, Aside DEF Captured, Registering, At, Scans
<1>9. CASE CaptureFails(p)
  BY <1>9, <1>c, Aside DEF CaptureFails, Registering, At
<1>10. CASE PutRecord(p)
  <2>1. /\ At(p, "record") /\ UNCHANGED <<formats, hurt>>
        /\ records' = records \cup {scan[p].pair}
        /\ scan'[p].pc = "registry" /\ scan'[p].pair = scan[p].pair
    BY <1>10, <1>a DEF PutRecord, Locals, TypeOK, Scans
  <2>2. Registered'
    <3> SUFFICES ASSUME ~hurt, NEW pair \in records', pair[2] \notin formats
                 PROVE  \E q \in Scanner : Registering(q)' /\ scan'[q].pair[2] = pair[2]
      BY <2>1 DEF Registered
    <3>1. CASE pair = scan[p].pair
      BY <2>1, <3>1 DEF Registering, At
    <3>2. CASE pair \in records
      <4>1. PICK q \in Scanner : Registering(q) /\ scan[q].pair[2] = pair[2]
        BY <3>2 DEF RegInv, Registered
      <4>2. q # p
        BY <2>1, <4>1 DEF Registering, At
      <4> QED
        BY <1>d, <4>1, <4>2 DEF Registering, At
    <3> QED
      BY <2>1, <3>1, <3>2
  <2> QED
    BY <1>d, <2>1, <2>2 DEF RegInv, KnownIsCurrent, OneRegisters, At
<1>11. CASE ReadFormats(p)
  <2>1. PICK known \in {formats, {}} :
          /\ hurt' = (\/ hurt \/ known # formats
                      \/ \E q \in Scanner \ {p} : At(q, "register"))
          /\ Locals(p, IF scan[p].pair[2] \in known
                       THEN NextPair(p)
                       ELSE [scan[p] EXCEPT !.pc = "register", !.known = known])
    BY <1>11 DEF ReadFormats
  <2>2. SUFFICES ASSUME ~hurt' PROVE RegInv'
    BY DEF RegInv, Registered
  <2>3. /\ ~hurt /\ known = formats /\ UNCHANGED <<records, formats>>
        /\ \A q \in Scanner \ {p} : ~At(q, "register")
    BY <1>11, <2>1, <2>2 DEF ReadFormats
  <2>4. scan'[p] = IF scan[p].pair[2] \in formats
                   THEN NextPair(p)
                   ELSE [scan[p] EXCEPT !.pc = "register", !.known = formats]
    BY <2>1, <2>3 DEF Locals, TypeOK
  <2>5. Registered'
    <3> SUFFICES ASSUME NEW pair \in records, pair[2] \notin formats
                 PROVE  \E q \in Scanner : Registering(q)' /\ scan'[q].pair[2] = pair[2]
      BY <2>3 DEF Registered
    <3>1. PICK q \in Scanner : Registering(q) /\ scan[q].pair[2] = pair[2]
      BY <2>3 DEF RegInv, Registered
    <3>2. CASE q = p
      <4>1. scan'[p].pc = "register" /\ scan'[p].pair = scan[p].pair
        BY <1>a, <2>4, <3>1, <3>2 DEF Scans
      <4> QED
        BY <3>1, <3>2, <4>1 DEF Registering, At
    <3>3. CASE q # p
      BY <1>d, <3>1, <3>3 DEF Registering, At
    <3> QED
      BY <3>2, <3>3
  <2>6. At(p, "register")' => scan'[p].known = formats
    BY <1>a, <1>c, <2>4 DEF At, Scans
  <2> QED
    BY <1>d, <2>3, <2>5, <2>6 DEF RegInv, KnownIsCurrent, OneRegisters, At
<1>12. CASE PutFormats(p)
  <2>1. SUFFICES ASSUME ~hurt PROVE RegInv'
    BY <1>12 DEF PutFormats, RegInv, Registered
  <2>2. /\ At(p, "register") /\ UNCHANGED <<records, hurt>>
        /\ formats' = formats \cup {scan[p].pair[2]}
    BY <1>12, <2>1 DEF PutFormats, RegInv, KnownIsCurrent, Union
  <2>3. scan'[p].pc = "next"
    BY <1>12, <1>c DEF PutFormats, Locals, TypeOK
  <2>4. \A q \in Scanner : ~At(q, "register")'
    BY <1>d, <2>1, <2>2, <2>3 DEF RegInv, OneRegisters, At
  <2>5. Registered'
    <3> SUFFICES ASSUME NEW pair \in records, pair[2] \notin formats'
                 PROVE  \E q \in Scanner : Registering(q)' /\ scan'[q].pair[2] = pair[2]
      BY <2>2 DEF Registered
    <3>1. PICK q \in Scanner : Registering(q) /\ scan[q].pair[2] = pair[2]
      BY <2>1, <2>2 DEF RegInv, Registered
    <3>2. q # p
      BY <2>2, <3>1
    <3> QED
      BY <1>d, <3>1, <3>2 DEF Registering, At
  <2> QED
    BY <2>4, <2>5 DEF RegInv, KnownIsCurrent, OneRegisters
<1>13. CASE p = "fetch" /\ PutLastScan
  BY <1>13, <1>b, Aside DEF PutLastScan, Registering, At
<1> QED
  BY <1>1, <1>2, <1>3, <1>4, <1>5, <1>6, <1>7, <1>8, <1>9, <1>10, <1>11, <1>12,
     <1>13 DEF Run

LEMMA RegNext == TypeOK /\ RegInv /\ [Next]_vars => RegInv'
<1> SUFFICES ASSUME TypeOK, RegInv, [Next]_vars PROVE RegInv'
  OBVIOUS
<1> USE DEF entries
<1>a. NoScan \in Scans /\ NoScan.pc = "idle"
  BY NoScanType DEF NoScan
<1>b. ASSUME UNCHANGED <<records, formats, scan, hurt>> PROVE RegInv'
  BY <1>b DEF RegInv, Registered, KnownIsCurrent, OneRegisters, Registering, At
<1>1. CASE Tick \/ IntervalElapses \/ UNCHANGED vars
  BY <1>1, <1>b DEF Tick, IntervalElapses, vars
<1>2. CASE StartFetch
  BY <1>2, <1>a, Aside DEF StartFetch, Registering, At, Scanner, Scans
<1>3. CASE StartManual
  <2>1. PICK backfill \in BOOLEAN :
          Locals("capture", [NoScan EXCEPT !.pc = "watermark", !.backfill = backfill])
    BY <1>3 DEF StartManual
  <2> QED
    BY <1>3, <1>a, <2>1, Aside DEF StartManual, Registering, At, Scanner, Scans
<1>4. ASSUME NEW s \in Story, Arrive(s) PROVE RegInv'
  BY <1>4, <1>b DEF Arrive
<1>5. ASSUME NEW p \in Scanner, Run(p) PROVE RegInv'
  BY <1>5, RegRun
<1>6. ASSUME NEW p \in Scanner, SaveFails(p) \/ Kill(p) PROVE RegInv'
  <2>1. scan[p] \in Scans
    BY DEF TypeOK
  <2>2. CASE hurt'
    BY <2>2 DEF RegInv, Registered
  <2>3. CASE ~hurt' /\ SaveFails(p)
    <3>1. Failed(p).pc = "next"
      BY <2>1 DEF Failed, NextPair, Scans
    <3> QED
      BY <1>a, <2>3, <3>1, Aside DEF SaveFails, Registering, At
  <2>4. CASE ~hurt' /\ Kill(p)
    BY <1>a, <2>4, Aside DEF Kill, TypeOK
  <2> QED
    BY <1>6, <2>2, <2>3, <2>4
<1>7. ASSUME NEW p \in Scanner, Interrupt(p) PROVE RegInv'
  <2>1. \A q \in Scanner : /\ scan'[q].pc = scan[q].pc
                           /\ scan'[q].pair = scan[q].pair
                           /\ scan'[q].known = scan[q].known
    BY <1>7 DEF Interrupt, Locals, TypeOK, Scans
  <2>2. UNCHANGED <<records, formats, hurt>>
    BY <1>7 DEF Interrupt
  <2> QED
    BY <2>1, <2>2 DEF RegInv, Registered, KnownIsCurrent, OneRegisters, Registering, At
<1> QED
  BY <1>1, <1>2, <1>3, <1>4, <1>5, <1>6, <1>7 DEF Next

(* Outside the windows of recordCaptureFormat, the registry lists the      *)
(* format of every record (Registered of Capture.tla).                     *)
THEOREM RegistryComplete == Spec => []Registered
<1>1. Init => RegInv
  BY DEF Init, RegInv, Registered, KnownIsCurrent, OneRegisters, At, NoScan
<1>2. RegInv => Registered
  BY DEF RegInv
<1> QED
  BY <1>1, <1>2, TypeCorrect, RegNext, PTL DEF Spec

-----------------------------------------------------------------------------
(* What fetch's scan listed is, up to its end, still to come, or was       *)
(* captured, or failed.                                                    *)

Accounted(t, f) ==
  \/ t \in scan["fetch"].todo
  \/ <<t, f>> \in scan["fetch"].left \cup records \cup scan["fetch"].failed
  \/ /\ scan["fetch"].pc \in {"capture", "record"}
     /\ scan["fetch"].pair = <<t, f>>

GapInv ==
  /\ \A t \in scan["fetch"].listed : Eligible("fetch", t)
  /\ \A t \in scan["fetch"].listed, f \in FetchFormats : Accounted(t, f)
  /\ scan["fetch"].pc \in {"idle", "watermark", "anchor", "list"} =>
       /\ scan["fetch"].listed = {} /\ scan["fetch"].todo = {}
       /\ scan["fetch"].left = {}
  /\ At("fetch", "stamp") => scan["fetch"].todo = {} /\ scan["fetch"].left = {}

(* fetch's scan goes to pc, with what is still to come left as it was.     *)
Moved(pc) ==
  /\ scan'["fetch"].pc = pc
  /\ scan'["fetch"].since = scan["fetch"].since
  /\ scan'["fetch"].backfill = scan["fetch"].backfill
  /\ scan'["fetch"].listed = scan["fetch"].listed
  /\ scan'["fetch"].todo = scan["fetch"].todo
  /\ scan'["fetch"].left = scan["fetch"].left
  /\ scan'["fetch"].failed = scan["fetch"].failed

(* Before the corpus is listed, and once the scan is over.                 *)
LEMMA GapEmpty ==
  ASSUME scan'["fetch"].listed = {}, scan'["fetch"].todo = {}, scan'["fetch"].left = {}
  PROVE  GapInv'
BY DEF GapInv

(* fetch's scan stands still.                                              *)
LEMMA GapStill ==
  ASSUME GapInv, records \subseteq records', scan'["fetch"] = scan["fetch"]
  PROVE  GapInv'
<1>1. \A t : Eligible("fetch", t)' <=> Eligible("fetch", t)
  BY DEF Eligible
<1>2. \A t, f : Accounted(t, f) => Accounted(t, f)'
  BY DEF Accounted
<1> QED
  BY <1>1, <1>2 DEF GapInv, At

(* fetch's scan moves on within the loop, or out of it.                    *)
LEMMA GapLoop ==
  ASSUME GapInv,
         scan'["fetch"].listed = scan["fetch"].listed,
         scan'["fetch"].since = scan["fetch"].since,
         scan'["fetch"].backfill = scan["fetch"].backfill,
         \A t \in scan["fetch"].listed, f \in FetchFormats : Accounted(t, f)',
         scan'["fetch"].pc \notin {"idle", "watermark", "anchor", "list"},
         scan'["fetch"].pc = "stamp" =>
           scan'["fetch"].todo = {} /\ scan'["fetch"].left = {}
  PROVE  GapInv'
BY DEF GapInv, Eligible, At

(* The pair it is working on fails.                                        *)
LEMMA GapFailed ==
  ASSUME TypeOK, GapInv, records' = records, scan'["fetch"] = Failed("fetch"),
         scan["fetch"].pc \in {"capture", "record", "register"}
  PROVE  GapInv'
<1>1. PICK s \in Scans : s = scan["fetch"]
  BY DEF TypeOK, Scanner
<1>2. scan'["fetch"] = [[s EXCEPT !.pc = "next", !.pair = None, !.known = {}]
                          EXCEPT !.failed = s.failed \cup {s.pair}]
  BY <1>1 DEF Failed, NextPair, Tried
<1>3. /\ scan'["fetch"].listed = s.listed /\ scan'["fetch"].since = s.since
      /\ scan'["fetch"].backfill = s.backfill /\ scan'["fetch"].pc = "next"
      /\ scan'["fetch"].todo = s.todo /\ scan'["fetch"].left = s.left
      /\ scan'["fetch"].failed = s.failed \cup {s.pair}
  BY <1>2 DEF Scans
<1>4. \A v \in s.listed, f \in FetchFormats : Accounted(v, f)'
  BY <1>1, <1>3 DEF GapInv, Accounted
<1> QED
  BY <1>1, <1>3, <1>4, GapLoop

LEMMA GapRun == ASSUME TypeOK, GapInv, Run("fetch") PROVE GapInv'
<1> USE DEF entries
<1>a. PICK s \in Scans : s = scan["fetch"] /\ Based(s)
  BY DEF TypeOK, Scanner
<1>b. \A z : Locals("fetch", z) => scan'["fetch"] = z
  BY DEF Locals, TypeOK, Scanner
<1>c. /\ NextPair("fetch") = [s EXCEPT !.pc = "next", !.pair = None, !.known = {}]
      /\ Returned("fetch") = [s EXCEPT !.pc = "stamp"]
      /\ Tried("fetch") = s.failed \cup {s.pair}
  BY <1>a DEF NextPair, Returned, Tried
<1>d. /\ NoScan.listed = {} /\ NoScan.todo = {} /\ NoScan.left = {}
      /\ NoScan.pc = "idle"
  BY DEF NoScan
<1>e. scan'["fetch"] = NextPair("fetch") => Moved("next")
  <2>1. PICK z : z = [s EXCEPT !.pc = "next", !.pair = None, !.known = {}]
    OBVIOUS
  <2>2. /\ z.pc = "next" /\ z.since = s.since /\ z.backfill = s.backfill
        /\ z.listed = s.listed /\ z.todo = s.todo /\ z.left = s.left
        /\ z.failed = s.failed
    BY <2>1 DEF Scans
  <2> QED
    BY <1>a, <1>c, <2>1, <2>2 DEF Moved
<1>1. CASE ReadWatermark("fetch")
  <2>1. PICK seen \in {watermark, None} :
          Locals("fetch", [scan["fetch"] EXCEPT
                             !.pc = IF seen = None THEN "anchor" ELSE "list",
                             !.since = Anchored(seen)])
    BY <1>1 DEF ReadWatermark
  <2>2. s.listed = {} /\ s.todo = {} /\ s.left = {}
    BY <1>1, <1>a DEF ReadWatermark, At, GapInv
  <2> QED
    BY <1>a, <1>b, <2>1, <2>2, GapEmpty DEF Scans
<1>2. CASE PutWatermark("fetch")
  <2>1. s.listed = {} /\ s.todo = {} /\ s.left = {}
    BY <1>2, <1>a DEF PutWatermark, At, GapInv
  <2>2. scan'["fetch"] = IF s.backfill THEN [s EXCEPT !.pc = "list"]
                                       ELSE [s EXCEPT !.pc = "stamp"]
    BY <1>2, <1>a, <1>b, <1>c DEF PutWatermark
  <2> QED
    BY <2>1, <2>2, GapEmpty DEF Scans
<1>3. CASE ListStories("fetch")
  <2>1. scan'["fetch"] = [s EXCEPT !.pc = "next", !.todo = corpus,
                            !.listed = {t \in corpus : Eligible("fetch", t)}]
    BY <1>3, <1>a, <1>b DEF ListStories
  <2>2. /\ scan'["fetch"].pc = "next" /\ scan'["fetch"].todo = corpus
        /\ scan'["fetch"].listed = {t \in corpus : Eligible("fetch", t)}
        /\ scan'["fetch"].since = scan["fetch"].since
        /\ scan'["fetch"].backfill = scan["fetch"].backfill
    BY <1>a, <2>1 DEF Scans
  <2> QED
    BY <2>2 DEF GapInv, Accounted, Eligible, At
<1>4. CASE NextStory("fetch")
  <2>1. PICK t \in s.todo :
          scan'["fetch"] = [s EXCEPT !.todo = @ \ {t},
            !.left = IF Eligible("fetch", t) THEN {t} \X FetchFormats ELSE {}]
    BY <1>4, <1>a, <1>b DEF NextStory, FormatsOf
  <2>2. /\ s.pc = "next" /\ s.left = {}
    BY <1>4, <1>a DEF NextStory, At
  <2>3. ASSUME NEW v \in s.listed, NEW f \in FetchFormats PROVE Accounted(v, f)'
    <3>1. Eligible("fetch", v) /\ Accounted(v, f)
      BY <1>a, <2>3 DEF GapInv
    <3>2. CASE v = t
      BY <1>a, <2>1, <3>1, <3>2 DEF Accounted, Scans
    <3>3. CASE v # t
      BY <1>4, <1>a, <2>1, <2>2, <3>1, <3>3 DEF Accounted, Scans, NextStory
    <3> QED
      BY <3>2, <3>3
  <2>4. /\ scan'["fetch"].listed = s.listed /\ scan'["fetch"].since = s.since
        /\ scan'["fetch"].backfill = s.backfill /\ scan'["fetch"].pc = "next"
    BY <2>1, <2>2 DEF Scans
  <2> QED
    BY <1>a, <2>3, <2>4, GapLoop
<1>5. CASE Cancelled("fetch")
  BY <1>5, <1>b, <1>d, GapEmpty DEF Cancelled
<1>6. CASE LoopEnds("fetch")
  <2>1. /\ s.pc = "next" /\ s.left = {} /\ s.todo = {}
        /\ scan'["fetch"] = [s EXCEPT !.pc = "stamp"] /\ records' = records
    BY <1>6, <1>a, <1>b, <1>c DEF LoopEnds, At
  <2>2. \A v \in s.listed, f \in FetchFormats : Accounted(v, f)'
    BY <1>a, <2>1 DEF GapInv, Accounted, Scans
  <2> QED
    BY <1>a, <2>1, <2>2, GapLoop DEF Scans
<1>7. CASE NextFormat("fetch")
  <2>1. PICK pair \in s.left :
          scan'["fetch"] = IF pair \in records
                           THEN [s EXCEPT !.left = @ \ {pair}]
                           ELSE [s EXCEPT !.pc = "capture", !.left = @ \ {pair},
                                          !.pair = pair]
    BY <1>7, <1>a, <1>b DEF NextFormat
  <2>2. s.pc = "next" /\ records' = records
    BY <1>7, <1>a DEF NextFormat, At
  <2>3. /\ scan'["fetch"].listed = s.listed /\ scan'["fetch"].since = s.since
        /\ scan'["fetch"].backfill = s.backfill
        /\ scan'["fetch"].todo = s.todo /\ scan'["fetch"].failed = s.failed
        /\ scan'["fetch"].left = s.left \ {pair}
        /\ \/ scan'["fetch"].pc = "next" /\ pair \in records
           \/ scan'["fetch"].pc = "capture" /\ scan'["fetch"].pair = pair
    BY <2>1, <2>2 DEF Scans
  <2>4. \A v \in s.listed, f \in FetchFormats : Accounted(v, f)'
    BY <1>a, <2>2, <2>3 DEF GapInv, Accounted
  <2> QED
    BY <1>a, <2>3, <2>4, GapLoop
<1>8. CASE Captured("fetch")
  <2>1. /\ s.pc = "capture" /\ records' = records
        /\ scan'["fetch"] = [s EXCEPT !.pc = "record"]
    BY <1>8, <1>a, <1>b DEF Captured, At
  <2>2. Moved("record")
    BY <1>a, <2>1 DEF Scans, Moved
  <2>3. scan'["fetch"].pair = s.pair
    BY <2>1 DEF Scans
  <2>4. \A v \in s.listed, f \in FetchFormats : Accounted(v, f)'
    BY <1>a, <2>1, <2>2, <2>3 DEF GapInv, Accounted, Moved
  <2> QED
    BY <1>a, <2>2, <2>4, GapLoop DEF Moved
<1>9. CASE CaptureFails("fetch")
  <2>1. /\ scan'["fetch"] = Failed("fetch") /\ records' = records
        /\ scan["fetch"].pc = "capture"
    BY <1>9, <1>b DEF CaptureFails, At
  <2> QED
    BY <2>1, GapFailed
<1>10. CASE PutRecord("fetch")
  <2>1. /\ s.pc = "record" /\ records' = records \cup {s.pair}
        /\ scan'["fetch"] = [s EXCEPT !.pc = "registry"]
    BY <1>10, <1>a, <1>b DEF PutRecord, At
  <2>2. Moved("registry")
    BY <1>a, <2>1 DEF Scans, Moved
  <2>3. \A v \in s.listed, f \in FetchFormats : Accounted(v, f)'
    BY <1>a, <2>1, <2>2 DEF GapInv, Accounted, Moved
  <2> QED
    BY <1>a, <2>2, <2>3, GapLoop DEF Moved
<1>11. CASE ReadFormats("fetch")
  <2>1. PICK known \in {formats, {}} :
          scan'["fetch"] = IF s.pair[2] \in known THEN NextPair("fetch")
                           ELSE [s EXCEPT !.pc = "register", !.known = known]
    BY <1>11, <1>a, <1>b DEF ReadFormats
  <2>2. s.pc = "registry" /\ records' = records
    BY <1>11, <1>a DEF ReadFormats, At
  <2>3. Moved("next") \/ Moved("register")
    <3>1. CASE s.pair[2] \in known
      BY <1>e, <2>1, <3>1
    <3>2. CASE s.pair[2] \notin known
      BY <1>a, <2>1, <3>2 DEF Scans, Moved
    <3> QED
      BY <3>1, <3>2
  <2>4. \A v \in s.listed, f \in FetchFormats : Accounted(v, f)'
    BY <1>a, <2>2, <2>3 DEF GapInv, Accounted, Moved
  <2> QED
    BY <1>a, <2>3, <2>4, GapLoop DEF Moved
<1>12. CASE PutFormats("fetch")
  <2>1. /\ s.pc = "register" /\ records' = records
        /\ scan'["fetch"] = NextPair("fetch")
    BY <1>12, <1>a, <1>b DEF PutFormats, At
  <2>2. Moved("next")
    BY <1>e, <2>1
  <2>3. \A v \in s.listed, f \in FetchFormats : Accounted(v, f)'
    BY <1>a, <2>1, <2>2 DEF GapInv, Accounted, Moved
  <2> QED
    BY <1>a, <2>2, <2>3, GapLoop DEF Moved
<1>13. CASE PutLastScan
  BY <1>13, <1>b, <1>d, GapEmpty DEF PutLastScan
<1> QED
  BY <1>1, <1>2, <1>3, <1>4, <1>5, <1>6, <1>7, <1>8, <1>9, <1>10, <1>11, <1>12,
     <1>13 DEF Run

LEMMA GapNext == TypeOK /\ GapInv /\ [Next]_vars => GapInv'
<1> SUFFICES ASSUME TypeOK, GapInv, [Next]_vars PROVE GapInv'
  OBVIOUS
<1> USE DEF entries
<1>1. CASE Tick \/ IntervalElapses \/ StartManual \/ UNCHANGED vars
  <2>1. records' = records /\ scan'["fetch"] = scan["fetch"]
    BY <1>1 DEF Tick, IntervalElapses, StartManual, vars, Locals, TypeOK, Scanner
  <2> QED
    BY <2>1, GapStill
<1>2. CASE StartFetch
  <2>1. scan'["fetch"] = [NoScan EXCEPT !.pc = "watermark"]
    BY <1>2 DEF StartFetch, Locals, TypeOK, Scanner
  <2> QED
    BY <2>1, GapEmpty DEF NoScan
<1>3. ASSUME NEW s \in Story, Arrive(s) PROVE GapInv'
  BY <1>3, GapStill DEF Arrive
<1>4. ASSUME Run("fetch") PROVE GapInv'
  BY <1>4, GapRun
<1>5. ASSUME Run("capture") PROVE GapInv'
  <2>1. records \subseteq records' /\ scan'["fetch"] = scan["fetch"]
    BY <1>5 DEF Run, ReadWatermark, PutWatermark, ListStories, NextStory, Cancelled,
         LoopEnds, NextFormat, Captured, CaptureFails, PutRecord, ReadFormats,
         PutFormats, Locals, TypeOK, Scanner
  <2> QED
    BY <2>1, GapStill
<1>6. ASSUME NEW p \in Scanner, SaveFails(p) \/ Interrupt(p) \/ Kill(p)
      PROVE  GapInv'
  <2>1. records' = records
    BY <1>6 DEF SaveFails, Interrupt, Kill
  <2>2. CASE p # "fetch"
    <3>1. scan'["fetch"] = scan["fetch"]
      BY <1>6, <2>2 DEF SaveFails, Interrupt, Kill, Locals, TypeOK, Scanner
    <3> QED
      BY <2>1, <3>1, GapStill
  <2>3. CASE p = "fetch" /\ Interrupt(p)
    <3>1. /\ scan["fetch"] \in Scans
          /\ scan'["fetch"] = [scan["fetch"] EXCEPT !.cancelled = TRUE]
      BY <2>3 DEF Interrupt, Locals, TypeOK, Scanner
    <3> QED
      BY <2>1, <3>1 DEF GapInv, Accounted, Eligible, At, Scans
  <2>4. CASE p = "fetch" /\ ~Interrupt(p)
    <3>1. scan'["fetch"] = NoScan \/ scan'["fetch"] = Failed("fetch")
      BY <1>6, <2>4 DEF SaveFails, Kill, Locals, TypeOK, Scanner
    <3>2. CASE scan'["fetch"] = NoScan
      BY <3>2, GapEmpty DEF NoScan
    <3>3. CASE scan'["fetch"] = Failed("fetch") /\ scan'["fetch"] # NoScan
      <4>1. ~Kill(p) /\ scan["fetch"].pc \in {"record", "register"}
        BY <1>6, <2>4, <3>3 DEF SaveFails, Kill, Locals, TypeOK, Scanner, At
      <4> QED
        BY <2>1, <3>3, <4>1, GapFailed
    <3> QED
      BY <3>1, <3>2, <3>3
  <2> QED
    BY <2>2, <2>3, <2>4
<1> QED
  BY <1>1, <1>2, <1>3, <1>4, <1>5, <1>6 DEF Next, Scanner

(* fetch stamps a scan, and waits for the next interval, only when every   *)
(* pair it listed has its record, or failed in this scan                   *)
(* (StampedScanLeftNoGap of Capture.tla).                                  *)
THEOREM NoGapBehindTheStamp == Spec => []StampedScanLeftNoGap
<1>1. Init => GapInv
  BY DEF Init, GapInv, NoScan, At, Scanner
<1>2. GapInv => StampedScanLeftNoGap
  BY DEF GapInv, StampedScanLeftNoGap, Accounted, At
<1> QED
  BY <1>1, <1>2, TypeCorrect, GapNext, PTL DEF Spec
=============================================================================
