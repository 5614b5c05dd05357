-------------------------- MODULE TraceMergeProofs --------------------------
(* Proofs about TraceMerge, for every set of files, recording and command  *)
(* line.                                                                   *)
EXTENDS TraceMerge, FiniteSetTheorems, WellFoundedInduction, TLAPS

\* What the loop can rely on: the heap holds the readers that have an event left, and
\* the current event is one of the earliest; among nested spans, the outermost of these.
Before(a, b) == a.ts < b.ts \/ (a.ts = b.ts /\ a.depth <= b.depth)

HeapHolds ==
  /\ heap = IF phase \in {"bounds", "merge", "done"} /\ opts.viz
            THEN {r \in Readers : HasEvent(r, pos)} ELSE {}
  /\ \A r \in heap : /\ Event(top).ts <= Event(r).ts
                     /\ FilesNested => Before(Event(top), Event(r))

\* Nothing has been taken before the merge, and nothing is left after it.
Progress ==
  /\ phase \notin {"merge", "done"} =>
       /\ perfPos = 1 /\ pos = [r \in Readers |-> 1] /\ written = <<>>
  /\ phase = "done" => ~PerfHasNext /\ ~HasNext

\* A record points into the recordings.
WrittenRecord == [source : Readers \cup {"perf"}, n : Nat, ts : Int]

Points(w) ==
  IF w.source = "perf"
  THEN w.n \in 1 .. Len(perf)
  ELSE /\ w.source \in Readers /\ w.n \in 1 .. Len(files[w.source])
       /\ w.ts = AlignViz(Span(w).ts)

RecordsOK == \A k \in 1 .. Len(written) : Points(written[k])

\* All that is still to come belongs after all that is written.
ComesBeforeRest(w) ==
  /\ PerfHasNext => w.ts <= perf[perfPos]
  /\ \A r \in heap :
       /\ w.ts <= AlignViz(Event(r).ts)
       /\ FilesNested /\ w.source # "perf" => Before(Span(w), Event(r))

NothingLate == \A k \in 1 .. Len(written) : ComesBeforeRest(written[k])

TInv ==
  /\ TypeOK
  /\ pos \in [Readers -> Nat]
  /\ written \in Seq(WrittenRecord)

IInv ==
  /\ TInv /\ HeapHolds /\ Progress /\ RecordsOK
  /\ NothingLate /\ OutputInOrder /\ OuterFirst

-----------------------------------------------------------------------------
\* Of spans one after another in this order, the first also comes before the last.
LEMMA BeforeTransitive ==
  ASSUME NEW a \in VizEvent, NEW b \in VizEvent, NEW c \in VizEvent,
         Before(a, b), Before(b, c)
  PROVE  Before(a, c)
<1>1. /\ a.ts \in Int /\ b.ts \in Int /\ c.ts \in Int
      /\ a.depth \in Int /\ b.depth \in Int /\ c.depth \in Int
  BY DEF VizEvent
<1>2. QED BY <1>1 DEF Before

\* Times of viz events keep their order when they are aligned (clock_aligner.h:76).
LEMMA AlignKeepsOrder ==
  ASSUME NEW a \in Nat, NEW b \in Nat, a <= b, offset \in Int
  PROVE  /\ AlignViz(a) \in Int /\ AlignViz(b) \in Int
         /\ AlignViz(a) <= AlignViz(b)
<1>1. NsPerUs \in Nat
  BY MergeAssumption
<1>2. NsPerUs * a \in Int /\ NsPerUs * b \in Int /\ NsPerUs * a <= NsPerUs * b
  BY <1>1
<1>3. QED BY <1>2 DEF AlignViz

\* A set of natural numbers that is not empty has a least one, which LeastOf finds.
LEMMA LeastExists ==
  ASSUME NEW S \in SUBSET Nat, S # {}
  PROVE  LeastOf(S) \in S /\ \A y \in S : LeastOf(S) <= y
<1> DEFINE R == OpToRel(<, Nat)
<1>1. IsWellFoundedOn(R, Nat)
  BY NatLessThanWellFounded
<1>2. \A x \in Nat, y \in Nat : y < x => <<y, x>> \in R
  BY DEF OpToRel
<1> HIDE DEF R
<1>3. PICK x \in S : \A y \in S : ~ (<<y, x>> \in R)
  BY <1>1, WFMin
<1>4. ASSUME NEW y \in S
      PROVE  x <= y
  <2>1. x \in Nat /\ y \in Nat
    OBVIOUS
  <2>2. ~(y < x)
    BY <1>2, <1>3, <2>1
  <2>3. QED BY <2>1, <2>2
<1>5. QED BY <1>4 DEF LeastOf

\* LeastOf has only one choice.
LEMMA LeastIs ==
  ASSUME NEW S \in SUBSET Int, NEW m \in S, \A y \in S : m <= y
  PROVE  LeastOf(S) = m
<1>1. LeastOf(S) \in S /\ \A y \in S : LeastOf(S) <= y
  BY DEF LeastOf
<1>2. LeastOf(S) \in Int /\ m \in Int /\ LeastOf(S) <= m /\ m <= LeastOf(S)
  BY <1>1
<1>3. QED BY <1>2

\* The files of the readers hold viz events, sorted by time.
LEMMA FilesType ==
  ASSUME KWayTypeOK, NEW r \in Readers
  PROVE  /\ files[r] \in Seq(VizEvent) /\ Len(files[r]) \in Nat
         /\ \A i \in 1 .. Len(files[r]) : files[r][i] \in VizEvent
         /\ \A i, j \in 1 .. Len(files[r]) :
              i <= j => files[r][i].ts <= files[r][j].ts
<1>1. files[r] \in VizFiles
  BY DEF KWayTypeOK
<1>2. /\ files[r] \in Seq(VizEvent) /\ Len(files[r]) \in Nat
      /\ \A i \in 1 .. Len(files[r]) : files[r][i] \in VizEvent
  BY <1>1, VizAssumption
<1>3. \A i \in 1 .. Len(files[r]) : files[r][i].ts \in Nat
  BY <1>2 DEF VizEvent
<1>4. QED BY <1>1, <1>2, <1>3, VizAssumption

\* The next events of the readers that have one.
LEMMA EventType ==
  ASSUME KWayTypeOK, NEW r \in Readers, HasEvent(r, pos)
  PROVE  /\ pos[r] \in 1 .. Len(files[r])
         /\ Event(r) \in VizEvent /\ Event(r).ts \in Nat /\ Event(r).depth \in Int
<1>1. pos[r] \in 1 .. Len(files[r])
  BY FilesType DEF KWayTypeOK, HasEvent
<1>2. QED BY <1>1, FilesType DEF Event, VizEvent

\* The perf events are sorted.
LEMMA PerfType ==
  ASSUME TypeOK
  PROVE  /\ Len(perf) \in Nat /\ perfPos \in Nat
         /\ \A i \in 1 .. Len(perf) : perf[i] \in Nat
         /\ \A i, j \in 1 .. Len(perf) : i <= j => perf[i] <= perf[j]
<1>1. perf \in PerfStreams /\ perf \in Seq(Nat)
  BY MergeAssumption DEF TypeOK
<1>2. \A i \in 1 .. Len(perf) : perf[i] \in Nat
  BY <1>1
<1>3. QED BY <1>1, <1>2, MergeAssumption DEF TypeOK

\* Whatever element comes up at the root of a heap (kway_viz_merge.h:80-91), none of the
\* others would begin before it, nor, of nested spans, contain it.
LEMMA RootIsFirst ==
  ASSUME NEW at, NEW readers \in SUBSET Readers, NEW t \in RootOf(readers, at),
         \A r \in readers : files[r][at[r]] \in VizEvent
  PROVE  /\ t = NoReader <=> readers = {}
         /\ t \in readers \cup {NoReader}
         /\ \A r \in readers :
              /\ files[t][at[t]].ts <= files[r][at[r]].ts
              /\ (\A q \in readers : KnownDepth(files[q][at[q]])) =>
                   Before(files[t][at[t]], files[r][at[r]])
<1>1. CASE readers = {}
  BY <1>1 DEF RootOf
<1>2. CASE readers # {}
  <2> DEFINE next(r)  == files[r][at[r]]
             earliest == {r \in readers : \A q \in readers : next(r).ts <= next(q).ts}
  <2>1. t \in Roots(readers, at)
    BY <1>2 DEF RootOf
  <2>2. t \in earliest
    BY <2>1 DEF Roots
  <2>3. t # NoReader
    BY <2>2, VizAssumption
  <2>4. ASSUME NEW r \in readers, \A q \in readers : KnownDepth(next(q))
        PROVE  Before(next(t), next(r))
    <3>1. /\ next(t).ts \in Nat /\ next(r).ts \in Nat
          /\ next(t).depth \in Int /\ next(r).depth \in Int
      BY <2>2 DEF VizEvent
    <3>2. CASE r \in earliest
      <4>1. ~After(next(t), next(r))
        BY <2>1, <2>4, <3>2 DEF Roots
      <4>2. KnownDepth(next(t)) /\ KnownDepth(next(r))
        BY <2>2, <2>4
      <4>3. ~(next(t).ts > next(r).ts)
            /\ ~(next(t).ts = next(r).ts /\ next(t).depth > next(r).depth)
        BY <4>1, <4>2 DEF After
      <4>4. QED BY <3>1, <4>3 DEF Before
    <3>3. CASE r \notin earliest
      <4>1. PICK q \in readers : ~(next(r).ts <= next(q).ts)
        BY <3>3
      <4>2. next(t).ts <= next(q).ts /\ next(q).ts \in Nat
        BY <2>2 DEF VizEvent
      <4>3. next(t).ts < next(r).ts
        BY <3>1, <4>1, <4>2
      <4>4. QED BY <4>3 DEF Before
    <3>4. QED BY <3>2, <3>3
  <2>5. QED BY <1>2, <2>2, <2>3, <2>4
<1>3. QED BY <1>1, <1>2

\* What the pre-scan of the files finds is a time (main.cpp:268-281).
LEMMA VizFirstType ==
  ASSUME TypeOK
  PROVE  /\ VizTimes \in SUBSET Nat /\ VizFirst \in Nat
         /\ VizTimes # {} => /\ VizFirst \in VizTimes
                             /\ \A t \in VizTimes : VizFirst <= t
<1>1. ASSUME NEW t \in VizTimes
      PROVE  t \in Nat
  <2>1. PICK r \in Readers : t \in {files[r][i].ts : i \in 1 .. Len(files[r])}
    BY DEF VizTimes
  <2>2. PICK i \in 1 .. Len(files[r]) : t = files[r][i].ts
    BY <2>1
  <2>3. files[r][i] \in VizEvent
    BY FilesType DEF TypeOK
  <2>4. QED BY <2>2, <2>3 DEF VizEvent
<1>2. VizTimes \in SUBSET Nat
  BY <1>1
<1>3. QED BY <1>2, LeastExists, MergeAssumption DEF VizFirst

\* Where the trace begins is a time (merge_engine.cpp:974-981).
LEMMA TraceBeginsType ==
  ASSUME TypeOK
  PROVE  TraceBegins \in Nat
<1> DEFINE candidates == (IF opts.viz THEN {NsPerUs * VizFirst} ELSE {}) \cup
                         (IF PerfHasNext THEN {AlignPerf(perf[perfPos])} ELSE {})
<1>1. NsPerUs * VizFirst \in Nat
  BY VizFirstType, MergeAssumption
<1>2. PerfHasNext => perf[perfPos] \in Nat
  BY PerfType DEF PerfHasNext, TypeOK
<1>3. candidates \in SUBSET Nat
  BY <1>1, <1>2 DEF AlignPerf
<1>4. TraceBegins = IF candidates = {} THEN Never ELSE LeastOf(candidates)
  BY DEF TraceBegins
<1> HIDE DEF candidates
<1>5. QED BY <1>3, <1>4, LeastExists, MergeAssumption

\* A command line has the types of its fields.
LEMMA OptionsType ==
  ASSUME TypeOK
  PROVE  /\ opts.perf \in BOOLEAN /\ opts.viz \in BOOLEAN /\ opts.detect \in BOOLEAN
         /\ opts.offset \in Int /\ opts.start \in Int /\ opts.end \in Int
BY MergeAssumption DEF TypeOK, CommandLine

-----------------------------------------------------------------------------
\* Initially nothing has been read.
LEMMA InitInv == MergeInit => IInv
<1> SUFFICES ASSUME MergeInit
             PROVE  IInv
  OBVIOUS
<1>1. \A r \in Readers : Len(files[r]) \in Nat
  <2> TAKE r \in Readers
  <2>1. files[r] \in Seq(VizEvent)
    BY VizAssumption DEF MergeInit, KWayInit
  <2>2. QED BY <2>1
<1>2. KWayTypeOK
  BY <1>1 DEF MergeInit, KWayInit, KWayTypeOK, HasNext
<1>3. Len(perf) \in Nat
  BY MergeAssumption DEF MergeInit
<1>4. written = <<>> /\ heap = {}
  BY DEF MergeInit, KWayInit
<1>5. TInv
  BY <1>2, <1>3, <1>4 DEF MergeInit, KWayInit, TInv, TypeOK, NoLimit
<1>6. HeapHolds /\ Progress
  BY DEF MergeInit, KWayInit, HeapHolds, Progress
<1>7. RecordsOK /\ NothingLate /\ OutputInOrder /\ OuterFirst
  BY <1>4 DEF RecordsOK, NothingLate, OutputInOrder, OuterFirst
<1>8. QED BY <1>5, <1>6, <1>7 DEF IInv

\* A step that moves no iterator and writes nothing keeps what is about those.
LEMMA IdleStepKeeps ==
  ASSUME IInv, UNCHANGED <<opts, perf, files, perfPos, pos, heap, top, written>>,
         written = <<>> \/ offset' = offset
  PROVE  RecordsOK' /\ NothingLate' /\ OutputInOrder' /\ OuterFirst'
<1>1. CASE written = <<>>
  BY <1>1 DEF RecordsOK, NothingLate, OutputInOrder, OuterFirst
<1>2. CASE offset' = offset
  <2>1. RecordsOK'
    BY <1>2 DEF IInv, RecordsOK, Points, Span, AlignViz
  <2>2. NothingLate'
    BY <1>2
       DEF IInv, NothingLate, ComesBeforeRest, PerfHasNext, AlignViz, Event, FilesNested, Span
  <2>3. OutputInOrder' /\ OuterFirst'
    BY <1>2 DEF IInv, OutputInOrder, OuterFirst, FilesNested, Span
  <2>4. QED BY <2>1, <2>2, <2>3
<1>3. QED BY <1>1, <1>2

\* The aligner is given a number, or finds one (clock_aligner.h:33-69).
LEMMA AlignClocksKeeps == IInv /\ AlignClocks => IInv'
<1> SUFFICES ASSUME IInv, AlignClocks
             PROVE  IInv'
  OBVIOUS
<1> USE DEF IInv, TInv
<1>1. NsPerUs * VizFirst \in Int
  BY VizFirstType, MergeAssumption
<1>2. PerfFirst \in Int
  BY PerfType DEF PerfFirst, TypeOK
<1>3. DetectedOffset(PerfFirst, PerfLast, NsPerUs * VizFirst, NsPerUs * VizLast) \in Int
  BY <1>1, <1>2 DEF DetectedOffset
<1>4. offset' \in Int
  BY <1>3, OptionsType DEF AlignClocks
<1>5. TInv'
  BY <1>4 DEF AlignClocks, inputVars, windowVars, TypeOK, KWayTypeOK, HasNext, HasEvent
<1>6. HeapHolds' /\ Progress'
  BY DEF AlignClocks, inputVars, HeapHolds, Progress, Event, HasEvent, FilesNested
<1>7. written = <<>>
  BY DEF AlignClocks, Progress
<1>8. RecordsOK' /\ NothingLate' /\ OutputInOrder' /\ OuterFirst'
  BY <1>7, IdleStepKeeps DEF AlignClocks, inputVars
<1>9. QED BY <1>5, <1>6, <1>8

\* The heap is filled (kway_viz_merge.h:23-34).
LEMMA OpenVizKeeps == IInv /\ OpenViz => IInv'
<1> SUFFICES ASSUME IInv, OpenViz
             PROVE  IInv'
  OBVIOUS
<1> USE DEF IInv, TInv
<1>1. written = <<>> /\ written' = <<>> /\ phase = "open" /\ phase' = "bounds"
      /\ files' = files /\ pos' = pos /\ heap = {}
      /\ UNCHANGED <<opts, perf, perfPos, offset, start, end>>
  BY DEF OpenViz, Initialize, vizVars, windowVars, Progress, HeapHolds
<1>2. RecordsOK' /\ NothingLate' /\ OutputInOrder' /\ OuterFirst'
  BY <1>1 DEF RecordsOK, NothingLate, OutputInOrder, OuterFirst
<1>3. Progress'
  BY <1>1 DEF Progress
<1>4. KWayTypeOK' /\ HeapHolds'
  <2>1. CASE opts.viz
    <3> DEFINE opened == {r \in Readers : HasEvent(r, pos)}
    <3>1. heap' = opened /\ top' \in RootOf(opened, pos)
      BY <2>1 DEF OpenViz, Initialize
    <3>2. \A r \in opened : files[r][pos[r]] \in VizEvent
      BY EventType DEF TypeOK, Event
    <3>3. /\ top' = NoReader <=> opened = {}
          /\ top' \in opened \cup {NoReader}
          /\ \A r \in opened :
               /\ files[top'][pos[top']].ts <= files[r][pos[r]].ts
               /\ (\A q \in opened : KnownDepth(files[q][pos[q]])) =>
                    Before(files[top'][pos[top']], files[r][pos[r]])
      <4>1. opened \in SUBSET Readers
        OBVIOUS
      <4> HIDE DEF opened
      <4>2. QED BY <3>1, <3>2, <4>1, RootIsFirst
    <3>4. FilesNested => \A q \in opened : KnownDepth(files[q][pos[q]])
      BY EventType DEF TypeOK, FilesNested
    <3>5. KWayTypeOK'
      BY <1>1, <3>1, <3>3 DEF TypeOK, KWayTypeOK, HasEvent, HasNext
    <3>6. HeapHolds'
      BY <1>1, <2>1, <3>1, <3>3, <3>4 DEF HeapHolds, HasEvent, Event, FilesNested
    <3>7. QED BY <3>5, <3>6
  <2>2. CASE ~opts.viz
    <3>1. UNCHANGED vizVars
      BY <2>2 DEF OpenViz
    <3>2. QED BY <1>1, <2>2, <3>1
           DEF vizVars, TypeOK, KWayTypeOK, HasNext, HasEvent, HeapHolds
  <2>3. QED BY <2>1, <2>2
<1>5. TInv'
  BY <1>1, <1>4 DEF TypeOK
<1>6. QED BY <1>2, <1>3, <1>4, <1>5

\* The window is placed (merge_engine.cpp:95-123, 974-992).
LEMMA PlaceWindowKeeps == IInv /\ PlaceWindow => IInv'
<1> SUFFICES ASSUME IInv, PlaceWindow
             PROVE  IInv'
  OBVIOUS
<1> USE DEF IInv, TInv
<1>1. \A limit \in Int : TraceBegins + NsPerUs * limit \in Int /\ NoLimit \in Int
  BY TraceBeginsType, MergeAssumption DEF NoLimit
<1>2. start' \in Int /\ end' \in Int
  BY <1>1, OptionsType DEF PlaceWindow
<1>3. TInv'
  BY <1>2 DEF PlaceWindow, inputVars, TypeOK, KWayTypeOK, HasNext, HasEvent
<1>4. HeapHolds' /\ Progress'
  BY DEF PlaceWindow, inputVars, HeapHolds, Progress, Event, HasEvent, FilesNested
<1>5. RecordsOK' /\ NothingLate' /\ OutputInOrder' /\ OuterFirst'
  BY IdleStepKeeps DEF PlaceWindow, inputVars
<1>6. QED BY <1>3, <1>4, <1>5

\* The loop ends (merge_engine.cpp:996).
LEMMA EndMergeKeeps == IInv /\ EndMerge => IInv'
<1> SUFFICES ASSUME IInv, EndMerge
             PROVE  IInv'
  OBVIOUS
<1> USE DEF IInv, TInv
<1>1. TInv'
  BY DEF EndMerge, inputVars, windowVars, TypeOK, KWayTypeOK, HasNext, HasEvent
<1>2. HeapHolds' /\ Progress'
  BY DEF EndMerge, inputVars, HeapHolds, Progress, Event, HasEvent, FilesNested,
         PerfHasNext, HasNext
<1>3. RecordsOK' /\ NothingLate' /\ OutputInOrder' /\ OuterFirst'
  BY IdleStepKeeps DEF EndMerge, inputVars
<1>4. QED BY <1>1, <1>2, <1>3

-----------------------------------------------------------------------------
\* A time at which a record may be written (merge_engine.cpp:1010-1039): its event
\* comes after all that is written, and before all that remains after the step.
LEMMA WriteKeeps ==
  ASSUME IInv, NEW w \in WrittenRecord, Points(w),
         written' \in {written, Append(written, w)},
         UNCHANGED <<opts, perf, files, offset>>,
         \A k \in 1 .. Len(written) :
           /\ written[k].ts <= w.ts
           /\ FilesNested /\ written[k].source # "perf" /\ w.source # "perf" =>
                Before(Span(written[k]), Span(w)),
         ComesBeforeRest(w)',
         \A v \in WrittenRecord :
           ComesBeforeRest(v) /\ Points(v) => ComesBeforeRest(v)'
  PROVE  /\ written' \in Seq(WrittenRecord)
         /\ \A k \in 1 .. Len(written') :
              written'[k].source \in Readers \cup {"perf"} /\ written'[k].ts \in Int
         /\ RecordsOK' /\ NothingLate' /\ OutputInOrder' /\ OuterFirst'
<1>1. written \in Seq(WrittenRecord) /\ Len(written) \in Nat
  BY DEF IInv, TInv
<1>2. written' \in Seq(WrittenRecord) /\ Len(written') \in Nat
  BY <1>1
<1>3. \A k \in 1 .. Len(written') :
        \/ k \in 1 .. Len(written) /\ written'[k] = written[k]
        \/ k = Len(written) + 1 /\ written'[k] = w
  BY <1>1
<1>4. \A k \in 1 .. Len(written') : written'[k] \in WrittenRecord
  BY <1>2
<1>5. RecordsOK'
  <2>1. \A k \in 1 .. Len(written) : Points(written[k])
    BY DEF IInv, RecordsOK
  <2>2. \A k \in 1 .. Len(written') : Points(written'[k])
    BY <1>3, <2>1
  <2>3. QED BY <2>2 DEF RecordsOK, Points, Span, AlignViz
<1>6. NothingLate'
  <2> SUFFICES ASSUME NEW k \in 1 .. Len(written')
               PROVE  ComesBeforeRest(written[k])'
    BY DEF NothingLate
  <2>1. PICK v \in WrittenRecord : v = written'[k]
    BY <1>4
  <2>2. v = w \/ (ComesBeforeRest(v) /\ Points(v))
    BY <1>3, <2>1 DEF IInv, NothingLate, RecordsOK
  <2>3. ComesBeforeRest(v)'
    BY <2>2
  <2>4. QED BY <2>1, <2>3 DEF ComesBeforeRest
<1>7. OutputInOrder'
  <2> SUFFICES ASSUME NEW k \in 1 .. Len(written') - 1
               PROVE  written'[k].ts <= written'[k + 1].ts
    BY DEF OutputInOrder
  <2>1. k \in 1 .. Len(written') /\ k + 1 \in 1 .. Len(written')
    BY <1>2
  <2>2. k \in 1 .. Len(written) /\ written'[k] = written[k]
    BY <1>1, <1>2, <1>3, <2>1
  <2>3. CASE k + 1 \in 1 .. Len(written) /\ written'[k + 1] = written[k + 1]
    <3>1. k \in 1 .. Len(written) - 1
      BY <1>1, <2>3
    <3>2. QED BY <2>2, <2>3, <3>1 DEF IInv, OutputInOrder
  <2>4. CASE written'[k + 1] = w
    BY <2>2, <2>4
  <2>5. QED BY <1>3, <2>1, <2>3, <2>4
<1>8. OuterFirst'
  <2> SUFFICES ASSUME FilesNested,
                      NEW k \in 1 .. Len(written'), NEW l \in 1 .. Len(written'), k < l,
                      "perf" \notin {written'[k].source, written'[l].source}
               PROVE  OuterOf(Span(written'[k]), Span(written'[l]))
    BY DEF OuterFirst, FilesNested, Span
  <2>1. k \in 1 .. Len(written) /\ written'[k] = written[k]
    BY <1>1, <1>2, <1>3
  <2>2. CASE l \in 1 .. Len(written) /\ written'[l] = written[l]
    BY <2>1, <2>2 DEF IInv, OuterFirst
  <2>3. CASE written'[l] = w
    <3>1. Before(Span(written[k]), Span(w))
      BY <2>1, <2>3
    <3>2. Span(written[k]) \in VizEvent /\ Span(w) \in VizEvent
      <4>1. Points(written[k]) /\ Points(w)
        BY <2>1 DEF IInv, RecordsOK
      <4>2. QED BY <2>1, <2>3, <4>1, FilesType DEF Points, Span, IInv, TInv, TypeOK
    <3>3. QED BY <2>1, <2>3, <3>1, <3>2 DEF Before, OuterOf, VizEvent
  <2>4. QED BY <1>3, <2>2, <2>3
<1>9. QED BY <1>2, <1>4, <1>5, <1>6, <1>7, <1>8 DEF WrittenRecord

\* The next perf event is taken (merge_engine.cpp:1010-1013).
LEMMA EmitPerfKeeps == IInv /\ EmitPerf => IInv'
<1> SUFFICES ASSUME IInv, EmitPerf
             PROVE  IInv'
  OBVIOUS
<1>0. TypeOK /\ perfPos \in 1 .. Len(perf) /\ perf[perfPos] \in Nat
  BY PerfType DEF IInv, TInv, TypeOK, EmitPerf, PerfIsNext, PerfHasNext
<1>t. PICK t \in Nat : t = perf[perfPos]
  BY <1>0
<1>w. PICK w \in WrittenRecord : w = Record("perf", perfPos, t)
  <2>1. perfPos \in Nat /\ t \in Int
    BY <1>0, PerfType
  <2>2. Record("perf", perfPos, t) \in WrittenRecord
    BY <2>1 DEF WrittenRecord, Record
  <2>3. QED BY <2>2
<1>1. /\ phase = "merge" /\ phase' = phase /\ perfPos' = perfPos + 1
      /\ UNCHANGED <<opts, perf, files, pos, heap, top, offset, start, end>>
      /\ PerfHasNext /\ (HasNext => t <= AlignViz(Event(top).ts))
  BY <1>t DEF EmitPerf, inputVars, windowVars, PerfIsNext, AlignPerf
<1>2. TypeOK
  BY DEF IInv, TInv
<1>3. perfPos + 1 <= Len(perf) => t <= perf[perfPos + 1]
  BY <1>0, <1>t, PerfType
<1>4. Points(w)
  BY <1>0, <1>w DEF Points, Record
<1>5. written' \in {written, Append(written, w)}
  BY <1>t, <1>w DEF EmitPerf, AlignPerf
<1>6. w.ts = t /\ w.source = "perf"
  BY <1>w DEF Record
<1>7. ComesBeforeRest(w)'
  <2>1. PerfHasNext' => t <= perf'[perfPos']
    BY <1>1, <1>3 DEF PerfHasNext
  <2>2. ASSUME NEW r \in heap
        PROVE  t <= AlignViz(Event(r).ts)
    <3>1. r \in Readers /\ HasEvent(r, pos) /\ top \in Readers /\ HasEvent(top, pos)
      BY <1>2, VizAssumption DEF TypeOK, KWayTypeOK, HasNext
    <3>2. Event(top).ts \in Nat /\ Event(r).ts \in Nat
      BY <1>2, <3>1, EventType DEF TypeOK
    <3>3. Event(top).ts <= Event(r).ts
      BY DEF IInv, HeapHolds
    <3>4. t <= AlignViz(Event(top).ts)
      BY <1>1, <1>2 DEF TypeOK, KWayTypeOK
    <3>5. QED BY <1>2, <1>3, <3>2, <3>3, <3>4, AlignKeepsOrder DEF TypeOK
  <2>3. QED BY <1>1, <1>6, <2>1, <2>2 DEF ComesBeforeRest, AlignViz, Event
<1>8. \A k \in 1 .. Len(written) : written[k].ts <= w.ts
  BY <1>1, <1>t, <1>6 DEF IInv, NothingLate, ComesBeforeRest
<1>9. ASSUME NEW v \in WrittenRecord, ComesBeforeRest(v)
      PROVE  ComesBeforeRest(v)'
  <2>1. v.ts \in Int /\ v.ts <= t
    BY <1>1, <1>t, <1>9 DEF ComesBeforeRest, WrittenRecord
  <2>2. PerfHasNext' => v.ts <= perf'[perfPos']
    BY <1>0, <1>1, <1>3, <2>1, PerfType DEF PerfHasNext
  <2>3. QED BY <1>1, <1>9, <2>2
        DEF ComesBeforeRest, AlignViz, Event, FilesNested, Span
<1>10. /\ written' \in Seq(WrittenRecord)
       /\ \A k \in 1 .. Len(written') :
            written'[k].source \in Readers \cup {"perf"} /\ written'[k].ts \in Int
       /\ RecordsOK' /\ NothingLate' /\ OutputInOrder' /\ OuterFirst'
  BY <1>1, <1>4, <1>5, <1>6, <1>7, <1>8, <1>9, WriteKeeps
<1>11. TInv'
  <2>1. perfPos' \in 1 .. Len(perf') + 1
    BY <1>0, <1>1, PerfType
  <2>2. KWayTypeOK' /\ pos' \in [Readers -> Nat]
    BY <1>1, <1>2 DEF IInv, TInv, TypeOK, KWayTypeOK, HasNext, HasEvent
  <2>3. QED BY <1>1, <1>2, <1>10, <2>1, <2>2 DEF TInv, TypeOK
<1>12. HeapHolds' /\ Progress'
  BY <1>1 DEF IInv, HeapHolds, Progress, Event, HasEvent, FilesNested
<1>13. QED BY <1>10, <1>11, <1>12 DEF IInv

\* The reader at the root moves on to its next event, the others stay; and whatever
\* comes up at the root is the first of those that remain (kway_viz_merge.h:40-63).
LEMMA AdvanceVizKeeps ==
  ASSUME TInv, HeapHolds, AdvanceViz
  PROVE  /\ KWayTypeOK' /\ pos' \in [Readers -> Nat]
         /\ top \in Readers /\ HasEvent(top, pos) /\ top \in heap
         /\ pos' = [pos EXCEPT ![top] = @ + 1]
         /\ files' = files /\ heap' \subseteq heap /\ heap \subseteq Readers
         /\ heap = {r \in Readers : HasEvent(r, pos)} =>
              heap' = {r \in Readers : HasEvent(r, pos')}
         /\ \A r \in heap' :
              /\ Event(top).ts <= files[r][pos'[r]].ts
              /\ FilesNested => Before(Event(top), files[r][pos'[r]])
              /\ files[r][pos'[r]] \in VizEvent
              /\ files[top'][pos'[top']].ts <= files[r][pos'[r]].ts
              /\ FilesNested => Before(files[top'][pos'[top']], files[r][pos'[r]])
<1>1. KWayTypeOK /\ pos \in [Readers -> Nat]
  BY DEF TInv, TypeOK
<1>2. top \in heap /\ top \in Readers /\ HasEvent(top, pos) /\ heap \subseteq Readers
  BY <1>1 DEF AdvanceViz, HasNext, KWayTypeOK
<1>3. /\ pos' = [pos EXCEPT ![top] = @ + 1] /\ pos' \in [Readers -> Nat]
      /\ heap' = {r \in heap : HasEvent(r, pos')} /\ files' = files
      /\ top' \in RootOf(heap', pos')
  BY <1>1, <1>2 DEF AdvanceViz
<1>4. \A r \in Readers : pos'[r] = IF r = top THEN pos[r] + 1 ELSE pos[r]
  BY <1>1, <1>3
<1>5. pos[top] \in 1 .. Len(files[top]) /\ Len(files[top]) \in Nat
  BY <1>1, <1>2, EventType, FilesType
<1>6. \A r \in Readers : HasEvent(r, pos') => HasEvent(r, pos)
  BY <1>2, <1>4, <1>5 DEF HasEvent
<1>7. \A r \in Readers : pos'[r] \in 1 .. Len(files[r]) + 1
  BY <1>1, <1>4, <1>5 DEF KWayTypeOK
<1>8. \A r \in heap' : /\ pos'[r] \in 1 .. Len(files[r])
                       /\ files[r][pos'[r]] \in VizEvent
  <2> TAKE r \in heap'
  <2>1. r \in Readers /\ HasEvent(r, pos')
    BY <1>2, <1>3
  <2>2. pos'[r] \in 1 .. Len(files[r])
    BY <1>7, <2>1, <1>1, FilesType DEF HasEvent
  <2>3. QED BY <1>1, <2>1, <2>2, FilesType
<1>9. ASSUME NEW r \in heap'
      PROVE  /\ Event(top).ts <= files[r][pos'[r]].ts
             /\ FilesNested => Before(Event(top), files[r][pos'[r]])
  <2>1. r \in heap /\ r \in Readers
    BY <1>2, <1>3
  <2>2. CASE r # top
    <3>1. files[r][pos'[r]] = Event(r)
      BY <1>4, <2>1, <2>2 DEF Event
    <3>2. QED BY <2>1, <3>1 DEF HeapHolds
  <2>3. CASE r = top
    <3>1. pos'[r] = pos[top] + 1 /\ pos'[r] \in 1 .. Len(files[top])
      BY <1>4, <1>8, <2>1, <2>3
    <3>2. /\ files[top][pos[top]].ts <= files[top][pos[top] + 1].ts
          /\ files[top][pos[top]] \in VizEvent /\ files[top][pos[top] + 1] \in VizEvent
      <4>1. PICK i \in 1 .. Len(files[top]) : i = pos[top]
        BY <1>5
      <4>2. i < i + 1 /\ i + 1 \in 1 .. Len(files[top])
        BY <3>1, <4>1
      <4>3. QED BY <1>1, <1>2, <4>1, <4>2, FilesType
    <3>3. FilesNested => OuterOf(files[top][pos[top]], files[top][pos[top] + 1])
      BY <1>2, <1>5, <3>1 DEF FilesNested
    <3>4. FilesNested => Before(files[top][pos[top]], files[top][pos[top] + 1])
      <4>1. PICK a \in VizEvent, b \in VizEvent :
              a = files[top][pos[top]] /\ b = files[top][pos[top] + 1]
        BY <3>2
      <4>2. a.ts \in Nat /\ b.ts \in Nat /\ a.depth \in Int /\ b.depth \in Int
        BY DEF VizEvent
      <4>3. a.ts <= b.ts /\ (FilesNested => OuterOf(a, b))
        BY <3>2, <3>3, <4>1
      <4>4. QED BY <4>1, <4>2, <4>3 DEF Before, OuterOf
    <3>5. QED BY <2>3, <3>1, <3>2, <3>4 DEF Event
  <2>4. QED BY <2>2, <2>3
<1>10. FilesNested => \A q \in heap' : KnownDepth(files[q][pos'[q]])
  BY <1>2, <1>3, <1>8 DEF FilesNested
<1>11. /\ top' = NoReader <=> heap' = {}
       /\ top' \in heap' \cup {NoReader}
       /\ \A r \in heap' :
            /\ files[top'][pos'[top']].ts <= files[r][pos'[r]].ts
            /\ (\A q \in heap' : KnownDepth(files[q][pos'[q]])) =>
                 Before(files[top'][pos'[top']], files[r][pos'[r]])
  <2>1. PICK at \in [Readers -> Nat] : at = pos'
    BY <1>3
  <2>2. PICK left \in SUBSET Readers : left = heap'
    BY <1>2, <1>3
  <2>3. PICK t \in left \cup {NoReader} : t = top' /\ t \in RootOf(left, at)
    BY <1>3, <2>1, <2>2, <1>8, RootIsFirst
  <2>4. \A r \in left : files[r][at[r]] \in VizEvent
    BY <1>8, <2>1, <2>2
  <2>5. /\ t = NoReader <=> left = {}
        /\ \A r \in left :
             /\ files[t][at[t]].ts <= files[r][at[r]].ts
             /\ (\A q \in left : KnownDepth(files[q][at[q]])) =>
                  Before(files[t][at[t]], files[r][at[r]])
    BY <2>3, <2>4, RootIsFirst
  <2>6. QED BY <2>1, <2>2, <2>3, <2>5
<1>12. KWayTypeOK'
  BY <1>1, <1>2, <1>3, <1>7, <1>11 DEF KWayTypeOK, HasNext, HasEvent
<1>13. heap = {r \in Readers : HasEvent(r, pos)} =>
         heap' = {r \in Readers : HasEvent(r, pos')}
  BY <1>3, <1>6
<1>14. QED
  BY <1>2, <1>3, <1>8, <1>9, <1>10, <1>11, <1>12, <1>13

\* The next viz event is taken (merge_engine.cpp:1014-1039).
LEMMA EmitVizKeeps == IInv /\ EmitViz => IInv'
<1> SUFFICES ASSUME IInv, EmitViz
             PROVE  IInv'
  OBVIOUS
<1>0. TypeOK /\ TInv /\ HeapHolds
  BY DEF IInv, TInv
<1>1. /\ phase = "merge" /\ phase' = phase /\ AdvanceViz
      /\ UNCHANGED <<opts, perf, files, perfPos, offset, start, end>>
      /\ ~PerfIsNext /\ HasNext
  BY DEF EmitViz, AdvanceViz, windowVars
<1>2. /\ KWayTypeOK' /\ pos' \in [Readers -> Nat]
      /\ top \in Readers /\ HasEvent(top, pos) /\ top \in heap
      /\ heap' \subseteq heap /\ heap \subseteq Readers
      /\ heap = {r \in Readers : HasEvent(r, pos)} =>
           heap' = {r \in Readers : HasEvent(r, pos')}
      /\ \A r \in heap' :
           /\ Event(top).ts <= files[r][pos'[r]].ts
           /\ FilesNested => Before(Event(top), files[r][pos'[r]])
           /\ files[r][pos'[r]] \in VizEvent
           /\ files[top'][pos'[top']].ts <= files[r][pos'[r]].ts
           /\ FilesNested => Before(files[top'][pos'[top']], files[r][pos'[r]])
  BY <1>0, <1>1, AdvanceVizKeeps
<1>3. /\ pos[top] \in 1 .. Len(files[top]) /\ pos[top] \in Nat
      /\ Event(top) \in VizEvent /\ Event(top).ts \in Nat
      /\ AlignViz(Event(top).ts) \in Int
  BY <1>0, <1>2, EventType, AlignKeepsOrder DEF TInv, TypeOK
<1>4. PICK t \in Int : t = AlignViz(Event(top).ts)
  BY <1>3
<1>5. PICK w \in WrittenRecord : w = Record(top, pos[top], t)
  <2>1. Record(top, pos[top], t) \in WrittenRecord
    BY <1>2, <1>3 DEF WrittenRecord, Record
  <2>2. QED BY <2>1
<1>6. w.ts = t /\ w.source = top /\ w.n = pos[top] /\ w.source # "perf"
  BY <1>2, <1>5, MergeAssumption DEF Record
<1>7. Span(w) = Event(top) /\ Points(w)
  BY <1>2, <1>3, <1>4, <1>6 DEF Span, Event, Points
<1>8. written' \in {written, Append(written, w)}
  BY <1>4, <1>5 DEF EmitViz
<1>9. PerfHasNext => t <= perf[perfPos]
  <2>1. PerfHasNext => perf[perfPos] \in Nat
    BY <1>0, PerfType DEF PerfHasNext, TypeOK
  <2>2. PerfHasNext => ~(perf[perfPos] <= t)
    BY <1>1, <1>4 DEF PerfIsNext, AlignPerf
  <2>3. QED BY <2>1, <2>2
<1>10. ASSUME NEW r \in heap'
       PROVE  /\ files[r][pos'[r]].ts \in Nat
              /\ t <= AlignViz(files[r][pos'[r]].ts)
  <2>1. files[r][pos'[r]].ts \in Nat
    BY <1>2 DEF VizEvent
  <2>2. QED BY <1>0, <1>2, <1>3, <1>4, <2>1, AlignKeepsOrder DEF TypeOK
<1>11. ComesBeforeRest(w)'
  <2>1. PerfHasNext' => w.ts <= perf'[perfPos']
    BY <1>1, <1>6, <1>9 DEF PerfHasNext
  <2>2. ASSUME NEW r \in heap'
        PROVE  /\ w.ts <= AlignViz(files[r][pos'[r]].ts)
               /\ FilesNested => Before(Span(w), files[r][pos'[r]])
    BY <1>2, <1>6, <1>7, <1>10
  <2>3. QED BY <1>1, <2>1, <2>2 DEF ComesBeforeRest, AlignViz, Event, FilesNested, Span
<1>12. \A k \in 1 .. Len(written) :
         /\ written[k].ts <= w.ts
         /\ FilesNested /\ written[k].source # "perf" /\ w.source # "perf" =>
              Before(Span(written[k]), Span(w))
  BY <1>2, <1>4, <1>6, <1>7 DEF IInv, NothingLate, ComesBeforeRest
<1>13. ASSUME NEW v \in WrittenRecord, ComesBeforeRest(v), Points(v)
       PROVE  ComesBeforeRest(v)'
  <2>1. v.ts \in Int /\ v.ts <= t
    BY <1>2, <1>4, <1>13 DEF ComesBeforeRest, WrittenRecord
  <2>2. ASSUME NEW r \in heap'
        PROVE  v.ts <= AlignViz(files[r][pos'[r]].ts)
    <3>1. AlignViz(files[r][pos'[r]].ts) \in Int
      BY <1>0, <1>10, AlignKeepsOrder DEF TypeOK
    <3>2. QED BY <1>10, <2>1, <3>1
  <2>3. ASSUME NEW r \in heap', FilesNested, v.source # "perf"
        PROVE  Before(Span(v), files[r][pos'[r]])
    <3>1. Before(Span(v), Event(top)) /\ Before(Event(top), files[r][pos'[r]])
      BY <1>2, <1>13, <2>3 DEF ComesBeforeRest
    <3>2. Span(v) \in VizEvent
      BY <1>0, <1>13, <2>3, FilesType DEF Points, Span, TypeOK
    <3>3. QED BY <1>2, <1>3, <3>1, <3>2, BeforeTransitive
  <2>4. PerfHasNext' => v.ts <= perf'[perfPos']
    BY <1>1, <1>13 DEF PerfHasNext, ComesBeforeRest
  <2>5. QED BY <1>1, <2>2, <2>3, <2>4
        DEF ComesBeforeRest, AlignViz, Event, FilesNested, Span
<1>14. /\ written' \in Seq(WrittenRecord)
       /\ \A k \in 1 .. Len(written') :
            written'[k].source \in Readers \cup {"perf"} /\ written'[k].ts \in Int
       /\ RecordsOK' /\ NothingLate' /\ OutputInOrder' /\ OuterFirst'
  BY <1>1, <1>7, <1>8, <1>11, <1>12, <1>13, WriteKeeps
<1>15. TInv'
  BY <1>0, <1>1, <1>2, <1>14 DEF TInv, TypeOK
<1>16. HeapHolds' /\ Progress'
  <2>1. opts.viz /\ heap = {r \in Readers : HasEvent(r, pos)}
    BY <1>0, <1>1, <1>2 DEF HeapHolds
  <2>2. heap' = {r \in Readers : HasEvent(r, pos)'}
    BY <1>1, <1>2, <2>1 DEF HasEvent
  <2>3. \A r \in heap' : /\ Event(top)'.ts <= Event(r)'.ts
                         /\ FilesNested' => Before(Event(top)', Event(r)')
    BY <1>1, <1>2 DEF Event, FilesNested
  <2>4. HeapHolds'
    BY <1>1, <2>1, <2>2, <2>3 DEF HeapHolds, Event
  <2>5. Progress'
    BY <1>1 DEF Progress
  <2>6. QED BY <2>4, <2>5
<1>17. QED BY <1>14, <1>15, <1>16 DEF IInv

-----------------------------------------------------------------------------
\* Every step of the merge keeps the invariant.
LEMMA StepInv == IInv /\ [Next]_vars => IInv'
<1> SUFFICES ASSUME IInv, [Next]_vars
             PROVE  IInv'
  OBVIOUS
<1>1. CASE Next
  BY <1>1, AlignClocksKeeps, OpenVizKeeps, PlaceWindowKeeps, EmitPerfKeeps, EmitVizKeeps,
     EndMergeKeeps DEF Next
<1>2. CASE UNCHANGED vars
  <2>1. UNCHANGED <<opts, perf, files, perfPos, pos, heap, top, offset, start, end,
                    written, phase>>
    BY <1>2 DEF vars, inputVars, windowVars
  <2>2. RecordsOK' /\ NothingLate' /\ OutputInOrder' /\ OuterFirst'
    BY <2>1, IdleStepKeeps
  <2>3. TInv'
    BY <2>1 DEF IInv, TInv, TypeOK, KWayTypeOK, HasNext, HasEvent
  <2>4. HeapHolds' /\ Progress'
    BY <2>1 DEF IInv, HeapHolds, Progress, Event, HasEvent, FilesNested,
                PerfHasNext, HasNext
  <2>5. QED BY <2>2, <2>3, <2>4 DEF IInv
<1>3. QED BY <1>1, <1>2

\* The merge loop keeps its invariant from the command line to the end of the trace: the
\* heap holds the readers that have an event left, the current event is among the earliest
\* of them, and every record written is of a time that has been passed.
THEOREM MergeInvariant == Spec => []IInv
BY InitInv, StepInv, PTL DEF Spec

\* The variables of the merge keep their types; the heap of readers and the current
\* event agree (kway_viz_merge.h).
THEOREM MergeTypeCorrect == Spec => []TypeOK
<1>1. IInv => TypeOK
  BY DEF IInv, TInv
<1>2. QED BY <1>1, MergeInvariant, PTL

\* However many files there are and whatever the offset between the clocks: the loop of
\* merge_viz_events writes in the order of the aligned times.
THEOREM MergeWritesInOrder == Spec => []OutputInOrder
<1>1. IInv => OutputInOrder
  BY DEF IInv
<1>2. QED BY <1>1, MergeInvariant, PTL

\* The comparator of the heap (kway_viz_merge.h:80-91) keeps spans that begin together
\* outermost first, across files.
THEOREM MergeOutermostFirst == Spec => []OuterFirst
<1>1. IInv => OuterFirst
  BY DEF IInv
<1>2. QED BY <1>1, MergeInvariant, PTL

-----------------------------------------------------------------------------
(* What is written is what the window asks for, if one clock counts for both:  *)
(* TraceBegins takes the first viz event at its own time (set_viz_metadata     *)
(* compares viz_min_ts_us, unaligned, with the aligned time of the first perf  *)
(* event), so the window is placed where it should be if the offset is 0, if   *)
(* there are no viz events, or if there is no window to place.                 *)

OneClock == ~opts.viz \/ offset = 0 \/ (opts.start < 0 /\ opts.end < 0)

Begins == LeastOf({e.ts : e \in Recorded})

\* In the window, as the user asked for it.
InWindow(t) ==
  /\ opts.start >= 0 => t >= Begins + NsPerUs * opts.start
  /\ opts.end >= 0 => t <= Begins + NsPerUs * opts.end

Passes(w) ==
  /\ PassesTimeFilter(w.ts)
  /\ w.source # "perf" => PassesVizFilter(files[w.source][w.n])

\* The loop has been past this event.
Taken(w) == IF w.source = "perf" THEN w.n < perfPos ELSE w.n < pos[w.source]

\* So far, the loop has written the events that pass, once each.
WrittenSoFar ==
  phase \in {"merge", "done"} =>
    /\ \A k \in 1 .. Len(written) :
         written[k] \in Recorded /\ Taken(written[k]) /\ Passes(written[k])
    /\ \A w \in Recorded :
         Taken(w) /\ Passes(w) => \E k \in 1 .. Len(written) : written[k] = w
    /\ \A k, l \in 1 .. Len(written) : written[k] = written[l] => k = l

WindowPlaced ==
  phase \in {"merge", "done"} /\ OneClock /\ Recorded # {} =>
    \A t \in Int : PassesTimeFilter(t) <=> InWindow(t)

WInv == IInv /\ WrittenSoFar /\ WindowPlaced

-----------------------------------------------------------------------------
\* What the recordings hold.
LEMMA RecordedIs ==
  ASSUME TypeOK, NEW w
  PROVE  w \in Recorded <=>
           \/ /\ opts.perf
              /\ \E i \in 1 .. Len(perf) : w = Record("perf", i, perf[i])
           \/ /\ opts.viz
              /\ \E r \in Readers : \E i \in 1 .. Len(files[r]) :
                   w = Record(r, i, AlignViz(files[r][i].ts))
<1> DEFINE ofPerf == {Record("perf", i, AlignPerf(perf[i])) : i \in 1 .. Len(perf)}
           ofFile(r) == {Record(r, i, AlignViz(files[r][i].ts)) : i \in 1 .. Len(files[r])}
           ofViz == UNION {ofFile(r) : r \in Readers}
<1>1. w \in ofPerf <=> \E i \in 1 .. Len(perf) : w = Record("perf", i, perf[i])
  BY DEF AlignPerf
<1>2. w \in ofViz <=> \E r \in Readers : \E i \in 1 .. Len(files[r]) :
                        w = Record(r, i, AlignViz(files[r][i].ts))
  OBVIOUS
<1>3. Recorded = (IF opts.perf THEN ofPerf ELSE {}) \cup (IF opts.viz THEN ofViz ELSE {})
  BY DEF Recorded
<1> HIDE DEF ofPerf, ofViz
<1>4. QED BY <1>1, <1>2, <1>3

\* The times that are recorded; none reaches the largest double.
LEMMA RecordedTypes ==
  ASSUME TypeOK, NEW w \in Recorded
  PROVE  /\ w \in WrittenRecord
         /\ ~opts.viz \/ offset = 0 => w.ts \in Nat /\ w.ts < Never
<1>1. CASE \E i \in 1 .. Len(perf) : w = Record("perf", i, perf[i])
  <2>1. PICK i \in 1 .. Len(perf) : w = Record("perf", i, perf[i])
    BY <1>1
  <2>2. i \in Nat /\ perf[i] \in Nat /\ perf[i] < Never
    BY PerfType, NeverAssumption DEF TypeOK
  <2>3. w.ts = perf[i]
    BY <2>1 DEF Record
  <2>4. w \in WrittenRecord
    BY <2>1, <2>2 DEF Record, WrittenRecord
  <2>5. QED BY <2>2, <2>3, <2>4
<1>2. CASE /\ opts.viz
           /\ \E r \in Readers : \E i \in 1 .. Len(files[r]) :
                w = Record(r, i, AlignViz(files[r][i].ts))
  <2>1. PICK r \in Readers : \E i \in 1 .. Len(files[r]) :
               w = Record(r, i, AlignViz(files[r][i].ts))
    BY <1>2
  <2>2. PICK i \in 1 .. Len(files[r]) : w = Record(r, i, AlignViz(files[r][i].ts))
    BY <2>1
  <2>3. i \in Nat /\ files[r][i].ts \in Nat /\ NsPerUs * files[r][i].ts < Never
    <3>1. KWayTypeOK
      BY DEF TypeOK
    <3>2. files[r] \in VizFiles /\ files[r][i] \in VizEvent
      BY <3>1, FilesType DEF KWayTypeOK
    <3>3. files[r][i].ts \in Nat
      BY <3>2 DEF VizEvent
    <3>4. NsPerUs * files[r][i].ts < Never
      BY <3>2, NeverAssumption
    <3>5. QED BY <3>3, <3>4
  <2>4. NsPerUs * files[r][i].ts \in Nat
    BY <2>3, MergeAssumption
  <2>5. AlignViz(files[r][i].ts) \in Int
    BY <2>4 DEF AlignViz, TypeOK
  <2>6. w.ts = NsPerUs * files[r][i].ts + offset
    BY <2>2 DEF Record, AlignViz
  <2>7. w \in WrittenRecord
    BY <2>2, <2>3, <2>5 DEF Record, WrittenRecord
  <2>8. QED BY <1>2, <2>3, <2>4, <2>6, <2>7
<1>3. QED BY <1>1, <1>2, RecordedIs

\* On one clock, the trace begins where the earliest event of both recordings is.
LEMMA TraceBeginsFirst ==
  ASSUME TypeOK, perfPos = 1, ~opts.viz \/ offset = 0, Recorded # {}
  PROVE  TraceBegins = Begins /\ Begins \in Nat /\ Begins # Never
<1> DEFINE times == {e.ts : e \in Recorded}
           candidates == (IF opts.viz THEN {NsPerUs * VizFirst} ELSE {}) \cup
                         (IF PerfHasNext THEN {AlignPerf(perf[perfPos])} ELSE {})
<1>1. times \in SUBSET Nat /\ times # {} /\ \A t \in times : t < Never
  BY RecordedTypes
<1>2. PICK m \in Nat : m = LeastOf(times)
  <2> HIDE DEF times
  <2>1. QED BY <1>1, LeastExists
<1>3. m \in times /\ m < Never /\ \A t \in times : m <= t
  <2> HIDE DEF times
  <2>1. QED BY <1>1, <1>2, LeastExists
<1>4. /\ Len(perf) \in Nat /\ \A i \in 1 .. Len(perf) : perf[i] \in Nat /\ perf[1] <= perf[i]
  BY PerfType
<1>5. PerfHasNext => perf[1] \in times
  <2> SUFFICES ASSUME PerfHasNext
               PROVE  perf[1] \in times
    OBVIOUS
  <2>1. opts.perf /\ 1 \in 1 .. Len(perf)
    BY <1>4 DEF PerfHasNext
  <2>2. Record("perf", 1, perf[1]) \in Recorded
    BY <2>1, RecordedIs
  <2>3. Record("perf", 1, perf[1]).ts = perf[1]
    BY DEF Record
  <2>4. QED BY <2>2, <2>3
<1>6. ASSUME opts.viz, NEW t \in VizTimes
      PROVE  NsPerUs * t \in times
  <2>1. PICK r \in Readers : t \in {files[r][i].ts : i \in 1 .. Len(files[r])}
    BY <1>6 DEF VizTimes
  <2>2. PICK i \in 1 .. Len(files[r]) : t = files[r][i].ts
    BY <2>1
  <2>3. AlignViz(t) = NsPerUs * t
    BY <1>6, VizFirstType, MergeAssumption DEF AlignViz
  <2>4. Record(r, i, NsPerUs * t) \in Recorded
    BY <1>6, <2>2, <2>3, RecordedIs
  <2>5. Record(r, i, NsPerUs * t).ts = NsPerUs * t
    BY DEF Record
  <2>6. QED BY <2>4, <2>5
<1>7. VizFirst \in Nat /\ NsPerUs \in Nat \ {0} /\ Never \in Nat
      /\ NsPerUs * VizFirst \in Nat /\ Never <= NsPerUs * Never
  BY VizFirstType, MergeAssumption
<1>8. candidates \in SUBSET Nat /\ \A c \in candidates : m <= c
  <2>1. PerfHasNext => perf[perfPos] \in Nat /\ m <= perf[perfPos]
    BY <1>3, <1>4, <1>5 DEF PerfHasNext
  <2>2. opts.viz => m <= NsPerUs * VizFirst
    <3>1. CASE VizTimes = {}
      BY <1>3, <1>7, <3>1 DEF VizFirst
    <3>2. CASE VizTimes # {}
      BY <1>3, <1>6, <3>2, VizFirstType
    <3>3. QED BY <3>1, <3>2
  <2>3. QED BY <1>7, <2>1, <2>2 DEF AlignPerf
<1>9. m \in candidates
  <2>1. PICK e \in Recorded : m = e.ts
    BY <1>3
  <2>2. CASE opts.perf /\ \E i \in 1 .. Len(perf) : e = Record("perf", i, perf[i])
    <3>1. PICK i \in 1 .. Len(perf) : e = Record("perf", i, perf[i])
      BY <2>2
    <3>2. m = perf[i] /\ PerfHasNext
      BY <1>4, <2>1, <2>2, <3>1 DEF Record, PerfHasNext
    <3>3. m = perf[1]
      <4>1. perf[1] \in times
        BY <1>5, <3>2
      <4>2. perf[1] \in Nat /\ m <= perf[1]
        BY <1>1, <1>3, <4>1
      <4>3. perf[1] <= m
        BY <1>4, <3>2
      <4>4. QED BY <4>2, <4>3
    <3>4. m = AlignPerf(perf[perfPos])
      BY <3>3 DEF AlignPerf
    <3>5. QED BY <3>2, <3>4
  <2>3. CASE /\ opts.viz
             /\ \E r \in Readers : \E i \in 1 .. Len(files[r]) :
                  e = Record(r, i, AlignViz(files[r][i].ts))
    <3>1. PICK r \in Readers : \E i \in 1 .. Len(files[r]) :
                 e = Record(r, i, AlignViz(files[r][i].ts))
      BY <2>3
    <3>2. PICK i \in 1 .. Len(files[r]) : e = Record(r, i, AlignViz(files[r][i].ts))
      BY <3>1
    <3>3. files[r][i].ts \in VizTimes
      BY DEF VizTimes
    <3>4. VizFirst \in VizTimes /\ VizFirst <= files[r][i].ts /\ files[r][i].ts \in Nat
      BY <3>3, VizFirstType
    <3>5. m = NsPerUs * files[r][i].ts
      <4>1. m = NsPerUs * files[r][i].ts + offset
        BY <2>1, <3>2 DEF Record, AlignViz
      <4>2. NsPerUs * files[r][i].ts \in Nat
        BY <1>7, <3>4
      <4>3. QED BY <2>3, <4>1, <4>2
    <3>6. NsPerUs * VizFirst <= m
      BY <1>7, <3>4, <3>5
    <3>7. m <= NsPerUs * VizFirst
      BY <1>3, <1>6, <2>3, <3>4
    <3>8. QED BY <1>7, <2>3, <3>6, <3>7
  <2>4. QED BY <2>2, <2>3, RecordedIs
<1>10. LeastOf(candidates) = m
  <2> HIDE DEF candidates
  <2>1. candidates \in SUBSET Int
    BY <1>8
  <2>2. QED BY <1>8, <1>9, <2>1, LeastIs
<1>11. TraceBegins = m
  BY <1>9, <1>10 DEF TraceBegins
<1>12. Begins = m
  BY <1>2 DEF Begins
<1>13. QED BY <1>3, <1>11, <1>12

\* A step of the loop that takes one event more and writes it if it passes.
LEMMA TakeKeeps ==
  ASSUME WInv, phase = "merge", NEW w \in Recorded, ~Taken(w),
         written' = IF Passes(w) THEN Append(written, w) ELSE written,
         UNCHANGED <<opts, perf, files, offset, start, end, phase>>,
         \A v \in Recorded : Taken(v)' <=> Taken(v) \/ v = w
  PROVE  WrittenSoFar'
<1>1. written \in Seq(WrittenRecord) /\ Len(written) \in Nat /\ w \in WrittenRecord
  BY RecordedTypes DEF WInv, IInv, TInv
<1>2. Recorded' = Recorded
  BY DEF Recorded, Record, AlignPerf, AlignViz
<1>3. \A v \in Recorded : Passes(v)' <=> Passes(v)
  BY DEF Passes, PassesTimeFilter, PassesVizFilter
<1>4. /\ \A k \in 1 .. Len(written) :
           written[k] \in Recorded /\ Taken(written[k]) /\ Passes(written[k])
      /\ \A v \in Recorded :
           Taken(v) /\ Passes(v) => \E k \in 1 .. Len(written) : written[k] = v
      /\ \A k, l \in 1 .. Len(written) : written[k] = written[l] => k = l
  BY DEF WInv, WrittenSoFar
<1>5. Len(written') \in Nat
  BY <1>1
<1>6. \A k \in 1 .. Len(written') :
        \/ k \in 1 .. Len(written) /\ written'[k] = written[k]
        \/ k = Len(written) + 1 /\ written'[k] = w /\ Passes(w)
  BY <1>1
<1>7. ASSUME NEW k \in 1 .. Len(written')
      PROVE  written'[k] \in Recorded /\ Taken(written[k])' /\ Passes(written[k])'
  <2>1. PICK v \in Recorded : v = written'[k] /\ (Taken(v) \/ v = w) /\ Passes(v)
    BY <1>4, <1>6
  <2>2. Taken(v)' /\ Passes(v)'
    BY <1>3, <2>1
  <2>3. QED BY <2>1, <2>2 DEF Taken, Passes, PassesTimeFilter, PassesVizFilter
<1>8. ASSUME NEW v \in Recorded, Taken(v)', Passes(v)'
      PROVE  \E k \in 1 .. Len(written') : written'[k] = v
  <2>1. (Taken(v) \/ v = w) /\ Passes(v)
    BY <1>3, <1>8
  <2>2. CASE Taken(v)
    <3>1. PICK k \in 1 .. Len(written) : written[k] = v
      BY <1>4, <2>1, <2>2
    <3>2. k \in 1 .. Len(written') /\ written'[k] = v
      BY <1>1, <3>1
    <3>3. QED BY <3>2
  <2>3. CASE v = w
    <3>1. written' = Append(written, v)
      BY <2>1, <2>3
    <3>2. Len(written) + 1 \in 1 .. Len(written') /\ written'[Len(written) + 1] = v
      BY <1>1, <2>3, <3>1
    <3>3. QED BY <3>2
  <2>4. QED BY <2>1, <2>2, <2>3
<1>9. ASSUME NEW k \in 1 .. Len(written'), NEW l \in 1 .. Len(written'),
             written'[k] = written'[l]
      PROVE  k = l
  <2>1. \A j \in 1 .. Len(written) : written[j] # w
    BY <1>4
  <2>2. QED BY <1>4, <1>6, <1>9, <2>1
<1>10. QED BY <1>2, <1>7, <1>8, <1>9 DEF WrittenSoFar

\* The window stays where it was placed.
LEMMA WindowStays ==
  ASSUME WindowPlaced, phase \in {"merge", "done"},
         UNCHANGED <<opts, perf, files, offset, start, end>>
  PROVE  WindowPlaced'
<1>1. Recorded' = Recorded
  BY DEF Recorded, Record, AlignPerf, AlignViz
<1>2. Begins' = Begins
  BY <1>1 DEF Begins, LeastOf
<1>3. QED BY <1>1, <1>2 DEF WindowPlaced, OneClock, PassesTimeFilter, InWindow

\* set_viz_metadata and compute_time_bounds: the limits are counted from the beginning.
LEMMA PlaceWindowPlaces ==
  ASSUME IInv, PlaceWindow
  PROVE  WindowPlaced' /\ WrittenSoFar'
<1>1. /\ TypeOK /\ phase = "bounds" /\ perfPos = 1 /\ pos = [r \in Readers |-> 1]
      /\ written = <<>>
  BY DEF IInv, TInv, Progress, PlaceWindow
<1>2. UNCHANGED <<opts, perf, files, offset, perfPos, pos, written>>
  BY DEF PlaceWindow, inputVars
<1>3. Recorded' = Recorded
  BY <1>2 DEF Recorded, Record, AlignPerf, AlignViz
<1>4. Begins' = Begins
  BY <1>3 DEF Begins, LeastOf
<1>5. WrittenSoFar'
  <2>1. ASSUME NEW v \in Recorded
        PROVE  ~Taken(v)'
    <3>1. CASE \E i \in 1 .. Len(perf) : v = Record("perf", i, perf[i])
      BY <1>1, <1>2, <3>1, PerfType DEF Taken, Record
    <3>2. CASE \E r \in Readers : \E i \in 1 .. Len(files[r]) :
                 v = Record(r, i, AlignViz(files[r][i].ts))
      <4>1. PICK r \in Readers : \E i \in 1 .. Len(files[r]) :
                   v = Record(r, i, AlignViz(files[r][i].ts))
        BY <3>2
      <4>2. v.source = r /\ r # "perf" /\ v.n \in 1 .. Len(files[r])
        BY <4>1, MergeAssumption DEF Record
      <4>3. QED BY <1>1, <1>2, <4>2, FilesType DEF Taken, TypeOK
    <3>3. QED BY <1>1, <3>1, <3>2, RecordedIs
  <2>2. QED BY <1>1, <1>2, <1>3, <2>1 DEF WrittenSoFar
<1>6. WindowPlaced'
  <2> SUFFICES ASSUME OneClock, Recorded # {}, NEW t \in Int
               PROVE  PassesTimeFilter(t)' <=> InWindow(t)
    BY <1>2, <1>3, <1>4 DEF WindowPlaced, OneClock, InWindow
  <2>1. opts.start \in Int /\ opts.end \in Int /\ NsPerUs \in Nat
    BY <1>1, OptionsType, MergeAssumption
  <2>2. CASE opts.start < 0 /\ opts.end < 0
    <3>1. start' = -1 /\ end' = -1
      BY <2>1, <2>2 DEF PlaceWindow, NoLimit
    <3>2. QED BY <2>1, <2>2, <3>1 DEF PassesTimeFilter, InWindow
  <2>3. CASE ~(opts.start < 0 /\ opts.end < 0)
    <3>1. TraceBegins = Begins /\ Begins \in Nat /\ Begins # Never
      BY <1>1, <2>3, TraceBeginsFirst DEF OneClock
    <3>2. /\ start' = IF opts.start >= 0 THEN Begins + NsPerUs * opts.start ELSE -1
          /\ end' = IF opts.end >= 0 THEN Begins + NsPerUs * opts.end ELSE -1
      BY <3>1 DEF PlaceWindow, NoLimit
    <3>3. \A limit \in Int : limit >= 0 => NsPerUs * limit \in Nat
      BY <2>1
    <3>4. /\ start' >= 0 <=> opts.start >= 0
          /\ end' >= 0 <=> opts.end >= 0
      BY <2>1, <3>1, <3>2, <3>3
    <3>5. QED BY <2>1, <3>2, <3>4 DEF PassesTimeFilter, InWindow
  <2>4. QED BY <2>2, <2>3
<1>7. QED BY <1>5, <1>6

\* The next perf event, as a record.
LEMMA EmitPerfWrites == WInv /\ EmitPerf => WrittenSoFar'
<1> SUFFICES ASSUME WInv, EmitPerf
             PROVE  WrittenSoFar'
  OBVIOUS
<1>1. /\ TypeOK /\ perfPos \in 1 .. Len(perf) /\ opts.perf
  BY PerfType DEF WInv, IInv, TInv, TypeOK, EmitPerf, PerfIsNext, PerfHasNext
<1>2. /\ phase = "merge" /\ perfPos' = perfPos + 1
      /\ UNCHANGED <<opts, perf, files, pos, offset, start, end, phase>>
  BY DEF EmitPerf, inputVars, windowVars
<1>3. PICK w \in Recorded : w = Record("perf", perfPos, perf[perfPos])
  BY <1>1, RecordedIs
<1>4. w.source = "perf" /\ w.n = perfPos /\ w.ts = perf[perfPos]
  BY <1>3 DEF Record
<1>5. ~Taken(w)
  BY <1>1, <1>4, PerfType DEF Taken
<1>6. written' = IF Passes(w) THEN Append(written, w) ELSE written
  BY <1>3, <1>4 DEF EmitPerf, Passes, AlignPerf
<1>7. ASSUME NEW v \in Recorded
      PROVE  Taken(v)' <=> Taken(v) \/ v = w
  <2>1. CASE \E i \in 1 .. Len(perf) : v = Record("perf", i, perf[i])
    <3>1. PICK i \in 1 .. Len(perf) : v = Record("perf", i, perf[i])
      BY <2>1
    <3>2. v.source = "perf" /\ v.n = i /\ i \in Nat /\ perfPos \in Nat
      BY <1>1, <3>1, PerfType DEF Record
    <3>3. v = w <=> i = perfPos
      BY <1>3, <1>4, <3>1, <3>2
    <3>4. QED BY <1>2, <3>2, <3>3 DEF Taken
  <2>2. CASE \E r \in Readers : \E i \in 1 .. Len(files[r]) :
               v = Record(r, i, AlignViz(files[r][i].ts))
    <3>1. v.source # "perf"
      BY <2>2, MergeAssumption DEF Record
    <3>2. QED BY <1>2, <1>4, <3>1 DEF Taken
  <2>3. QED BY <1>1, <2>1, <2>2, RecordedIs
<1>8. QED BY <1>2, <1>5, <1>6, <1>7, TakeKeeps

\* The next viz event, as a record.
LEMMA EmitVizWrites == WInv /\ EmitViz => WrittenSoFar'
<1> SUFFICES ASSUME WInv, EmitViz
             PROVE  WrittenSoFar'
  OBVIOUS
<1>1. TypeOK /\ KWayTypeOK /\ pos \in [Readers -> Nat] /\ HasNext /\ HeapHolds
  BY DEF WInv, IInv, TInv, TypeOK, EmitViz
<1>2. top \in Readers /\ HasEvent(top, pos) /\ opts.viz
  BY <1>1, VizAssumption DEF KWayTypeOK, HasNext, HeapHolds
<1>3. /\ phase = "merge" /\ pos' = [pos EXCEPT ![top] = @ + 1]
      /\ UNCHANGED <<opts, perf, files, perfPos, offset, start, end, phase>>
  BY DEF EmitViz, AdvanceViz, windowVars
<1>4. PICK r \in Readers : r = top
  BY <1>2
<1>5. PICK n \in 1 .. Len(files[r]) : n = pos[r]
  BY <1>1, <1>2, <1>4, EventType
<1>6. PICK w \in Recorded : w = Record(r, n, AlignViz(files[r][n].ts))
  BY <1>1, <1>2, RecordedIs
<1>7. /\ w.source = r /\ w.n = n /\ w.ts = AlignViz(files[r][n].ts)
      /\ r # "perf" /\ n \in Nat
  BY <1>1, <1>6, FilesType, MergeAssumption DEF Record
<1>8. ~Taken(w)
  BY <1>5, <1>7 DEF Taken
<1>9. written' = IF Passes(w) THEN Append(written, w) ELSE written
  BY <1>4, <1>5, <1>6, <1>7 DEF EmitViz, Passes, Event
<1>10. ASSUME NEW v \in Recorded
       PROVE  Taken(v)' <=> Taken(v) \/ v = w
  <2>1. CASE \E i \in 1 .. Len(perf) : v = Record("perf", i, perf[i])
    <3>1. v.source = "perf"
      BY <2>1 DEF Record
    <3>2. QED BY <1>3, <1>7, <3>1 DEF Taken
  <2>2. CASE \E q \in Readers : \E i \in 1 .. Len(files[q]) :
               v = Record(q, i, AlignViz(files[q][i].ts))
    <3>1. PICK q \in Readers : \E i \in 1 .. Len(files[q]) :
                 v = Record(q, i, AlignViz(files[q][i].ts))
      BY <2>2
    <3>2. PICK i \in 1 .. Len(files[q]) : v = Record(q, i, AlignViz(files[q][i].ts))
      BY <3>1
    <3>3. v.source = q /\ q # "perf" /\ v.n = i /\ i \in Nat
      BY <1>1, <3>2, FilesType, MergeAssumption DEF Record
    <3>4. v = w <=> q = r /\ i = n
      BY <1>6, <1>7, <3>2, <3>3
    <3>5. pos'[q] = IF q = r THEN n + 1 ELSE pos[q]
      BY <1>1, <1>3, <1>4, <1>5
    <3>6. pos[r] = n /\ pos[q] \in Nat
      BY <1>1, <1>5
    <3>7. QED BY <1>7, <3>3, <3>4, <3>5, <3>6 DEF Taken
  <2>3. QED BY <1>1, <2>1, <2>2, RecordedIs
<1>11. QED BY <1>3, <1>8, <1>9, <1>10, TakeKeeps

\* The other steps write nothing.
LEMMA OtherStepsWrite ==
  ASSUME WInv, AlignClocks \/ OpenViz \/ EndMerge \/ UNCHANGED vars
  PROVE  WrittenSoFar' /\ WindowPlaced'
<1>1. CASE AlignClocks
  BY <1>1 DEF AlignClocks, WrittenSoFar, WindowPlaced
<1>2. CASE OpenViz
  BY <1>2 DEF OpenViz, WrittenSoFar, WindowPlaced
<1>3. CASE EndMerge \/ UNCHANGED vars
  <2>1. /\ UNCHANGED <<opts, perf, files, perfPos, pos, offset, start, end, written>>
        /\ phase' = phase \/ (phase = "merge" /\ phase' = "done")
    BY <1>3 DEF EndMerge, vars, inputVars, windowVars
  <2>2. Recorded' = Recorded
    BY <2>1 DEF Recorded, Record, AlignPerf, AlignViz
  <2>3. WrittenSoFar'
    BY <2>1, <2>2
       DEF WInv, WrittenSoFar, Taken, Passes, PassesTimeFilter, PassesVizFilter
  <2>4. CASE phase \in {"merge", "done"}
    BY <2>1, <2>3, <2>4, WindowStays DEF WInv
  <2>5. CASE phase \notin {"merge", "done"}
    BY <2>1, <2>3, <2>5 DEF WindowPlaced
  <2>6. QED BY <2>4, <2>5
<1>4. QED BY <1>1, <1>2, <1>3

\* The records written so far are those that passed the time window, each once.
LEMMA WindowInvariant == Spec => []WInv
<1>1. MergeInit => WInv
  BY InitInv DEF MergeInit, WInv, WrittenSoFar, WindowPlaced
<1>2. WInv /\ [Next]_vars => WInv'
  <2> SUFFICES ASSUME WInv, [Next]_vars
               PROVE  WInv'
    OBVIOUS
  <2>1. IInv'
    BY StepInv DEF WInv
  <2>2. CASE AlignClocks \/ OpenViz \/ EndMerge \/ UNCHANGED vars
    BY <2>1, <2>2, OtherStepsWrite DEF WInv
  <2>3. CASE PlaceWindow
    BY <2>1, <2>3, PlaceWindowPlaces DEF WInv
  <2>4. CASE EmitPerf
    <3>1. WindowPlaced'
      BY <2>4, WindowStays DEF WInv, EmitPerf, inputVars, windowVars
    <3>2. QED BY <2>1, <2>4, <3>1, EmitPerfWrites DEF WInv
  <2>5. CASE EmitViz
    <3>1. WindowPlaced'
      BY <2>5, WindowStays DEF WInv, EmitViz, AdvanceViz, windowVars
    <3>2. QED BY <2>1, <2>5, <3>1, EmitVizWrites DEF WInv
  <2>6. QED BY <2>2, <2>3, <2>4, <2>5 DEF Next
<1>3. QED BY <1>1, <1>2, PTL DEF Spec

\* A sequence without repetition is as long as the set of its elements is large.
LEMMA SequenceCounts ==
  ASSUME NEW T, NEW s \in Seq(T),
         \A k, l \in 1 .. Len(s) : s[k] = s[l] => k = l
  PROVE  Cardinality({s[k] : k \in 1 .. Len(s)}) = Len(s)
<1> DEFINE S == {s[k] : k \in 1 .. Len(s)}
           f == [k \in 1 .. Len(s) |-> s[k]]
<1>1. f \in [1 .. Len(s) -> S] /\ \A k \in 1 .. Len(s) : f[k] = s[k]
  OBVIOUS
<1>2. \A k, l \in 1 .. Len(s) : f[k] = f[l] => k = l
  BY <1>1
<1>3. \A x \in S : \E k \in 1 .. Len(s) : f[k] = x
  BY <1>1
<1> HIDE DEF f, S
<1>4. ExistsBijection(1 .. Len(s), S)
  BY <1>1, <1>2, <1>3
     DEF ExistsBijection, Bijection, Injection, IsInjective, Surjection
<1>5. Len(s) \in Nat
  OBVIOUS
<1>6. Cardinality(S) = Len(s)
  BY <1>4, <1>5, FS_CountingElements
<1>7. QED BY <1>6 DEF S

\* --time-start and --time-end (main.cpp:45-48) do what they say, if one clock counts for
\* both recordings (OneClock); if none does, the run window_offset shows that they do not.
THEOREM WindowHonouredOnOneClock == Spec => [](OneClock => WindowHonoured)
<1>1. WInv => (OneClock => WindowHonoured)
  <2> DEFINE wanted == {e \in Recorded :
                          /\ e.source # "perf" => PassesVizFilter(files[e.source][e.n])
                          /\ opts.start >= 0 => e.ts >= Begins + NsPerUs * opts.start
                          /\ opts.end >= 0 => e.ts <= Begins + NsPerUs * opts.end}
  <2> SUFFICES ASSUME WInv, OneClock, phase = "done"
               PROVE  /\ {written[k] : k \in 1 .. Len(written)} = wanted
                      /\ Len(written) = Cardinality(wanted)
    BY DEF WindowHonoured, Begins
  <2>1. /\ TypeOK /\ KWayTypeOK /\ pos \in [Readers -> Nat] /\ ~PerfHasNext /\ heap = {}
        /\ written \in Seq(WrittenRecord)
        /\ opts.viz => heap = {r \in Readers : HasEvent(r, pos)}
    BY DEF WInv, IInv, TInv, TypeOK, KWayTypeOK, Progress, HeapHolds
  <2>2. \A e \in Recorded : Taken(e)
    <3> TAKE e \in Recorded
    <3>1. CASE opts.perf /\ \E i \in 1 .. Len(perf) : e = Record("perf", i, perf[i])
      <4>1. e.source = "perf" /\ e.n \in 1 .. Len(perf)
        BY <3>1 DEF Record
      <4>2. QED BY <2>1, <3>1, <4>1, PerfType DEF Taken, PerfHasNext
    <3>2. CASE /\ opts.viz
               /\ \E r \in Readers : \E i \in 1 .. Len(files[r]) :
                    e = Record(r, i, AlignViz(files[r][i].ts))
      <4>1. PICK r \in Readers : \E i \in 1 .. Len(files[r]) :
                   e = Record(r, i, AlignViz(files[r][i].ts))
        BY <3>2
      <4>2. e.source = r /\ r # "perf" /\ e.n \in 1 .. Len(files[r])
        BY <4>1, MergeAssumption DEF Record
      <4>3. ~(pos[r] <= Len(files[r])) /\ pos[r] \in Nat /\ Len(files[r]) \in Nat
        BY <2>1, <3>2, FilesType DEF HasEvent
      <4>4. QED BY <4>2, <4>3 DEF Taken
    <3>3. QED BY <2>1, <3>1, <3>2, RecordedIs
  <2>3. \A e \in Recorded : Passes(e) <=> e \in wanted
    <3> TAKE e \in Recorded
    <3>1. e.ts \in Int
      BY <2>1, RecordedTypes DEF WrittenRecord
    <3>2. PassesTimeFilter(e.ts) <=> InWindow(e.ts)
      BY <3>1 DEF WInv, WindowPlaced
    <3>3. QED BY <3>2 DEF Passes, InWindow
  <2>4. /\ \A k \in 1 .. Len(written) : written[k] \in Recorded /\ Passes(written[k])
        /\ \A e \in Recorded : Passes(e) => \E k \in 1 .. Len(written) : written[k] = e
        /\ \A k, l \in 1 .. Len(written) : written[k] = written[l] => k = l
    BY <2>2 DEF WInv, WrittenSoFar
  <2>5. wanted \subseteq Recorded
    OBVIOUS
  <2> HIDE DEF wanted
  <2>6. {written[k] : k \in 1 .. Len(written)} = wanted
    BY <2>3, <2>4, <2>5
  <2>7. Cardinality({written[k] : k \in 1 .. Len(written)}) = Len(written)
    BY <2>1, <2>4, SequenceCounts
  <2>8. QED BY <2>6, <2>7
<1>2. QED BY <1>1, WindowInvariant, PTL
=============================================================================
