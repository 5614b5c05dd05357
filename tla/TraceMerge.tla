----------------------------- MODULE TraceMerge -----------------------------
(***************************************************************************)
(* How main and MergeEngine bring the two kinds of recordings together:    *)
(* the ClockAligner decides on an offset for the viz clock, the time       *)
(* window of --time-start and --time-end is placed, and a two-pointer      *)
(* merge takes whichever of the next perf and the next viz event is        *)
(* earlier, writes it or filters it out, and goes on.                      *)
(*                                                                         *)
(* perf counts nanoseconds and viz microseconds; aligned times are doubles *)
(* in microseconds, which the model counts in nanoseconds (NsPerUs of them *)
(* to a microsecond), so that nothing needs rounding.  The stream of perf  *)
(* events is sorted: SortedStream is what the iterators promise.  What a   *)
(* perf handler makes of its event is SchedTracker's and ProbeSpans's      *)
(* matter; here an event that reaches its handler counts as written.       *)
(***************************************************************************)
EXTENDS KWayVizMerge

CONSTANTS
  PerfStreams,  \* what the perf iterator may deliver: sequences of timestamps
  Options,      \* the command lines
  NsPerUs,      \* 1000
  Uptime,       \* 10^9 us in nanoseconds: a monotonic clock is expected to show more
  Never         \* largest double: viz_first while no viz event has been seen

\* A command line: has_perf and has_viz, the clock ("detect", or the offset
\* that --time-offset or --clock-monotonic pin), the window in microseconds
\* from the start of the trace (-1: no limit), --min-duration.
CommandLine(clocks, limits, durations) ==
  [perf : BOOLEAN, viz : BOOLEAN, detect : BOOLEAN, offset : clocks,
   start : limits, end : limits, minDur : durations]

ASSUME MergeAssumption ==
  /\ NsPerUs \in Nat \ {0} /\ Uptime \in Nat /\ Never \in Nat
  /\ PerfStreams \subseteq Seq(Nat)
  /\ \A s \in PerfStreams : \A i, j \in 1 .. Len(s) : i < j => s[i] <= s[j]
  /\ Options \subseteq CommandLine(Int, Int, Nat)
  /\ "perf" \notin Readers  \* what names the other source in the records below

\* No recording reaches the largest double.
ASSUME NeverAssumption ==
  /\ \A s \in PerfStreams : \A i \in 1 .. Len(s) : s[i] < Never
  /\ \A f \in VizFiles : \A i \in 1 .. Len(f) : NsPerUs * f[i].ts < Never

VARIABLES
  opts,     \* the command line
  perf,     \* the perf events, sorted
  perfPos,  \* position of the iterator's next event
  offset,   \* offset_us_ of the ClockAligner
  start,    \* time_start_us_
  end,      \* time_end_us_
  written,  \* what has been written, in order
  phase     \* "align", "open", "bounds", "merge", "done"

windowVars == <<start, end>>
inputVars == <<opts, perf, files>>
vars == <<inputVars, perfPos, pos, heap, top, offset, windowVars, written, phase>>

NoLimit == -1

LeastOf(S) == CHOOSE x \in S : \A y \in S : x <= y
GreatestOf(S) == CHOOSE x \in S : \A y \in S : x >= y

-----------------------------------------------------------------------------
(* ClockAligner, on the scale of nanoseconds.                               *)

AlignPerf(ns) == ns
AlignViz(us) == NsPerUs * us + offset

Distance(a, b) == IF a >= b THEN a - b ELSE b - a

\* detect: one clock, if both have run for long and the recordings overlap.
DetectedOffset(perfFirst, perfLast, vizFirst, vizLast) ==
  LET bothLarge   == perfFirst > Uptime /\ vizFirst > Uptime
      overlapping == Distance(perfFirst, vizFirst) <
                       (perfLast - perfFirst) + (vizLast - vizFirst)
  IN  IF bothLarge /\ overlapping THEN 0 ELSE perfFirst - vizFirst

-----------------------------------------------------------------------------
(* What the pre-scan of the files finds.                                    *)

VizTimes == UNION {{files[r][i].ts : i \in 1 .. Len(files[r])} : r \in Readers}
VizFirst == IF VizTimes = {} THEN Never ELSE LeastOf(VizTimes)
VizLast  == IF VizTimes = {} THEN -Never ELSE GreatestOf(VizTimes)

\* perf_min_ts and perf_max_ts, as the in-memory way of loading has them.
PerfFirst == IF perf = <<>> THEN 0 ELSE perf[1]
PerfLast  == IF perf = <<>> THEN 0 ELSE perf[Len(perf)]

MergeInit ==
  /\ opts \in Options
  /\ perf \in PerfStreams
  /\ perfPos = 1
  /\ KWayInit
  /\ offset = 0
  /\ start = NoLimit /\ end = NoLimit
  /\ written = <<>>
  /\ phase = "align"

PerfHasNext == opts.perf /\ perfPos <= Len(perf)

\* The aligner is given its offset, or detects it if there are both sources.
AlignClocks ==
  /\ phase = "align"
  /\ offset' = CASE ~opts.detect          -> opts.offset
                 [] opts.perf /\ opts.viz ->
                      DetectedOffset(PerfFirst, PerfLast,
                                     NsPerUs * VizFirst, NsPerUs * VizLast)
                 [] OTHER                 -> 0
  /\ phase' = "open"
  /\ UNCHANGED <<inputVars, perfPos, pos, heap, top, windowVars, written>>

\* The .ftrc files are opened again for the merge.
OpenViz ==
  /\ phase = "open"
  /\ IF opts.viz THEN Initialize ELSE UNCHANGED vizVars
  /\ phase' = "bounds"
  /\ UNCHANGED <<opts, perf, perfPos, offset, windowVars, written>>

\* set_viz_metadata: the earliest event, viz_min_ts_us being unaligned; or
\* compute_time_bounds, if there are perf events only.
TraceBegins ==
  LET candidates == (IF opts.viz THEN {NsPerUs * VizFirst} ELSE {}) \cup
                    (IF PerfHasNext THEN {AlignPerf(perf[perfPos])} ELSE {})
  IN  IF candidates = {} THEN Never ELSE LeastOf(candidates)

\* The window is placed: where the trace is known to begin, plus the seconds
\* given.
PlaceWindow ==
  /\ phase = "bounds"
  /\ LET placed(limit) == IF limit >= 0 /\ TraceBegins # Never
                          THEN TraceBegins + NsPerUs * limit ELSE NoLimit
     IN  start' = placed(opts.start) /\ end' = placed(opts.end)
  /\ phase' = "merge"
  /\ UNCHANGED <<inputVars, perfPos, pos, heap, top, offset, written>>

\* A plausible mistake in the definition that follows: the end of the window is excluded.
PassesTimeFilterExclusive(t) ==
  /\ start >= 0 => t >= start
  /\ end >= 0 => t < end

\* passes_time_filter (nothing sets time_end_exclusive).
PassesTimeFilter(t) ==
  /\ start >= 0 => t >= start
  /\ end >= 0 => t <= end

\* passes_filter and passes_name_filter (shown), and --min-duration.
PassesVizFilter(e) == e.shown /\ (e.ph = "X" => e.dur >= opts.minDur)

Record(source, n, t) == [source |-> source, n |-> n, ts |-> t]

\* A plausible mistake in the definition that follows: the viz event is compared as it
\* was recorded.
PerfIsNextUnaligned ==
  PerfHasNext /\ (HasNext => AlignPerf(perf[perfPos]) <= NsPerUs * Event(top).ts)

\* A plausible mistake in the definition that follows: the case that only perf events are
\* left is forgotten.
PerfIsNextWithViz ==
  PerfHasNext /\ HasNext /\ AlignPerf(perf[perfPos]) <= AlignViz(Event(top).ts)

\* Perf events go first at equal times.
PerfIsNext ==
  PerfHasNext /\ (HasNext => AlignPerf(perf[perfPos]) <= AlignViz(Event(top).ts))

EmitPerf ==
  /\ phase = "merge"
  /\ PerfIsNext
  /\ LET t == AlignPerf(perf[perfPos])
     IN  written' = IF PassesTimeFilter(t)
                    THEN Append(written, Record("perf", perfPos, t)) ELSE written
  /\ perfPos' = perfPos + 1
  /\ UNCHANGED <<inputVars, pos, heap, top, offset, windowVars, phase>>

EmitViz ==
  /\ phase = "merge"
  /\ ~PerfIsNext /\ HasNext
  /\ LET e == Event(top)
         t == AlignViz(e.ts)
     IN  written' = IF PassesVizFilter(e) /\ PassesTimeFilter(t)
                    THEN Append(written, Record(top, pos[top], t)) ELSE written
  /\ AdvanceViz
  /\ UNCHANGED <<opts, perf, perfPos, offset, windowVars, phase>>

EndMerge ==
  /\ phase = "merge"
  /\ ~PerfHasNext /\ ~HasNext
  /\ phase' = "done"
  /\ UNCHANGED <<inputVars, perfPos, pos, heap, top, offset, windowVars, written>>

Next == AlignClocks \/ OpenViz \/ PlaceWindow \/ EmitPerf \/ EmitViz \/ EndMerge

Spec == MergeInit /\ [][Next]_vars /\ WF_vars(Next)

-----------------------------------------------------------------------------
TypeOK ==
  /\ KWayTypeOK
  /\ opts \in Options /\ perf \in PerfStreams
  /\ perfPos \in 1 .. Len(perf) + 1
  /\ offset \in Int /\ start \in Int /\ end \in Int
  /\ \A k \in 1 .. Len(written) :
       written[k].source \in Readers \cup {"perf"} /\ written[k].ts \in Int
  /\ phase \in {"align", "open", "bounds", "merge", "done"}

\* What is written is written in the order of the aligned times, whatever the
\* offset between the clocks: ChunkingWriter, which never goes back to an
\* earlier chunk, depends on it.
OutputInOrder ==
  \A k \in 1 .. Len(written) - 1 : written[k].ts <= written[k + 1].ts

\* A span that begins with another is not the deeper one.
OuterOf(a, b) == a.ts = b.ts => a.depth <= b.depth

\* The depths in a file are known, and of spans that begin together the outer is first.
FilesNested ==
  \A r \in Readers : \A i, j \in 1 .. Len(files[r]) :
    /\ KnownDepth(files[r][i])
    /\ i < j => OuterOf(files[r][i], files[r][j])

\* The viz event of a record.
Span(w) == files[w.source][w.n]

\* Spans that begin together are written outermost first, across files too, if
\* each file has them so and no depth is unknown.
OuterFirst ==
  FilesNested =>
    \A k, l \in 1 .. Len(written) :
      k < l /\ "perf" \notin {written[k].source, written[l].source} =>
        OuterOf(Span(written[k]), Span(written[l]))

\* Every event of both recordings, with its aligned time.
Recorded ==
  (IF opts.perf THEN {Record("perf", i, AlignPerf(perf[i])) : i \in 1 .. Len(perf)}
                ELSE {}) \cup
  (IF opts.viz THEN UNION {{Record(r, i, AlignViz(files[r][i].ts)) :
                              i \in 1 .. Len(files[r])} : r \in Readers}
               ELSE {})

\* "Only include events starting at this many seconds from the beginning of
\* the trace" and "up to this many seconds" (main.cpp:45-48): in the end the
\* events written are those that lie so far from the earliest event of all
\* and pass the other filters, each of them once.
WindowHonoured ==
  phase = "done" =>
    LET begins == LeastOf({e.ts : e \in Recorded})
        wanted == {e \in Recorded :
                     /\ e.source # "perf" => PassesVizFilter(files[e.source][e.n])
                     /\ opts.start >= 0 => e.ts >= begins + NsPerUs * opts.start
                     /\ opts.end >= 0 => e.ts <= begins + NsPerUs * opts.end}
    IN  /\ {written[k] : k \in 1 .. Len(written)} = wanted
        /\ Len(written) = Cardinality(wanted)

\* The merge comes to an end.
MergeEnds == <>(phase = "done")
=============================================================================
