---------------------------- MODULE MCTraceMerge ----------------------------
(* TraceMerge for TLC: two .ftrc files of up to two events each.           *)
EXTENDS TraceMerge

CONSTANTS r1, r2

Viz(ts, depth, dur, ph, shown) ==
  [ts |-> ts, depth |-> depth, tid |-> 1, dur |-> dur, ph |-> ph, shown |-> shown]

\* A parent, two children that start with it, a name record of unknown depth,
\* an event that the pid or name filter hides, and a very short one.
VizEvents ==
  {Viz(1, 0, 2, "X", TRUE), Viz(1, 1, 1, "X", TRUE), Viz(1, 1, 2, "X", TRUE),
   Viz(2, -1, 0, "M", TRUE), Viz(2, 0, 1, "X", FALSE), Viz(3, 0, 0, "X", TRUE)}

UpToTwo(S) == {<<>>} \cup {<<a>> : a \in S} \cup {<<a, b>> : a, b \in S}

MCVizFiles == {f \in UpToTwo(VizEvents) : Len(f) = 2 => f[1].ts <= f[2].ts}
MCPerfStreams == {s \in UpToTwo({1, 3, 4}) : Len(s) = 2 => s[1] <= s[2]}

Window(from, to) == [start |-> from, end |-> to]

Line(perfGiven, vizGiven, detected, shift, w) ==
  [perf |-> perfGiven, viz |-> vizGiven, detect |-> detected, offset |-> shift,
   start |-> w.start, end |-> w.end, minDur |-> 1]

Unlimited == Window(-1, -1)

\* Command lines under which both clocks are the same or no window is asked for.
SameClockOptions ==
  {Line(TRUE, TRUE, FALSE, 0, w) :
     w \in {Window(0, -1), Window(1, -1), Window(-1, 1), Window(0, 0), Window(1, 1)}} \cup
  {Line(TRUE, TRUE, TRUE, 0, Unlimited), Line(TRUE, TRUE, FALSE, -5, Unlimited),
   Line(TRUE, FALSE, TRUE, 0, Window(1, -1)), Line(FALSE, TRUE, TRUE, 0, Window(0, 0))}

\* A window together with clock detection.
DetectOptions == {Line(TRUE, TRUE, TRUE, 0, Window(-1, 1))}
=============================================================================
