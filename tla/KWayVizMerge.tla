---------------------------- MODULE KWayVizMerge ----------------------------
(***************************************************************************)
(* KWayVizMerge (kway_viz_merge.h): one stream of viz events out of        *)
(* several .ftrc files.  A heap holds the readers that have an event left, *)
(* ordered by the events they would deliver next; the root's event is the  *)
(* current one.  Each file is sorted by time ("Events are yielded in       *)
(* libftrc order (sorted by timestamp within file)").                      *)
(*                                                                         *)
(* An event is reduced to what the comparator and the merge loop look at.  *)
(* std::priority_queue may have any of several least elements at its root. *)
(* The comparator is an order only among events of known depth, or among   *)
(* events of unknown depth; where a tie mixes both, any of the earliest    *)
(* may come up.                                                            *)
(***************************************************************************)
EXTENDS Integers, Sequences, FiniteSets

CONSTANTS
  Readers,   \* one FtrcReader per file
  NoReader,  \* no current event
  VizFiles   \* what a file may hold: sequences of viz events sorted by time

\* VizEvent: time and length, depth in the call stack (-1: not known), thread, kind, and
\* whether the filters by pid and name let it pass.
VizEvent ==
  [ts : Nat, depth : Int, tid : Int, dur : Nat, ph : STRING, shown : BOOLEAN]

ASSUME VizAssumption ==
  /\ NoReader \notin Readers
  /\ VizFiles \subseteq Seq(VizEvent)
  /\ \A f \in VizFiles : \A i, j \in 1 .. Len(f) : i < j => f[i].ts <= f[j].ts

VARIABLES
  files,  \* the contents of each reader's file
  pos,    \* the position of each reader's current event in its file
  heap,   \* the readers in heap_
  top     \* the reader at the root of heap_, whose event is current_

vizVars == <<files, pos, heap, top>>

\* FtrcReader::has_next and peek
HasEvent(r, at) == at[r] <= Len(files[r])
Event(r) == files[r][pos[r]]

KnownDepth(e) == e.depth >= 0

\* A plausible mistake in the definition that follows: the shorter of two spans that
\* start together comes first.
AfterShorterFirst(a, b) ==
  \/ a.ts > b.ts
  \/ a.ts = b.ts /\ a.dur > b.dur

\* HeapComparator: a comes after b.
After(a, b) ==
  LET nested == KnownDepth(a) /\ KnownDepth(b) IN
  \/ a.ts > b.ts
  \/ /\ a.ts = b.ts
     /\ \/ nested /\ a.depth > b.depth
        \/ nested /\ a.depth = b.depth /\ a.tid > b.tid
        \/ (nested => <<a.depth, a.tid>> = <<b.depth, b.tid>>) /\ a.dur < b.dur

\* The readers that may be at the root of a heap, given their positions.
Roots(readers, at) ==
  LET next(r)  == files[r][at[r]]
      earliest == {r \in readers : \A q \in readers : next(r).ts <= next(q).ts}
      mixed    == \E r, q \in earliest : KnownDepth(next(r)) # KnownDepth(next(q))
  IN  IF mixed THEN earliest
      ELSE {r \in earliest : \A q \in earliest : ~After(next(r), next(q))}

RootOf(readers, at) ==
  IF readers = {} THEN {NoReader} ELSE Roots(readers, at)

KWayInit ==
  /\ files \in [Readers -> VizFiles]
  /\ pos = [r \in Readers |-> 1]
  /\ heap = {}
  /\ top = NoReader

\* initialize
Initialize ==
  /\ heap' = {r \in Readers : HasEvent(r, pos)}
  /\ top' \in RootOf(heap', pos)
  /\ UNCHANGED <<files, pos>>

HasNext == top # NoReader

\* A plausible mistake in the definition that follows: has_current_ stays true when the
\* heap runs empty.
AdvanceVizKeepsCurrent ==
  /\ HasNext
  /\ pos' = [pos EXCEPT ![top] = @ + 1]
  /\ heap' = {r \in heap : HasEvent(r, pos')}
  /\ top' \in IF heap' = {} THEN {top} ELSE RootOf(heap', pos')
  /\ UNCHANGED files

\* advance: the root is popped, its reader moves on and returns to the heap
\* unless its file is at its end.
AdvanceViz ==
  /\ HasNext
  /\ pos' = [pos EXCEPT ![top] = @ + 1]
  /\ heap' = {r \in heap : HasEvent(r, pos')}
  /\ top' \in RootOf(heap', pos')
  /\ UNCHANGED files

-----------------------------------------------------------------------------
KWayTypeOK ==
  /\ files \in [Readers -> VizFiles]
  /\ \A r \in Readers : pos[r] \in 1 .. Len(files[r]) + 1
  /\ heap \subseteq {r \in Readers : HasEvent(r, pos)}
  /\ top \in heap \cup {NoReader}
  /\ HasNext <=> heap # {}
=============================================================================
