---------------------------- MODULE ReorderBuffer ---------------------------
(***************************************************************************)
(* ReorderBufferIterator of streaming_sort.h: the bounded min-heap that    *)
(* turns the almost sorted perf.data stream into a sorted one.             *)
(*                                                                         *)
(* The constructor fills the heap (phase "fill", one action per turn of    *)
(* fill_heap's loop) and prepares the first output; from then on (phase    *)
(* "serve") the consumer looks at `current` and calls advance().  Every    *)
(* pop_next first reads one more event, so the minimum is taken out of     *)
(* Capacity + 1 events while the file lasts.  The heap holds positions in  *)
(* the file; std::priority_queue may return any of several least elements. *)
(***************************************************************************)
EXTENDS PerfEvents

CONSTANTS
  Inputs,   \* the files the reader may deliver: sequences of events
  Capacity  \* REORDER_BUFFER_SIZE of main.cpp

ASSUME InputsAssumption == \A s \in Inputs : s \in Seq(Event)
ASSUME CapacityAssumption == Capacity \in Nat

VARIABLES
  input,      \* the events of the file, in file order
  read,       \* how many of them PerfDataReader has returned
  heap,       \* heap_
  exhausted,  \* reader_exhausted_
  current,    \* current_ (0 before the first pop)
  hasOutput,  \* has_output_
  meta,       \* min_ts_, max_ts_, total_count_ and fork_events_
  phase,      \* "fill" inside fill_heap, "serve" afterwards
  output      \* history: the events prepared for the consumer, in order

readerVars == <<read, meta>>
vars == <<input, read, heap, exhausted, current, hasOutput, meta, phase, output>>

\* A plausible mistake in the definition that follows: an event that raises the
\* maximum is not looked at for the minimum.
TrackMetadataElseIf(m, i) ==
  LET e == input[i] IN
  [minTs |-> IF e.ts <= m.maxTs /\ e.ts < m.minTs THEN e.ts ELSE m.minTs,
   maxTs |-> IF e.ts > m.maxTs THEN e.ts ELSE m.maxTs,
   total |-> m.total + 1,
   forks |-> IF e.kind = "fork" THEN m.forks \cup {i} ELSE m.forks]

\* track_metadata, called on every event that is read.
TrackMetadata(m, i) ==
  LET e == input[i] IN
  [minTs |-> IF e.ts < m.minTs THEN e.ts ELSE m.minTs,
   maxTs |-> IF e.ts > m.maxTs THEN e.ts ELSE m.maxTs,
   total |-> m.total + 1,
   forks |-> IF e.kind = "fork" THEN m.forks \cup {i} ELSE m.forks]

Init ==
  /\ input \in Inputs
  /\ read = 0
  /\ heap = {}
  /\ exhausted = FALSE
  /\ current = 0
  /\ hasOutput = FALSE
  /\ meta = [minTs |-> TsMax, maxTs |-> 0, total |-> 0, forks |-> {}]
  /\ phase = "fill"
  /\ output = <<>>

\* A plausible mistake in the definition that follows: a record is skipped at each read.
ReadOneSkipping ==
  /\ read < Len(input)
  /\ read' = read + 2
  /\ meta' = TrackMetadata(meta, read + 1)

\* reader_->next_event returns an event and it is tracked.
ReadOne ==
  /\ read < Len(input)
  /\ read' = read + 1
  /\ meta' = TrackMetadata(meta, read + 1)

ReaderAtEnd == read = Len(input) /\ UNCHANGED readerVars

\* A plausible mistake in the definition that follows: one event too many.
FillMoreOffByOne == Cardinality(heap) <= Capacity /\ ~exhausted

\* A plausible mistake in the definition that follows: the end of the file is ignored.
FillMoreForever == Cardinality(heap) < Capacity

\* The condition of fill_heap's loop.
FillMore == Cardinality(heap) < Capacity /\ ~exhausted

\* One turn of the loop of fill_heap.
FillHeap ==
  /\ phase = "fill" /\ FillMore
  /\ \/ ReadOne /\ heap' = heap \cup {read'} /\ UNCHANGED exhausted
     \/ ReaderAtEnd /\ exhausted' = TRUE /\ UNCHANGED heap
  /\ UNCHANGED <<input, current, hasOutput, phase, output>>

\* A plausible mistake in the definition that follows: timestamps alone are compared.
TopsByTime(h) == {i \in h : \A j \in h : input[i].ts <= input[j].ts}

\* The least elements of a heap: what heap_.top() may be.
Tops(h) == {i \in h : \A j \in h : ~Greater(input[i], input[j])}

\* The second half of pop_next, on the heap h that the refill left.
Pop(h) ==
  \/ /\ h = {}
     /\ hasOutput' = FALSE
     /\ heap' = h
     /\ UNCHANGED <<current, output>>
  \/ \E top \in Tops(h) :
       /\ current' = top
       /\ heap' = h \ {top}
       /\ hasOutput' = TRUE
       /\ output' = Append(output, top)

\* A plausible mistake in the definition that follows: the refill comes after the pop.
PopNextThenRefill ==
  \/ exhausted /\ UNCHANGED <<exhausted, readerVars>> /\ Pop(heap)
  \/ ~exhausted /\ ReaderAtEnd /\ exhausted' = TRUE /\ Pop(heap)
  \/ /\ ~exhausted /\ ReadOne /\ UNCHANGED exhausted
     /\ \E top \in Tops(heap) :
          /\ current' = top
          /\ heap' = (heap \ {top}) \cup {read'}
          /\ hasOutput' = TRUE
          /\ output' = Append(output, top)

\* A plausible mistake in the definition that follows: has_next turns false when the
\* file ends, whatever the heap still holds.
PopNextStopsAtEnd ==
  \/ exhausted /\ UNCHANGED <<exhausted, readerVars>> /\ Pop(heap)
  \/ ~exhausted /\ ReadOne /\ UNCHANGED exhausted /\ Pop(heap \cup {read'})
  \/ /\ ~exhausted /\ ReaderAtEnd /\ exhausted' = TRUE
     /\ hasOutput' = FALSE
     /\ UNCHANGED <<heap, current, output>>

\* pop_next: refill by one event unless the reader is exhausted, then pop.
PopNext ==
  \/ exhausted /\ UNCHANGED <<exhausted, readerVars>> /\ Pop(heap)
  \/ ~exhausted /\ ReadOne /\ UNCHANGED exhausted /\ Pop(heap \cup {read'})
  \/ ~exhausted /\ ReaderAtEnd /\ exhausted' = TRUE /\ Pop(heap)

\* The end of the constructor: fill_heap is over, the first event is popped.
FirstPop ==
  /\ phase = "fill" /\ ~FillMore
  /\ phase' = "serve"
  /\ PopNext
  /\ UNCHANGED input

\* advance(), which consumers call only while has_next().
Advance ==
  /\ phase = "serve" /\ hasOutput
  /\ PopNext
  /\ UNCHANGED <<input, phase>>

Next == FillHeap \/ FirstPop \/ Advance

Spec == Init /\ [][Next]_vars

\* The constructor's loop and the consumer's loop run to their ends: one
\* thread, nothing to wait for.
FairSpec == Spec /\ WF_vars(Next)

-----------------------------------------------------------------------------
TypeOK ==
  /\ input \in Seq(Event)
  /\ read \in 0 .. Len(input)
  /\ heap \subseteq 1 .. read
  /\ exhausted \in BOOLEAN
  /\ current \in 0 .. read
  /\ hasOutput \in BOOLEAN
  /\ meta \in [minTs : 0 .. TsMax, maxTs : 0 .. TsMax,
               total : Nat, forks : SUBSET (1 .. read)]
  /\ phase \in {"fill", "serve"}
  /\ output \in Seq(1 .. read)

\* The iterator as its consumer sees it.
Stream == INSTANCE SortedStream WITH
  pending   <- heap \cup (read + 1 .. Len(input)),
  delivered <- output,
  done      <- phase = "serve" /\ ~hasOutput

\* Correct as long as the disorder fits the heap: the buffer is a sorted
\* stream (streaming_sort.h:57-59, "guaranteed globally correct as long as the
\* out-of-order distance is less than the heap size").
IsSortedStream == Stream!Spec

\* No event is emitted before one that sorts ahead of it, not even before one
\* that the reader has not returned yet.
OutputSorted == Stream!Sorted

\* Whatever the disorder, each event of the file is emitted once, and has_next
\* turns false only when heap and file are empty.
EmittedOnce == Stream!ExactlyOnce

\* The heap holds at most Capacity events between calls, and exactly Capacity
\* of them while the file lasts: the window the sort relies on never shrinks.
WindowFull ==
  /\ Cardinality(heap) <= Capacity
  /\ phase = "serve" /\ ~exhausted => Cardinality(heap) = Capacity

\* The consumer reaches the end of the stream with everything emitted.
Drained == <>(phase = "serve" /\ ~hasOutput /\ Len(output) = Len(input))
=============================================================================
