---------------------------- MODULE SortedStream ----------------------------
(***************************************************************************)
(* What every PerfEventIterator promises its consumer ("consuming perf     *)
(* events in sorted timestamp order"): a finite collection of events is    *)
(* handed over one by one, a least remaining event first, and has_next     *)
(* turns false only when nothing is left.  Events are named by their       *)
(* position in the file, so equal records stay distinct.                   *)
(***************************************************************************)
EXTENDS PerfEvents

CONSTANT Inputs  \* the files: sequences of events in file order

VARIABLES
  input,      \* the file being read
  pending,    \* positions not handed over yet
  delivered,  \* positions handed over, in order
  done        \* has_next has returned false

vars == <<input, pending, delivered, done>>

Init ==
  /\ input \in Inputs
  /\ pending = 1 .. Len(input)
  /\ delivered = <<>>
  /\ done = FALSE

Deliver ==
  /\ ~done
  /\ \E i \in pending :
       /\ \A j \in pending : ~Greater(input[i], input[j])
       /\ pending' = pending \ {i}
       /\ delivered' = Append(delivered, i)
  /\ UNCHANGED <<input, done>>

Finish ==
  /\ pending = {}
  /\ ~done
  /\ done' = TRUE
  /\ UNCHANGED <<input, pending, delivered>>

Next == Deliver \/ Finish

Spec == Init /\ [][Next]_vars

-----------------------------------------------------------------------------
\* Events are handed over in non-decreasing order, whatever is still to come:
\* no delivered event sorts after one delivered later or still pending.
Sorted ==
  \A m \in 1 .. Len(delivered) :
    /\ \A n \in m .. Len(delivered) :
         ~Greater(input[delivered[m]], input[delivered[n]])
    /\ \A j \in pending : ~Greater(input[delivered[m]], input[j])

\* Nothing is lost and nothing is handed over twice.
ExactlyOnce ==
  /\ \A m, n \in 1 .. Len(delivered) : delivered[m] = delivered[n] => m = n
  /\ {delivered[m] : m \in 1 .. Len(delivered)} = (1 .. Len(input)) \ pending
  /\ done => pending = {}
=============================================================================
