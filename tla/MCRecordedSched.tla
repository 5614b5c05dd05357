--------------------------- MODULE MCRecordedSched --------------------------
(* RecordedSched for TLC: the threads are model values the runs name.       *)
EXTENDS RecordedSched

CONSTANTS t0, t1, t2
=============================================================================
