--------------------------- MODULE MCReorderBuffer --------------------------
(* Values for the constants of ReorderBuffer: every file of at most MaxLen  *)
(* events over the timestamps 0 .. MaxTs.                                   *)
EXTENDS ReorderBuffer

CONSTANTS MaxLen, MaxTs, FileKinds

MCEvents == [ts : 0 .. MaxTs, kind : FileKinds]
MCFiles == UNION {[1 .. n -> MCEvents] : n \in 0 .. MaxLen}

\* Files whose disorder the heap is large enough for.
MCBoundedFiles == {s \in MCFiles : DisorderAtMost(s, Capacity)}
=============================================================================
