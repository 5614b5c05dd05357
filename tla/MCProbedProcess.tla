--------------------------- MODULE MCProbedProcess --------------------------
(* ProbedProcess for TLC: threads and calls are model values.               *)
EXTENDS ProbedProcess

CONSTANTS t1, t2, launch, sync

MCSymmetry == Permutations({launch, sync})
=============================================================================
