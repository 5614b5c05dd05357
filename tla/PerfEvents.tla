----------------------------- MODULE PerfEvents -----------------------------
(***************************************************************************)
(* The perf events that flow from the reader to the merge engine, reduced  *)
(* to what their order depends on: a timestamp in nanoseconds and a kind.  *)
(* Only two kinds matter to the order: sched_switch sorts after every      *)
(* other kind at an equal timestamp.  "fork" is told apart because the     *)
(* reorder buffer collects fork events on the side.                        *)
(***************************************************************************)
EXTENDS Integers, Sequences, FiniteSets

CONSTANT TsMax  \* the largest timestamp a PerfEvent can hold (UINT64_MAX)

ASSUME TsMaxAssumption == TsMax \in Nat

Kinds == {"switch", "fork", "other"}

Event == [ts : 0 .. TsMax, kind : Kinds]

Priority(kind) == IF kind = "switch" THEN 1 ELSE 0

\* PerfEventGreater: a sorts strictly after b.
Greater(a, b) ==
  IF a.ts # b.ts THEN a.ts > b.ts ELSE Priority(a.kind) > Priority(b.kind)

\* The events that precede event i in the file but sort after it.
Overtaken(s, i) == {k \in 1 .. i - 1 : Greater(s[k], s[i])}

\* No event comes more than d events late.
DisorderAtMost(s, d) == \A i \in 1 .. Len(s) : Cardinality(Overtaken(s, i)) <= d
=============================================================================
