---------------------------- MODULE SchedTracker ----------------------------
(***************************************************************************)
(* The scheduler state machine of MergeEngine (sched_state_,               *)
(* merge_engine.cpp:361-531, 679-817): it turns sched_switch, sched_wakeup,*)
(* context-switch and sched_stat_runtime samples into the on-cpu and       *)
(* off-cpu spans of one "[sched]" track per thread.                        *)
(*                                                                         *)
(* Samples arrive one by one from the perf iterator.  Each action is one   *)
(* call of emit_perf_event, or one turn of the loop of flush_sched_state.  *)
(* Timestamps are small naturals; a sample's may be earlier than its       *)
(* predecessor's by at most Backward, which is 0 while the iterator keeps  *)
(* its promise of sorted order.                                            *)
(***************************************************************************)
EXTENDS Integers, Sequences, FiniteSets

CONSTANTS
  Tids,       \* thread ids
  Idle,       \* thread id 0: the idle task, and the target of an unparsed wakeup
  Shown,      \* threads that pass the pid and name filters
  Known,      \* threads in tid_to_tgid_
  Reasons,    \* what prev_state_name distinguishes
  Preempted,  \* the reason that stands for prev_state 0
  MaxTs,      \* bound on timestamps
  InRange,    \* the timestamps that pass_time_filter lets through
  EchoGap,    \* 10000 ns: an earlier switch-in is taken for an echo
  TsMod,      \* 2^64: width of the subtraction of two timestamps
  Backward,   \* how far a sample may lie before its predecessor
  LastIsKnown \* last_perf_ts_ns_ is the last sample's (not so when streaming)

ASSUME SchedAssumption ==
  /\ Idle \in Tids /\ Preempted \in Reasons /\ "on-cpu" \notin Reasons
  /\ Shown \subseteq Tids /\ Known \subseteq Tids
  /\ MaxTs \in Nat /\ EchoGap \in Nat /\ Backward \in Nat
  /\ TsMod \in Nat /\ TsMod > MaxTs + EchoGap + Backward
  /\ LastIsKnown \in BOOLEAN

Times == 0 .. MaxTs

SchedState == [last : Times, on : BOOLEAN, reason : Reasons]

\* What a writer call says: a complete span ("X") or an instant ("i").
Call == [op : {"X", "i"}, name : {"on-cpu", "wakeup", "fork"} \cup Reasons,
         tid : Tids, start : Times, end : Times]

VARIABLES
  sched,    \* sched_state_: a map from thread to state
  clock,    \* timestamp of the last sample taken from the iterator
  out,      \* the writer calls made by the last step
  toFlush,  \* threads flush_sched_state has still to visit
  lastTs,   \* last_perf_ts_ns_, once the flush has begun
  phase,    \* "run", "flush", "done"
  spanEnd,  \* history: end of the latest span written for a thread
  lastOut   \* history: the latest switch-out sample of a thread

history == <<spanEnd, lastOut>>
vars == <<sched, clock, out, toFlush, lastTs, phase, history>>

-----------------------------------------------------------------------------
\* sched_state_[t] = v
Put(f, t, v) == [x \in DOMAIN f \cup {t} |-> IF x = t THEN v ELSE f[x]]

IsOn(f, t) == t \in DOMAIN f /\ f[t].on
IsOff(f, t) == t \in DOMAIN f /\ ~f[t].on

\* A plausible mistake in the definition that follows: the reason is not kept.
OffCpuSinceNoReason(ts, reason) == [last |-> ts, on |-> FALSE, reason |-> Preempted]

OnCpuSince(ts) == [last |-> ts, on |-> TRUE, reason |-> Preempted]
OffCpuSince(ts, reason) == [last |-> ts, on |-> FALSE, reason |-> reason]

\* write_complete, skipped unless the duration is positive.
Span(name, t, from, to) ==
  IF to > from
  THEN <<[op |-> "X", name |-> name, tid |-> t, start |-> from, end |-> to]>>
  ELSE <<>>

Instant(name, t, ts) ==
  <<[op |-> "i", name |-> name, tid |-> t, start |-> ts, end |-> ts]>>

CloseOn(f, t, ts) ==
  IF IsOn(f, t) THEN Span("on-cpu", t, f[t].last, ts) ELSE <<>>
CloseOff(f, t, ts) ==
  IF IsOff(f, t) THEN Span(f[t].reason, t, f[t].last, ts) ELSE <<>>

\* uint64_t gap_ns = event.timestamp_ns - last_event_ns
Gap(ts, last) == (ts - last) % TsMod

-----------------------------------------------------------------------------
Init ==
  /\ sched = << >>
  /\ clock = 0
  /\ out = <<>>
  /\ toFlush = {}
  /\ lastTs = 0
  /\ phase = "run"
  /\ spanEnd = [t \in Tids |-> 0]
  /\ lastOut = [t \in Tids |-> [ts |-> 0, reason |-> Preempted]]

\* A handler's writer calls, and what they add to the history.
Write(calls) ==
  /\ out' = calls
  /\ spanEnd' = [t \in Tids |->
       LET ends == {calls[k].end : k \in {k \in 1 .. Len(calls) :
                      calls[k].op = "X" /\ calls[k].tid = t}}
       IN  IF ends = {} THEN spanEnd[t]
           ELSE CHOOSE e \in ends : \A d \in ends : d <= e]

\* The iterator hands over a sample taken at ts.
Sample(ts) ==
  /\ phase = "run"
  /\ ts \in Times /\ ts + Backward >= clock
  /\ clock' = ts
  /\ UNCHANGED <<toFlush, lastTs, phase>>

\* A sample the time filter rejects, or of a type no branch handles.
Ignored(ts) ==
  /\ Sample(ts)
  /\ Write(<<>>)
  /\ UNCHANGED <<sched, lastOut>>

\* A plausible mistake in the definition that follows: a thread that is on-cpu already,
\* since its wakeup, keeps that start.
SchedSwitchKeepsOn(ts, prev, next, reason) ==
  LET prevShown == prev \in Shown
      nextShown == next \in Shown \cap Known
      switched  == IF prevShown THEN Put(sched, prev, OffCpuSince(ts, reason))
                                ELSE sched
  IN  /\ Sample(ts) /\ ts \in InRange
      /\ sched' = IF nextShown /\ ~IsOn(switched, next)
                  THEN Put(switched, next, OnCpuSince(ts)) ELSE switched
      /\ Write((IF prevShown THEN CloseOn(sched, prev, ts) ELSE <<>>) \o
               (IF nextShown THEN CloseOff(switched, next, ts) ELSE <<>>))
      /\ lastOut' = [lastOut EXCEPT ![prev] = [ts |-> ts, reason |-> reason]]

\* case SchedSwitch
SchedSwitch(ts, prev, next, reason) ==
  LET prevShown == prev \in Shown
      nextShown == next \in Shown \cap Known
      switched  == IF prevShown THEN Put(sched, prev, OffCpuSince(ts, reason))
                                ELSE sched
  IN  /\ Sample(ts) /\ ts \in InRange
      /\ sched' = IF nextShown THEN Put(switched, next, OnCpuSince(ts))
                               ELSE switched
      /\ Write((IF prevShown THEN CloseOn(sched, prev, ts) ELSE <<>>) \o
               (IF nextShown THEN CloseOff(switched, next, ts) ELSE <<>>))
      /\ lastOut' = [lastOut EXCEPT ![prev] = [ts |-> ts, reason |-> reason]]

\* A plausible mistake in the definition that follows: the off-cpu span is written but
\* the thread stays off-cpu.
SchedWakeupNoUpdate(ts, target) ==
  /\ Sample(ts) /\ ts \in InRange
  /\ target # Idle /\ target \in Shown
  /\ Write(CloseOff(sched, target, ts) \o Instant("wakeup", target, ts))
  /\ UNCHANGED <<sched, lastOut>>

\* case SchedWakeup
SchedWakeup(ts, target) ==
  /\ Sample(ts) /\ ts \in InRange
  /\ target # Idle /\ target \in Shown
  /\ sched' = IF IsOff(sched, target) THEN Put(sched, target, OnCpuSince(ts))
                                      ELSE sched
  /\ Write(CloseOff(sched, target, ts) \o Instant("wakeup", target, ts))
  /\ UNCHANGED lastOut

\* case SchedFork
SchedFork(ts, t) ==
  /\ Sample(ts) /\ ts \in InRange
  /\ t \in Shown
  /\ Write(Instant("fork", t, ts))
  /\ UNCHANGED <<sched, lastOut>>

\* A plausible mistake in the definition that follows: filtered threads are tracked too.
RunningUnfiltered(ts, t) ==
  LET switchIn == IsOff(sched, t) /\ Gap(ts, sched[t].last) > EchoGap
  IN  /\ Sample(ts) /\ ts \in InRange
      /\ sched' = IF t \notin DOMAIN sched \/ switchIn
                  THEN Put(sched, t, OnCpuSince(ts)) ELSE sched
      /\ Write(IF switchIn THEN CloseOff(sched, t, ts) ELSE <<>>)
      /\ UNCHANGED lastOut

\* A plausible mistake in the definition that follows: the echo of a switch-out counts.
RunningEchoToo(ts, t) ==
  /\ Sample(ts) /\ ts \in InRange
  /\ t \in Shown
  /\ sched' = IF IsOn(sched, t) THEN sched ELSE Put(sched, t, OnCpuSince(ts))
  /\ Write(CloseOff(sched, t, ts))
  /\ UNCHANGED lastOut

\* cases ContextSwitch and SchedStatRuntime: evidence that t is running.
Running(ts, t) ==
  LET switchIn == IsOff(sched, t) /\ Gap(ts, sched[t].last) > EchoGap
  IN  /\ Sample(ts) /\ ts \in InRange
      /\ t \in Shown
      /\ sched' = IF t \notin DOMAIN sched \/ switchIn
                  THEN Put(sched, t, OnCpuSince(ts)) ELSE sched
      /\ Write(IF switchIn THEN CloseOff(sched, t, ts) ELSE <<>>)
      /\ UNCHANGED lastOut

\* The iterator is at its end: flush_sched_state begins.  The last timestamp
\* it uses was fixed before the loop; 0 makes it return at once.
BeginFlush ==
  /\ phase = "run"
  /\ lastTs' \in (IF LastIsKnown THEN {clock} ELSE Times)
  /\ toFlush' = IF lastTs' = 0 THEN {} ELSE DOMAIN sched
  /\ phase' = "flush"
  /\ Write(<<>>)
  /\ UNCHANGED <<sched, clock, lastOut>>

\* A plausible mistake in the definition that follows: off-cpu threads are not flushed.
FlushThreadOnCpuOnly(t) ==
  /\ phase = "flush" /\ t \in toFlush
  /\ toFlush' = toFlush \ {t}
  /\ Write(IF t \in Shown /\ sched[t].on
           THEN Span("on-cpu", t, sched[t].last, lastTs) ELSE <<>>)
  /\ UNCHANGED <<sched, clock, lastTs, phase, lastOut>>

\* One turn of the loop over sched_state_, in whatever order.
FlushThread(t) ==
  /\ phase = "flush" /\ t \in toFlush
  /\ toFlush' = toFlush \ {t}
  /\ Write(IF t \in Shown
           THEN Span(IF sched[t].on THEN "on-cpu" ELSE sched[t].reason,
                     t, sched[t].last, lastTs)
           ELSE <<>>)
  /\ UNCHANGED <<sched, clock, lastTs, phase, lastOut>>

EndFlush ==
  /\ phase = "flush" /\ toFlush = {}
  /\ phase' = "done"
  /\ Write(<<>>)
  /\ UNCHANGED <<sched, clock, toFlush, lastTs, lastOut>>

Next ==
  \/ \E ts \in Times :
       \/ Ignored(ts)
       \/ \E prev, next \in Tids, reason \in Reasons :
            SchedSwitch(ts, prev, next, reason)
       \/ \E t \in Tids : SchedWakeup(ts, t) \/ SchedFork(ts, t) \/ Running(ts, t)
  \/ BeginFlush
  \/ \E t \in Tids : FlushThread(t)
  \/ EndFlush

Spec == Init /\ [][Next]_vars

-----------------------------------------------------------------------------
TypeOK ==
  /\ DOMAIN sched \subseteq Shown
  /\ \A t \in DOMAIN sched : sched[t] \in SchedState
  /\ clock \in Times
  /\ out \in Seq(Call)
  /\ toFlush \subseteq DOMAIN sched
  /\ lastTs \in Times
  /\ phase \in {"run", "flush", "done"}
  /\ spanEnd \in [Tids -> Times]
  /\ lastOut \in [Tids -> [ts : Times, reason : Reasons]]

\* The spans of a thread's track never overlap: each starts where the previous
\* one has ended or later.  (Holds while the samples arrive in order.)
NoOverlap ==
  [][\A k \in 1 .. Len(out') :
       out'[k].op = "X" => out'[k].start >= spanEnd[out'[k].tid]]_vars

\* An off-cpu span starts at the thread's latest switch-out and gives the
\* reason sampled there, whichever kind of sample closes it.
OffCpuFromSwitchOut ==
  [][\A k \in 1 .. Len(out') :
       out'[k].op = "X" /\ out'[k].name \in Reasons =>
         /\ out'[k].start = lastOut[out'[k].tid].ts
         /\ out'[k].name = lastOut[out'[k].tid].reason]_vars

\* A thread's open span is never from the future, and never reaches back
\* before a span already written: what NoOverlap rests on.
OpenSpanIsLast ==
  \A t \in DOMAIN sched :
    /\ t \in toFlush \/ phase = "run" => spanEnd[t] <= sched[t].last
    /\ sched[t].last <= clock

\* Once flushed, every thread the tracker knows is accounted for up to the
\* last sample: its last span ends there, unless it changed state right then.
FlushReachesEnd ==
  phase = "done" =>
    \A t \in DOMAIN sched : spanEnd[t] = clock \/ sched[t].last = clock
=============================================================================
