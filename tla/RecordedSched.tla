---------------------------- MODULE RecordedSched ---------------------------
(***************************************************************************)
(* The scheduler tracker at the end of a recording: a kernel that switches *)
(* and wakes threads, perf that samples what it does, and SchedTracker     *)
(* that is handed the samples in sorted order.                             *)
(*                                                                         *)
(*   "system"   every switch and wakeup is sampled;                        *)
(*   "process"  -p PID: a switch is sampled if the thread that leaves is   *)
(*              Traced, a wakeup if the thread that wakes is, a            *)
(*              context-switches event if its own thread is;               *)
(*   "any"      samples unrelated to any kernel, in any order of time.     *)
(*                                                                         *)
(* A context-switches event fires when a thread leaves the CPU, no later   *)
(* than EchoGap after the switch, and when it gets a CPU.                  *)
(***************************************************************************)
EXTENDS SchedTracker

CONSTANTS
  Modes,   \* the ways of recording
  Traced,  \* the threads of the recorded process
  Cpus     \* the CPUs

Threads == Tids \ {Idle}

VARIABLES
  mode,     \* how this recording is made
  time,     \* the kernel's time
  runs,     \* the thread each CPU runs
  state,    \* of each thread: "run", "ready" or "sleep"
  inAt,     \* when a thread was last given a CPU (0: before the recording)
  outAt,    \* when it last left one
  pending,  \* samples of the last thing that happened, in order of delivery
  switchAt  \* the time of the last sched_switch sample

kernelVars == <<time, runs, state, inAt, outAt, pending, switchAt>>
recordingVars == <<vars, mode, kernelVars>>

RecordingInit ==
  /\ Init
  /\ mode \in Modes
  /\ time = 0
  /\ runs \in [Cpus -> Tids]
  /\ \A c, d \in Cpus : c # d /\ runs[c] \in Threads => runs[c] # runs[d]
  /\ state \in [Threads -> {"run", "ready", "sleep"}]
  /\ \A t \in Threads : state[t] = "run" <=> \E c \in Cpus : runs[c] = t
  /\ mode = "any" => state = [t \in Threads |-> "sleep"]
  /\ inAt = [t \in Threads |-> 0]
  /\ outAt = [t \in Threads |-> 0]
  /\ pending = <<>>
  /\ switchAt = -1

-----------------------------------------------------------------------------
(* The kernel. *)

\* Whether the events of thread t are recorded.
Recorded(t) == t \in Threads /\ (mode = "system" \/ t \in Traced)

\* A context-switches or sched_stat_runtime event of thread t.
Evidence(t) == IF Recorded(t) THEN <<[type |-> "running", tid |-> t]>> ELSE <<>>

\* Something happens at time ts.  Of the samples of one instant those of
\* sched_switch are the last, so others come before the first of them.
Happens(ts) ==
  /\ mode # "any" /\ phase = "run" /\ pending = <<>>
  /\ ts \in Times /\ ts >= time
  /\ time' = ts
  /\ UNCHANGED <<vars, mode>>

Between(ts) == Happens(ts) /\ ts > switchAt /\ UNCHANGED <<runs, inAt, outAt, switchAt>>

\* sched_stat_runtime: a thread that runs has been running.
Tick(ts, t) ==
  /\ state[t] = "run" /\ Recorded(t)
  /\ Between(ts)
  /\ pending' = Evidence(t)
  /\ UNCHANGED state

\* The context-switches event of the switch-out, some time after it.
Echo(ts, t) ==
  /\ state[t] # "run" /\ Recorded(t)
  /\ 0 < outAt[t] /\ outAt[t] < ts /\ ts <= outAt[t] + EchoGap
  /\ Between(ts)
  /\ pending' = Evidence(t)
  /\ UNCHANGED state

\* A thread is woken, by a thread that may be one of the process or not.
Wake(ts, t) ==
  /\ state[t] = "sleep" /\ outAt[t] < ts
  /\ Between(ts)
  /\ state' = [state EXCEPT ![t] = "ready"]
  /\ \/ pending' = <<[type |-> "wakeup", tid |-> t]>>
     \/ mode = "process" /\ pending' = <<>>

\* A CPU goes from its thread to another; a thread is part of one switch at a
\* time only.
Switch(ts, c, next, reason) ==
  LET prev == runs[c]
      sampled == mode = "system" \/ prev \in Traced
  IN  /\ Happens(ts)
      /\ next # prev /\ (next # Idle => state[next] = "ready" /\ outAt[next] < ts)
      /\ IF prev = Idle THEN reason = Preempted ELSE inAt[prev] < ts
      /\ ~sampled /\ Recorded(next) => ts > switchAt
      /\ runs' = [runs EXCEPT ![c] = next]
      /\ state' = [t \in Threads |->
           IF t = next THEN "run"
           ELSE IF t # prev THEN state[t]
           ELSE IF reason = Preempted THEN "ready" ELSE "sleep"]
      /\ inAt' = [t \in Threads |-> IF t = next THEN ts ELSE inAt[t]]
      /\ outAt' = [t \in Threads |-> IF t = prev THEN ts ELSE outAt[t]]
      /\ switchAt' = IF sampled THEN ts ELSE switchAt
      /\ pending' =
           (IF ts > switchAt THEN Evidence(next) ELSE <<>>) \o
           (IF sampled
            THEN <<[type |-> "switch", prev |-> prev, next |-> next, reason |-> reason]>>
            ELSE <<>>)

Kernel ==
  \E ts \in Times :
    \/ \E t \in Threads : Tick(ts, t) \/ Echo(ts, t) \/ Wake(ts, t)
    \/ \E c \in Cpus, next \in Tids, reason \in Reasons : Switch(ts, c, next, reason)

-----------------------------------------------------------------------------
(* The samples reach the tracker. *)

\* emit_perf_event(peek()); advance().
Deliver ==
  /\ pending # <<>>
  /\ LET s == pending[1] IN
     \/ s.type = "switch" /\ SchedSwitch(time, s.prev, s.next, s.reason)
     \/ s.type = "wakeup" /\ SchedWakeup(time, s.tid)
     \/ s.type = "running" /\ Running(time, s.tid)
     \/ s.type # "switch" /\ s.tid \notin Shown /\ Ignored(time)
  /\ pending' = Tail(pending)
  /\ UNCHANGED <<mode, time, runs, state, inAt, outAt, switchAt>>

\* The file is at its end.
FlushRecorded ==
  /\ mode # "any" /\ pending = <<>>
  /\ BeginFlush \/ (\E t \in Tids : FlushThread(t)) \/ EndFlush
  /\ UNCHANGED <<mode, kernelVars>>

AnySamples ==
  /\ mode = "any"
  /\ Next
  /\ UNCHANGED <<mode, kernelVars>>

RecordingNext == Kernel \/ Deliver \/ FlushRecorded \/ AnySamples

RecordingSpec == RecordingInit /\ [][RecordingNext]_recordingVars

-----------------------------------------------------------------------------
\* The threads whose samples the tracker is given and looks at.
Followed == {t \in DOMAIN sched : Recorded(t)}

\* A thread that sleeps is off-cpu for the tracker: neither a tick from just
\* before the switch-out nor an echo from just after it wakes the thread there
\* ("this is the switch-out context-switch echo, ignore it",
\* merge_engine.cpp:726).  And in a system-wide recording a known thread that
\* runs is on-cpu: evidence of a switch-in within EchoGap of the switch-out is
\* dropped as an echo, but the sched_switch of the same instant is not.
StateFollows ==
  mode # "any" /\ pending = <<>> =>
    \A t \in Followed :
      /\ state[t] = "sleep" => ~sched[t].on
      /\ mode = "system" /\ t \in Known /\ state[t] = "run" => sched[t].on

\* In a system-wide recording an on-cpu span of a known thread is the time the
\* thread had the CPU, from its switch-in to its switch-out: a wakeup, which
\* turns the tracker on-cpu too early, adds nothing to it.  A thread that was
\* running before the recording is shown from its first sample on.
OnCpuExact ==
  [][mode = "system" /\ phase = "run" =>
       \A k \in 1 .. Len(out') :
         LET call == out'[k] IN
         out' # out /\ call.op = "X" /\ call.name = "on-cpu" /\ call.tid \in Threads \cap Known =>
           /\ call.end = outAt[call.tid]
           /\ inAt[call.tid] > 0 => call.start = inAt[call.tid]]_recordingVars
=============================================================================
