----------------------------- MODULE TraceTracks -----------------------------
(***************************************************************************)
(* Whose events are whose: how MergeEngine learns which thread belongs to  *)
(* which process and what they are called, what it filters by pid and      *)
(* name, and under which tracks the PerfettoWriter files what is left.     *)
(*                                                                         *)
(* A thread's id is its tid; the id of its process is the tid of the main  *)
(* thread.  perf knows the process of the thread a sample belongs to       *)
(* (event.pid), but a sched_switch names threads only, and a new thread is *)
(* announced twice: by a FORK record, which has both ids of the child, and *)
(* if sched_process_fork is recorded by a tracepoint that has only one.    *)
(* The order in which events reach the engine is TraceMerge's matter; here *)
(* they come in any order.                                                 *)
(***************************************************************************)
EXTENDS PerfettoWriter

CONSTANTS
  Threads,    \* tids
  ProcessOf,  \* the real process of each thread
  Recordings, \* what the two recordings and the command line hold
  Metrics,    \* metric names of the CSV files
  NoPid,      \* no --filter-pid
  MaxPackets  \* bound on the packets written before finalize

MainThreads == {t \in Threads : ProcessOf[t] = t}

ASSUME ProcessAssumption ==
  \A t \in Threads : ProcessOf[t] \in MainThreads

\* forks: pairs <<parent, child>> in file order; tracepoints: whether
\* sched_process_fork is recorded too; comm: perf's names of some threads;
\* vizThreads: the threads with Python events; vizNames: their metadata
\* records, with their aligned times; pid and wanted: --filter-pid and the names
\* --filter-name matches; window: time_start_us_ and time_end_us_, where TraceMerge
\* places them (a negative one is no limit).
Recording(forks, tracepoints, comm, vizThreads, vizNames, pid, wanted, window) ==
  [forks |-> forks, tracepoints |-> tracepoints, comm |-> comm,
   vizThreads |-> vizThreads, vizNames |-> vizNames, pid |-> pid, wanted |-> wanted,
   window |-> window]

\* Ids are those of threads, and what viz records say of them is true.
ASSUME RecordingAssumption ==
  /\ IsFiniteSet(Threads)
  /\ \A r \in Recordings :
       /\ r.forks \in Seq(Threads \X Threads)
       /\ DOMAIN r.comm \subseteq Threads
       /\ r.vizThreads \subseteq Threads
       /\ Len(r.vizNames) \in Nat /\ DOMAIN r.vizNames = 1 .. Len(r.vizNames)
       /\ \A k \in 1 .. Len(r.vizNames) :
            /\ r.vizNames[k].key \in {"thread_name", "process_name"}
            /\ r.vizNames[k].tid \in Threads
            /\ r.vizNames[k].pid = ProcessOf[r.vizNames[k].tid]
            /\ r.vizNames[k].ts \in Int
       /\ r.window \in [start : Int, end : Int]

VARIABLES
  rec,        \* the recording
  tidToTgid,  \* tid_to_tgid_
  vizNameMap, \* viz_name_map_
  vizNext,    \* position of the next viz metadata record
  dropped,    \* the threads of which an event has been filtered out
  phase       \* "load", "viz", "metrics", "names", "merge", "late", "done"

vars == <<writer, rec, tidToTgid, vizNameMap, vizNext, dropped, phase>>

\* decode_fork: header pid and tid of the parent, child_pid and child_tid.
ForkRecord(parent, child) ==
  [pid |-> ProcessOf[parent], tid |-> parent,
   childPid |-> ProcessOf[child], childTid |-> child]

\* The sched_process_fork branch of decode_sample: the field child_pid of the
\* tracepoint is the tid of the child.
ForkTracepoint(parent, child) ==
  [pid |-> ProcessOf[parent], tid |-> parent, childPid |-> child, childTid |-> child]

\* The tracepoint of a fork, if it is recorded, comes after its record.
ForkEvents(forks, tracepoints) ==
  IF tracepoints
  THEN [i \in 1 .. 2 * Len(forks) |->
          LET f == forks[(i + 1) \div 2]
          IN  IF i % 2 = 1 THEN ForkRecord(f[1], f[2]) ELSE ForkTracepoint(f[1], f[2])]
  ELSE [i \in 1 .. Len(forks) |-> ForkRecord(forks[i][1], forks[i][2])]

\* A plausible mistake in the definition that follows: the child is put into the
\* process that forked it.
LearnForkOfParent(map, e) == Set(Set(map, e.childTid, e.pid), e.tid, e.pid)

\* One turn of the loop of set_perf_source over the fork events (all ids are
\* positive).
LearnFork(map, e) == Set(Set(map, e.childTid, e.childPid), e.tid, e.pid)

\* The loop.
LearnForks(map, es) ==
  LET after[i \in 0 .. Len(es)] == IF i = 0 THEN map ELSE LearnFork(after[i - 1], es[i])
  IN  after[Len(es)]

Init ==
  /\ writer = NewWriter
  /\ rec \in Recordings
  /\ tidToTgid = <<>>
  /\ vizNameMap = <<>>
  /\ vizNext = 1
  /\ dropped = {}
  /\ phase = "load"

SetPerfSource ==
  /\ phase = "load"
  /\ tidToTgid' = LearnForks(tidToTgid, ForkEvents(rec.forks, rec.tracepoints))
  /\ phase' = "viz"
  /\ UNCHANGED <<writer, rec, vizNameMap, vizNext, dropped>>

\* viz_tid_to_pid of main: every viz event, metadata or not, tells the process of its
\* thread.
VizTids == rec.vizThreads \cup {rec.vizNames[k].tid : k \in DOMAIN rec.vizNames}

\* set_viz_metadata: all names are learnt (they serve --filter-name), whatever their time;
\* a process_name record names the pid too.
SetVizMetadata ==
  /\ phase = "viz"
  /\ tidToTgid' = [t \in DOMAIN tidToTgid \cup VizTids |->
                     IF t \in VizTids THEN ProcessOf[t] ELSE tidToTgid[t]]
  /\ LET learn(map, m) == IF m.key = "process_name"
                          THEN Set(Set(map, m.tid, m.name), m.pid, m.name)
                          ELSE Set(map, m.tid, m.name)
     IN  vizNameMap' = FoldLeft(learn, vizNameMap, rec.vizNames)
  /\ phase' \in {"metrics", "names"}
  /\ UNCHANGED <<writer, rec, vizNext, dropped>>

\* A plausible mistake in the definition that follows: the pid of sched_switch is
\* taken for a process.
TgidForRaw(tid) == tid

\* tgid_for
TgidFor(tid) == IF tid \in DOMAIN tidToTgid THEN tidToTgid[tid] ELSE tid

PassesFilter(pid) == rec.pid = NoPid \/ pid = rec.pid

\* passes_name_filter
PassesNameFilter(tid) ==
  LET matches(id) == \/ id \in DOMAIN rec.comm /\ rec.comm[id] \in rec.wanted
                     \/ id \in DOMAIN vizNameMap /\ vizNameMap[id] \in rec.wanted
  IN  rec.wanted = {} \/ matches(tid) \/ matches(TgidFor(tid))

\* passes_time_filter (nothing sets time_end_exclusive).
PassesTimeFilter(ts) ==
  /\ rec.window.start >= 0 => ts >= rec.window.start
  /\ rec.window.end >= 0 => ts <= rec.window.end

\* thread_name for a lane of a thread of comm_map_.
NameThread(t, lane) == MetadataCall("thread_name", TgidFor(t), lane, t, rec.comm[t])

\* The threads of comm_map_, in the order of the map.
NameThreads(order) == [i \in DOMAIN order |-> NameThread(order[i], "stacks")]

\* process_name: a process is called after the first of its threads that the
\* order brings, or else after the thread that has its id.
NameProcesses(order) ==
  LET firstOf(p) ==
        order[CHOOSE i \in DOMAIN order :
                /\ TgidFor(order[i]) = p
                /\ \A j \in 1 .. i - 1 : TgidFor(order[j]) # p]
      named == {TgidFor(t) : t \in DOMAIN rec.comm}
      others == {tidToTgid[t] : t \in DOMAIN tidToTgid} \cap DOMAIN rec.comm
      processes == SetToSeq(named \cup others)
      namesake(p) == IF p \in named THEN firstOf(p) ELSE p
  IN  [i \in DOMAIN processes |->
         MetadataCall("process_name", processes[i], "stacks", 0,
                      rec.comm[namesake(processes[i])])]

\* The lanes [sched], [GIL] and [GPU].
NameLanes ==
  LET lanes == SetToSeq((Lanes \ {"stacks"}) \X DOMAIN rec.comm)
  IN  [i \in DOMAIN lanes |-> NameThread(lanes[i][2], lanes[i][1])]

\* write_metadata
WriteNames ==
  /\ phase = "names"
  /\ \E order \in SetToSeqs(DOMAIN rec.comm) :
       writer' = WriteAllMetadata(writer,
                   NameThreads(order) \o NameProcesses(order) \o NameLanes)
  /\ phase' = "merge"
  /\ UNCHANGED <<rec, tidToTgid, vizNameMap, vizNext, dropped>>

Room == Len(writer.file) < MaxPackets

\* What a handler does with an event of a thread that it files under pid.  The time of
\* the event is left open: one outside the window leaves the state as it is.
File(t, pid, written) ==
  /\ phase = "merge" /\ Room
  /\ IF PassesFilter(pid) /\ PassesNameFilter(t)
     THEN writer' = written /\ UNCHANGED dropped
     ELSE dropped' = dropped \cup {t} /\ UNCHANGED writer
  /\ UNCHANGED <<rec, tidToTgid, vizNameMap, vizNext, phase>>

\* A scheduler span or instant: only the tid is known.
SchedEvent(t) ==
  File(t, TgidFor(t), WriteComplete(writer, "on-cpu", TgidFor(t), "sched", t))

\* A GIL probe: the pid of the sample.
GilEvent(t, type) ==
  File(t, ProcessOf[t], WriteTrackEvent(writer, type, "GIL held", ProcessOf[t], "gil", t))

\* A GPU probe: the tid of the sample.
GpuEvent(t, type) ==
  File(t, TgidFor(t), WriteTrackEvent(writer, type, "cuLaunchKernel", TgidFor(t), "gpu", t))

\* A Python span: the ids of the viz event.
VizSpan(t) ==
  /\ t \in rec.vizThreads
  /\ File(t, ProcessOf[t], WriteComplete(writer, "f", ProcessOf[t], "stacks", t))

\* A viz metadata record that the merge loop comes to: it passes the filters of an event,
\* that of time included, or is lost.
VizMetadata ==
  /\ phase = "merge" /\ vizNext <= Len(rec.vizNames)
  /\ LET m == rec.vizNames[vizNext]
     IN  writer' = IF PassesFilter(m.pid) /\ PassesNameFilter(m.tid) /\ PassesTimeFilter(m.ts)
                   THEN WriteMetadata(writer, m.key, m.pid, "stacks", m.tid, m.name)
                   ELSE writer
  /\ vizNext' = vizNext + 1
  /\ UNCHANGED <<rec, tidToTgid, vizNameMap, dropped, phase>>

\* write_metrics after the merge, or set_metric_samples of a ChunkingWriter
\* before it: every sample goes below pid 0.
Metric(m) ==
  /\ phase \in {"metrics", "late"} /\ Room
  /\ writer' = WriteCounter(writer, m, 0)
  /\ UNCHANGED <<rec, tidToTgid, vizNameMap, vizNext, dropped, phase>>

\* From the metrics to the merge, and from its end to the metrics.
GoOn ==
  /\ \/ phase = "metrics" /\ phase' = "names"
     \/ phase = "merge" /\ vizNext > Len(rec.vizNames) /\ phase' = "late"
  /\ UNCHANGED <<writer, rec, tidToTgid, vizNameMap, vizNext, dropped>>

\* PerfettoWriter::finalize
Close ==
  /\ phase = "late"
  /\ writer' = Finalize(writer)
  /\ phase' = "done"
  /\ UNCHANGED <<rec, tidToTgid, vizNameMap, vizNext, dropped>>

Next ==
  \/ SetPerfSource \/ SetVizMetadata \/ WriteNames
  \/ \E t \in Threads :
       \/ SchedEvent(t) \/ VizSpan(t)
       \/ \E type \in {"begin", "end"} : GilEvent(t, type) \/ GpuEvent(t, type)
  \/ VizMetadata
  \/ \E m \in Metrics : Metric(m)
  \/ GoOn \/ Close

Spec == Init /\ [][Next]_vars

-----------------------------------------------------------------------------
TypeOK ==
  /\ WriterTypeOK(Threads \cup {0}, Threads, Metrics)
  /\ rec \in Recordings
  /\ DOMAIN tidToTgid \subseteq Threads
  /\ \A t \in DOMAIN tidToTgid : tidToTgid[t] \in Threads
  /\ dropped \subseteq Threads
  /\ vizNext \in 1 .. Len(rec.vizNames) + 1
  /\ phase \in {"load", "viz", "metrics", "names", "merge", "late", "done"}

\* When the file is finished, the track of every event, its parent and all
\* that lies above it are described in it, each once.
TracksDescribed ==
  LET parent(track) == writer.file[CHOOSE i \in DescriptorsOf(track) : TRUE].parent
      described(track) == \E i \in DescriptorsOf(track) : DescriptorsOf(track) = {i}
  IN  phase = "done" =>
        \A i \in Events :
          LET track == writer.file[i].track IN
          /\ described(track)
          /\ described(parent(track))
          /\ parent(parent(track)) # Root => described(parent(parent(track)))

\* The threads whose process perf or viz tell, and the main threads.
KnownThreads == MainThreads \cup DOMAIN tidToTgid

ThreadGroups ==
  {writer.file[i] : i \in {j \in Packets("descriptor") : writer.file[j].track[1] = "group"}}

\* The lanes of a thread are grouped under the thread's real process,
\* whichever kind of event comes first.
FiledUnderProcess ==
  phase = "done" =>
    \A g \in ThreadGroups :
      g.track[2] \in KnownThreads => g.parent = Process(ProcessOf[g.track[2]])

\* The k-th viz metadata record is a name of thread t, which the pid and name filters keep.
GivesName(k, t) ==
  LET m == rec.vizNames[k]
  IN  m.key = "thread_name" /\ m.tid = t /\ PassesFilter(m.pid) /\ PassesNameFilter(t)

\* It passes the time filter too.
Announces(k, t) == GivesName(k, t) /\ PassesTimeFilter(rec.vizNames[k].ts)

\* A thread group has the last name that was announced for it: that of the last viz
\* metadata record of the thread inside the window, which comes during the merge, or
\* if there is none (all are before --time-start, say) perf's, or none.
NamesShown ==
  phase = "done" =>
    \A g \in ThreadGroups :
      LET t == g.track[2]
          announced == {k \in DOMAIN rec.vizNames : Announces(k, t)}
          perfName == IF t \in DOMAIN rec.comm THEN <<rec.comm[t], t>>
                      ELSE FallbackName(g.track)
      IN  /\ announced = {} => g.name = perfName
          /\ \A k \in announced :
               (\A j \in announced : j <= k) => g.name = <<rec.vizNames[k].name, t>>

\* --time-start is about "events" (main.cpp:45), and tracks are to have "proper names",
\* "not fallbacks" (test_synthetic_trace.py:338-340): a thread of which viz gave a name is
\* not called by its number, whatever part of the trace is asked for.  It does not hold
\* where all names come before --time-start.
NamedInWindow ==
  phase = "done" =>
    \A g \in ThreadGroups :
      (\E k \in DOMAIN rec.vizNames : GivesName(k, g.track[2])) => g.name # FallbackName(g.track)

\* --filter-pid, "Only include events for this PID" (main.cpp:42): no event of
\* another process is in the file, and of a thread all kinds of events are
\* in it or none, although each kind knows the process in its own way.
PidFilterExact ==
  LET shown == {writer.file[i].track[2] :
                  i \in {j \in Events : writer.file[j].track[1] \in Lanes}}
  IN  \A t \in shown \cap KnownThreads :
        /\ rec.pid # NoPid => ProcessOf[t] = rec.pid
        /\ t \notin dropped

\* "child_tid belongs to child_pid (which IS the tgid)" (merge_engine.cpp:140).
TgidIsProcess == \A t \in DOMAIN tidToTgid : tidToTgid[t] = ProcessOf[t]
=============================================================================
