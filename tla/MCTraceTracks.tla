---------------------------- MODULE MCTraceTracks ----------------------------
(* TraceTracks for TLC: process 1 with threads 1 and 2, process 3.         *)
EXTENDS TraceTracks

MCThreads == {1, 2, 3}
MCProcessOf == [t \in MCThreads |-> IF t = 3 THEN 3 ELSE 1]

Name(key, pid, tid, name, ts) ==
  [key |-> key, pid |-> pid, tid |-> tid, name |-> name, ts |-> ts]

\* Nothing was forked while perf recorded; a thread, and then a process by it.
ForkLists == {<<>>, << <<1, 2>>, <<2, 3>> >>}

\* Thread 2 was renamed in Python, and its process was given a name.
ThreadAndProcess ==
  <<Name("thread_name", 1, 2, "worker", 1), Name("process_name", 1, 1, "job", 1)>>
Renamed == <<Name("thread_name", 1, 2, "thread", 1), Name("thread_name", 1, 2, "worker", 3)>>

Window(start, end) == [start |-> start, end |-> end]
Unlimited == Window(-1, -1)

WithoutBeginning == Window(2, -1)
BeginningOnly == Window(1, 1)

\* Records of names and a window of time, which leaves out all of them, one, or none.
NamesInWindows ==
  {<<<<>>, Unlimited>>} \cup {ThreadAndProcess} \X {Unlimited, WithoutBeginning} \cup
  {Renamed} \X {Unlimited, WithoutBeginning, BeginningOnly}

Comms == {<<>>, [t \in {1, 2} |-> IF t = 1 THEN "python" ELSE "worker"],
          [t \in {2, 3} |-> "python"]}

\* No filter; by pid; by name; by both.
Filters == {<<NoPid, {}>>, <<3, {}>>, <<NoPid, {"worker"}>>, <<1, {"python", "job"}>>}

RecordingsWith(forkLists, tracepoints, namesInWindows) ==
  {Recording(f, tracepoints, c, vt, n[1], x[1], x[2], n[2]) :
     f \in forkLists, c \in Comms, vt \in {{}, {2, 3}}, n \in namesInWindows, x \in Filters}

\* sched_process_fork is not recorded.
ForkRecordings == RecordingsWith(ForkLists, FALSE, NamesInWindows)

\* It is, and the new thread forks nothing that would correct its process.
TracepointRecordings ==
  RecordingsWith({<< <<1, 2>> >>}, TRUE, {n \in NamesInWindows : n[2] = Unlimited})
=============================================================================
