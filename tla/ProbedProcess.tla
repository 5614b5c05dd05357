---------------------------- MODULE ProbedProcess ---------------------------
(***************************************************************************)
(* The samples ProbeSpans is made for: the threads of a recorded Python    *)
(* process, which nest CUDA calls and contend for one GIL, with uprobes at *)
(* the entry and the return of every function.  A probe that is installed  *)
(* twice (python:take_gil and python:take_gil_1) yields two samples; under *)
(* LossySpec the kernel may drop any of them.  Samples reach the engine in *)
(* the order they fire.  Recording may start anywhere in the threads'      *)
(* lives, so the first samples may be returns.                             *)
(*                                                                         *)
(* With the feed "any" there is no process behind the samples: they come   *)
(* in any order, as from several processes, or many losses.                *)
(***************************************************************************)
EXTENDS ProbeSpans, SequencesExt

CONSTANTS
  Feeds,       \* where samples come from in this run: "process", "any"
  MaxProbes,   \* bound on the probes per function
  MaxNest,     \* bound on the calls a thread nests
  Recursive    \* threads that may make a call again inside itself

ASSUME ProcessAssumption ==
  MaxProbes \in Nat /\ MaxNest \in Nat /\ Recursive \subseteq Tids

VARIABLES
  feed,   \* where they come from
  calls,  \* the calls each thread is in, outermost first
  early,  \* how many of them were made before the recording began
  gil,    \* each thread's relation to the GIL
  seen,   \* threads whose last take_gil the recording covers
  due     \* each thread's probes that are about to fire

processVars == <<calls, early, gil, seen, due>>
allVars == <<probeVars, feed, processVars>>

Idle(t) == due[t] = <<>>

\* One or more probes of the same function.
Fire(t, sample) ==
  \E n \in 1 .. MaxProbes :
    due' = [due EXCEPT ![t] = [k \in 1 .. n |-> sample]]

Nestings(t) ==
  {s \in UNION {[1 .. n -> Ops] : n \in 0 .. MaxNest} :
     t \in Recursive \/ IsInjective(s)}

ProcessInit ==
  /\ Init
  /\ feed \in Feeds
  /\ calls \in {c \in [Tids -> UNION {Nestings(t) : t \in Tids}] :
                 \A t \in Tids : c[t] \in Nestings(t)}
  /\ early = [t \in Tids |-> Len(calls[t])]
  /\ gil \in [Tids -> {"none", "acquiring", "holding"}]
  /\ Cardinality({t \in Tids : gil[t] = "holding"}) <= 1
  /\ feed = "any" => \A t \in Tids : calls[t] = <<>> /\ gil[t] = "none"
  /\ seen = {}
  /\ due = [t \in Tids |-> <<>>]

Call(t, op) ==
  /\ Idle(t) /\ Append(calls[t], op) \in Nestings(t)
  /\ calls' = [calls EXCEPT ![t] = Append(@, op)]
  /\ Fire(t, [probe |-> "begin", op |-> op])
  /\ UNCHANGED <<probeVars, early, gil, seen>>

Return(t) ==
  /\ Idle(t) /\ calls[t] # <<>>
  /\ calls' = [calls EXCEPT ![t] = Front(@)]
  /\ early' = [early EXCEPT ![t] = IF @ < Len(calls[t]) THEN @ ELSE @ - 1]
  /\ Fire(t, [probe |-> "end", op |-> Last(calls[t])])
  /\ UNCHANGED <<probeVars, gil, seen>>

AskGil(t) ==
  /\ Idle(t) /\ gil[t] = "none"
  /\ gil' = [gil EXCEPT ![t] = "acquiring"]
  /\ seen' = seen \cup {t}
  /\ Fire(t, [probe |-> "take_gil"])
  /\ UNCHANGED <<probeVars, calls, early>>

GetGil(t) ==
  /\ Idle(t) /\ gil[t] = "acquiring"
  /\ \A u \in Tids : gil[u] \notin {"holding", "dropping"}
  /\ gil' = [gil EXCEPT ![t] = "holding"]
  /\ Fire(t, [probe |-> "take_gil_return"])
  /\ UNCHANGED <<probeVars, calls, early, seen>>

GiveUpGil(t) ==
  /\ Idle(t) /\ gil[t] = "holding"
  /\ gil' = [gil EXCEPT ![t] = "dropping"]
  /\ Fire(t, [probe |-> "drop_gil"])
  /\ UNCHANGED <<probeVars, calls, early, seen>>

ReleaseGil(t) ==
  /\ Idle(t) /\ gil[t] = "dropping"
  /\ gil' = [gil EXCEPT ![t] = "none"]
  /\ UNCHANGED <<probeVars, calls, early, seen, due>>

\* emit_perf_event's dispatch on a sample of thread t.
Handle(t, sample) ==
  CASE sample.probe = "begin"           -> GpuBegin(t, sample.op)
    [] sample.probe = "end"             -> GpuEnd(t, sample.op)
    [] sample.probe = "take_gil"        -> TakeGil(t)
    [] sample.probe = "take_gil_return" -> TakeGilReturn(t)
    [] sample.probe = "drop_gil"        -> DropGil(t)

Sampled(t) ==
  /\ ~Idle(t)
  /\ Handle(t, Head(due[t]))
  /\ due' = [due EXCEPT ![t] = Tail(@)]
  /\ UNCHANGED <<calls, early, gil, seen>>

Lost(t) ==
  /\ ~Idle(t)
  /\ due' = [due EXCEPT ![t] = Tail(@)]
  /\ UNCHANGED <<probeVars, calls, early, gil, seen>>

ProcessSample ==
  /\ feed = "process"
  /\ \E t \in Tids :
       \/ \E op \in Ops : Call(t, op)
       \/ Return(t)
       \/ AskGil(t) \/ GetGil(t) \/ GiveUpGil(t) \/ ReleaseGil(t)
       \/ Sampled(t)
  /\ UNCHANGED feed

AnySample ==
  /\ feed = "any"
  /\ Next
  /\ UNCHANGED <<feed, processVars>>

ProcessNext == ProcessSample \/ AnySample

ProcessSpec == ProcessInit /\ [][ProcessNext]_allVars

LoseSample ==
  /\ feed = "process"
  /\ \E t \in Tids : Lost(t)
  /\ UNCHANGED feed

LossySpec == ProcessInit /\ [][ProcessNext \/ LoseSample]_allVars

-----------------------------------------------------------------------------
\* As long as no call recurses, the GPU track shows the calls the thread is in,
\* nested as they are, as far as the recording saw them begin: duplicate probes
\* are absorbed, and the nameless ends close the slices they are meant for.
SlicesAreCalls ==
  feed = "process" => \A t \in GpuShown \ Recursive :
    Idle(t) => gpuTrack[t] = SubSeq(calls[t], early[t] + 1, Len(calls[t]))

\* Even where calls recurse, which gpu_open_ cannot represent, no slice stays
\* open after the last call of its name has returned.
NoSliceOutlivesCall ==
  feed = "process" => \A t \in GpuShown : Idle(t) => ToSet(gpuTrack[t]) \subseteq ToSet(calls[t])

\* The GIL track shows what the thread is doing, from its first take_gil on.
GilSliceIsState ==
  feed = "process" => \A t \in GilShown :
    Idle(t) =>
      gilTrack[t] = CASE t \in seen /\ gil[t] = "acquiring" -> <<"GIL acquire">>
                      [] t \in seen /\ gil[t] = "holding"   -> <<"GIL held">>
                      [] OTHER -> <<>>
=============================================================================
