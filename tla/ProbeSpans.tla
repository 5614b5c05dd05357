----------------------------- MODULE ProbeSpans -----------------------------
(***************************************************************************)
(* The two begin/end state machines of MergeEngine::emit_perf_event        *)
(* (merge_engine.cpp:533-677): gil_start_ and gil_held_ follow a thread    *)
(* through take_gil, its return and drop_gil; gpu_open_ follows the CUDA   *)
(* and NCCL calls it is in.  Both turn uprobe samples into nameless pairs: *)
(* write_end closes whatever slice is innermost on the thread's track,     *)
(* whatever name the engine had in mind (write_track_event leaves the name *)
(* out of SLICE_END).  gilTrack and gpuTrack are the slices a reader of    *)
(* the trace sees open.                                                    *)
(*                                                                         *)
(* perf installs some probes twice and may lose samples, so any handler    *)
(* may run at any time: Next calls them in every order.                    *)
(***************************************************************************)
EXTENDS Integers, Sequences, FiniteSets

CONSTANTS
  Tids,      \* thread ids
  Ops,       \* the CUDA and NCCL calls, by their slice names
  GilShown,  \* threads whose GIL samples pass the filters (by event.pid)
  GpuShown,  \* threads whose GPU samples pass the filters (by tgid_for)
  MaxDepth   \* bound on the slices open on a GIL track

ASSUME ProbeAssumption ==
  GilShown \subseteq Tids /\ GpuShown \subseteq Tids /\ MaxDepth \in Nat

VARIABLES
  gilStart,  \* the keys of gil_start_
  gilHeld,   \* the keys of gil_held_
  gpuOpen,   \* gpu_open_
  gilTrack,  \* the slices open on each thread's GIL track, outermost first
  gpuTrack,  \* the same for its GPU track
  misplaced  \* an end has been written to a track with no slice open

\* The slices a GIL track shows.
GilNames == {"GIL acquire", "GIL held"}

gilVars == <<gilStart, gilHeld, gilTrack>>
gpuVars == <<gpuOpen, gpuTrack>>
probeVars == <<gilVars, gpuVars, misplaced>>

\* write_begin and write_end, as the trace is read.
Begun(track, t, name) == [track EXCEPT ![t] = Append(@, name)]
Ended(track, t) ==
  [track EXCEPT ![t] = IF @ = <<>> THEN @ ELSE SubSeq(@, 1, Len(@) - 1)]

Init ==
  /\ gilStart = {} /\ gilHeld = {}
  /\ gpuOpen = [t \in Tids |-> {}]
  /\ gilTrack = [t \in Tids |-> <<>>]
  /\ gpuTrack = [t \in Tids |-> <<>>]
  /\ misplaced = FALSE

\* A filtered sample, and one that the maps call a duplicate, change nothing.
Skip(skipped) == skipped /\ UNCHANGED probeVars

\* A plausible mistake in the definition that follows: filtered threads are tracked too.
TakeGilUnfiltered(t) ==
  \/ Skip(t \in gilStart)
  \/ /\ t \notin gilStart
     /\ gilStart' = gilStart \cup {t}
     /\ gilTrack' = Begun(gilTrack, t, "GIL acquire")
     /\ UNCHANGED <<gilHeld, gpuVars, misplaced>>

\* A plausible mistake in the definition that follows: duplicates are not recognised.
TakeGilTwice(t) ==
  \/ Skip(t \notin GilShown)
  \/ /\ t \in GilShown
     /\ gilStart' = gilStart \cup {t}
     /\ gilTrack' = Begun(gilTrack, t, "GIL acquire")
     /\ UNCHANGED <<gilHeld, gpuVars, misplaced>>

\* case TakeGil
TakeGil(t) ==
  LET duplicate == t \notin GilShown \/ t \in gilStart IN
  \/ Skip(duplicate)
  \/ /\ ~duplicate
     /\ gilStart' = gilStart \cup {t}
     /\ gilTrack' = Begun(gilTrack, t, "GIL acquire")
     /\ UNCHANGED <<gilHeld, gpuVars, misplaced>>

\* A plausible mistake in the definition that follows: the held slice is not begun.
TakeGilReturnEndsOnly(t) ==
  LET duplicate == t \notin GilShown \/ t \notin gilStart IN
  \/ Skip(duplicate)
  \/ /\ ~duplicate
     /\ gilStart' = gilStart \ {t}
     /\ gilHeld' = gilHeld \cup {t}
     /\ gilTrack' = Ended(gilTrack, t)
     /\ misplaced' = (misplaced \/ gilTrack[t] = <<>>)
     /\ UNCHANGED gpuVars

\* case TakeGilReturn
TakeGilReturn(t) ==
  LET duplicate == t \notin GilShown \/ t \notin gilStart IN
  \/ Skip(duplicate)
  \/ /\ ~duplicate
     /\ gilStart' = gilStart \ {t}
     /\ gilHeld' = gilHeld \cup {t}
     /\ gilTrack' = Begun(Ended(gilTrack, t), t, "GIL held")
     /\ misplaced' = (misplaced \/ gilTrack[t] = <<>>)
     /\ UNCHANGED gpuVars

\* case DropGil
DropGil(t) ==
  LET duplicate == t \notin GilShown \/ t \notin gilHeld IN
  \/ Skip(duplicate)
  \/ /\ ~duplicate
     /\ gilHeld' = gilHeld \ {t}
     /\ gilTrack' = Ended(gilTrack, t)
     /\ misplaced' = (misplaced \/ gilTrack[t] = <<>>)
     /\ UNCHANGED <<gilStart, gpuVars>>

\* A plausible mistake in the definition that follows: duplicates are not recognised.
GpuBeginTwice(t, op) ==
  \/ Skip(t \notin GpuShown)
  \/ /\ t \in GpuShown
     /\ gpuOpen' = [gpuOpen EXCEPT ![t] = @ \cup {op}]
     /\ gpuTrack' = Begun(gpuTrack, t, op)
     /\ UNCHANGED <<gilVars, misplaced>>

\* cases NvidiaLaunch .. NcclReduceScatter
GpuBegin(t, op) ==
  LET duplicate == t \notin GpuShown \/ op \in gpuOpen[t] IN
  \/ Skip(duplicate)
  \/ /\ ~duplicate
     /\ gpuOpen' = [gpuOpen EXCEPT ![t] = @ \cup {op}]
     /\ gpuTrack' = Begun(gpuTrack, t, op)
     /\ UNCHANGED <<gilVars, misplaced>>

\* A plausible mistake in the definition that follows: an end is written for a call that
\* is not open.
GpuEndUnchecked(t, op) ==
  \/ Skip(t \notin GpuShown)
  \/ /\ t \in GpuShown
     /\ gpuOpen' = [gpuOpen EXCEPT ![t] = @ \ {op}]
     /\ gpuTrack' = Ended(gpuTrack, t)
     /\ misplaced' = (misplaced \/ gpuTrack[t] = <<>>)
     /\ UNCHANGED gilVars

\* A plausible mistake in the definition that follows: the call stays in gpu_open_.
GpuEndNoErase(t, op) ==
  LET duplicate == t \notin GpuShown \/ op \notin gpuOpen[t] IN
  \/ Skip(duplicate)
  \/ /\ ~duplicate
     /\ gpuTrack' = Ended(gpuTrack, t)
     /\ misplaced' = (misplaced \/ gpuTrack[t] = <<>>)
     /\ UNCHANGED <<gilVars, gpuOpen>>

\* A plausible mistake in the definition that follows: the end is not written.
GpuEndNotWritten(t, op) ==
  LET duplicate == t \notin GpuShown \/ op \notin gpuOpen[t] IN
  \/ Skip(duplicate)
  \/ /\ ~duplicate
     /\ gpuOpen' = [gpuOpen EXCEPT ![t] = @ \ {op}]
     /\ UNCHANGED <<gilVars, gpuTrack, misplaced>>

\* cases NvidiaLaunchReturn .. NcclReduceScatterReturn
GpuEnd(t, op) ==
  LET duplicate == t \notin GpuShown \/ op \notin gpuOpen[t] IN
  \/ Skip(duplicate)
  \/ /\ ~duplicate
     /\ gpuOpen' = [gpuOpen EXCEPT ![t] = @ \ {op}]
     /\ gpuTrack' = Ended(gpuTrack, t)
     /\ misplaced' = (misplaced \/ gpuTrack[t] = <<>>)
     /\ UNCHANGED gilVars

Next ==
  \E t \in Tids :
    \/ Len(gilTrack[t]) < MaxDepth /\ TakeGil(t)
    \/ TakeGilReturn(t)
    \/ DropGil(t)
    \/ \E op \in Ops : GpuBegin(t, op) \/ GpuEnd(t, op)

Spec == Init /\ [][Next]_probeVars

-----------------------------------------------------------------------------
TypeOK ==
  /\ gilStart \subseteq GilShown /\ gilHeld \subseteq GilShown
  /\ gpuOpen \in [Tids -> SUBSET Ops]
  /\ gilTrack \in [Tids -> Seq(GilNames)]
  /\ gpuTrack \in [Tids -> Seq(Ops)]
  /\ misplaced \in BOOLEAN

\* Whatever is sampled, in whatever order, duplicated or lost: no end is
\* written to a track on which nothing is open (trace_processor counts those
\* as misplaced_end_event, which test_synthetic_trace.py wants to be 0).
NoMisplacedEnd == ~misplaced

\* As many slices are open on a GPU track as calls gpu_open_ knows of: none
\* is left over for ever, none is closed twice, even where calls overlap.
GpuDepth == \A t \in Tids : Len(gpuTrack[t]) = Cardinality(gpuOpen[t])

\* A thread that is in neither GIL map when its next take_gil comes may still
\* have slices open, but never fewer than the maps say.
GilDepth ==
  \A t \in Tids :
    Len(gilTrack[t]) >= Cardinality({t} \cap gilStart) + Cardinality({t} \cap gilHeld)

\* "All handlers are idempotent to prevent duplicate spans" and "skip if
\* already in acquire/held state" (project-details.md:331, 127): at most one
\* GIL slice is open on a thread's track, it acquires the GIL or holds it.
OneGilSlice == \A t \in Tids : Len(gilTrack[t]) <= 1
=============================================================================
