--------------------------- MODULE PerfettoWriter ---------------------------
(***************************************************************************)
(* PerfettoWriter: what it knows while it writes one trace file.           *)
(*                                                                         *)
(* All tracks are global.  A process track holds the groups of its         *)
(* threads, a group holds the lanes of a thread (sched, gil, stacks, gpu), *)
(* and the counters hang below process 0.  The uuids are injective in the  *)
(* kind of the track and the id, for real pids and tids; a track is named  *)
(* by that pair.  Lanes and counters are described when they are first     *)
(* used; processes and groups are deferred until the file is finalized,    *)
(* because their names may arrive late.                                    *)
(*                                                                         *)
(* Each call is an operator from the state of the writer to its next       *)
(* state.  Timestamps and values are payload; categories are interned as   *)
(* names are and stay out.                                                 *)
(***************************************************************************)
EXTENDS Integers, Sequences, SequencesExt

VARIABLE writer

\* The synthetic tid ranges and, for real tids, "stacks".
Lanes == {"sched", "gil", "stacks", "gpu"}

Root == <<"root", 0>>
Process(pid) == <<"process", pid>>
Group(tid) == <<"group", tid>>
Lane(lane, tid) == <<lane, tid>>
CounterTrack(metric) == <<"counter", metric>>

\* fallback_name, or the fixed name of a lane: "Process 1", "Thread 2", "GIL [2]".
FallbackName(track) == track

\* A freshly opened file.
NewWriter ==
  [defined  |-> {},      \* defined_tracks_
   deferred |-> <<>>,    \* deferred_tracks_: a function from tracks to parents
   names    |-> <<>>,    \* metadata_names_: a function from tracks to names
   iids     |-> <<>>,    \* event_name_iids_: a function from names to iids
   cleared  |-> FALSE,   \* state_cleared_
   counters |-> {},      \* counter_tracks_
   file     |-> <<>>]    \* the packets

\* f[x] = y, for a std::unordered_map.
Set(f, x, y) == [z \in DOMAIN f \cup {x} |-> IF z = x THEN y ELSE f[z]]

Descriptor(track, parent, name) ==
  [packet |-> "descriptor", track |-> track, parent |-> parent, name |-> name]

\* iid is 0 if the packet carries no name; interned holds the pairs of iid and
\* name that it defines; cleared is its SEQ_INCREMENTAL_STATE_CLEARED flag.
Event(type, track, iid, interned, cleared) ==
  [packet |-> "event", type |-> type, track |-> track, iid |-> iid,
   interned |-> interned, cleared |-> cleared]

Defer(w, track, parent) ==
  [w EXCEPT !.defined = @ \cup {track}, !.deferred = Set(@, track, parent)]

EnsureProcess(w, pid) ==
  IF Process(pid) \in w.defined THEN w ELSE Defer(w, Process(pid), Root)

\* A plausible mistake in the definition that follows: the process is taken to exist.
EnsureGroupOnly(w, pid, tid) ==
  IF Group(tid) \in w.defined THEN w ELSE Defer(w, Group(tid), Process(pid))

\* ensure_thread_group: the pid of the first call decides.
EnsureGroup(w, pid, tid) ==
  IF Group(tid) \in w.defined THEN w
  ELSE Defer(EnsureProcess(w, pid), Group(tid), Process(pid))

\* ensure_track
EnsureTrack(w, pid, lane, tid) ==
  LET track == Lane(lane, tid)
      under == EnsureGroup(w, pid, tid)
  IN  IF track \in w.defined THEN w
      ELSE [under EXCEPT
              !.defined = @ \cup {track},
              !.file = Append(@, Descriptor(track, Group(tid), FallbackName(track)))]

\* A plausible mistake in the definition that follows: the first name is kept.
NamedOnce(w, track, name) ==
  IF track \in DOMAIN w.names THEN w ELSE [w EXCEPT !.names = Set(@, track, name)]

Named(w, track, name) == [w EXCEPT !.names = Set(@, track, name)]

\* write_metadata.  The lane says in which range the tid lies; other keys
\* (thread_sort_index) are ignored.
WriteMetadata(w, key, pid, lane, tid, name) ==
  CASE key = "process_name" ->
         Named(EnsureProcess(w, pid), Process(pid), <<name, pid>>)
    [] key = "thread_name" /\ lane = "stacks" ->
         Named(EnsureGroup(w, pid, tid), Group(tid), <<name, tid>>)
    [] key = "thread_name" /\ lane # "stacks" -> EnsureProcess(w, pid)
    [] OTHER -> w

MetadataCall(key, pid, lane, tid, name) ==
  [key |-> key, pid |-> pid, lane |-> lane, tid |-> tid, name |-> name]

\* A loop of such calls.
WriteAllMetadata(w, calls) ==
  LET after[i \in 0 .. Len(calls)] ==
        IF i = 0 THEN w
        ELSE WriteMetadata(after[i - 1], calls[i].key, calls[i].pid, calls[i].lane,
                           calls[i].tid, calls[i].name)
  IN  after[Len(calls)]

\* intern_event_name
Intern(iids, name) ==
  IF name \in DOMAIN iids THEN iids ELSE Set(iids, name, Cardinality(DOMAIN iids) + 1)

\* A plausible mistake in the definition that follows: a counter sends the flag and
\* does not note that it has been sent.
EmitForgetsCounter(w, type, track, iid, interned) ==
  [w EXCEPT !.cleared = @ \/ type # "counter",
            !.file = Append(@, Event(type, track, iid, interned, ~w.cleared))]

\* An event packet: the first one clears the incremental state.
Emit(w, type, track, iid, interned) ==
  [w EXCEPT !.cleared = TRUE,
            !.file = Append(@, Event(type, track, iid, interned, ~w.cleared))]

\* write_track_event.  A name is interned even if the packet, being an end,
\* does not carry it.
WriteTrackEvent(w, type, name, pid, lane, tid) ==
  LET v     == EnsureTrack(w, pid, lane, tid)
      iids  == Intern(v.iids, name)
      fresh == {<<iids[n], n>> : n \in DOMAIN iids \ DOMAIN v.iids}
  IN  Emit([v EXCEPT !.iids = iids], type, Lane(lane, tid),
           IF type = "end" THEN 0 ELSE iids[name], fresh)

\* write_complete
WriteComplete(w, name, pid, lane, tid) ==
  WriteTrackEvent(WriteTrackEvent(w, "begin", name, pid, lane, tid),
                  "end", name, pid, lane, tid)

\* A plausible mistake in the definition that follows: the process of the counter is
\* taken to exist.
DefineCounterOnly(w, metric, pid) ==
  IF metric \in w.counters THEN w
  ELSE [w EXCEPT
          !.counters = @ \cup {metric},
          !.file = Append(@, Descriptor(CounterTrack(metric), Process(pid), metric))]

\* The first sample of a metric describes its track.
DefineCounter(w, metric, pid) ==
  IF metric \in w.counters THEN w
  ELSE [EnsureProcess(w, pid) EXCEPT
          !.counters = @ \cup {metric},
          !.file = Append(@, Descriptor(CounterTrack(metric), Process(pid), metric))]

\* write_counter
WriteCounter(w, metric, pid) ==
  Emit(DefineCounter(w, metric, pid), "counter", CounterTrack(metric), 0, {})

\* finalize and flush_deferred_tracks: the order of the map is of no importance.
Finalize(w) ==
  LET name(track) == IF track \in DOMAIN w.names THEN w.names[track] ELSE FallbackName(track)
      described(track) == Descriptor(track, w.deferred[track], name(track))
      flushed == SetToSeq({described(track) : track \in DOMAIN w.deferred})
  IN  [w EXCEPT !.file = @ \o flushed, !.deferred = <<>>, !.names = <<>>]

-----------------------------------------------------------------------------
WriterTypeOK(pids, tids, metrics) ==
  LET tracks == {Process(p) : p \in pids} \cup {Group(t) : t \in tids} \cup
                {Lane(l, t) : l \in Lanes, t \in tids}
  IN  /\ writer.defined \subseteq tracks
      /\ DOMAIN writer.deferred \subseteq writer.defined
      /\ \A x \in DOMAIN writer.deferred :
           writer.deferred[x] \in (DOMAIN writer.deferred) \cup {Root}
      /\ DOMAIN writer.names \subseteq DOMAIN writer.deferred
      /\ writer.counters \subseteq metrics
      /\ writer.cleared \in BOOLEAN

Packets(kind) == {i \in 1 .. Len(writer.file) : writer.file[i].packet = kind}
Events == Packets("event")
DescriptorsOf(track) == {i \in Packets("descriptor") : writer.file[i].track = track}

\* What refers to an interned string must come after its definition, the
\* definition must be the only one, and no later packet may clear the state
\* that holds it: the flag is on the first event of the file and on no other.
StringsInterned ==
  \A i \in Events :
    LET e == writer.file[i]
        definitions == {j \in Events : \E d \in writer.file[j].interned : d[1] = e.iid}
    IN  /\ e.iid # 0 => \E j \in definitions : definitions = {j} /\ j <= i
        /\ e.cleared <=> \A j \in Events : i <= j
=============================================================================
