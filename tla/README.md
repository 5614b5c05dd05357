# perf-viz-merge in TLA+

`perf-viz-merge` is a single-threaded command line program. It reads a Linux
`perf.data` recording and any number of Python function traces, and writes one
Perfetto trace (or one per chunk of time). Nothing in it runs concurrently;
what makes it hard is *order*: the samples in `perf.data` are almost sorted,
they come from threads that run in parallel, some are duplicated, some are
lost, two clocks have to be brought together, and state machines have to make
spans out of whatever arrives. This directory models those parts and checks them
with TLC; the central claims about the reading and decoding of `perf.data`, the
reorder buffer, the span state machines and the recordings they are fed with, the
merge, the identities of threads, the tracks and strings of a trace file and the
chunk files are proved with TLAPS for every value of the constants.

## The system

| part | source | state | operations | what makes it correct |
|---|---|---|---|---|
| perf.data reader | `perf_data_reader.*` | attributes with their ids and names, file cursor, COMM map | constructor, `begin_iteration`, `next_event`, `read_all_events` | every event is the one recorded, whatever record came before it; a bad record ends the file, not the program |
| event iterators | `streaming_sort.h` | heap, reader-at-end flag, prepared event, running metadata | constructor, `has_next`, `peek`, `advance` | events come out sorted, each exactly once |
| loading | `main.cpp:150-262, 395-418` | fork events, COMM map, first and last timestamp | in-memory or streaming load, `set_perf_source` | what is copied out of the reader is true of the whole file |
| scheduler spans | `merge_engine.cpp:368-531, 679-817` | `sched_state_`: per thread on/off cpu since when | one handler per sample kind, the final flush | spans of a thread tile its time: no overlap, right start, right reason |
| GIL and GPU slices | `merge_engine.cpp:533-677` | `gil_start_`, `gil_held_`, `gpu_open_` | one handler per probe | begins and ends match although ends carry no name |
| merge loops | `merge_engine.cpp:59-161, 834-1083`, `clock_aligner.h` | two iterators, time window, clock offset | two-pointer merge, pid/name/time filters | output in time order, each event emitted or filtered once |
| viz sources | `kway_viz_merge.h`, `ftrc_reader.*` | heap of sources | `initialize`, `advance` | one sorted stream out of many |
| chunking writer | `chunking_writer.h` | current chunk, cached names, samples, open stacks | the `OutputWriter` calls, `finalize` | each file is self-contained: names, context spans and counters |
| Perfetto writer | `perfetto_writer.*` | known tracks, deferred descriptors, interned strings | the `OutputWriter` calls, `finalize` | every event's track and strings are described before use |
| metrics | `metric_csv_reader.*`, `main.cpp:347-392, 507-517` | sample vector | parse, sort, hand to the writer | every number that was measured is shown once, under its name, at its time |

The reader feeds an iterator; the iterator and the k-way merge of viz sources
feed the merge engine; the engine's handlers call the writer, which is a
`PerfettoWriter` or a `ChunkingWriter` around one. All calls are synchronous.
`viz_json_reader.*` and `trace_writer.*` are not built by the Makefile, the
dump tools only print; neither is modelled.

## Modules

| module | models | checked by |
|---|---|---|
| `PerfEvents` | events and `PerfEventGreater` | all that follow up to `PerfLoad` |
| `SortedStream` | abstract specification of a `PerfEventIterator` | `reorder` (as a property), proofs |
| `ReorderBuffer` | `ReorderBufferIterator` | `reorder`, `load`, proofs |
| `PerfDataReader` | `PerfDataReader`: from attributes and records to events | `load`, `load_flush`, proofs |
| `PerfLoad` | `ReorderBuffer` over `PerfDataReader`, and main's two ways of loading | `load`, `load_flush`, proofs |
| `SchedTracker` | `sched_state_` and `flush_sched_state` | `sched`, proofs |
| `RecordedSched` | `SchedTracker` at the end of a recording of a kernel | `sched`, proofs |
| `ProbeSpans` | GIL and GPU handlers, and the tracks as a reader of the trace sees them | `probed_process`, `gil_lossy`, proofs |
| `ProbedProcess` | `ProbeSpans` fed by a process with duplicated (and lost) probes, or by anything | `probed_process`, `gil_lossy`, proofs |
| `KWayVizMerge` | the heap of `.ftrc` readers and its comparator | `merge`, `window_offset`, proofs |
| `TraceMerge` | `KWayVizMerge` plus `ClockAligner`, the time window and the two-pointer merge | `merge`, `window_offset`, proofs |
| `PerfettoWriter` | tracks, deferred descriptors, names, interning, counters | `tracks`, `thread_tgid`, proofs |
| `TraceTracks` | `PerfettoWriter` driven by the engine's identities: `tid_to_tgid_`, names, the pid and name filters, and the time filter where it takes out names | `tracks`, `thread_tgid`, proofs |
| `MetricCsv` | `MetricCsvReader` and the sort of its samples in main | `chunks`, `metrics_offset` |
| `ChunkingWriter` | `ChunkingWriter`, fed in the order of the merge engine | `chunks`, `metrics_offset`, proofs |
| `ChunkedOutput` | `ChunkingWriter` as main sets it up, with the metrics of `MetricCsv` | `chunks`, `metrics_offset`, proofs |
| `SortedStreamProofs`, `PerfLoadProofs` (with those of `ReorderBuffer`), `RecordedSchedProofs` (with those of `SchedTracker`), `PerfDataReaderProofs`, `ProbedProcessProofs` (with those of `ProbeSpans`), `TraceMergeProofs`, `TraceTracksProofs` (with those of `PerfettoWriter`), `ChunkedOutputProofs` | theorems | tlapm |
| `MC*` | values of the constants for TLC | |

### ReorderBuffer

An event is its timestamp and whether it is a `sched_switch`, a `fork` or
something else; the heap holds positions in the file, so that equal events stay
distinct and `std::priority_queue` may return any of several least elements.
`FillHeap` is one turn of the loop of `fill_heap`, `FirstPop` the end of the
constructor, `Advance` one `advance()` with all of `pop_next`: refill, then
pop. `meta` is what `track_metadata` collects. `output` is a history variable.
`SortedStream` is what a consumer may rely on; the refinement maps `pending` to
the heap and the unread rest of the file, and `done` to `!has_next()`.

### PerfDataReader

A file is what perf recorded: attributes, the way they are stored, and records
with the facts they stand for. A sample reaches the reader as memory, a length and
the values at their offsets, laid out by the kernel in the order of `AbiOrder`;
`DecodeSample` walks over it in the order of the code (`FieldOrder`) and gets the
facts only if it finds them. `Parsed` is the constructor, `FindAttr` and
`Classify` are `find_attr_index` and `classify_event`, `NextEvent` is
`next_event` with all the records it skips, `AllEvents` is `read_all_events`.
Every loop of the reader is a recursive function over its turns: the fields of
a sample (`DecodeSample`, as the kernel's in `Payload`) and the records that
`next_event` passes (`PassedBy`); the records it takes are a set of positions
(`Decodable`). A record may be cut short, undecodable or of an impossible size. Where the event
is decoded into matters: `next_event` fills the caller's `PerfEvent`, and
`fill_heap` has one for all its turns (`scratch` in `PerfLoad`).

Assumptions say what the files are. `FileAssumption` is what perf writes: samples are
of one of the attributes and carry one of its ids, every sample has a time and a
thread, and of several attributes the id says which, in a field that comes first or
that all have at the same place (`IsHeader`); a file that names its attributes names
them as `classify_event` knows them, or is about something else than those events.
`GpuAssumption`: no CUDA or NCCL call is named like a tracepoint. Two more limit the
files to those the code reads rightly. `LayoutAssumption`: the order of the fields in the
code agrees with the kernel's for every attribute. It does not in general: the
code takes RAW last and AUX before CGROUP, in the kernel RAW comes before
BRANCH_STACK and AUX last (the comment in `perf_data_reader.cpp:449-453` has
the kernel's order). `perf record` as `README.md` describes it asks for neither.
`FormatAssumption`: the guess by which `parse_attrs` tells attributes with id
sections from those without is right. A file of 19 attributes of 136 bytes
without sections would be misread. TLC evaluates all four for the files of the runs.

### PerfLoad

`ReorderBuffer` reads its events with `NextEvent`, and main copies what it has
learned about the file. In memory, everything is read and sorted before the
copies are taken. In the streaming way the copies are taken after the
constructor, that is after `Capacity + 1` events. `MemoryLoadExact` says that
in memory the order, the fork events and the last timestamp are those of the file,
`MemoryLoadWhole` that the thread names and the raw data of every event are;
`ReaderDelivers` that each event has the kind, time
and threads of its record, and that exactly the records before an impossible one
are read. The type invariant `LoadTypeOK`, which adds that
the buffer has taken as many events as the reader has returned, is proved and not part of a run.

### SchedTracker

One action per kind of sample; an action includes the writer calls of the
handler (`out`). The filters are constants: `Shown` are the threads that pass
the pid and name filters, `Known` those in `tid_to_tgid_`, `InRange` the times
that pass the time filter. `EchoGap` stands for the 10 microseconds below which
an apparent switch-in is taken for the echo of the switch-out; the subtraction
wraps at `TsMod` as a `uint64_t` does. `FlushThread` is one turn of the loop
over the `unordered_map`, in any order.

### RecordedSched

A kernel switches threads between CPUs and wakes them; perf samples that, all of it
(`"system"`) or what concerns the traced process (`"process"`): a switch if the
thread that leaves is traced, a wakeup if the waker may have been, evidence of
running if it is the thread's own. A context-switches event comes at the switch-in
or within `EchoGap` of the switch-out. `Deliver` hands one sample to the handlers
of `SchedTracker`; samples of one instant come in the order of
`PerfEventGreater`, switches last. In the mode `"any"` samples come in any order
of time and from nowhere. So `StateFollows` and `OnCpuExact` compare the trace
with what really happened, and the other properties are checked whatever
happened.

What they do not say is what the code does not do. In a per-process recording, a
preempted thread that resumes within `EchoGap` is shown off-cpu until its next
sample, since its switch-in is not sampled and its evidence taken for the echo;
off-cpu spans end at the wakeup rather than at the switch-in; and the final flush
shows a thread that was woken but never got a CPU as on-cpu, so `OnCpuExact` is
claimed of what is written before the flush.

### ProbeSpans and ProbedProcess

A Perfetto SLICE_END has no name: it closes the innermost slice of its track.
`gilTrack` and `gpuTrack` are the stacks that a reader of the trace sees, so the
properties relate the engine's maps to what is displayed. With the feed
`"process"`, `ProbedProcess` delivers the samples of a process: calls nest, one
thread holds the GIL at a time, a function has one or two probes at its entry and
at its return, and the recording starts at any moment. With the feed `"any"` it
delivers samples in any order at all, as `ProbeSpans!Next` does. Under
`LossySpec` samples may be lost as well.

### KWayVizMerge and TraceMerge

A reader is a position in a sorted file. `Roots` are the readers that
`std::priority_queue` may have at its root: the minimal ones, or, where the
comparator is no order because known and unknown depths tie, any of the earliest.
`TraceMerge` adds the perf stream as a sorted sequence (which is what
`SortedStream` promises) and follows main: `AlignClocks` sets or detects the
offset, `OpenViz` fills the heap, `PlaceWindow` is the last part of
`set_viz_metadata` (or, if there are perf events only, `compute_time_bounds`, which then
comes to the same), `EmitPerf` and `EmitViz` are one turn of the loop of
`merge_viz_events`, filters included. Aligned times, doubles in microseconds in
the code, are counted in nanoseconds (`NsPerUs` to the microsecond), so nothing
is rounded. `written` is a history variable.

### PerfettoWriter and TraceTracks

Each writer call is an operator from one state of the writer to the next, so that
handlers compose them as the code does; `writer.file` is the sequence of packets.
`TraceTracks` knows the real process of each thread and lets the engine find out:
FORK records carry both ids of a child, the `sched_process_fork` tracepoint only
one, viz events carry both, a `sched_switch` neither. `SchedEvent` and `GpuEvent`
take the process from `tgid_for`, `GilEvent` from the sample, `VizSpan` from the
viz event, as the handlers do. Samples of the metric files are written before the
merge (`ChunkingWriter`) or after it. Which events there are and when is left
open: any order is allowed, and an event outside the window of time, which changes
nothing, is one that does not come. The metadata records of the viz files do have times:
the merge loop puts them through the same three filters as events (pid, name and time), so
`VizMetadata` loses those outside the window, after `SetVizMetadata` has learnt all names for
`--filter-name` and, as main does from every viz event, the process of their threads
(`VizTids`). The window is part of the recording; `TraceMerge` says where it is placed. The
loops of `set_perf_source` and `write_metadata` run
before any event: `LearnForks` and `WriteAllMetadata` are functions from the number of
turns to what they have made of the map and of the writer, over the fork events and
over the calls in the order in which the unordered maps may bring them.
`ProcessAssumption` says that a process is called by its main thread,
`RecordingAssumption` that ids are those of threads, that there are finitely many, that
viz records name the real process of a thread and that times are integers.

### MetricCsv, ChunkingWriter and ChunkedOutput

`ReadAll` is `read_all`: rows and cells to samples, with cells that are missing or
no numbers, and the stable sort. `MetricSamples` is what main makes of both files:
concatenated and sorted by `std::sort`, so samples of equal time in any order.

Chunk files are kept by index with their names, counter samples, slices per
thread in file order and, for tracks with separate begins and ends, the number
of slices open. `WriteSpan` is `write_complete` and `write_viz_event` for 'X'
records; `WritePoint` is `write_begin`, `write_end` or `write_instant`. The
callers follow the merge engine: `now` only grows, viz spans are written when
they begin and nest within their thread, scheduler spans when they end.
`ChunkedOutput` is main: the writer is made and opens chunk 0, is given the
samples (`LoadMetrics`), and the trace is written through it.

Each chunk file is a `PerfettoWriter` of its own that starts from its initial
state, and `TraceTracks` lets the calls to one come in any order. What the run
`tracks` shows of a file is therefore true of each chunk file, and no further
composition of the two writers is modelled.

## Runs

| run | instance | shows |
|---|---|---|
| `reorder` | all files of up to 5 events, 3 timestamps, 2 kinds, capacity 2, disorder within the capacity | refinement of `SortedStream`, `OutputSorted`, `WindowFull`, and under weak fairness of `Next` that the stream is drained |
| `load` | all files of up to 3 records over 5 headers (like and unlike attributes, either format, an undecodable one), capacity 1, any disorder, both ways of loading | `ReaderDelivers`, `EmittedOnce`, `StartIsFirstEvent`, `MemoryLoadExact`, `MemoryLoadWhole` |
| `load_flush` | the streaming way | expected violation of `FlushAtLastEvent` |
| `sched` | 2 CPUs, 3 threads: one unfiltered and known, one that is not known (the idle task), one filtered out; 5 timestamps; all three modes | `NoOverlap`, `OffCpuFromSwitchOut`, `OpenSpanIsLast`, `FlushReachesEnd`, `StateFollows`, `OnCpuExact` |
| `probed_process` | 2 threads contending for the GIL, one of them with recursive GPU calls, nesting 3, up to 2 probes; or samples in any order, GIL stack at most 3 deep | `NoMisplacedEnd`, `GpuDepth`, `GilDepth`, `SlicesAreCalls`, `NoSliceOutlivesCall`, `GilSliceIsState` |
| `gil_lossy` | a process with samples lost | expected violation of `OneGilSlice` |
| `chunks` | 3 chunks of 2 time units, times from -1 to 6, 2 spans, 1 name, CSV files of up to 2 rows with every kind of defect | `ContextComplete`, `ContextNested`, `NamesCarried`, `MetricsFaithful` |
| `metrics_offset` | the metrics alone, with a clock offset | expected violation of `MetricsFaithful` |
| `merge` | 2 files of up to 2 viz events (6 kinds: nested, equal times, unknown depth, hidden, too short), up to 2 perf events, 9 command lines | `OutputInOrder`, `OuterFirst`, `WindowHonoured`, and under weak fairness of `Next` that the merge ends |
| `window_offset` | the same with a window and clock detection | expected violation of `WindowHonoured` |
| `tracks` | 2 processes, 3 threads, with and without forks, names and viz events, 4 filters, windows that leave out no, one or all names, up to 4 packets before the last call | `TracksDescribed`, `StringsInterned`, `FiledUnderProcess`, `NamesShown`, `PidFilterExact` |
| `thread_tgid` | the same with `sched_process_fork` recorded, no window | expected violation of `TgidIsProcess` |

The bounds are small but reach what matters. Five events and a heap of two
include files that are longer than the window, disorder of exactly the capacity,
ties between switches and other samples, and files shorter than the heap. Five
timestamps give a thread time to be switched out, echo, wake and be switched
out again; two CPUs let samples of one instant mix. (`sched` was also run with 3
shown threads, 7 timestamps and `EchoGap` 2, in the modes `"system"` and
`"process"`: 5.0 million states, no violation.) Three records are a record, what
it leaves behind in the shared event, and the record that could inherit it. Three
chunks let a span cross two boundaries and events skip a chunk.
Two files of two events each reach every case of the comparator and let each
source run out first. Four packets are two spans of different threads, or the
first events of two tracks and a counter: enough for every pair of kinds of
events to be the first and the second of a thread.

The pass run `merge` asks for a window only where the clock offset is 0 or there
is one source: with an offset `WindowHonoured` is false, which `window_offset`
shows. The pass run `tracks` records no `sched_process_fork` tracepoints for the
same reason, and its claims about processes are about threads that some record
has announced. `NamesShown` says which name each track has under every filter: the last
given inside the window, or else perf's, or else the number. It does not say that
a thread with a name is shown by it; that is `NamedInWindow`, false with `--time-start`
(as an invariant of `tracks` TLC finds it violated where all names come before the window).

`ContextComplete` says where a span belongs by the windows of the chunks (`Home`), not by
`chunk_for_ts`, so it also tests the clamping of times outside the trace. The test
`target < num_chunks_` in `maybe_advance_chunk` is in the model and never decides, since
`chunk_for_ts` has clamped already.

The pass run `chunks` has no clock offset: with one `MetricsFaithful` is false,
which `metrics_offset` shows. It writes spans only with the second CSV file alone
(`Busy`), as the samples of the first do not interact with spans.

Deadlock is not checked: every one of these machines ends. Fairness is assumed
in `reorder` and `merge` only: `WF_vars(Next)`, because the constructor's loop
and the consumer's loop run in one thread that never waits.

### Disagreements between code and documentation

* `load_flush`: in the streaming way `perf_max_ts` is copied before the file has
  been read, so `last_perf_ts_ns_` is not the "last perf timestamp"
  (`merge_engine.h:86`). For the same reason `fork_events` and `comm_map` are
  incomplete there; `ForksKnown` and `NamesCaptured` in `PerfLoad` state that and
  fail in the streaming way too. So does `OwnData`, since `fill_heap` decodes every
  record into one `PerfEvent`: an event with too little raw data keeps the thread
  that an earlier one named. `StartIsFirstEvent` holds in both.
* `metrics_offset`: chunked output compares the raw times of the CSV files with
  chunk windows in aligned time, single-file output aligns them
  (`main.cpp:383, 516`).
* `gil_lossy`: a `take_gil` in the held state is not skipped
  (`project-details.md:127`), so one lost `drop_gil` leaves a slice open for ever.
* `window_offset`: `set_viz_metadata` compares the aligned time of the first perf
  event with the raw minimum of the viz times (`merge_engine.cpp:969-973`), so
  with an offset the window does not start "from the beginning of the trace"
  (`main.cpp:45-48`). `compute_time_bounds`, its predecessor, aligns first.
* `thread_tgid`: the tracepoint's `child_pid` is a tid
  (`perf_data_reader.cpp:670-671`) and overwrites the tgid of the FORK record, so
  a thread started while perf records becomes a process of its own, and
  `--filter-pid` drops its scheduler and GPU events but not its GIL events.
* `NamedInWindow`, stated in `TraceTracks`, is known not to hold either: `--time-start` is
  about events (`main.cpp:45`), but the loops of
  `merge_viz_events` and `write_viz_only` filter the metadata records by time too
  (`merge_engine.cpp:1019, 1059`). Those stand at the beginning of a file, so a thread
  that only viz names appears as "Thread" with its number in any trace that starts
  later, although `set_viz_metadata` has read its name; one that perf names too keeps
  perf's. The tests ask for "proper names", "not fallbacks" (`test_synthetic_trace.py:338-340`).
* Three more properties are stated in `ChunkingWriter` and known not to hold:
  `OpenSlicesCarried` (slices with separate begin and end are not carried into
  the next chunk, although `chunking_writer.h:22-24` speaks of "the
  currently-open ancestor frames"), `CountersKept` (the samples of a skipped
  chunk are dropped) and `SlicesInWindow` (a scheduler span is written to the
  chunk it ends in).

## Proofs

`SortedStreamProofs`: `StreamCorrect`, the abstract iterator delivers in order
and exactly once.

`PerfDataReaderProofs`, for all files that the assumptions of `PerfDataReader` admit. The
reader gets at a sample only through memory, so the proof has to bring two walks over
it together: the kernel's in `AbiOrder` (`PayloadByTurns`) and the code's in `FieldOrder`
(`DecodeByTurns`), each a recursive function shown to exist and to unfold.
`FieldsInOrder` says that fields do not overlap, `FieldsHeld` and `LayoutIs` that each one is
still in memory when the last has been written, and `ReaderMeetsFields` that, as the two orders
agree on the fields there are, the code arrives at a field where the kernel put it.
Hence `DecodeExact`: a whole sample without fields of unknown size is decoded to its time,
thread and data, any other fails (`FieldLost`: a cut one at its last field).
`FindAttrExact` finds the attribute from the id, wherever it stands: of attributes with
different fields only if it comes first. `ClassifyIs` is about the order of the tests in
`classify_event`: the name of a return probe contains that of its entry probe, and the former
is looked for first. `RecordTaken` sums up what the loop makes of one record, whatever the
event it writes to held before. `NextEventIs` and `AllEventsAre` are the loops: both
return the records in `Good(file)`, those before an impossible one that are events, in
order (`Rank`, `Nth`); `AllNamesAre` says that the last name of a thread wins.

`PerfLoadProofs`, for every set of files, every capacity and every maximal
timestamp. First the reorder buffer alone: `TypeCorrect`, `WindowStaysFull` and
`NothingLost` need no assumption on the files; `Refinement` and `OutputIsSorted` assume `FilesFitHeap`, that no
event of a file is overtaken by more than `Capacity` earlier ones. The invariant
is `IInv`: types, `WindowFull` and the link between `exhausted`, `hasOutput` and
the heap. The step that matters is `NoLateEvent`: if the heap with the refill
holds `Capacity + 1` events and an unread event sorted before its least element,
that event would be overtaken by all `Capacity + 1` of them. This is why the
refill must come before the pop and why the window must never shrink.
`OutputIsSorted` and `NothingLost` then follow from the refinement and from a
direct induction.

Then the loading of a file, with no assumption on its disorder: `LoadStart`
(`StartIsFirstEvent`), `LoadEmitsOnce` and `MemoryLoad` (`MemoryLoadExact`). The
invariant `LInv` adds to the buffer's how far `main` has got (`Stages`), that
`min_ts_` is the least timestamp of the events read so far (`LeastRead`) and, in
memory, what `main` knows of the file (`MemoryKnown`). The start is right in the
streaming way because the first pop takes its event out of a heap that still holds
everything read (`heap = 1 .. read`, `FirstPopIsLeast`). In memory the heap holds
the whole file, so each pop is a step of the sorted stream (`MemoryPop`), and the
last event delivered is a latest one because nothing is pending any more and
everything before it is in order (`LastIsLatest`).

Last, what comes out of the reader: `ReaderIsExact` (`ReaderDelivers`), `MemoryLoadsAll`
(`MemoryLoadWhole`) and `LoadTypeCorrect` (`LoadTypeOK`). The invariant `ReadInv` says that the
cursor stands where as many events lie before it as the buffer has taken
(`read = Rank(Good(file), cursor - 1)`), that those have been returned as they were recorded
(`Returned`), that in memory none shows another's data (`NoThread`: each was decoded into a
new event), and that `main` then has the names. The count of the buffer and the cursor
of the reader meet in `NextEventIs`: the reader finds no event exactly
when the buffer has taken all of its input.

`RecordedSchedProofs`. First the tracker alone, for all threads, reasons and filters:
`TypeCorrect` and `ReasonsAreSwitchOuts` need no assumption on the order of samples;
`OpenSpanFollows` and `SpansDisjoint` assume `Backward = 0`, samples that never go
back in time. That is what the reorder buffer delivers of a file it can sort
(`Refinement`); the run too has `Backward = 0`. The invariant `Inv` is `TypeOK`
with `OffSince`: the state of an off-cpu thread is that of its latest switch-out.
One lemma per handler shows `Handled(ts)`: every span it writes is the open span
of its thread closed at `ts`, and a thread whose span it closes changes state at
`ts`. The theorems use `Handled` only. `OrderInv` adds `OpenSpanIsLast` and
`EndsPast`, that no span ends after the sample in hand: without `EndsPast` a new
open span could begin inside an older one.
`FlushIsComplete` assumes `LastIsKnown` as well, which the streaming way of loading
does not provide. Its invariant adds `FlushedToEnd`: a thread that the flush has
visited has a span up to the last sample, or changed state at it. That an open
span is never from the future (`OpenSpanIsLast`) makes the two cases exhaustive.

Then the recording, for all threads, CPUs, ways of recording and filters:
`RecordingIsTracked`, every recording is a behaviour of `SchedTracker`, which
carries the theorems above over to recordings; `StatesFollowKernel`; and
`OnCpuIsExact`. The invariant `RecordingInv` says which samples may be pending
(`PendingOK`: evidence with the thread running or just gone, a wakeup of a thread
that waits, or a switch that happened at this instant) and how the tracker's state
of a thread may lag behind the kernel's (`AsleepOK`, `AwakeOK`): only by a switch
that is due. The echo filter enters in one lemma, `EchoIgnored`: the gap is at
most `EchoGap` and the subtraction does not wrap.

`ProbedProcessProofs`. First the handlers alone, for all sets of threads and calls and
samples in any order:
`TypeCorrect`, `GpuTrackFollowsMap`, `GilTrackCoversMaps` and `EndsArePlaced`.
The invariant `Inv` is `TypeOK` with the finiteness of `gpu_open_`, `GpuDepth`,
`GilDepth` and `NoMisplacedEnd`. That no end is misplaced is not inductive by
itself: it needs that the depth of a track is at least the number of keys the
maps hold for the thread, so that a handler that finds its key also finds a slice
to close.

Then the recorded process, for all threads, calls and numbers of probes, in
`ProcessSpec`: `GilTrackShowsThread` (`GilSliceIsState`), `GpuTrackShowsCalls`
(`SlicesAreCalls`), `SlicesEndWithCalls` (`NoSliceOutlivesCall`) and, if a GIL slice
may be open at all (`MaxDepth >= 1`), `ProcessImplementsProbeSpans`. The invariant
`PInv` says by how much the tracks may lag behind the process: a sample that is
still due explains it, so the GIL track shows the thread's state before or after the
function was entered or left (`GilThread`), and the second probe of a pair finds the
handlers' condition already false. For the GPU (`GpuThread`) two maps number the
slices of a track: `q` gives the call that opened the name in `gpu_open_`, `p` a call
of that name that is no later, since a recursive call of the same function is
absorbed. `q` increases along the track, and that is what makes the end of a call close
its own slice. `LossySpec`, where samples are lost, is not covered: there the claim is false
(`gil_lossy`).

`TraceMergeProofs`, for every set of files, recording and command line:
`MergeTypeCorrect`, `MergeWritesInOrder` (`OutputInOrder`), `MergeOutermostFirst`
(`OuterFirst`) and `WindowHonouredOnOneClock`. The invariant `IInv` says that the heap
holds exactly the readers that have an event left and that the current one is among
the earliest (`HeapHolds`), and that nothing still to come belongs before something
written (`NothingLate`): the two sources are sorted and alignment keeps their order.
That the outermost span comes first needs `FilesNested`, as the property does, for
with unknown depths the comparator is no order. For the window, `WrittenSoFar` says
that the output holds exactly the recorded events taken so far that pass the filters,
each once, and `WindowPlaced` that the limits are those the user asked for.
`OneClock` is the exact condition under which `set_viz_metadata` places them rightly:
no viz files, offset 0 or no window; `window_offset` shows the rest to be wrong, and
the run `merge` is an instance of `OneClock`. The assumptions added for these proofs
are that the recordings are sorted, that the readers' names differ from `"perf"` and
that no recording reaches the largest double (`NeverAssumption`).

`TraceTracksProofs`, for all threads, recordings, metrics and filters and every order of
events: `TypeCorrect`, `TracksAreDescribed`, `StringsAreInterned` and `NamesAreShown`
assume nothing else (`NamesAreShown` is about the names that pass all filters; no theorem
says that a window keeps them, and it does not); `FiledUnderRealProcess` and `PidFilterIsExact` assume that no
recording has `sched_process_fork`, without which they are false (`thread_tgid`).
`Good(w, K)` is the invariant of the writer by its parts: each track that is known is
deferred or described, below a parent that is known (`Hierarchy`); the file describes what
was not deferred, each once (`Described`); the iids are 1 to the number of names and each
was defined before it was used (`Interned`); and the first event alone has cleared the
state (`ClearedOnce`). `K` are the threads of which `tgid_for` gives the real process
(`Known`, all known threads if there are no tracepoints: `AllKnown`); their groups are
below it. One lemma for each call of the writer (`WriteTrackEventKeeps`,
`WriteMetadataKeeps`, `WriteCounterKeeps` and so on) shows that it keeps `Good`, so the steps of
`Next` need only the argument they call it with. `Finalize` is the one place where the
deferred tracks become packets (`FinalizeFlushes`): they are finitely many, and a sequence of
them has each once. `TInv` adds what the engine keeps: its maps name threads, every
announced name is the name of its group (`PhaseKept`), and what was filtered out or
written agrees with the filter (`FilterKept`, `FileKept`). Both loops are recursive
functions: `NamesByTurns` and `ForksByTurns` show that such a function exists and
unfolds, and `Counting`, induction over turns stated for a set of numbers, follows from
the order of the naturals being well-founded.

`ChunkedOutputProofs`, for any number of threads, spans and chunks: `ChunkTypeCorrect`,
`ChunksComplete` (`ContextComplete`), `ChunksNested` (`ContextNested`) and
`ChunksKnowNames` (`NamesCarried`). The invariant `CInv` ties each file and each stack
to the spans written. A span is dropped from the stack of its thread only at a time in
the current chunk or before (`ExpireKeeps`), so no span is missing from it that reaches
beyond the current chunk (`NoneMissing`), and the file opened next shows each span that
reaches into it, clamped to its chunk (`ContextShows`), whichever chunk that is
(`Shows`). That `chunk_for_ts` finds the chunk whose window holds a time is
`ChunkForIsHome`. Nesting follows from the order in which slices are written (`Numbered`) and
from their lying within their spans (`Within`). The claims are about viz spans, which
are written when they begin; `ChunkAssumption` keeps their threads apart from those of
scheduler spans, as `SCHED_TID_OFFSET` does.

`ChunksHaveMetrics` (`MetricsFaithful`) follows the numbers of the CSV files through reading,
sorting and chunking, for files of any length and with any defects. Its hypothesis is
`Offset = 0`, without which it is false (run `metrics_offset`); `CsvAssumption` asks no more
of a file than that it is a header and rows of cells with integral times. Everything is said
with one notion: `Listed(s, D, V)`, the sequence `s` has the value of every cell in `D` once
and no other. A row lists its numbers (`RowListed`), the turns of `read_all` join them
(`ReadByTurns`, `ListedJoined`), `std::stable_sort` and main's `std::sort` permute them
(`StableSortPermutes`, `SortPermutes`, `ListedPermuted`), and the loop of `open_chunk`, which
stops at the first late sample, selects a chunk's own because they are in order
(`CountersListed`). `MetricsInv` says that every file that exists has what this loop finds for
it: chunk 0 from `set_metric_samples`, any other from `open_chunk`, and nothing that is
written later changes it (`ShownByWrite`). `ListedCounts` turns "listed" into the
numbers that `MetricsFaithful` counts.

What TLAPS cannot do here stays with TLC: `Drained` and `MergeEnds` (liveness under
fairness). Every safety property of a passing run is proved.

## Not modelled

* The command line and the names of the output files: options are constants, or
  chosen in `Init` where they matter.
* The bytes: protobuf encoding, file I/O, `libftrc` (not in the repository), which
  texts `strtod` takes for numbers.
* Errors that the constructors throw: they end the program before anything is
  written.
* The name of a process, which is that of whichever of its threads comes first in
  an `unordered_map`, and GIL or GPU slices that are open at the end: the writer
  leaves them open and nothing in the code says otherwise.
* `viz_json_reader.*` and `trace_writer.*` (not built), the dump tools, scripts and
  tests.
