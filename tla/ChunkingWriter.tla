--------------------------- MODULE ChunkingWriter ---------------------------
(***************************************************************************)
(* ChunkingWriter of chunking_writer.h: the OutputWriter that spreads one  *)
(* pass over the trace across NumChunks files of Duration each.  A call    *)
(* whose timestamp lies in a later chunk closes the current file and opens *)
(* that chunk's, skipping the chunks between; a new file gets the names    *)
(* seen so far, the counter samples of its window and a slice for every    *)
(* span that is still open ("context").                                    *)
(*                                                                         *)
(* Time counts from global_min_us.  The calls come from one MergeEngine,   *)
(* which works through the trace in order of time: `now` is how far it has *)
(* come.  Viz spans are written when they begin and nest within their      *)
(* thread; scheduler spans are written when they end.                      *)
(***************************************************************************)
EXTENDS MetricCsv

CONSTANTS
  VizTids,    \* threads of the viz trace
  SchedTids,  \* the "[sched]" tracks, whose ids are no threads'
  PairTids,   \* tracks that get separate begins and ends (GIL and GPU)
  Names,      \* metadata records
  Duration,   \* chunk_duration_us_
  NumChunks,  \* num_chunks_
  Times,      \* bound: the times at which something happens
  MaxSpans    \* bound on the spans written

ASSUME ChunkAssumption ==
  /\ Duration \in Nat \ {0} /\ NumChunks \in Nat \ {0}
  /\ Times \subseteq Int
  /\ MaxSpans \in Nat
  /\ VizTids \cap SchedTids = {}

Tids == VizTids \cup SchedTids

VARIABLES
  current,  \* current_chunk_
  writing,  \* writer_ is set
  cached,   \* cached_metadata_
  samples,  \* metric_samples_
  stacks,   \* open_stacks_
  files,    \* the files created, by chunk
  now,      \* how far the engine has come
  spans,    \* history: the spans written
  begun     \* history: slices begun and not ended, by track

engine == <<now, spans, begun>>
vars == <<current, writing, cached, samples, stacks, files, engine>>

Start(c) == c * Duration
End(c) == (c + 1) * Duration

\* A plausible mistake in the definition that follows: late times are not clamped.
ChunkForUnclamped(ts) == IF ts < 0 THEN 0 ELSE ts \div Duration

\* chunk_for_ts
ChunkFor(ts) ==
  IF ts < 0 THEN 0
  ELSE IF ts \div Duration >= NumChunks THEN NumChunks - 1 ELSE ts \div Duration

\* expire_spans
Expire(stack, ts) == Subsequence(stack, {k \in DOMAIN stack : stack[k].to > ts})

\* The loop over metric_samples_ for chunk c: it stops at the first sample
\* past the chunk, so it relies on their order.
CountersOf(ms, c) ==
  LET past == {k \in DOMAIN ms : ms[k].ts >= End(c)}
  IN  Subsequence(ms, {k \in DOMAIN ms : ms[k].ts >= Start(c) /\ \A j \in past : k < j})

\* A context slice: the span from the start of chunk c, cut off at its end
\* unless the chunk is the last.
ContextSlice(s, c) ==
  [span |-> s.span, from |-> Start(c),
   to |-> IF c < NumChunks - 1 /\ s.to > End(c) THEN End(c) ELSE s.to]

\* A plausible mistake in the definition that follows: deepest first.
ContextDeepestFirst(stack, c) ==
  LET open == Expire(stack, Start(c))
  IN  [k \in 1 .. Len(open) |-> ContextSlice(open[Len(open) + 1 - k], c)]

\* The context of one thread for chunk c, shallowest first.
Context(stack, c) ==
  LET open == Expire(stack, Start(c))
  IN  [k \in 1 .. Len(open) |-> ContextSlice(open[k], c)]

\* open_chunk(c), c > 0: the file it leaves behind.
NewFile(c) ==
  [names    |-> cached,
   counters |-> CountersOf(samples, c),
   slices   |-> [t \in Tids |-> Context(stacks[t], c)],
   depth    |-> [t \in PairTids |-> 0]]

\* A plausible mistake in the definition that follows: a span that began in an earlier
\* chunk opens that chunk again.
AdvancesEitherWay(ts) == ChunkFor(ts) # current /\ ChunkFor(ts) < NumChunks

\* maybe_advance_chunk(ts): what it makes of the current chunk, the files and
\* the stacks.
Advances(ts) == ChunkFor(ts) > current /\ ChunkFor(ts) < NumChunks
ChunkAt(ts) == IF Advances(ts) THEN ChunkFor(ts) ELSE current
FilesAt(ts) ==
  [c \in DOMAIN files \cup {ChunkAt(ts)} |->
     IF Advances(ts) /\ c = ChunkAt(ts) THEN NewFile(c) ELSE files[c]]
\* A plausible mistake in the definition that follows: the stacks do not survive a boundary.
StacksAtCleared(ts) == IF Advances(ts) THEN [t \in Tids |-> <<>>] ELSE stacks

StacksAt(ts) ==
  IF Advances(ts) THEN [t \in Tids |-> Expire(stacks[t], Start(ChunkFor(ts)))]
                  ELSE stacks

Init ==
  /\ current = 0
  /\ writing = TRUE
  /\ cached = {} /\ samples = <<>>
  /\ stacks = [t \in Tids |-> <<>>]
  /\ files = [c \in {0} |-> [names |-> {}, counters |-> <<>>,
                             slices |-> [t \in Tids |-> <<>>],
                             depth |-> [t \in PairTids |-> 0]]]
  /\ now \in Times
  /\ spans = <<>>
  /\ begun = [t \in PairTids |-> 0]

\* set_metric_samples(ms): chunk 0 is open already and gets its samples now.
SetMetricSamples(ms) ==
  /\ samples' = ms
  /\ files' = [files EXCEPT ![current].counters = @ \o CountersOf(ms, current)]
  /\ UNCHANGED <<current, writing, cached, stacks, engine>>

\* A plausible mistake in the definition that follows: the record is not cached.
WriteMetadataUncached(m) ==
  /\ writing
  /\ files' = [files EXCEPT ![current].names = @ \cup {m}]
  /\ UNCHANGED <<current, writing, cached, samples, stacks, engine>>

\* write_metadata, also reached from write_viz_event for 'M' records.
WriteMetadata(m) ==
  /\ writing
  /\ cached' = cached \cup {m}
  /\ files' = [files EXCEPT ![current].names = @ \cup {m}]
  /\ UNCHANGED <<current, writing, samples, stacks, engine>>

\* write_complete, and write_viz_event for an 'X' record: only the latter may
\* come with an empty duration, which it does not push.
WriteSpan(t, from, to) ==
  LET s == [span |-> Len(spans) + 1, from |-> from, to |-> to]
      kept == Expire(StacksAt(from)[t], from)
  IN  /\ writing
      /\ current' = ChunkAt(from)
      /\ stacks' = [StacksAt(from) EXCEPT
                      ![t] = IF to > from THEN Append(kept, s) ELSE kept]
      /\ files' = [FilesAt(from) EXCEPT
                     ![ChunkAt(from)].slices[t] = Append(@, s)]
      /\ spans' = Append(spans, [tid |-> t, from |-> from, to |-> to])
      /\ UNCHANGED <<writing, cached, samples>>

\* write_begin, write_end and write_instant: by is 1, -1 and 0.
WritePoint(t, by) ==
  /\ writing
  /\ current' = ChunkAt(now)
  /\ stacks' = StacksAt(now)
  /\ files' = [FilesAt(now) EXCEPT ![ChunkAt(now)].depth[t] = @ + by]
  /\ begun' = [begun EXCEPT ![t] = @ + by]
  /\ UNCHANGED <<writing, cached, samples, now, spans>>

\* finalize
Finalize ==
  /\ writing
  /\ writing' = FALSE
  /\ UNCHANGED <<current, cached, samples, stacks, files, engine>>

-----------------------------------------------------------------------------
\* The engine's side: it moves on, or makes a call for the present moment.
MoveOn ==
  /\ writing
  /\ now' \in {ts \in Times : ts > now}
  /\ UNCHANGED <<current, writing, cached, samples, stacks, files, spans, begun>>

\* Spans of a viz thread nest.
Nests(t, from, to) ==
  \A k \in 1 .. Len(spans) :
    spans[k].tid = t => spans[k].to <= from \/ to <= spans[k].to

VizSpan(t) ==
  /\ Len(spans) < MaxSpans
  /\ \E to \in {ts \in Times : ts >= now} :
       Nests(t, now, to) /\ WriteSpan(t, now, to)
  /\ UNCHANGED <<now, begun>>

\* A scheduler span ends now and began after the thread's previous one.
SchedSpan(t) ==
  /\ Len(spans) < MaxSpans
  /\ \E from \in {ts \in Times : ts < now} :
       /\ \A k \in 1 .. Len(spans) : spans[k].tid = t => spans[k].to <= from
       /\ WriteSpan(t, from, now)
  /\ UNCHANGED <<now, begun>>

Pair(t) ==
  \/ begun[t] = 0 /\ WritePoint(t, 1)
  \/ begun[t] = 1 /\ WritePoint(t, -1)
  \/ WritePoint(t, 0)

\* Everything but set_metric_samples, which main calls before the rest.
Write ==
  \/ \E m \in Names : WriteMetadata(m)
  \/ \E t \in VizTids : VizSpan(t)
  \/ \E t \in SchedTids : SchedSpan(t)
  \/ \E t \in PairTids : Pair(t)
  \/ MoveOn
  \/ Finalize

-----------------------------------------------------------------------------
Slice == [span : 1 .. MaxSpans, from : Times \cup {Start(c) : c \in 0 .. NumChunks},
          to : Times \cup {Start(c) : c \in 0 .. NumChunks}]

TypeOK ==
  /\ current \in 0 .. NumChunks - 1
  /\ current \in DOMAIN files /\ DOMAIN files \subseteq 0 .. current
  /\ writing \in BOOLEAN
  /\ cached \subseteq Names
  /\ \A t \in Tids : stacks[t] \in Seq(Slice)
  /\ \A c \in DOMAIN files : \A t \in Tids : files[c].slices[t] \in Seq(Slice)
  /\ now \in Times

\* The chunk a time belongs to: the one whose window holds it, where the window of the
\* first has no beginning and that of the last no end.
Home(ts) ==
  CHOOSE c \in 0 .. NumChunks - 1 :
    (c = 0 \/ Start(c) <= ts) /\ (c = NumChunks - 1 \/ ts < End(c))

\* What a reader of the files expects of a span: the whole span in the chunk
\* it begins in, one context slice in every later chunk it reaches into, cut
\* to that chunk, and no trace of it anywhere else.
Reaches(n, c) ==
  LET home == Home(spans[n].from)
  IN  c = home \/ (c > home /\ spans[n].to > Start(c))
ExpectedSlice(n, c) ==
  LET s == [span |-> n, from |-> spans[n].from, to |-> spans[n].to]
  IN  IF c = Home(s.from) THEN s ELSE ContextSlice(s, c)

\* Every file shows each viz span as it should: no context is lost or doubled
\* however many chunks are skipped and whichever call crosses the boundary
\* ("boundary-crossing spans aren't prematurely removed by a later event's
\* timestamp", chunking_writer.h:52-54).
ContextComplete ==
  \A n \in 1 .. Len(spans) : spans[n].tid \in VizTids =>
    \A c \in DOMAIN files :
      LET slices == files[c].slices[spans[n].tid]
          shown  == {k \in DOMAIN slices : slices[k].span = n}
      IN  IF Reaches(n, c) THEN \E k \in shown : shown = {k} /\ slices[k] = ExpectedSlice(n, c)
                           ELSE shown = {}

\* Context slices all begin at the start of the chunk, so their order in the
\* file decides how they nest: an outer slice comes before the ones it
\* encloses ("shallowest first", chunking_writer.h:267).
ContextNested ==
  \A c \in DOMAIN files : \A t \in VizTids :
    LET slices == files[c].slices[t] IN
    \A i, j \in 1 .. Len(slices) :
      i < j /\ slices[i].from = slices[j].from /\ slices[i].to > slices[i].from =>
        spans[slices[i].span].to >= spans[slices[j].span].to

\* The file being written knows every name seen so far, also the names that
\* came before it was created.
NamesCarried == files[current].names = cached

\* "each chunk file gets the subset whose timestamps fall within its time
\* window" (chunking_writer.h:140-141): once the trace has been written up to
\* its last chunk, no sample inside the range that the chunks cover is missing
\* from the output.
CountersKept ==
  ~writing /\ current = NumChunks - 1 =>
    \A k \in 1 .. Len(samples) :
      samples[k].ts \in 0 .. End(NumChunks - 1) - 1 =>
        \E c \in DOMAIN files :
          \E i \in 1 .. Len(files[c].counters) : files[c].counters[i] = samples[k]

\* "Maintains a per-thread call stack of open spans so that when a chunk
\* boundary is crossed, context spans (the currently-open ancestor frames) are
\* emitted into the new chunk" (chunking_writer.h:22-24): a slice begun and
\* not yet ended is open in the file being written, so its end will match.
OpenSlicesCarried == \A t \in PairTids : files[current].depth[t] = begun[t]

\* "--chunk-duration <sec> Split output into multiple files, each covering
\* this many seconds" (main.cpp:49-50): every slice of a file starts inside
\* the file's window.
SlicesInWindow ==
  \A c \in DOMAIN files : \A t \in Tids : \A k \in 1 .. Len(files[c].slices[t]) :
    ChunkFor(files[c].slices[t][k].from) = c
=============================================================================
