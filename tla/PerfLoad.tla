------------------------------ MODULE PerfLoad ------------------------------
(***************************************************************************)
(* How main.cpp loads perf.data and hands it to the merge engine           *)
(* (main.cpp:167-262, 399-418), in either of its two ways:                 *)
(*                                                                         *)
(*   "memory"  (file < 8 GB)  every event is read and sorted first, and    *)
(*             what main needs to know about the file is taken afterwards; *)
(*   "stream"  (file >= 8 GB) a ReorderBufferIterator is built and the     *)
(*             same facts are taken right after its constructor, when it   *)
(*             has only read the first Capacity + 1 events.                *)
(*                                                                         *)
(* The engine then consumes the iterator to its end and flushes the open   *)
(* scheduler spans at the last timestamp main told it about.               *)
(*                                                                         *)
(* The events come out of PerfDataReader, one next_event for every event   *)
(* the buffer reads: `input`, the file as the buffer sees it, is what      *)
(* those calls will return, and `events` what they have returned.          *)
(***************************************************************************)
EXTENDS ReorderBuffer, PerfDataReader

CONSTANT Paths  \* the ways of loading this run explores

VARIABLES
  file,     \* what was recorded
  path,     \* "memory" or "stream"
  header,   \* attrs_, attr_names_ and id_to_attr_
  cursor,   \* cursor_, as the index of a record
  scratch,  \* the PerfEvent of fill_heap, one for all its turns
  events,   \* history: the events the reader has returned, in file order
  names,    \* comm_map_ of the reader
  commMap,  \* main's comm_map, copied from it
  stage,    \* "open", "build", "engine" (set_perf_source done), "flushed"
  loaded    \* fork_events, perf_min_ts, perf_max_ts and perf_event_count

readingVars == <<cursor, scratch, events, names>>
mainVars == <<commMap, stage, loaded>>
loadVars == <<file, path, header, readingVars, mainVars>>
allVars == <<vars, loadVars>>

LoadInit ==
  /\ file \in Files
  /\ path \in Paths
  /\ header = Parsed(file)
  /\ \E es \in {AllEvents(file, header)} : input = Ordered(es)
  /\ Init
  /\ cursor = 1
  /\ scratch = Fresh
  /\ events = <<>>
  /\ names = <<>>
  /\ commMap = <<>>
  /\ stage = "open"
  /\ loaded = [minTs |-> 0, maxTs |-> 0, total |-> 0, forks |-> {}]

\* The reader is constructed and its COMM map copied; nothing is read yet.
OpenReader ==
  /\ stage = "open"
  /\ commMap' = names
  /\ stage' = "build"
  /\ UNCHANGED <<vars, file, path, header, readingVars, loaded>>

\* Positions of the fork events of the file.
Forks == {i \in 1 .. Len(input) : input[i].kind = "fork"}

\* read_all_events, std::sort and the vector iterator: a heap that holds the
\* whole file, first element prepared.  The bounds are those of the sorted
\* vector, front and back.
LoadVector ==
  /\ stage = "build" /\ path = "memory"
  /\ read' = Len(input)
  /\ exhausted' = TRUE
  /\ phase' = "serve"
  /\ events' = AllEvents(file, header)
  /\ names' = AllNames(file, header)
  /\ cursor' = Stop(file)
  /\ UNCHANGED <<input, meta, file, path, header, scratch>>
  /\ Pop(1 .. Len(input))
  /\ commMap' = names'
  /\ \/ /\ input = <<>>
        /\ UNCHANGED loaded
     \/ \E front \in Tops(1 .. Len(input)), back \in 1 .. Len(input) :
          /\ \A j \in 1 .. Len(input) : ~Greater(input[j], input[back])
          /\ loaded' = [minTs |-> input[front].ts, maxTs |-> input[back].ts,
                        total |-> Len(input), forks |-> Forks]
  /\ stage' = "engine"

\* reader_->next_event(out).
ReaderNext(out) ==
  LET next == NextEvent(file, header, cursor, out, names) IN
  /\ cursor' = next.cursor
  /\ names' = next.names
  /\ events' = IF next.found THEN Append(events, next.event) ELSE events

\* The constructor of the ReorderBufferIterator runs: every turn of fill_heap
\* hands the reader the same PerfEvent, pop_next a new one.
BuildStream ==
  /\ stage = "build" /\ path = "stream"
  /\ \/ /\ FillHeap
        /\ ReaderNext(scratch)
        /\ scratch' = NextEvent(file, header, cursor, scratch, names).event
     \/ /\ FirstPop
        /\ IF exhausted THEN UNCHANGED readingVars
                        ELSE ReaderNext(Fresh) /\ UNCHANGED scratch
  /\ UNCHANGED <<file, path, header, mainVars>>

\* main copies the buffer's metadata and set_perf_source gives it, with the
\* iterator, to the engine.
HandOver ==
  /\ stage = "build" /\ path = "stream" /\ phase = "serve"
  /\ loaded' = meta
  /\ stage' = "engine"
  /\ UNCHANGED <<vars, file, path, header, readingVars, commMap>>

\* emit_perf_event(peek()); advance().
Consume ==
  /\ stage = "engine"
  /\ Advance
  /\ IF exhausted THEN UNCHANGED readingVars
                  ELSE ReaderNext(Fresh) /\ UNCHANGED scratch
  /\ UNCHANGED <<file, path, header, mainVars>>

\* The loop is over: flush_sched_state ends open spans at loaded.maxTs.
Flush ==
  /\ stage = "engine" /\ ~hasOutput
  /\ stage' = "flushed"
  /\ UNCHANGED <<vars, file, path, header, readingVars, commMap, loaded>>

LoadNext ==
  OpenReader \/ LoadVector \/ BuildStream \/ HandOver \/ Consume \/ Flush

LoadSpec == LoadInit /\ [][LoadNext]_allVars

-----------------------------------------------------------------------------
\* Every variable keeps its type; the cursor stays in the data section, and the buffer has
\* taken as many events as the reader has returned.
LoadTypeOK ==
  /\ TypeOK
  /\ header = Parsed(file) /\ path \in Paths
  /\ cursor \in 1 .. Stop(file)
  /\ Len(events) = read
  /\ stage \in {"open", "build", "engine", "flushed"}
  /\ loaded.minTs \in 0 .. TsMax /\ loaded.maxTs \in 0 .. TsMax
  /\ loaded.forks \subseteq Forks

\* Pulled one by one or pushed all at once, the reader returns the events that
\* were recorded, in their order and each once, and says of each what it was,
\* when and where: however the fields of the attributes differ, whichever field
\* carries the id, with or without common fields in the raw data, with records
\* of other types, cut ones and undecodable ones between.  Without EVENT_DESC
\* the kinds are unknown; after a record of impossible size nothing is read.
ReaderDelivers ==
  LET whole == Recorded(file) IN
  /\ Len(input) = Len(whole) /\ Ordered(events) = SubSeq(input, 1, read)
  /\ \A k \in DOMAIN events :
       /\ events[k].ts = whole[k].ts /\ events[k].tid = whole[k].tid
       /\ file.desc => /\ events[k].kind = KindOf(file, whole[k])
                       /\ HasArg(file, whole[k]) => events[k].arg = whole[k].arg

\* An event that has no thread in its data does not show another event's.
\* (Not so for what fill_heap reads: its PerfEvent keeps the data of the event
\* before, and raw data that is too short leaves them in place.)
OwnData ==
  \A k \in DOMAIN events :
    ~HasArg(file, Recorded(file)[k]) => events[k].arg = 0

\* The trace starts where main says: perf_min_ts, which the clock alignment
\* uses as perf's first timestamp, is the timestamp of the first event the
\* engine is handed.  Holds for both ways of loading, in the streaming one
\* because the first window already contains the least event.
StartIsFirstEvent ==
  stage # "open" /\ stage # "build" /\ output # <<>> =>
    loaded.minTs = input[output[1]].ts

\* The engine knows the child of every fork it is handed: main's fork_events
\* are the file's ("fork events already loaded in set_perf_source",
\* merge_engine.cpp:836), so that sched_switch can recognise its threads.
ForksKnown ==
  stage \in {"engine", "flushed"} =>
    \A n \in 1 .. Len(output) :
      input[output[n]].kind = "fork" => output[n] \in loaded.forks

\* Open spans are flushed at the last perf timestamp ("Last perf timestamp
\* for flushing open spans at end", merge_engine.h:86).
FlushAtLastEvent ==
  stage = "flushed" /\ output # <<>> =>
    loaded.maxTs = input[output[Len(output)]].ts

\* The engine is given the latest thread names of the file ("comm_map already
\* captured above before reader was moved", main.cpp:249).
NamesCaptured ==
  stage \in {"engine", "flushed"} => commMap = RecordedNames(file)

\* A file that is loaded into memory reaches the engine sorted, whatever its
\* disorder (the window of the other way bounds it), and what main tells the
\* engine of its forks and its end is exact.
MemoryLoadExact ==
  path = "memory" => OutputSorted /\ ForksKnown /\ FlushAtLastEvent

\* All names of such a file are known when its first event is consumed, and no
\* event shows another's data.
MemoryLoadWhole ==
  path = "memory" => NamesCaptured /\ OwnData
=============================================================================
