---------------------------- MODULE ChunkedOutput ---------------------------
(***************************************************************************)
(* Chunked output of main.cpp: the metric CSV files are read (347-376),    *)
(* the ChunkingWriter is made and given their samples (507-517), and the   *)
(* engine writes the trace through it.                                     *)
(*                                                                         *)
(* The samples carry the clock of the CSV files; the chunks begin at       *)
(* global_min_us of the trace's clock, on which a CSV time t is            *)
(* align_viz(t) = t + Offset.                                              *)
(***************************************************************************)
EXTENDS ChunkingWriter

CONSTANTS
  Csvs,       \* the pairs of CSV files main may be given
  Offset,     \* offset_us_ of the clock aligner
  GlobalMin,  \* global_min_us
  Busy        \* bound: the pairs with which spans are written as well

\* A file has a header, rows, and a number or none in every cell.
IsCsv(file) ==
  /\ Len(file.columns) \in Nat /\ Len(file.rows) \in Nat
  /\ DOMAIN file.columns = 1 .. Len(file.columns) /\ DOMAIN file.rows = 1 .. Len(file.rows)
  /\ \A r \in DOMAIN file.rows :
       LET row == file.rows[r] IN
       row.ts \in Int /\ Len(row.cells) \in Nat /\ DOMAIN row.cells = 1 .. Len(row.cells)

ASSUME CsvAssumption ==
  /\ Offset \in Int /\ GlobalMin \in Int
  /\ \A pair \in Csvs : DOMAIN pair = {"cpu", "gpu"} /\ IsCsv(pair.cpu) /\ IsCsv(pair.gpu)

VARIABLES
  csv,   \* the pair of files
  ready  \* the samples have been read and handed to the writer

outputVars == <<vars, csv, ready>>

OutputInit ==
  /\ Init
  /\ csv \in Csvs
  /\ ready = FALSE

\* Samples as the ChunkingWriter sees them, counted from global_min_us: main
\* hands them over with the times of the file.
FromStart(ms) == [k \in DOMAIN ms |-> [ms[k] EXCEPT !.ts = @ - GlobalMin]]

\* read_all of both files, the sort, and set_metric_samples if there are any.
LoadMetrics ==
  /\ ~ready
  /\ ready' = TRUE
  /\ \E ms \in MetricSamples(csv) :
       IF ms = <<>> THEN UNCHANGED <<samples, files>> ELSE SetMetricSamples(FromStart(ms))
  /\ UNCHANGED <<current, writing, cached, stacks, engine, csv>>

WriteTrace ==
  /\ ready
  /\ Write
  /\ csv \in Busy \/ spans' = spans
  /\ UNCHANGED <<csv, ready>>

OutputNext == LoadMetrics \/ WriteTrace

OutputSpec == OutputInit /\ [][OutputNext]_outputVars

-----------------------------------------------------------------------------
\* The cells of the files that hold a number, in rows that hold a time, and
\* the counters they stand for on the clock of the trace.
Cells(f) ==
  {<<f, r, i>> : r \in DOMAIN csv[f].rows, i \in 2 .. Len(csv[f].columns)}
Holds(cell) ==
  LET row == csv[cell[1]].rows[cell[2]] IN
  /\ row.line = "data" /\ row.ts # NotANumber
  /\ cell[3] - 1 \in DOMAIN row.cells /\ row.cells[cell[3] - 1] # NotANumber
Prefix == [cpu |-> "CPU ", gpu |-> "GPU "]
CounterOf(cell) ==
  LET row == csv[cell[1]].rows[cell[2]] IN
  [ts    |-> row.ts + Offset - GlobalMin,
   name  |-> <<Prefix[cell[1]], csv[cell[1]].columns[cell[3]]>>,
   value |-> row.cells[cell[3] - 1]]
Expected == {cell \in UNION {Cells(f) : f \in DOMAIN csv} : Holds(cell)}

\* From the CSV files to the chunk files: every file shows, once each and at
\* their time, the numbers measured in its window, under the names of their
\* columns, and no others ("each chunk file gets the subset whose timestamps
\* fall within its time window", chunking_writer.h:140-141): whatever cells
\* and rows are missing or unreadable, in whatever order the rows stand,
\* however the two files interleave.
MetricsFaithful ==
  ready => \A c \in DOMAIN files :
    LET shown == files[c].counters
        due   == {cell \in Expected : /\ Start(c) <= CounterOf(cell).ts
                                      /\ CounterOf(cell).ts < End(c)}
    IN  /\ Len(shown) = Cardinality(due)
        /\ \A cell \in due :
             Cardinality({k \in DOMAIN shown : shown[k] = CounterOf(cell)})
               = Cardinality({d \in due : CounterOf(d) = CounterOf(cell)})
=============================================================================
