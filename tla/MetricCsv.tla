------------------------------ MODULE MetricCsv -----------------------------
(***************************************************************************)
(* MetricCsvReader (metric_csv_reader.cpp) and what main does with its     *)
(* samples (main.cpp:347-376).                                             *)
(*                                                                         *)
(* A file has a header line, `columns`, and rows: an empty line, a comment *)
(* or a timestamp and cells.  A number that cannot be parsed, "-", "N/A"   *)
(* and an empty cell are all NotANumber.                                   *)
(***************************************************************************)
EXTENDS Integers, FiniteSets, Sequences

NotANumber == -1

\* The elements of s at the given positions, in their order.
Subsequence(s, positions) ==
  LET nth(i) == CHOOSE k \in positions : Cardinality({j \in positions : j <= k}) = i
  IN  [i \in 1 .. Cardinality(positions) |-> s[nth(i)]]

MetricSample == [ts : Int, name : STRING \X STRING, value : Nat]

\* One turn of read_all's loop: a sample for every cell that is a number.
\* Cells without a column and columns without a cell are ignored.
RowSamples(columns, row, prefix) ==
  LET n == IF Len(row.cells) < Len(columns) - 1 THEN Len(row.cells) ELSE Len(columns) - 1
      sample(i) ==
        [ts |-> row.ts, name |-> <<prefix, columns[i + 1]>>, value |-> row.cells[i]]
  IN  IF row.line # "data" \/ row.ts = NotANumber THEN <<>>
      ELSE Subsequence([i \in 1 .. n |-> sample(i)],
                       {i \in 1 .. n : row.cells[i] # NotANumber})

\* std::stable_sort by time.
StableSort(s) ==
  LET rank(i) == Cardinality({j \in DOMAIN s : \/ s[j].ts < s[i].ts
                                               \/ s[j].ts = s[i].ts /\ j <= i})
  IN  [k \in DOMAIN s |-> s[CHOOSE i \in DOMAIN s : rank(i) = k]]

\* read_all(prefix), for a file whose first column is "timestamp_ns": it
\* throws for any other, and main ends before it has written anything.
ReadAll(file, prefix) ==
  LET read[r \in 0 .. Len(file.rows)] ==
        IF r = 0 THEN <<>>
        ELSE read[r - 1] \o RowSamples(file.columns, file.rows[r], prefix)
  IN  StableSort(read[Len(file.rows)])

\* A plausible mistake in the definition that follows: each file is sorted already.
MetricSamplesUnsorted(csv) == {ReadAll(csv.cpu, "CPU ") \o ReadAll(csv.gpu, "GPU ")}

\* main's metric_samples: both files, if they are given, then std::sort, which
\* may leave samples of the same time in any order.
MetricSamples(csv) ==
  LET all == ReadAll(csv.cpu, "CPU ") \o ReadAll(csv.gpu, "GPU ")
      orders == {p \in [DOMAIN all -> DOMAIN all] :
                   \A i, j \in DOMAIN all :
                     i < j => p[i] # p[j] /\ all[p[i]].ts <= all[p[j]].ts}
  IN  {[k \in DOMAIN all |-> all[p[k]]] : p \in orders}
=============================================================================
