--------------------------- MODULE MCChunkedOutput --------------------------
(* Values for the constants of ChunkedOutput: times from before the first   *)
(* chunk to after the last, and pairs of small CSV files.                   *)
EXTENDS ChunkedOutput

CONSTANTS Early, LastTime

MCTimes == -Early .. LastTime

Row(ts, cells) == [line |-> "data", ts |-> ts, cells |-> cells]

\* Rows with a cell too few, too many, or without a number; without a time;
\* and lines that are skipped.
MCRows ==
  {Row(GlobalMin + 1, <<7, 8>>), Row(GlobalMin + 4, <<NotANumber, 9>>),
   Row(GlobalMin + 3, <<7>>), Row(GlobalMin + 2, <<5, 5, 5>>),
   Row(NotANumber, <<7, 8>>), [line |-> "comment", ts |-> NotANumber, cells |-> <<>>]}

Csv(columns, rows) == [columns |-> <<"timestamp_ns">> \o columns, rows |-> rows]
NoFile == Csv(<<>>, <<>>)

MCCpu ==
  {NoFile} \cup {Csv(<<"util", "mem">>, rows) : rows \in UNION {[1 .. n -> MCRows] : n \in 1 .. 2}}
MCGpu == {NoFile, Csv(<<"util">>, <<Row(GlobalMin + 4, <<3>>), Row(GlobalMin + 1, <<2>>)>>)}
MCCsvs == [cpu : MCCpu, gpu : MCGpu]

\* Spans are written with the second file alone.
MCBusy == {csvs \in MCCsvs : csvs.cpu = NoFile}
=============================================================================
