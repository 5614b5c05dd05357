\* Nested viz spans, a scheduler track, a GIL track, names and counters; chunks
\* are skipped, and times lie before the first chunk and after the last.
CONSTANTS
  VizTids = {"viz"}
  SchedTids = {"sched"}
  PairTids = {"gil"}
  Names = {"thread"}
  Duration = 2
  NumChunks = 3
  Early = 1
  LastTime = 6
  Times <- MCTimes
  MaxSpans = 2
  Csvs <- MCCsvs
  Busy <- MCBusy
  GlobalMin = 10
  Offset = 0
SPECIFICATION OutputSpec
INVARIANTS TypeOK ContextComplete ContextNested NamesCarried MetricsFaithful
CHECK_DEADLOCK FALSE
