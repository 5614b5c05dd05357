\* The trace's clock is ahead of the CSV files'.
CONSTANTS
  VizTids = {}
  SchedTids = {}
  PairTids = {"gil"}
  Names = {}
  Duration = 2
  NumChunks = 3
  Early = 0
  LastTime = 6
  Times <- MCTimes
  MaxSpans = 0
  Csvs <- MCCsvs
  Busy <- MCBusy
  GlobalMin = 10
  Offset = 3
SPECIFICATION OutputSpec
INVARIANT MetricsFaithful
CHECK_DEADLOCK FALSE
