\* Files within the reorder window.
CONSTANTS
  TsMax = 9
  Capacity = 2
  MaxLen = 5
  MaxTs = 2
  FileKinds = {"switch", "other"}
  Inputs <- MCBoundedFiles
SPECIFICATION FairSpec
INVARIANTS TypeOK OutputSorted WindowFull
PROPERTIES IsSortedStream Drained
CHECK_DEADLOCK FALSE
