\* Both ways of loading, disorder beyond the window included.
CONSTANTS
  TsMax = 9
  Capacity = 1
  MaxLen = 3
  MaxTs = 3
  AttrSize = 136
  GpuCalls <- MCGpuCalls
  Files <- MCFiles
  Inputs <- MCInputs
  Paths = {"memory", "stream"}
SPECIFICATION LoadSpec
INVARIANTS StartIsFirstEvent EmittedOnce MemoryLoadExact MemoryLoadWhole ReaderDelivers
CHECK_DEADLOCK FALSE
