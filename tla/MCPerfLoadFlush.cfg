\* The streaming way: where open spans are flushed.
CONSTANTS
  TsMax = 9
  Capacity = 1
  MaxLen = 3
  MaxTs = 2
  AttrSize = 136
  GpuCalls <- MCGpuCalls
  Files <- MCFiles
  Inputs <- MCInputs
  Paths = {"stream"}
SPECIFICATION LoadSpec
INVARIANT FlushAtLastEvent
CHECK_DEADLOCK FALSE
