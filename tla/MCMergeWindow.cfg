\* A window is asked for and the clocks differ.
CONSTANTS
  r1 = r1 r2 = r2
  Readers = {r1, r2}
  NoReader = NoReader
  VizFiles <- MCVizFiles
  PerfStreams <- MCPerfStreams
  Options <- DetectOptions
  NsPerUs = 2
  Uptime = 1
  Never = 100
SPECIFICATION Spec
INVARIANT WindowHonoured
CHECK_DEADLOCK FALSE
