\* Two .ftrc files and a perf recording, in every combination.
CONSTANTS
  r1 = r1 r2 = r2
  Readers = {r1, r2}
  NoReader = NoReader
  VizFiles <- MCVizFiles
  PerfStreams <- MCPerfStreams
  Options <- SameClockOptions
  NsPerUs = 2
  Uptime = 1
  Never = 100
SPECIFICATION Spec
INVARIANTS TypeOK OutputInOrder OuterFirst WindowHonoured
PROPERTIES MergeEnds
CHECK_DEADLOCK FALSE
