\* sched_process_fork is recorded, as README.md recommends.
CONSTANTS
  Threads <- MCThreads
  ProcessOf <- MCProcessOf
  Recordings <- TracepointRecordings
  Metrics = {"cpu"}
  NoPid = NoPid
  MaxPackets = 4
SPECIFICATION Spec
INVARIANT TgidIsProcess
CHECK_DEADLOCK FALSE
