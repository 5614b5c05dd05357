\* Two processes; sched_process_fork is not recorded.
CONSTANTS
  Threads <- MCThreads
  ProcessOf <- MCProcessOf
  Recordings <- ForkRecordings
  Metrics = {"cpu"}
  NoPid = NoPid
  MaxPackets = 4
SPECIFICATION Spec
INVARIANTS TypeOK TracksDescribed StringsInterned FiledUnderProcess NamesShown PidFilterExact
CHECK_DEADLOCK FALSE
