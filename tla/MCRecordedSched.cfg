\* Sorted samples, every time in range, the last timestamp known.
CONSTANTS
  t0 = t0 t1 = t1 t2 = t2
  Tids = {t0, t1, t2}
  Idle = t0
  Shown = {t0, t1}
  Known = {t1, t2}
  Reasons = {"preempted", "sleep"}
  Preempted = "preempted"
  MaxTs = 4
  InRange = {0, 1, 2, 3, 4}
  EchoGap = 1
  TsMod = 16
  Backward = 0
  LastIsKnown = TRUE
  Modes = {"system", "process", "any"}
  Traced = {t1}
  Cpus = {1, 2}
SPECIFICATION RecordingSpec
INVARIANTS TypeOK OpenSpanIsLast FlushReachesEnd StateFollows
PROPERTIES NoOverlap OffCpuFromSwitchOut OnCpuExact
CHECK_DEADLOCK FALSE
