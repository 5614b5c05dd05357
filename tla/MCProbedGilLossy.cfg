\* Samples may be lost.
CONSTANTS
  t1 = t1 t2 = t2
  launch = launch sync = sync
  Tids = {t1, t2}
  Ops = {}
  GilShown = {t1, t2}
  GpuShown = {t1, t2}
  MaxDepth = 2
  Feeds = {"process"}
  MaxProbes = 2
  MaxNest = 2
  Recursive = {t2}
SPECIFICATION LossySpec
INVARIANT OneGilSlice
CHECK_DEADLOCK FALSE
