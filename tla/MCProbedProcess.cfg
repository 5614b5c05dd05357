\* Two threads that contend for the GIL, which is shown for one of them; the GPU
\* calls of the other may recurse.  And samples of theirs in every order.
CONSTANTS
  t1 = t1 t2 = t2
  launch = launch sync = sync
  Tids = {t1, t2}
  Ops = {launch, sync}
  GilShown = {t1}
  GpuShown = {t1, t2}
  MaxDepth = 3
  Feeds = {"process", "any"}
  MaxProbes = 2
  MaxNest = 3
  Recursive = {t2}
SYMMETRY MCSymmetry
SPECIFICATION ProcessSpec
INVARIANTS TypeOK NoMisplacedEnd GpuDepth GilDepth SlicesAreCalls NoSliceOutlivesCall GilSliceIsState
CHECK_DEADLOCK FALSE
