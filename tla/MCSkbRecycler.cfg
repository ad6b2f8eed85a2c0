\* Two CPUs, both limits at their boundary, every procfs file and CPU hotplug.
\* CHECK_DEADLOCK FALSE: see EveryCallReturns in MCSkbRecyclerHotplug.cfg.
SPECIFICATION Spec
CONSTANTS
  Cpus = {c1, c2}
  Skbs = {s1, s2, s3}
  NoSkb = NoSkb
  NoCpu = NoCpu
  Pools = 2
  RecycleMax = 1
  SpareMax = 1
  MaxValues <- SmallMax
  SpareValues <- SmallSpare
  MaxBatch = 2
  MinOnline = 1
  DebugObjects = FALSE
SYMMETRY Symmetry
INVARIANTS OwnedOnce NoneStranded OccupancyBound
PROPERTY PoolSpec
CHECK_DEADLOCK FALSE
