\* The same with CPU hotplug: an interrupt on the CPU of the hotplug thread.
SPECIFICATION FairSpec
CONSTANTS
  Cpus = {c1, c2}
  Skbs = {s1, s2}
  NoSkb = NoSkb
  NoCpu = NoCpu
  Pools = 2
  RecycleMax = 0
  SpareMax = 1
  MaxValues <- ZeroMax
  SpareValues <- OneSpare
  MaxBatch = 1
  MinOnline = 1
  DebugObjects = FALSE
PROPERTY EveryCallReturns
CHECK_DEADLOCK FALSE
