\* A ring of two slots that fills and wraps under fair CPUs; no CPU goes offline.
SPECIFICATION FairSpec
CONSTANTS
  Cpus = {c1, c2}
  Skbs = {s1, s2}
  NoSkb = NoSkb
  NoCpu = NoCpu
  Pools = 2
  RecycleMax = 0
  SpareMax = 1
  MaxValues <- ZeroMax
  SpareValues <- OneSpare
  MaxBatch = 2
  MinOnline = 2
  DebugObjects = FALSE
PROPERTY EveryCallReturns
