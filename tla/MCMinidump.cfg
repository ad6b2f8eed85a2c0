\* One call at a time; MODULE_INFO may fill, MMU_INFO not; the list stays while the device
\* is open.
CONSTANTS
  Callers = {c1}
  Segs <- MCSegs
  TlvRoom = 3
  Room <- Tight
  Overlap = FALSE
  Junk = Junk
  Empty = Empty
  Stop = Stop
  Blank = Blank
  Frozen = TRUE
SPECIFICATION DeviceSpec
INVARIANTS BufferDescribes OnlyListed LinesDescribe HeaderAgrees
PROPERTY ImplementsDumpList
