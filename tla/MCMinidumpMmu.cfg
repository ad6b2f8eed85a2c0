\* One call at a time, with room for two lines in MMU_INFO.
CONSTANTS
  Callers = {c1}
  Segs <- MCSegs
  TlvRoom = 3
  Room <- TightMmu
  Overlap = FALSE
  Junk = Junk
  Empty = Empty
  Stop = Stop
  Blank = Blank
  Frozen = TRUE
SPECIFICATION DeviceSpec
INVARIANTS LinesDescribe
