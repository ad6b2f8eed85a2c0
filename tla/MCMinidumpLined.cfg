\* One call at a time, and room for every line in both files.
CONSTANTS
  Callers = {c1}
  Segs <- MCSegs
  TlvRoom = 3
  Room <- Roomy
  Overlap = FALSE
  Junk = Junk
  Empty = Empty
  Stop = Stop
  Blank = Blank
  Frozen = TRUE
SPECIFICATION DeviceSpec
INVARIANTS Lined
