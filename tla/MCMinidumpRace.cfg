\* Two callers whose additions and removals overlap.
CONSTANTS
  Callers = {c1, c2}
  Segs <- FewSegs
  TlvRoom = 3
  Room <- Roomy
  Overlap = TRUE
  Junk = Junk
  Empty = Empty
  Stop = Stop
  Blank = Blank
  Frozen = TRUE
SPECIFICATION DeviceSpec
INVARIANTS BufferDescribes
