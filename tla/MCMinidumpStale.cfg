\* Segments are added and removed while the device is open.
CONSTANTS
  Callers = {c1}
  Segs <- FewSegs
  TlvRoom = 3
  Room <- Roomy
  Overlap = FALSE
  Junk = Junk
  Empty = Empty
  Stop = Stop
  Blank = Blank
  Frozen = FALSE
SPECIFICATION DeviceSpec
INVARIANTS HeaderAgrees
