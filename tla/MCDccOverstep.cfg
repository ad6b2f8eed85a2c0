\* A list that oversteps the SRAM while another is enabled.
SPECIFICATION Spec
CONSTANTS
  MaxLen = 3
  MaxOffset = 6
  MaxLoop = 3
  LoopField = 4
  Word = 64
  Boards <- RunBoards
INVARIANT AlwaysKept
