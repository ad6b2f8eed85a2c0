\* Lists of every kind of entry, and two lists enabled, triggered and refused in one SRAM.
SPECIFICATION Spec
CONSTANTS
  MaxLen = 3
  MaxOffset = 6
  MaxLoop = 3
  LoopField = 4
  Word = 64
  Boards <- MCBoards
INVARIANTS RightAccesses RegionsApart ProgramKept
