\* Lists that compare checksums, chosen and enabled in any order.
SPECIFICATION Spec
CONSTANTS
  MaxLen = 3
  MaxOffset = 6
  MaxLoop = 3
  LoopField = 4
  Word = 64
  Boards <- RunBoards
INVARIANT CrcCleared
