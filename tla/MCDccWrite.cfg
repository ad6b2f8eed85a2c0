\* Registers are also written after others have been read; with BusBoards the buses are
\* mixed, with ZeroBoards a loop is asked for 0 times.
SPECIFICATION Spec
CONSTANTS
  MaxLen = 3
  MaxOffset = 6
  MaxLoop = 3
  LoopField = 4
  Word = 64
  Boards <- WriterBoards
INVARIANT RightAccesses
