\* Eight device trees, about 6200 chips.
SPECIFICATION TableSpec
CONSTANTS
  Boards <- DeviceTrees
  Fuses <- Chips
  Word = 65536
  Long = 1048576
INVARIANTS TablesServe FuseHonoured
CHECK_DEADLOCK FALSE
