\* A pass may last four periods, in which rings of two and four come round.
\* A user who waits for the test to come up or to end; the user may stop at any time
\* and for good, so the system may stop.
SPECIFICATION Spec
CONSTANTS
  Tasks = {"PCMTest_1"}
  Tried = {1, 6, 7}
  Interface = 1
  MaxLate = 4
CHECK_DEADLOCK FALSE
INVARIANTS NeverTorn BuffersApart
PROPERTY StopHeeded
