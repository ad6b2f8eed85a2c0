\* Three boards, two regulators, one failing call.
SPECIFICATION Spec
CONSTANTS
  Vregs = {"cpu", "l2"}
  Table <- TwoVregs
  Configs <- Boards
  MaxVolt = 4
  Boot = {2}
  MaxModes = 1
  MaxFaults = 1
INVARIANTS ApmSafe Enough LoopServes SuppliesHeld
PROPERTIES RailOrder IrqTaken
