SPECIFICATION FairSpec
CONSTANTS
  root = root
  ahb = ahb
  pcie = pcie
  Root = root
  Order <- MCOrder1
  Threads = {t1, t2}
  None = None
  MaxUses = 1
  MaxRefs = 4
  MaxRootCrash = 1
  MaxUserCrash = 0
  MaxFaults = 0
  Overlap = TRUE
PROPERTIES RecoveryEnds
CHECK_DEADLOCK FALSE
