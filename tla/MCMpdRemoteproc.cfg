\* Two users, booted and shut down around two crashes of the root, or around two
\* crashes of users, while starts, stops and a shutdown of the root fail twice in all.
SPECIFICATION FairSpec
CONSTANTS
  root = root
  ahb = ahb
  pcie = pcie
  Root = root
  Order <- MCOrder2
  Threads = {t1}
  None = None
  MaxUses = 2
  MaxRefs = 4
  MaxRootCrash = 2
  MaxUserCrash = 2
  MaxFaults = 2
  Overlap = FALSE
INVARIANTS RefsBalanced RunningRuns RootUpWhileReferenced
PROPERTIES SuspendedRestarts RecoveryEnds
CHECK_DEADLOCK FALSE
