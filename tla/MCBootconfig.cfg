\* Two boots and one corrupted copy on MTD, on the only MMC device or on one of two.
SPECIFICATION Spec
CONSTANTS
  Flashes = {"emmc", "emmc+sd", "mtd"}
  AgeMod = 3
  MaxRot = 1
  MaxBoots = 2
  MaxEdits = 1
INVARIANTS OneCopySurvives ImageValid RestoreAgrees
PROPERTY AgesLevel
CHECK_DEADLOCK FALSE
