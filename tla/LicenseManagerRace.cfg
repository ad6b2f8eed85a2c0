\* The same instance, and the race of a rescan with a user.
SPECIFICATION Spec
CONSTANTS
  Internal = {"q6"}
  External = {"mhi"}
  Rescanners = {"ioctl", "sysfs"}
  FileCount = 2
  Sizes = {0, 1, 2}
  Room = 3
  MaxEdits = 1
  MaxLost = 1
INVARIANT NeverRewritten
