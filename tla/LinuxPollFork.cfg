SPECIFICATION Spec
CONSTANTS
  Fd = {3, 4}
  File = {"f1", "f2"}
  Shared = {}
  Opened = {"f1"}
  Signal = "none"
  RingSize = 2
  MaxEvents = 1
  Count = 2
  MaxUse = 3
INVARIANTS
  ForkKeepsWatchers
CHECK_DEADLOCK FALSE
