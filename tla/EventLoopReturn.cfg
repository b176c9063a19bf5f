SPECIFICATION Spec
CONSTANTS
  Idle = {}
  Prepare = {}
  Check = {}
  Timer = {timer}
  Io = {}
  PendingRounds = 1
  None = None
PROPERTIES
  ReturnValueAsDocumented
CHECK_DEADLOCK FALSE
