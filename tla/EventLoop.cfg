SPECIFICATION FairSpec
CONSTANTS
  Idle = {}
  Prepare = {}
  Check = {}
  Timer = {timer}
  Io = {io1, io2}
  PendingRounds = 1
  None = None
INVARIANTS
  TypeOK
  SleepsOnlyWhenIdle
  ActiveHandlesExact
  ClosingListed
PROPERTIES
  OnlyOpenHandlesAreCalled
  ReturnsWhenDone
  RunMakesProgress
CHECK_DEADLOCK FALSE
