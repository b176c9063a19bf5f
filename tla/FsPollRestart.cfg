SPECIFICATION Spec
CONSTANTS
  Answers = {1}
  Intervals = {1}
  Delays = {0}
  MaxUse = 2
INVARIANTS
  TimerIsCurrent
CHECK_DEADLOCK FALSE
