SPECIFICATION SuiteSpec
CONSTANTS
  Handles = {wq, a}
  Internal = wq
  NoCallback = {}
  Threads = {t1, t2}
  EventfdMax = 2
  None = None
INVARIANTS
  TypeOK
  NoWriteAfterSpin
  NoLostWakeup
  ListedOnce
PROPERTIES
  ImplementsWakeup
  CallsAreAnswered
CHECK_DEADLOCK FALSE
