SPECIFICATION Spec
CONSTANTS
  Workers = {t1, t2}
  l1 = l1
  l2 = l2
  Loops = {l1, l2}
  Works = {c1, s1, s2}
  LoopOf <- TwoLoops
  Slow = {s1, s2}
  ExitMsg = exit_message
  SlowMsg = run_slow_work_message
  None = None
SYMMETRY Symmetry
INVARIANTS
  TypeOK
  WorkInOnePlace
  NeverRunsCancelled
  SlowWorkIsBounded
  SlowWorkIsAnnounced
  NotAllAsleep
PROPERTIES
  StatusIsTruthful
  ImplementsWorkRequest
CHECK_DEADLOCK FALSE
