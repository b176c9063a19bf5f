SPECIFICATION SuiteSpec
PROPERTIES
  EventsAreReported
  PoolMakesProgress
CHECK_DEADLOCK FALSE
