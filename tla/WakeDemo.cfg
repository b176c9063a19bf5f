SPECIFICATION Spec
CONSTANTS
  Async = async
  Internal = wq
  None = None
PROPERTIES
  StopEndsProgram
CHECK_DEADLOCK FALSE
