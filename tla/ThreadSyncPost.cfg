SPECIFICATION Spec
CONSTANTS
  Thread = {a, b, c}
  Modes = {"sem"}
  Threshold = 2
  MaxUse = 2
  Word = 1024
INVARIANT PostReleasesOne
CHECK_DEADLOCK FALSE
