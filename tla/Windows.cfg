SPECIFICATION SuiteSpec
INVARIANTS
  WinLoopIsSound
  WinSocketsAreSound
  WinTtyIsSound
  WinFilesAreSound
CHECK_DEADLOCK FALSE
