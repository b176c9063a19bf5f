SPECIFICATION SuiteSpec
INVARIANTS
  TimersAreSound
  PollingIsSound
  FilesAreSound
  SyncIsSound
  TextIsSound
  WatchersAreSound
PROPERTIES
  NothingUncalledFor
CHECK_DEADLOCK FALSE
