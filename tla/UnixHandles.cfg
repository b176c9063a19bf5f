SPECIFICATION SuiteSpec
CONSTANTS
  Rounds = 10000
  PipeCapacity = 65536
  MaxWrites = 2
  MaxSize = 2
  WriteBatch = 1
  MaxBytes = 5
  BufLen = 2
  ReadCount = 2
  MaxFds = 4
  Limit = 4
  MaxCount = 3
  MaxSends = 3
  MaxIn = 2
  SendBatch = 2
  Chunks = 2
  RecvCount = 2
  MaxStops = 2
  IdleWatchers = {"idle1", "idle2"}
  Watchers = {"io"}
  PendingRounds = 1
  NoHandle = "none"
  Loop = {"l1", "l2"}
  SignalHandle = {"h1", "h2"}
  loopOf <- TwoSignalLoops
  Signum = {1, 2}
  PipeSize = 1
  SignalBatch = 1
  MaxRaised = 2
  MaxWatches = 3
  RegularUse = {"h2"}
  OneShotUse = {"h1"}
  Children = {"c1", "c2", "c3"}
  MaySteal = TRUE
  StdioCount = 4
  MaxFd = 19
  ParentFds = {0, 1, 2, 4, 5}
  Buffer = 3
  EchoSends = 3
  Capacity = 2
  Message <- ThreeCharacters
  SegmentSize = 6
  Files <- SqlFiles
  MaxSql = 3
INVARIANTS
  SocketsAreSound
  SignalsAreSound
  ChildrenAreSound
  ProgramsAreSound
  OneByteGoesRound
PROPERTIES
  StoppedIsSilent
CHECK_DEADLOCK FALSE
