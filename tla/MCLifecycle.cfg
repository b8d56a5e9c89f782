SPECIFICATION FairSpec
CONSTANTS
  Files <- MCFiles
  Millisecond = 2
  DurationLimit = 1048576
  MaxElements = 1000
  Patterns <- MCPatterns
  MaxRequests = 2
  MaxStreams = 1
  MaxScrapes = 1
INVARIANTS
  TypeOK
  WiredIsSound
  KnownPanicsOnly
  ExitCodeRight
  ReaderClosedAfterUse
  CallsDrained
PROPERTY
  ShutdownCompletes
CHECK_DEADLOCK FALSE
