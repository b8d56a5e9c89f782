SPECIFICATION HistorySpec
CONSTANTS
  Queries = {1, 2}
  RawQueries = {0, 1, 2}
  Normalized <- MCNormalized
  Adders = {a1}
  Second = 2
  Window = 4
  BucketSize = 2
  AllowedFutureSkew = 2
  DefaultLimit = 1
  MaxLimit = 1
  ReadLimits = {0}
  Lags <- MCPunctual
  ClockSteps <- MCForward
  StartClock = 8
  MaxClock = 13
  MaxCount = 1
  LastSecond = 7
  MaxPerSecond = 1
PROPERTIES
  ImplementsSlidingWindow
