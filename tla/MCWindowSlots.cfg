SPECIFICATION HistorySpec
CONSTANTS
  Queries = {1}
  RawQueries = {0, 1}
  Normalized <- MCNormalized
  Adders = {a1}
  Second = 2
  Window = 4
  BucketSize = 2
  AllowedFutureSkew = 2
  DefaultLimit = 1
  MaxLimit = 1
  ReadLimits = {0}
  Lags <- MCEdgeLags
  ClockSteps <- MCForward
  StartClock = 8
  MaxClock = 13
  MaxCount = 2
  LastSecond = 7
  MaxPerSecond = 1
INVARIANT
  ExactCounts
