SPECIFICATION HistorySpec
CONSTANTS
  Queries = {1}
  RawQueries = {0, 1}
  Normalized <- MCNormalized
  Adders = {a1}
  Second = 1
  Window = 4
  BucketSize = 2
  AllowedFutureSkew = 2
  DefaultLimit = 1
  MaxLimit = 1
  ReadLimits = {0}
  Lags <- MCNoLag
  ClockSteps <- MCForward
  StartClock = 8
  MaxClock = 16
  MaxCount = 1
  LastSecond = 18
  MaxPerSecond = 1
INVARIANT
  ExactCounts
