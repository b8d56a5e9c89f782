SPECIFICATION FairSpec
CONSTANTS
  Queries = {1, 2}
  RawQueries <- MCRawQueries
  Normalized <- MCNormalized
  Adders = {a1}
  Second = 1
  Window = 2
  BucketSize = 1
  AllowedFutureSkew = 1
  DefaultLimit = 1
  MaxLimit = 2
  ReadLimits = {0, 1, 2, 3}
  Lags <- MCFewLags
  ClockSteps <- MCForward
  StartClock = 4
  MaxClock = 6
  MaxCount = 2
INVARIANT
  ReadsAreTop
PROPERTIES
  DirtyIsRebuilt
  IdleQueryLeaves
  RunEventuallyReturns
