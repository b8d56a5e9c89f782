SPECIFICATION HistorySpec
CONSTANTS
  Queries = {1}
  RawQueries = {0, 1}
  Normalized <- MCNormalized
  Adders = {a1, a2}
  Second = 2
  Window = 4
  BucketSize = 2
  AllowedFutureSkew = 2
  DefaultLimit = 1
  MaxLimit = 1
  ReadLimits = {0}
  Lags <- MCAnyLag
  ClockSteps <- MCBackAndForth
  StartClock = 8
  MaxClock = 10
  MaxCount = 2
  LastSecond = 6
  MaxPerSecond = 1
SYMMETRY AdderSymmetry
INVARIANTS
  TypeOK
  CountersMatchBuckets
  SlotHoldsItsSecond
  CacheFresh
  GaugesAgree
  NeverOvercounts
