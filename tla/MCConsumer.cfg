SPECIFICATION FairSpec
CONSTANTS
  StartOffset = "latest"
  CommitModes = {"sync", "async"}
  CommitRetries = 2
  HandlerResults = {"ok", "validation", "failed"}
  MaxLog = 3
  MaxErrors = 2
  MaxRestarts = 1
  MaxRebalances = 1
CHECK_DEADLOCK FALSE
INVARIANTS
  TypeOK
  CommittedAreProcessed
  OffsetFollowsProcessed
  CountedOncePerDelivery
PROPERTIES
  EveryMessageCommitted
  CancelStopsRun
