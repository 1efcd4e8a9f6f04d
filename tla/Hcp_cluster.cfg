SPECIFICATION FairSpec
CONSTANTS
  n1 = n1
  n2 = n2
  Nodepools = {n1, n2}
  Desired <- PoolsOf
  Tokens = {TRUE, FALSE}
  PrereqAttempts = 2
  LateCreates = FALSE
  MaxGeneration = 3
  MaxIncarnations = 2
  MaxFaults = 3
  MaxCrashes = 2
INVARIANTS TypeOK ClusterKeepsInfra DeliveredIsServed RemovedIsGone FenceAdmitsCurrent
PROPERTY EveryDispatchAnswered
CHECK_DEADLOCK FALSE
