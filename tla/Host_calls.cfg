SPECIFICATION FairSpec
CONSTANTS
  Callers = {c1, c2}
  Secrets = {TRUE, FALSE}
  MaxGeneration = 2
  MaxAttempts = 1
  MaxCalls = 2
  MaxCrashes = 1
  MaxTimeouts = 1
INVARIANTS StoppedStaysDown RunningIsTracked
PROPERTY CallsReturn
CHECK_DEADLOCK FALSE
