SPECIFICATION FairSpec
CONSTANTS
  UIDs = {a}
  Unreadable = {2}
  MaxChanges = 3
  MaxGeneration = 2
  MaxFailures = 2
  MaxBreaks = 1
  MaxRestarts = 1
INVARIANTS LiveIsCurrent GoneIsGone
PROPERTIES NeverDeletesLive Drains
CHECK_DEADLOCK FALSE
