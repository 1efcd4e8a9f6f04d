SPECIFICATION Spec
CONSTANTS
  Requests = {r1, r2}
  Creator = creator
  Targets = {t1}
  StaticTargets = {t1}
  Accepting = {t1}
  PlacementType = "static"
  Outcomes = {}
  Checks = {"none"}
  LossyActivities = {}
  AttemptsRunOut = FALSE
  BufferedSignals = FALSE
  PoolChanges = FALSE
  MaxDisturbances = 0
  NoRow = NoRow
PROPERTY ConcurrentDeletePreserved
CHECK_DEADLOCK FALSE
