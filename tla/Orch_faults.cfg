SPECIFICATION Spec
CONSTANTS
  Requests = {r1, r2}
  Creator = creator
  Targets = {t1, t2}
  StaticTargets = {t1, t2}
  Accepting = {t1, t2}
  PlacementType = "selector"
  Outcomes = {"failed", "auth_failed", "terminal"}
  Checks = {"none", "etag", "generation"}
  LossyActivities = {"create", "delete", "resume", "persist"}
  AttemptsRunOut = TRUE
  BufferedSignals = TRUE
  PoolChanges = TRUE
  MaxDisturbances = 1
  NoRow = NoRow
SYMMETRY Symmetry
INVARIANTS LockHeldByInstance CheckedResumesExclude InstallsTracked
PROPERTIES ImplementsContract RemovedOnlyWhenTornDown
CHECK_DEADLOCK FALSE
