SPECIFICATION FairSpec
CONSTANTS
  Requests = {r1, r2}
  Creator = creator
  Targets = {t1}
  StaticTargets = {t1}
  Accepting = {t1}
  PlacementType = "static"
  Outcomes = {"failed", "auth_failed", "terminal"}
  Checks = {"none"}
  LossyActivities = {"delete", "persist"}
  AttemptsRunOut = FALSE
  BufferedSignals = FALSE
  PoolChanges = FALSE
  MaxDisturbances = 1
  NoRow = NoRow
INVARIANTS TypeOK EveryGenerationDriven
PROPERTY ConvergesAsPromised
CHECK_DEADLOCK FALSE
