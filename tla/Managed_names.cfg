SPECIFICATION FairSpec
CONSTANTS
  Creators = {c1, c2}
  Deleters = {d1, d2}
  Resumers = {r1}
  LossyActivities = {"create"}
  BufferedSignals = FALSE
  Reports = TRUE
  MaxIncarnations = 2
  NoRow = NoRow
INVARIANTS TypeOK Paired
PROPERTIES GoneOnlyAfterTeardown TornDownIsRemoved
CHECK_DEADLOCK FALSE
