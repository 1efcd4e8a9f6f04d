SPECIFICATION FairSpec
CONSTANTS
  Targets = {t1}
  MaxGeneration = 2
  Progress = {"progressing"}
  Results = {"delivered", "failed"}
  StablePlacement = TRUE
  LossySignals = {"acked"}
  AgentRestarts = {"current"}
  MaxDisturbances = 2
  MaxRetries = 1
  NoRecord = NoRecord
INVARIANTS CycleOkMeansDone RecordIsTruthful
PROPERTY CycleEnds
CHECK_DEADLOCK FALSE
