SPECIFICATION Spec
CONSTANTS
  Targets = {t1, t2}
  MaxGeneration = 2
  Progress = {"progressing"}
  Results = {"delivered", "failed"}
  StablePlacement = TRUE
  LossySignals = {}
  AgentRestarts = {}
  MaxDisturbances = 0
  MaxRetries = 0
  NoRecord = NoRecord
SYMMETRY Symmetry
INVARIANTS TypeOK CycleOkMeansDone
CHECK_DEADLOCK FALSE
