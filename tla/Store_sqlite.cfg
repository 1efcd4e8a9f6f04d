SPECIFICATION Spec
CONSTANTS
  Writers = {w1, w2, w3}
  Operations = {"delete", "resume", "persist", "acquire", "release"}
  Backend = "sqlite"
SYMMETRY Symmetry
INVARIANTS TypeOK NoMutationLost
PROPERTY CommitsAreAtomicSteps
CHECK_DEADLOCK FALSE
