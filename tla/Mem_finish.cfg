SPECIFICATION EngineSpec
CONSTANTS
  Starters = {s1, s2}
  Senders = {g1, g2}
  Capacity = 1
  MaxStarts = 3
INVARIANTS VacantSlotMeansResult
CHECK_DEADLOCK FALSE
