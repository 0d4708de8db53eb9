SPECIFICATION Spec
CONSTANTS
  Writers = {w1, w2, w3}
  Sinks <- FileOnly
  Capacity = 1
  FlushAt = 2
  Faults = {"io"}
  MaxTime = 1
SYMMETRY WriterSymmetry
INVARIANTS
  WriteNeverPanics
  SinksReport
CHECK_DEADLOCK FALSE
