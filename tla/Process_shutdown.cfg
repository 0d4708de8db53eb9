SPECIFICATION ProcFairSpec
CONSTANTS
  Writers = {w1, w2}
  Sinks <- S3Only
  Capacity = 1
  FlushAt = 2
  Faults = {"slow"}
  MaxTime = 1
  Setups <- MCSetups
INVARIANTS
  HandlersUndisturbed
  ExecutionsOnRecord
  NoOpenProxy
PROPERTIES
  StopsInTime
CHECK_DEADLOCK FALSE
