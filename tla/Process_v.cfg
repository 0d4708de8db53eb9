SPECIFICATION ProcSpec
CONSTANTS
  Writers = {w1, w2}
  Sinks <- S3Only
  Capacity = 1
  FlushAt = 2
  Faults = {"slow"}
  MaxTime = 1
  Setups <- MCSetups
INVARIANTS
  EveryExecutionLogged
  SignalHeeded
CHECK_DEADLOCK FALSE
