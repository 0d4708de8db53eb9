SPECIFICATION SlowSpec
CONSTANTS
  Writers = {w1, w2}
  Sinks <- BothSinks
  Capacity = 1
  FlushAt = 2
  Faults = {"io", "encode", "slow"}
  MaxTime = 1
INVARIANTS
  TypeOK
  AcceptedAccounted
  CloseDrains
  UploadsApart
PROPERTIES
  CloseReturns
CHECK_DEADLOCK FALSE
