SPECIFICATION Spec
CONSTANTS
  Writers = {w1, w2, w3}
  Sinks <- S3Only
  Capacity = 1
  FlushAt = 2
  Faults = {}
  MaxTime = 1
SYMMETRY WriterSymmetry
INVARIANTS
  UploadsKept
CHECK_DEADLOCK FALSE
