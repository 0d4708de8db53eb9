SPECIFICATION Spec
CONSTANTS
  Tools = {"a", "b"}
  Fields = {"f", "g"}
  Numerals <- MCNumerals
  OutOfRange = {"2"}
  Mantissa = 2
  Lines <- OddLines
  MaxLines = 5
  Bodies <- MCBodies
INVARIANTS
  ZeroDisablesSemantic
  LoadedModesKnown
  DefaultRateHolds
  NumbersTold
CHECK_DEADLOCK FALSE
