SPECIFICATION Spec
CONSTANTS
  Tools = {"a", "b"}
  Fields = {"f", "g"}
  Numerals <- MCNumerals
  OutOfRange = {"2"}
  Mantissa = 2
  Lines <- ManyLines
  MaxLines = 6
  Bodies <- MCBodies
INVARIANTS
  TypeOK
  ReadAsIndented
  EffectiveAsWritten
  FingerprintsTell
CHECK_DEADLOCK FALSE
