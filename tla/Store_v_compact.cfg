SPECIFICATION Spec
CONSTANTS
  NoEntry = NoEntry
  Clients = {a, b}
  Keys = {k1}
  TTLs = {1}
  Adapters = {"bolt"}
  MsUnits = 1
  MaxTime = 3
  MaxReplays = 1
SYMMETRY ClientSymmetry
PROPERTIES
  OnlyExpiredRemoved
