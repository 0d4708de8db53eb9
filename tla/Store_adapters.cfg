SPECIFICATION FairSpec
CONSTANTS
  NoEntry = NoEntry
  Clients = {a, b}
  Keys = {k1, k2}
  TTLs = {0, 1, 2}
  Adapters = {"memory", "bolt", "postgres"}
  MsUnits = 2
  MaxTime = 4
  MaxReplays = 1
INVARIANTS
  TypeOK
  SafePutSurvives
PROPERTIES
  ExpiredReclaimed
