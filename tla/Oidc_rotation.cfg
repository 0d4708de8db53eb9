\* A connection's requests while the provider rotates twice.
SPECIFICATION FairSpec
CONSTANTS
  Requests = {q1}
  k1 = k1
  k2 = k2
  s1 = s1
  s2 = s2
  alice = alice
  NoBearer = NoBearer
  NoCaller = NoCaller
  Documents <- AllDocuments
  Tokens <- AllTokens
  MaxRotations = 2
INVARIANTS
  CacheIsOneDocument
  ServedBySeenKey
PROPERTIES
  RotationPickedUp
