SPECIFICATION Spec
CONSTANTS
  c1 = c1  c2 = c2  c3 = c3  t1 = t1  t2 = t2  t3 = t3  h1 = h1  h2 = h2
  alice = alice  bob = bob
  NoCall = NoCall  NoHash = NoHash  NoEntry = NoEntry  BadBody = BadBody
  Calls = {c1, c2, c3}
  Tools = {t1, t2, t3}
  Hashes = {h1}
  Callers = {alice, bob}
  Policy <- Gates
  Requests <- AskGates
  Score <- Paraphrase
  NoIntent <- Nothing
  Embedder = FALSE
  Shadow = FALSE
  Seeded <- Nothing
  Outcomes = {"ok", "fail", "error", "panic"}
  Faults = {"cancel", "dial"}
  MaxTime = 1
SYMMETRY CallSymmetry
INVARIANTS
  TypeOK
  SingleFlight
  WaitersAttached
  DuplicateSuppressed
  RateBounded
  AuditNeverHidesExecution
  RepliesTellTheTruth
PROPERTIES
  InflightOwned
  ImplementsCoalescing
CHECK_DEADLOCK FALSE
