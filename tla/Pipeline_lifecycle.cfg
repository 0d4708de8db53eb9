SPECIFICATION Spec
CONSTANTS
  c1 = c1  c2 = c2  c3 = c3  t1 = t1  t2 = t2  t3 = t3  h1 = h1  h2 = h2
  alice = alice  bob = bob
  NoCall = NoCall  NoHash = NoHash  NoEntry = NoEntry  BadBody = BadBody
  Calls = {c1, c2}
  Tools = {t1, t2}
  Hashes = {h1, h2}
  Callers = {alice}
  Policy <- Expiring
  Requests <- AskExpiring
  Score <- Paraphrase
  NoIntent <- Nothing
  Embedder = TRUE
  Shadow = FALSE
  Seeded <- SeedExpiring
  Outcomes = {"ok", "text", "empty", "failtext", "error", "panic"}
  Faults = {"cancel", "store", "crash", "delete", "embed", "dial"}
  MaxTime = 2
SYMMETRY CallSymmetry
INVARIANTS
  CacheHoldsAnswers
  FlightInv
  ReplayProvenance
  RepliesCorrelate
CHECK_DEADLOCK FALSE
