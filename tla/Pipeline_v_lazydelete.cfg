SPECIFICATION Spec
CONSTANTS
  c1 = c1  c2 = c2  c3 = c3  t1 = t1  t2 = t2  t3 = t3  h1 = h1  h2 = h2
  alice = alice  bob = bob
  NoCall = NoCall  NoHash = NoHash  NoEntry = NoEntry  BadBody = BadBody
  Calls = {c1, c2, c3}
  Tools = {t1}
  Hashes = {h1}
  Callers = {alice}
  Policy <- ExpiringTool
  Requests <- AskOne
  Score <- Paraphrase
  NoIntent <- Nothing
  Embedder = FALSE
  Shadow = FALSE
  Seeded <- SeedOne
  Outcomes = {"ok"}
  Faults = {}
  MaxTime = 2
SYMMETRY CallSymmetry
INVARIANTS
  DuplicateSuppressed
CHECK_DEADLOCK FALSE
