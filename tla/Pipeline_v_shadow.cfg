SPECIFICATION Spec
CONSTANTS
  c1 = c1  c2 = c2  c3 = c3  t1 = t1  t2 = t2  t3 = t3  h1 = h1  h2 = h2
  alice = alice  bob = bob
  NoCall = NoCall  NoHash = NoHash  NoEntry = NoEntry  BadBody = BadBody
  Calls = {c1, c2}
  Tools = {t1, t2}
  Hashes = {h1}
  Callers = {alice, bob}
  Policy <- GatesLogOnly
  Requests <- AskLogOnly
  Score <- Paraphrase
  NoIntent <- Nothing
  Embedder = FALSE
  Shadow = TRUE
  Seeded <- Nothing
  Outcomes = {"ok"}
  Faults = {}
  MaxTime = 0
SYMMETRY CallSymmetry
INVARIANTS
  ShadowForwardsEveryCall
CHECK_DEADLOCK FALSE
