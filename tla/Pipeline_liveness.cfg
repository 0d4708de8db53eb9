SPECIFICATION FairSpec
CONSTANTS
  c1 = c1  c2 = c2  c3 = c3  t1 = t1  t2 = t2  t3 = t3  h1 = h1  h2 = h2
  alice = alice  bob = bob
  NoCall = NoCall  NoHash = NoHash  NoEntry = NoEntry  BadBody = BadBody
  Calls = {c1, c2}
  Tools = {t1, t2}
  Hashes = {h1}
  Callers = {alice}
  Policy <- Expiring
  Requests <- AskTwo
  Score <- Paraphrase
  NoIntent <- Nothing
  Embedder = FALSE
  Shadow = FALSE
  Seeded <- SeedOne
  Outcomes = {"ok", "empty", "fail", "error", "panic"}
  Faults = {"cancel", "crash"}
  MaxTime = 2
PROPERTIES
  CallsReturn
CHECK_DEADLOCK FALSE
