SPECIFICATION Spec
CONSTANTS
  t1 = t1  t2 = t2  t3 = t3  h1 = h1  h2 = h2  r1 = r1  r2 = r2  r3 = r3
  NoTool = NoTool  BadArgs = BadArgs  NoId = NoId  NoHash = NoHash
  Ids = {r1, r2, r3}
  Tools = {t1, t2, t3}
  Hashes = {h1, h2}
  Mode <- Modes
  Similar <- Paraphrases
  Confirm = {}
  Closed = {}
  Limited = {}
  Requests <- AskOne
  Shadow = TRUE
  Faults = {}
  Timeout = 1
SYMMETRY IdSymmetry
INVARIANTS
  ShadowForwardsToChild
CHECK_DEADLOCK FALSE
