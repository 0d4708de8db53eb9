SPECIFICATION Spec
CONSTANTS
  t1 = t1  t2 = t2  t3 = t3  h1 = h1  h2 = h2  r1 = r1  r2 = r2  r3 = r3
  NoTool = NoTool  BadArgs = BadArgs  NoId = NoId  NoHash = NoHash
  Ids = {r1, r2, r3}
  Tools = {t1, t2, t3}
  Hashes = {h1, h2}
  Mode <- Modes
  Similar <- Paraphrases
  Confirm = {t2}
  Closed = {}
  Limited = {t2}
  Requests <- AskMixed
  Shadow = FALSE
  Faults = {"store", "embed", "forget", "exit", "cancel", "eof"}
  Timeout = 1
SYMMETRY IdSymmetry
INVARIANTS
  TypeOK
  FlightOwned
  CallsAccounted
  AnswersMatch
CHECK_DEADLOCK FALSE
