SPECIFICATION FairSpec
CONSTANTS
  t1 = t1  t2 = t2  t3 = t3  h1 = h1  h2 = h2  r1 = r1  r2 = r2  r3 = r3
  NoTool = NoTool  BadArgs = BadArgs  NoId = NoId  NoHash = NoHash
  Ids = {r1, r2, r3}
  Tools = {t1, t2, t3}
  Hashes = {h1, h2}
  Mode <- Modes
  Similar <- Paraphrases
  Confirm = {t2}
  Closed = {t2}
  Limited = {}
  Requests <- AskBoth
  Shadow = FALSE
  Faults = {"exit", "eof"}
  Timeout = 1
PROPERTIES
  RoutedAnswered
  ImplementsCoalescing
CHECK_DEADLOCK FALSE
