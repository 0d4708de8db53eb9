\* A provider that adds a key of a curve the verifier does not know.
SPECIFICATION Spec
CONSTANTS
  Requests = {q1}
  k1 = k1
  k2 = k2
  s1 = s1
  s2 = s2
  alice = alice
  NoBearer = NoBearer
  NoCaller = NoCaller
  Documents <- AllDocuments
  Tokens <- OneToken
  MaxRotations = 2
INVARIANTS
  AdditionsDontBreak
