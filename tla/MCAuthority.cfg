CONSTANTS
  i1 = i1
  i2 = i2
  b1 = b1
  b2 = b2
  p = p
  q = q
  r1 = r1
  NoArtifact = NoArtifact
  Issuers <- TwoIssuers
  Bodies = {b1, b2}
  Targets = {p, q}
  Relays = {r1}
  Hints = {}
  OwnMap <- NoMap
  MaxTime = 1
  MaxCommands = 2
  Arguments <- BothWays
SPECIFICATION Spec
INVARIANTS
  AuthorityTypeOK
  SequencesUnique
PROPERTIES
  NoRollback
  RevocationsArriveInTurn
