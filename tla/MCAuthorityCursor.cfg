CONSTANTS
  i1 = i1
  i2 = i2
  b1 = b1
  b2 = b2
  p = p
  q = q
  r1 = r1
  NoArtifact = NoArtifact
  Issuers <- TwoIssuers
  Bodies = {b1}
  Targets = {p, q}
  Relays = {}
  Hints = {}
  OwnMap <- NoMap
  MaxTime = 0
  MaxCommands = 2
  Arguments <- CursorOnly
SPECIFICATION Spec
PROPERTIES
  RevocationsArrive
