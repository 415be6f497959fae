CONSTANTS
  i1 = i1
  b1 = b1
  b2 = b2
  local = local
  worker = worker
  fra = fra
  ams = ams
  mute = mute
  NoArtifact = NoArtifact
  NoRelay = NoRelay
  Issuers = {i1}
  Bodies = {b1, b2}
  Targets <- MCTargets
  Relays = {fra, ams, mute}
  Hints <- MCHints
  OwnMap <- MCOwnMap
  MaxTime = 1
  MaxCommands = 2
  Arguments <- BothWays
  RelayInfo <- MCRelayInfo
  Worker = worker
  Fra = fra
  Local = local
  Permitting = {b1}
  Window = 2
  StartNetchecks <- MCStartNetchecks
SPECIFICATION NodeSpec
INVARIANTS
  FactsCurrent
  PlansUsable
  DirectPreferred
PROPERTIES
  RevocationsEnforced
  ReprobeMovesByFinding
