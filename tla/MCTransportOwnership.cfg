CONSTANTS
  a = a
  b = b
  x = x
  i1 = i1
  i2 = i2
  i3 = i3
  p1 = p1
  c1 = c1
  k1 = k1
  NoProtocol = NoProtocol
  NoSession = NoSession
  NoId = NoId
  NoCause = NoCause
  Ids <- MCIds
  AttemptIds <- MCAttemptIds
  Peers <- MCPeers
  Protocols <- MCProtocols
  Classes <- MCClasses
  SupportedClasses <- MCClasses
  Destinations <- MCDestinations
  Quotas <- MCQuotas
  t1 = t1
  t2 = t2
  Threads <- MCThreads
  Keys <- MCKeys
  Target <- MCTarget
  LocalPeer = a
  DirectKinds = {"direct"}
  Causes = {}
  CallerStates = {"Closing"}
  MaxTerminal = 2
SPECIFICATION Spec
SYMMETRY Symmetry
PROPERTY
  MigrationKeepsOwnership
CHECK_DEADLOCK FALSE
