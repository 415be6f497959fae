CONSTANTS
  a = a
  b = b
  i1 = i1
  i2 = i2
  i3 = i3
  i4 = i4
  p1 = p1
  c1 = c1
  c2 = c2
  NoProtocol = NoProtocol
  NoSession = NoSession
  Ids <- MCIds
  AttemptIds <- MCAttemptIds
  Peers <- MCPeers
  Protocols <- MCProtocols
  Classes <- MCClasses
  SupportedClasses <- MCSupportedClasses
  Destinations <- MCDestinations
  Quotas <- MCQuotas
SPECIFICATION Spec
INVARIANTS
  TypeOK
  QuotaRespected
PROPERTIES
  NoReopen
  ImplementsPool
