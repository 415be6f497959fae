CONSTANTS
  a = a
  b = b
  x = x
  i1 = i1
  i2 = i2
  p1 = p1
  c1 = c1
  k1 = k1
  cycle = cycle
  control = control
  NoProtocol = NoProtocol
  NoSession = NoSession
  NoId = NoId
  NoCause = NoCause
  NoRoute = NoRoute
  NoAttempt = NoAttempt
  Ids = {x, i1}
  AttemptIds = {x}
  Peers = {a, b}
  Protocols = {p1}
  Classes = {c1}
  SupportedClasses = {c1}
  Destinations <- MCDestinations
  Quotas <- MCQuotas
  Threads = {cycle, control}
  Keys = {k1}
  Target <- MCTarget
  LocalPeer = a
  DirectKinds = {"udp"}
  Causes <- MCCauses
  CallerStates <- MCCallerStates
  MaxTerminal = 1
  Cycle = cycle
  Control = control
  Key = k1
  MaxVersion = 2
  Allowing <- MCAllowing
  Denying = {2}
  Granting = {0, 1, 2}
  RouteOf <- MCRouteOf
  Migratable = {"udp"}
  MaxAttempts = 2
  SyncArg = FALSE
  DisableReconcile = TRUE
  MaxRequests = 1
SPECIFICATION InspectionSpec
INVARIANTS
  DaemonTypeOK
PROPERTIES
  Spec
  TargetSettles
  DiagnosisFair
  LastingTroubleNamed
CHECK_DEADLOCK FALSE
