CONSTANTS
  a = a
  b = b
  x = x
  i1 = i1
  i2 = i2
  p1 = p1
  c1 = c1
  k1 = k1
  cycle = cycle
  control = control
  NoProtocol = NoProtocol
  NoSession = NoSession
  NoId = NoId
  NoCause = NoCause
  NoRoute = NoRoute
  NoAttempt = NoAttempt
  Ids = {x}
  AttemptIds = {x}
  Peers = {a, b}
  Protocols = {p1}
  Classes = {c1}
  SupportedClasses = {c1}
  Destinations <- MCDestinations
  Quotas <- MCQuotas
  Threads = {cycle, control}
  Keys = {k1}
  Target <- MCTarget
  LocalPeer = a
  DirectKinds = {"udp", "lan"}
  Causes <- MCCauses
  CallerStates <- MCCallerStates
  MaxTerminal = 1
  Cycle = cycle
  Control = control
  Key = k1
  MaxVersion = 3
  Allowing <- AllowingFour
  Denying = {3}
  Granting <- GrantingFour
  RouteOf <- RouteOfFour
  Migratable = {"udp", "lan"}
  MaxAttempts = 1
  SyncArg = TRUE
  DisableReconcile = FALSE
  MaxRequests = 1
SPECIFICATION DaemonSpec
PROPERTIES
  FactsArrive
  DeniedSessionEnds
  DenialShown
CHECK_DEADLOCK FALSE
