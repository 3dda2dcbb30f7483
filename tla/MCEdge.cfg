CONSTANTS
  Tasks = {1, 2}
  Capabilities <- MCCapabilities
  MaxLifetime = 1
  ClockSkew = 1
  RateLimit = 1
  Capacities = {2, 4}
  MaxHalfSeconds = 7
  Handlers = {1, 2, 3}
  MaxLocal = 2
  MaxConns = 1
  MaxStreams = 1
  MaxConnects = 2
  Bundle = 3
  Streams = {1, 2}
  Offers <- MCOffers
  MaxStreamBytes = 1
  PipeRoom = 1
  ResponseQueue = 1
  IdleTimeout = 2
  Hops = 3
  Allowed <- MCAllowed
  ByteLimit = 3
  CopyBuffer = 2
SPECIFICATION Spec
CHECK_DEADLOCK FALSE
INVARIANTS CapabilityOnce PoolSound RelaysWhole
  QuotaHolds PathComplete
