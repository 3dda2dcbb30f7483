\* Two worker slots and three connections let results queue up behind a full
\* worker set; the second connect of an address in a window needs a cookie and
\* the third is refused; an epoch ends while challenges are outstanding.
CONSTANTS
  Ips = {i1, i2}
  Ports = {1}
  PeerRateWindow = 2
  MaxConnects = 2
  CookieThreshold = 2
  MaxTrackedPeers = 1
  MaxWorkers = 2
  Deadline = 2
  PreauthTicks = 2
  EpochTicks = 2
  MaxConns = 3
  MaxSteps = 1
SPECIFICATION Spec
CHECK_DEADLOCK FALSE
INVARIANTS WorkerAccounting RateLimited EchoVerifies
PROPERTIES ListenerEnds
