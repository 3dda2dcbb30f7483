CONSTANTS
  WordBits = 2
  RequestedSize = 5
  MaxWindowSize = 8
  NonceLimit = 11
  Runs = {r1, r2, r3}
  Nodes <- MCNodes
  Pins <- MCPins
  TsWindow = 0
  MaxNow = 1
  Garbled = Garbled
  SnapProfiles <- MCSnapProfiles
  CandidateTimeout = 2
  backoff_base = 1
  backoff_max = 2
  PeerKeys = {1, 2}
  MaxRepins = 2
  max_attempts = 2
  Callers = {1, 2}
  DnsWorkers = {1}
  MAX_DNS_RESOLVER_QUEUE = 1
  MAX_RESOLVED_ADDRESSES = 2
  MaxCalls = 2
  MaxBytes = 2
SPECIFICATION ConnectionSpec
SYMMETRY Symmetry
CHECK_DEADLOCK FALSE
INVARIANTS NonceNeverReused AtMostOnce FreshNotRefused
  PeerAuthentic KeysPairUp
  PayloadAtMostOnce DialWithinPlan PinnedWhenUsed
  StreamAsAsked BridgeKeepsBytes
PROPERTY ImplementsAntiReplay
