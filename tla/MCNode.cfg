CONSTANTS
  Hosts = {h1, h2}
  UpOptions <- MCUpOptions
  MaxUps = 2
  MaxHostFaults = 2
  MaxHostKills = 1
  Processes = {1, 2}
  MaxSaves = 3
  MaxStarts = 4
  Aliases = {1}
  PinValues = {1, 2}
  MaxStops = 2
  Writers = {1, 2}
  Keep = 3
  MaxEvents = 5
  MaxAuditFaults = 1
  Publishers = {p1, p2}
  Resolvers = {r1, r2}
  Lifetime = 1
  clock_skew_secs = 0
  MaxClock = 2
  MaxIssued = 2
  MAX_PROVIDER_ENTRIES = 3
  MAX_PROVIDER_RECORDS = 2
  MaxAborts = 1
  SHAMIR_PRIME = 257
  Secrets = {0, 255}
  FieldElements = {1, 129, 256}
  Policies <- MCPolicies
  MaxSplits = 2
SPECIFICATION NodeSpec
SYMMETRY Symmetry
CHECK_DEADLOCK FALSE
INVARIANTS HostRestored KillswitchHeld FilesSound AuditKept
  AcceptedChain AnyThresholdRecovers
