CONSTANTS
  Procs = {p1}
  Commands = {"up"}
  BypassRoutes <- MCBypassRoutes
  InterfaceCidr <- MCInterfaceCidr
  Routes <- MCRoutes
  DnsServers <- MCDnsServers
  Plans <- BypassPlan
  Foreign = {}
  MaxFaults = 0
  MaxCrashes = 0
SPECIFICATION Spec
INVARIANTS BypassPersisted
