CONSTANTS
  Procs = {p1}
  Commands = {"reconcile"}
  BypassRoutes <- MCBypassRoutes
  InterfaceCidr <- MCInterfaceCidr
  Routes <- MCRoutes
  DnsServers <- MCDnsServers
  Plans <- OnePlan
  Foreign = {}
  MaxFaults = 1
  MaxCrashes = 0
SPECIFICATION RepeatingSpec
PROPERTIES ReconcileRepeatable
