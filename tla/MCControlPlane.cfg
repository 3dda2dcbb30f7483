CONSTANTS
  Procs = {p1, p2}
  Commands = {"apply", "reconcile", "undo", "up"}
  BypassRoutes <- MCBypassRoutes
  InterfaceCidr <- MCInterfaceCidr
  Routes <- MCRoutes
  DnsServers <- MCDnsServers
  Plans <- MCPlans
  Foreign <- MCForeign
  MaxFaults = 1
  MaxCrashes = 1
SPECIFICATION Spec
SYMMETRY Symmetry
INVARIANTS NothingForgotten
PROPERTIES ForeignKept
