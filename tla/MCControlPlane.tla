--------------------------- MODULE MCControlPlane ---------------------------
(* Instances for TLC: a configuration with a bypass route, an address and  *)
(* DNS, and others with a route or a bypass route alone.                   *)
EXTENDS ControlPlane, TLC

Symmetry == Permutations(Procs)

MCBypassRoutes == <<"bypass">>
MCInterfaceCidr == <<"address">>
MCRoutes == <<"route">>
MCDnsServers == <<"dns">>

FullPlan == {"bypass", "address", "route", "dns"}
MCPlans == {{"bypass", "address", "dns"}, {"route"}, {"bypass"}}
OnePlan == {FullPlan}
BypassPlan == {{"bypass"}}
MCForeign == {"bypass", "route"}
=============================================================================
