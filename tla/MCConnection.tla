---------------------------- MODULE MCConnection ----------------------------
(* Instance for TLC.  Nodes 1 and 2 pin each other; a third set of keys    *)
(* has node 2's identity with a signing key nobody pinned.  The profiles   *)
(* have three candidates whose fallbacks form a chain, and differ in order *)
(* and budget; one has no direct endpoint.                                 *)
EXTENDS Connection, TLC

NodeA == [id |-> 1, sign |-> 1]
NodeB == [id |-> 2, sign |-> 2]
Rekeyed == [id |-> 2, sign |-> 3]

Symmetry == Permutations(Runs)

MCNodes == {NodeA, NodeB, Rekeyed}
MCPins == [n \in MCNodes |-> IF n = NodeA THEN {NodeB} ELSE {NodeA}]

Candidate(adapter, priority, allowed) ==
  [adapter |-> adapter, priority |-> priority, weight |-> 1, allowed |-> allowed]

Profile(order, most, budget) ==
  [mode |-> "auto", order |-> order, rounds |-> 2, max_total_attempts |-> most, max_elapsed |-> budget,
   adapter_order |-> <<"quic-standard">>,
   direct |-> <<Candidate("direct-tcp", 1, {"quic-standard"}), Candidate("quic-standard", 1, {"bridge-tls"})>>,
   bridges |-> <<Candidate("bridge-tls", 2, {})>>]

MCSnapProfiles ==
  {Profile("stable", 0, 4), Profile("rotate", 4, 0), Profile("shuffle", 0, 0),
   [Profile("stable", 0, 0) EXCEPT !.direct = <<>>]}
=============================================================================
