------------------------------- MODULE MCNode -------------------------------
(* Instance for TLC: two commands at a time on the host and its files.     *)
EXTENDS Node, TLC

MCUpOptions ==
  {{"killswitch", "native", "nat", "mss"}, {"killswitch"}, {"native", "nat"}}

MCPolicies ==
  {[threshold |-> 1, shares |-> 1], [threshold |-> 2, shares |-> 3], [threshold |-> 3, shares |-> 4]}

\* The processes on the host, the publishers and the resolvers are alike.
Symmetry == Permutations(Hosts) \cup Permutations(Publishers) \cup Permutations(Resolvers)
=============================================================================
