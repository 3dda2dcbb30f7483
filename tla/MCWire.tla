-------------------------------- MODULE MCWire --------------------------------
(***************************************************************************)
(* A small instance of Wire.  Offers 1 and 2 differ in what they prefer    *)
(* and in what each direction allows; 3 is weighted with a padding budget; *)
(* 4 belongs to another session; 5 has no cover and is unbound.            *)
(***************************************************************************)
EXTENDS Wire

MCModes == {"tcp", "quic", "phantom", "tcpframes", "udpframes", "udphello"} \cup MorphologyParts

MCProfiles == <<"low", "high">>

MCTiers == [p \in {"low", "high"} |-> IF p = "low" THEN <<3, 6>> ELSE <<5, 6>>]

MCJitter == [p \in {"low", "high"} |-> IF p = "low" THEN 1 ELSE 0]

MCCover == Some([interval |-> 1, idle |-> 2, maximum |-> 5, percent |-> 100])

Config(profile, bound, weights, budget) ==
  [profile |-> profile, min |-> 0, max |-> 4, bound |-> bound,
   weights |-> weights, budget |-> budget]

Use(frames, size) == [frames |-> frames, bytes |-> size]

MCOffers ==
  LET base == [binding |-> "session", supported |-> {"low", "high"},
               config |-> Config("low", TRUE, None, None), out |-> 6, in |-> 7,
               outBudget |-> Use(4, 9), inBudget |-> Use(3, 5), cover |-> MCCover]
  IN  << base,
         [base EXCEPT !.config.profile = "high", !.out = 7, !.in = 6,
                      !.outBudget = Use(3, 9), !.inBudget = Use(4, 8)],
         [base EXCEPT !.config.weights = Some(<<1, 2>>), !.config.budget = Some(3)],
         [base EXCEPT !.binding = "another"],
         [base EXCEPT !.config.bound = FALSE, !.supported = {"low"}, !.cover = None] >>

MCPairs ==
  [m \in {"tcp", "quic", "phantom"} |->
     CASE m = "tcp" -> {<<1, 2>>, <<2, 1>>, <<3, 3>>, <<1, 4>>, <<5, 5>>, <<1, 5>>}
       [] m = "quic" -> {<<2, 1>>, <<3, 3>>}
       [] m = "phantom" -> {<<0, 0>>, <<2, 2>>, <<1, 2>>, <<0, 2>>}]

MCThresholds ==
  [interactive_exit |-> 1, interactive_enter |-> 2, video_exit |-> 3, video_enter |-> 4,
   bulk_exit |-> 5, bulk_enter |-> 6]

MCBodies == <<1, 2, 1>>
=============================================================================
