-------------------------------- MODULE MCEdge --------------------------------
(* Instance for TLC.  Front door: five capabilities valid together, one    *)
(* more than the larger replay cache holds, bad ones that share the last   *)
(* one's nonce, and one that is not valid yet.  Server: one stream with up *)
(* to a byte more than the limit each way, and one without bytes beside    *)
(* it.  Onion: three relays, each configured for the next hop or not.      *)
EXTENDS Edge

Good(n) == [nonce |-> n, signed |-> TRUE, audience |-> TRUE, issued |-> 2, expires |-> 3]

MCCapabilities ==
  {Good(n) : n \in 1..5}
    \cup {[Good(5) EXCEPT !.signed = FALSE], [Good(5) EXCEPT !.audience = FALSE],
          [Good(5) EXCEPT !.expires = 4], [Good(6) EXCEPT !.issued = 5, !.expires = 6]}

MCOffers == [s \in Streams |-> IF s = 1 THEN MaxStreamBytes + 1 ELSE 0]

MCAllowed == [h \in Relays |-> {{h + 1}, {}}]
=============================================================================
