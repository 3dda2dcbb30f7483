--------------------------- MODULE OrderedChannel ---------------------------
(***************************************************************************)
(* What a session promises to its user on a carrier that may lose, delay,  *)
(* duplicate and reorder: in each direction of each session a message is   *)
(* handed over at most once, only if it was sent, and never after a later  *)
(* one.  A message is [chan, n]: a direction of a session and the number   *)
(* of the message in it.                                                   *)
(***************************************************************************)
EXTENDS Naturals, Sequences

VARIABLES sent, got

vars == <<sent, got>>

Init == sent = {} /\ got = <<>>

After(m, earlier) == earlier.chan = m.chan => earlier.n < m.n

Send ==
  /\ \E m \in sent' : (\A e \in sent : After(m, e)) /\ sent' = sent \cup {m}
  /\ UNCHANGED got

Deliver ==
  /\ \E m \in sent : (\A i \in DOMAIN got : After(m, got[i])) /\ got' = Append(got, m)
  /\ UNCHANGED sent

\* A message handed over in the step that takes it.
Relay ==
  \E m \in sent' :
    /\ \A e \in sent : After(m, e)
    /\ \A i \in DOMAIN got : After(m, got[i])
    /\ sent' = sent \cup {m}
    /\ got' = Append(got, m)

Next == Send \/ Deliver \/ Relay

Spec == Init /\ [][Next]_vars
=============================================================================
