----------------------------- MODULE AntiReplay -----------------------------
(***************************************************************************)
(* What a protected record channel promises its user: frames are numbered  *)
(* in the order they are written, and the receiver takes each frame at     *)
(* most once, out of order by at most `Reach` positions (Reach = 0: only   *)
(* in order).  How the receiver remembers what it took is left open.       *)
(***************************************************************************)
EXTENDS Integers

CONSTANT Limit   \* number of frames one key may protect

VARIABLES written,   \* number of frames written so far
          taken,     \* the numbers of the frames the receiver accepted
          reach      \* how far behind the newest frame a late one may be

Init == written = 0 /\ taken = {} /\ reach \in Nat

Write ==
  /\ written < Limit
  /\ written' = written + 1
  /\ UNCHANGED <<taken, reach>>

Take(n) ==
  /\ n \notin taken
  /\ \A m \in taken : m <= n + reach
  /\ taken' = taken \cup {n}
  /\ UNCHANGED <<written, reach>>

Next == Write \/ \E n \in 0 .. written - 1 : Take(n)

Spec == Init /\ [][Next]_<<written, taken, reach>>

=============================================================================
