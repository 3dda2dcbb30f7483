----------------------------- MODULE DialProofs -----------------------------
(***************************************************************************)
(* Proofs about a command that dials (SnapDial), for every profile, key    *)
(* and bound: the pin, the payload and the plan; and about the stream it   *)
(* gets (StreamSetup), for any number of callers, resolver threads and     *)
(* bytes: the TLS bridge and the calls with their name lookups.            *)
(***************************************************************************)
EXTENDS SnapDial, StreamSetup, FiniteSetTheorems, SequenceTheorems, TLAPS

(* --- the pin and the payload ----------------------------------------------- *)

DialFields == {"command", "carrier", "pc", "round", "queue", "previous", "candidate", "attempt",
               "elapsed", "policy", "sent", "runs"}

\* The pin: with the handshake done the present pin is among the pins in
\* force, and enforce_peer_policy compares it with the one dialled for.
PinKnown ==
  /\ DOMAIN dial = DialFields
  /\ dial.pc = "shaken" => pin \in pinned
  /\ dial.pc \in {"active", "sending", "acknowledging", "taken"} => dial.policy \in pinned

\* The payload: a payload that may have been taken is marked as sent, and a
\* command that has one with the peer has no attempt before it.
PayloadKnown ==
  /\ DOMAIN dial = DialFields
  /\ received \in {0, 1}
  /\ dial.pc \in {"sending", "acknowledging"} => dial.sent /\ dial.command \in {"send", "once"}
  /\ dial.pc = "taken" => dial.command = "recv" /\ received = 1
  /\ received = 1 => /\ dial.pc \in {"acknowledging", "taken", "ok", "error", "refused"}
                     /\ dial.command # "session"
  /\ dial.pc = "ok" /\ dial.command \in {"send", "once", "recv"} /\ Acknowledged => received = 1

\* A command begins with nothing sent and no peer in use.
LEMMA DialBegins ==
  ASSUME NEW on \in BOOLEAN, DialInit(on)
  PROVE  PinKnown /\ PayloadKnown
<1>1. DOMAIN dial = DialFields /\ dial.pc \in {"round", "connecting", "off"}
  <2>1. ASSUME NEW command, dial = Dialling(command, 1)
        PROVE  DOMAIN dial = DialFields /\ dial.pc = "round"
    BY <2>1, Zenon DEF Dialling, DialFields
  <2>2. ASSUME NEW command, NEW carry, dial = OneConnection(command, carry)
        PROVE  DOMAIN dial = DialFields /\ dial.pc = "connecting"
    BY <2>2, Zenon DEF OneConnection, Dialling, DialFields
  <2>3. ASSUME dial = [Dialling("send", 1) EXCEPT !.pc = "off"]
        PROVE  DOMAIN dial = DialFields /\ dial.pc = "off"
    BY <2>3, Zenon DEF Dialling, DialFields
  <2>4. \/ \E command : dial = Dialling(command, 1)
        \/ \E command, carry : dial = OneConnection(command, carry)
        \/ dial = [Dialling("send", 1) EXCEPT !.pc = "off"]
    BY DEF DialInit
  <2>5. QED
    BY <2>1, <2>2, <2>3, <2>4, Zenon
<1>2. received = 0
  BY Zenon DEF DialInit
<1>3. QED
  BY <1>1, <1>2 DEF PinKnown, PayloadKnown

\* Every step keeps what is known of the pin.
LEMMA PinKept ==
  ASSUME PinKnown, [DialNext]_dialVars
  PROVE  PinKnown'
<1>1. CASE BeginRound
  BY <1>1, Zenon DEF BeginRound, PinKnown, KeptWhileDialling, Goes, DialFields
<1>2. CASE EndRound
  BY <1>2, Zenon DEF EndRound, PinKnown, KeptWhileDialling, Goes, DialFields
<1>3. CASE TakeCandidate
  BY <1>3, Zenon DEF TakeCandidate, PinKnown, DialFields
<1>4. CASE connect_snap_candidate
  BY <1>4, Zenon DEF connect_snap_candidate, AttemptFails, PinKnown, DialFields
<1>5. CASE Enforce
  BY <1>5, Zenon DEF Enforce, enforce_peer_policy, AttemptFails, KeptWhileDialling, Goes, PinKnown, DialFields
<1>6. CASE SendPayload
  BY <1>6, Zenon DEF SendPayload, AttemptFails, PinKnown, DialFields
<1>7. CASE PayloadArrives
  BY <1>7, Zenon DEF PayloadArrives, AttemptFails, Goes, PinKnown, DialFields
<1>8. CASE recv_control
  BY <1>8, Zenon DEF recv_control, AttemptFails, KeptWhileDialling, Goes, PinKnown, DialFields
<1>9. CASE DialOnce
  BY <1>9, Zenon DEF DialOnce, connect_secure_session, Goes, PinKnown, DialFields
<1>10. CASE handle_connect
  BY <1>10, Zenon DEF handle_connect, connect_secure_session, Goes, PinKnown, DialFields
<1>11. CASE handle_listen
  BY <1>11, Zenon DEF handle_listen, accept_secure_session, Goes, PinKnown, DialFields
<1>12. CASE AcceptOnce
  BY <1>12, Zenon DEF AcceptOnce, accept_secure_session, Goes, PinKnown, DialFields
<1>13. CASE TakePayload
  BY <1>13, Zenon DEF TakePayload, Goes, PinKnown, DialFields
<1>14. CASE SessionBreaks
  BY <1>14, Zenon DEF SessionBreaks, KeptWhileDialling, Goes, PinKnown, DialFields
<1>15. CASE run_with_reconnect
  BY <1>15 DEF run_with_reconnect, Dialling, Goes, PinKnown, DialFields
<1>16. CASE RequestShutdown
  BY <1>16, Zenon DEF RequestShutdown, PinKnown
<1>17. CASE Repin
  BY <1>17, Zenon DEF Repin, PinKnown
<1>18. CASE UNCHANGED dialVars
  BY <1>18, Zenon DEF dialVars, PinKnown
<1>19. QED
  BY <1>1, <1>2, <1>3, <1>4, <1>5, <1>6, <1>7, <1>8, <1>9, <1>10, <1>11, <1>12, <1>13, <1>14,
     <1>15, <1>16, <1>17, <1>18 DEF DialNext

\* What may have been sent is not tried again.
LEMMA SentEnds ==
  ASSUME DOMAIN dial = DialFields, dial.sent, NEW error, NEW d, AttemptFails(error, d)
  PROVE  /\ DOMAIN dial' = DialFields
         /\ dial'.pc \in {"refused", "error"}
         /\ dial'.command = dial.command
BY Zenon DEF AttemptFails, snap_attempt_error_is_retryable, DialFields

\* Every step keeps what is known of the payload.
LEMMA PayloadKept ==
  ASSUME PayloadKnown, [DialNext]_dialVars
  PROVE  PayloadKnown'
<1>1. CASE BeginRound
  BY <1>1, Zenon DEF BeginRound, PayloadKnown, KeptWhileDialling, Goes, DialFields, Acknowledged
<1>2. CASE EndRound
  BY <1>2, Zenon DEF EndRound, PayloadKnown, KeptWhileDialling, Goes, DialFields, Acknowledged
<1>3. CASE TakeCandidate
  BY <1>3, Zenon DEF TakeCandidate, PayloadKnown, DialFields, Acknowledged
<1>4. CASE connect_snap_candidate
  BY <1>4, Zenon DEF connect_snap_candidate, AttemptFails, PayloadKnown, DialFields, Acknowledged
<1>5. CASE Enforce
  BY <1>5, Zenon DEF Enforce, AttemptFails, KeptWhileDialling, Goes, PayloadKnown, DialFields, Acknowledged
<1>6. CASE SendPayload
  BY <1>6, Zenon DEF SendPayload, AttemptFails, PayloadKnown, DialFields, Acknowledged
<1>7. CASE PayloadArrives
  <2>1. received = 0 /\ received' \in {0, 1} /\ snap' = snap
    BY <1>7 DEF PayloadArrives, PayloadKnown
  <2>2. CASE Goes(IF Acknowledged THEN "acknowledging" ELSE "ok")
    <3>1. /\ DOMAIN dial' = DialFields /\ dial'.command = dial.command /\ dial'.sent = dial.sent
          /\ dial'.pc = IF Acknowledged THEN "acknowledging" ELSE "ok"
          /\ Acknowledged' = Acknowledged
      BY <2>1, <2>2, Zenon DEF Goes, PayloadKnown, DialFields, Acknowledged, Planned
    <3>2. QED
      BY <1>7, <2>1, <3>1, Zenon DEF PayloadArrives, PayloadKnown
  <2>3. CASE \E error \in Errors, d \in 0..CandidateTimeout : AttemptFails(error, d)
    BY <1>7, <2>1, <2>3, SentEnds, Zenon DEF PayloadArrives, PayloadKnown
  <2>4. QED
    BY <1>7, <2>2, <2>3, Zenon DEF PayloadArrives
<1>8. CASE recv_control
  <2>1. CASE received > 0 /\ Goes("ok")
    BY <1>8, <2>1 DEF recv_control, KeptWhileDialling, Goes, PayloadKnown, DialFields
  <2>2. CASE \E error \in Errors, d \in 0..CandidateTimeout : AttemptFails(error, d)
    BY <1>8, <2>2, SentEnds, Zenon DEF recv_control, KeptWhileDialling, PayloadKnown
  <2>3. QED
    BY <1>8, <2>1, <2>2, Zenon DEF recv_control
<1>9. CASE DialOnce
  BY <1>9, Zenon DEF DialOnce, connect_secure_session, Goes, PayloadKnown, DialFields, Acknowledged, Planned
<1>10. CASE handle_connect
  BY <1>10, Zenon DEF handle_connect, connect_secure_session, Goes, PayloadKnown, DialFields, Acknowledged
<1>11. CASE handle_listen
  BY <1>11, Zenon DEF handle_listen, accept_secure_session, Goes, PayloadKnown, DialFields, Acknowledged
<1>12. CASE AcceptOnce
  BY <1>12, Zenon DEF AcceptOnce, accept_secure_session, Goes, PayloadKnown, DialFields, Acknowledged
<1>13. CASE TakePayload
  <2>1. CASE dial.pc = "active" /\ Goes("error") /\ UNCHANGED received
    BY <1>13, <2>1, Zenon DEF TakePayload, Goes, PayloadKnown, DialFields
  <2>2. CASE dial.pc = "active" /\ Goes("taken") /\ received' = received + 1
    BY <1>13, <2>2 DEF TakePayload, Goes, PayloadKnown, DialFields
  <2>3. CASE dial.pc = "taken" /\ UNCHANGED received /\ Goes("error")
    BY <1>13, <2>3, Zenon DEF TakePayload, Goes, PayloadKnown, DialFields
  <2>4. CASE /\ dial.pc = "taken" /\ UNCHANGED received
             /\ dial' = [dial EXCEPT !.pc = "ok", !.sent = Acknowledged]
    BY <1>13, <2>4, Zenon DEF TakePayload, PayloadKnown, DialFields
  <2>5. QED
    BY <1>13, <2>1, <2>2, <2>3, <2>4, Zenon DEF TakePayload
<1>14. CASE SessionBreaks
  BY <1>14, Zenon DEF SessionBreaks, Session, KeptWhileDialling, Goes, PayloadKnown, DialFields, Acknowledged
<1>15. CASE run_with_reconnect
  BY <1>15 DEF run_with_reconnect, Session, Dialling, Goes, PayloadKnown, DialFields, Acknowledged
<1>16. CASE RequestShutdown
  BY <1>16, Zenon DEF RequestShutdown, PayloadKnown, Acknowledged, Planned
<1>17. CASE Repin
  BY <1>17, Zenon DEF Repin, PayloadKnown, Acknowledged, Planned
<1>18. CASE UNCHANGED dialVars
  BY <1>18, Zenon DEF dialVars, PayloadKnown, Acknowledged, Planned
<1>19. QED
  BY <1>1, <1>2, <1>3, <1>4, <1>5, <1>6, <1>7, <1>8, <1>9, <1>10, <1>11, <1>12, <1>13, <1>14,
     <1>15, <1>16, <1>17, <1>18 DEF DialNext

(* --- the order of the candidates ------------------------------------------- *)

\* A strict total order of 1..n, as a set of pairs.
StrictOrder(R, n) ==
  /\ \A i \in 1..n : <<i, i>> \notin R
  /\ \A i, j, k \in 1..n : <<i, j>> \in R /\ <<j, k>> \in R => <<i, k>> \in R
  /\ \A i, j \in 1..n : i # j => <<i, j>> \in R \/ <<j, i>> \in R

\* Each place of a strict order of n numbers is taken.
LEMMA EveryPlaceIsTaken ==
  ASSUME NEW n \in Nat, NEW R, StrictOrder(R, n), NEW k \in 1..n
  PROVE  \E i \in 1..n : Cardinality({j \in 1..n : <<j, i>> \in R}) = k - 1
<1> DEFINE Below(i) == {j \in 1..n : <<j, i>> \in R}
           rank == [i \in 1..n |-> Cardinality(Below(i))]
<1>1. IsFiniteSet(1..n) /\ Cardinality(1..n) = n
  BY FS_Interval
<1>2. ASSUME NEW i \in 1..n
      PROVE  IsFiniteSet(Below(i)) /\ Cardinality(Below(i)) \in 0 .. n - 1
  <2>1. IsFiniteSet((1..n) \ {i}) /\ Cardinality((1..n) \ {i}) = n - 1
    BY <1>1, FS_RemoveElement, Zenon
  <2>2. Below(i) \subseteq (1..n) \ {i}
    BY Zenon DEF StrictOrder
  <2> HIDE DEF Below
  <2>3. IsFiniteSet(Below(i)) /\ Cardinality(Below(i)) <= n - 1
    BY <2>1, <2>2, FS_Subset
  <2>4. Cardinality(Below(i)) \in Nat
    BY <2>3, FS_CardinalityType, Zenon
  <2>5. QED
    BY <2>3, <2>4
<1>3. ASSUME NEW i \in 1..n, NEW j \in 1..n, <<i, j>> \in R
      PROVE  Cardinality(Below(i)) # Cardinality(Below(j))
  <2>1. Below(i) \subseteq Below(j)
    BY <1>3, Zenon DEF StrictOrder
  <2>2. i \in Below(j) /\ i \notin Below(i)
    BY <1>3, Zenon DEF StrictOrder
  <2>3. IsFiniteSet(Below(j))
    BY <1>2, Zenon
  <2>4. Cardinality(Below(j)) = Cardinality(Below(i)) => Below(j) = Below(i)
    BY <2>1, <2>3, FS_Subset, Zenon
  <2>5. QED
    BY <2>2, <2>4, Zenon
<1>4. ASSUME NEW i \in 1..n, NEW j \in 1..n, i # j
      PROVE  Cardinality(Below(i)) # Cardinality(Below(j))
  <2> HIDE DEF Below
  <2>1. <<i, j>> \in R \/ <<j, i>> \in R
    BY <1>4, Zenon DEF StrictOrder
  <2>2. QED
    BY <1>3, <2>1, Zenon
<1> SUFFICES ASSUME \A i \in 1..n : Cardinality(Below(i)) # k - 1 PROVE FALSE
  BY Zenon
<1> HIDE DEF Below
<1>5. rank \in [1..n -> (0 .. n - 1) \ {k - 1}]
  BY <1>2, Zenon
<1>6. IsFiniteSet((0 .. n - 1) \ {k - 1}) /\ Cardinality((0 .. n - 1) \ {k - 1}) = n - 1
  <2>1. PICK m, T : m \in Nat /\ m = n - 1 /\ T = 0..m /\ k - 1 \in T
    OBVIOUS
  <2>2. IsFiniteSet(T) /\ Cardinality(T) = m + 1
    BY <2>1, FS_Interval
  <2>3. PICK e : e = k - 1
    BY Zenon
  <2>4. IsFiniteSet(T \ {e}) /\ Cardinality(T \ {e}) = Cardinality(T) - 1
    BY <2>1, <2>2, <2>3, FS_RemoveElement, Zenon
  <2>5. QED
    BY <2>1, <2>2, <2>3, <2>4
<1>7. \E i, j \in 1..n : i # j /\ rank[i] = rank[j]
  <2>1. Cardinality((0 .. n - 1) \ {k - 1}) < Cardinality(1..n)
    BY <1>1, <1>6
  <2> HIDE DEF rank
  <2>2. QED
    BY <1>1, <1>5, <1>6, <2>1, FS_PigeonHole
<1>8. QED
  BY <1>4, <1>7, Zenon

\* The candidates of a profile are a sequence of candidates.
LEMMA CandidatesTyped ==
  ASSUME NEW p, SnapProfile(p)
  PROVE  candidates(p) \in Seq(SnapCandidate)
<1>1. PeerItself \in SnapCandidate
  BY Zenon DEF PeerItself, SnapCandidate, KNOWN_ADAPTERS
<1>2. <<>> \in Seq(SnapCandidate) /\ <<PeerItself>> \in Seq(SnapCandidate)
  BY <1>1
<1>3. QED
  BY <1>2 DEF candidates, SnapProfile

\* The rank of an adapter is a number.
LEMMA RankTyped ==
  ASSUME NEW p, SnapProfile(p), NEW adapter
  PROVE  adapter_rank(p, adapter) \in Nat
<1> DEFINE at == {i \in DOMAIN p.adapter_order : p.adapter_order[i] = adapter}
<1>1. Len(p.adapter_order) \in Nat /\ DOMAIN p.adapter_order = 1..Len(p.adapter_order)
  BY DEF SnapProfile
<1>2. CASE at = {}
  BY <1>1, <1>2 DEF adapter_rank
<1>3. CASE at # {}
  <2>1. (CHOOSE i \in at : TRUE) \in at
    BY <1>3, Zenon
  <2>2. QED
    BY <1>1, <1>3, <2>1 DEF adapter_rank
<1>4. QED
  BY <1>2, <1>3, Zenon

\* Lexicographic order of four numbers.
LexLess(a, b) ==
  \E k \in 1..4 : a[k] < b[k] /\ \A l \in 1..(k - 1) : a[l] = b[l]

Less4(a, b) ==
  \/ a[1] < b[1]
  \/ a[1] = b[1] /\ a[2] < b[2]
  \/ a[1] = b[1] /\ a[2] = b[2] /\ a[3] < b[3]
  \/ a[1] = b[1] /\ a[2] = b[2] /\ a[3] = b[3] /\ a[4] < b[4]

\* The quantified form of the order and the spelled-out one agree.
LEMMA LexIsLess4 ==
  ASSUME NEW a, NEW b
  PROVE  LexLess(a, b) <=> Less4(a, b)
<1>1. 1..4 = {1, 2, 3, 4} /\ 1..(1 - 1) = {} /\ 1..(2 - 1) = {1} /\ 1..(3 - 1) = {1, 2} /\ 1..(4 - 1) = {1, 2, 3}
  OBVIOUS
<1>2. LexLess(a, b) <=> \/ a[1] < b[1] /\ \A l \in 1..(1 - 1) : a[l] = b[l]
                        \/ a[2] < b[2] /\ \A l \in 1..(2 - 1) : a[l] = b[l]
                        \/ a[3] < b[3] /\ \A l \in 1..(3 - 1) : a[l] = b[l]
                        \/ a[4] < b[4] /\ \A l \in 1..(4 - 1) : a[l] = b[l]
  BY <1>1, Zenon DEF LexLess
<1>3. QED
  BY <1>1, <1>2, Zenon DEF Less4

Numbers(a) == a[1] \in Int /\ a[2] \in Int /\ a[3] \in Int /\ a[4] \in Int

\* The order is transitive.
LEMMA Less4IsTransitive ==
  ASSUME NEW a, NEW b, NEW c, Numbers(a), Numbers(b), Numbers(c), Less4(a, b), Less4(b, c)
  PROVE  Less4(a, c)
BY DEF Less4, Numbers

\* The order tells two keys apart that differ in the insertion index.
LEMMA Less4IsTotal ==
  ASSUME NEW a, NEW b, Numbers(a), Numbers(b), a[4] # b[4]
  PROVE  Less4(a, b) \/ Less4(b, a)
BY DEF Less4, Numbers

InjectiveOrder(q, n) == q \in [1..n -> 1..n] /\ \A i, j \in 1..n : q[i] = q[j] => i = j

\* stable_plan is a permutation of the candidates.
LEMMA PlanIsAnOrder ==
  ASSUME NEW p, SnapProfile(p)
  PROVE  Len(candidates(p)) \in Nat /\ InjectiveOrder(plan(p), Len(candidates(p)))
<1> DEFINE all == candidates(p)
           n == Len(all)
           Key(i) == <<all[i].priority, adapter_rank(p, all[i].adapter), -all[i].weight, i>>
           Before(i, j) == \E k \in 1..4 : /\ Key(i)[k] < Key(j)[k]
                                           /\ \A l \in 1..(k - 1) : Key(i)[l] = Key(j)[l]
           R == {e \in (1..n) \X (1..n) : Before(e[1], e[2])}
           Below(i) == {j \in 1..n : Before(j, i)}
<1>1. n \in Nat /\ DOMAIN all = 1..n /\ \A i \in 1..n : all[i] \in SnapCandidate
  BY CandidatesTyped
<1>2. plan(p) = [k \in 1..n |-> CHOOSE i \in 1..n : Cardinality(Below(i)) = k - 1]
  BY <1>1 DEF plan
<1>3. \A i \in 1..n : /\ Key(i)[1] \in Int /\ Key(i)[2] \in Int /\ Key(i)[3] \in Int /\ Key(i)[4] = i
  BY <1>1, RankTyped DEF SnapCandidate
<1> HIDE DEF Key
<1>4. ASSUME NEW i \in 1..n PROVE Numbers(Key(i))
  BY <1>3 DEF Numbers
<1>5. \A i, j \in 1..n : Before(i, j) <=> Less4(Key(i), Key(j))
  BY LexIsLess4, Zenon DEF LexLess
<1> HIDE DEF Before
<1>6. StrictOrder(R, n)
  <2>1. \A i, j \in 1..n : <<i, j>> \in R <=> Less4(Key(i), Key(j))
    BY <1>5, Zenon
  <2> HIDE DEF R
  <2>2. \A i \in 1..n : ~ Less4(Key(i), Key(i))
    BY <1>3 DEF Less4
  <2>3. ASSUME NEW i \in 1..n, NEW j \in 1..n, NEW k \in 1..n,
               Less4(Key(i), Key(j)), Less4(Key(j), Key(k))
        PROVE  Less4(Key(i), Key(k))
    <3>1. PICK a, b, c : a = Key(i) /\ b = Key(j) /\ c = Key(k)
      BY Zenon
    <3>2. Numbers(a) /\ Numbers(b) /\ Numbers(c)
      BY <1>4, <3>1, Zenon
    <3>3. QED
      BY <2>3, <3>1, <3>2, Less4IsTransitive, Zenon
  <2>4. \A i, j \in 1..n : i # j => Less4(Key(i), Key(j)) \/ Less4(Key(j), Key(i))
    <3>1. ASSUME NEW i \in 1..n, NEW j \in 1..n, i # j
          PROVE  Less4(Key(i), Key(j)) \/ Less4(Key(j), Key(i))
      <4>1. PICK a, b : a = Key(i) /\ b = Key(j)
        BY Zenon
      <4>2. Numbers(a) /\ Numbers(b) /\ a[4] # b[4]
        BY <1>3, <1>4, <3>1, <4>1, Zenon
      <4>3. QED
        BY <4>1, <4>2, Less4IsTotal, Zenon
    <3>2. QED
      BY <3>1, Zenon
  <2>5. QED
    BY <2>1, <2>2, <2>3, <2>4, Zenon DEF StrictOrder
<1>7. \A i \in 1..n : Below(i) = {j \in 1..n : <<j, i>> \in R}
  BY Zenon
<1>8. \A k \in 1..n : \E i \in 1..n : Cardinality(Below(i)) = k - 1
  <2> HIDE DEF R, Below, n
  <2>1. ASSUME NEW k \in 1..n PROVE \E i \in 1..n : Cardinality(Below(i)) = k - 1
    <3>1. PICK i \in 1..n : Cardinality({j \in 1..n : <<j, i>> \in R}) = k - 1
      BY <1>1, <1>6, EveryPlaceIsTaken, Zenon
    <3>2. QED
      BY <1>7, <3>1, Zenon
  <2>2. QED
    BY <2>1, Zenon
<1> HIDE DEF Below, n
<1>9. \A k \in 1..n : plan(p)[k] \in 1..n /\ Cardinality(Below(plan(p)[k])) = k - 1
  BY <1>2, <1>8, Zenon
<1>10. \A i, j \in 1..n : plan(p)[i] = plan(p)[j] => i = j
  BY <1>1, <1>9
<1>11. plan(p) \in [1..n -> 1..n]
  BY <1>2, <1>9, Zenon
<1>12. QED
  BY <1>1, <1>10, <1>11, Zenon DEF InjectiveOrder, n

\* A rotation of a round is one, too.
LEMMA RotationIsInjective ==
  ASSUME NEW n \in Nat, n > 0, NEW r \in Nat, NEW i \in 1..n, NEW j \in 1..n,
         (i + r - 2) % n = (j + r - 2) % n
  PROVE  i = j
<1>1. PICK a \in Int, b \in Int : a = i + r - 2 /\ b = j + r - 2
  OBVIOUS
<1>2. a = n * (a \div n) + (a % n) /\ a % n \in 0 .. n - 1 /\ a \div n \in Int
  OBVIOUS
<1>3. b = n * (b \div n) + (b % n) /\ b % n \in 0 .. n - 1 /\ b \div n \in Int
  OBVIOUS
<1>4. PICK x \in Int, y \in Int : x = a \div n /\ y = b \div n
  BY <1>2, <1>3, Zenon
<1>5. a - b = n * x - n * y
  BY <1>1, <1>2, <1>3, <1>4
<1>6. a - b = n * (x - y)
  BY <1>5
<1>7. a - b < n /\ b - a < n
  BY <1>1
<1>8. x = y
  <2>1. CASE x - y >= 1
    BY <1>6, <1>7, <2>1
  <2>2. CASE y - x >= 1
    BY <1>6, <1>7, <2>2
  <2>3. QED
    BY <2>1, <2>2
<1>9. QED
  BY <1>1, <1>6, <1>8

\* So is the order of each round, whether stable, rotated or shuffled.
LEMMA RoundsAreOrders ==
  ASSUME NEW p, SnapProfile(p), NEW round \in Nat, NEW q \in ordered_round(p, round)
  PROVE  \E n \in Nat : InjectiveOrder(q, n)
<1>1. PICK n, order : /\ n \in Nat /\ n = Len(candidates(p)) /\ order = plan(p) /\ InjectiveOrder(order, n)
  BY PlanIsAnOrder, Zenon
<1>2. Len(order) = n /\ Len(plan(p)) = n
  BY <1>1 DEF InjectiveOrder
<1>3. CASE q = order
  BY <1>1, <1>3, Zenon
<1>4. CASE n > 0 /\ q = [i \in 1..n |-> order[((i + round - 2) % n) + 1]]
  <2>1. \A i \in 1..n : ((i + round - 2) % n) + 1 \in 1..n
    BY <1>1, <1>4
  <2>2. \A i \in 1..n : q[i] = order[((i + round - 2) % n) + 1]
    BY <1>4, Zenon
  <2>3. q \in [1..n -> 1..n]
    BY <1>1, <1>4, <2>1, Zenon DEF InjectiveOrder
  <2>4. ASSUME NEW i \in 1..n, NEW j \in 1..n, q[i] = q[j] PROVE i = j
    <3>1. PICK k \in 1..n, l \in 1..n : k = ((i + round - 2) % n) + 1 /\ l = ((j + round - 2) % n) + 1
      BY <2>1, Zenon
    <3>2. k = l
      BY <1>1, <2>2, <2>4, <3>1 DEF InjectiveOrder
    <3>3. (i + round - 2) % n = (j + round - 2) % n
      <4>1. PICK x \in Int, y \in Int : x = (i + round - 2) % n /\ y = (j + round - 2) % n
        BY <1>1, <1>4
      <4>2. QED
        BY <3>1, <3>2, <4>1
    <3>4. QED
      BY <1>1, <1>4, <3>3, RotationIsInjective, Zenon
  <2>5. QED
    BY <1>1, <2>3, <2>4, Zenon DEF InjectiveOrder
<1>5. CASE q \in python_seeded_shuffle(n)
  BY <1>1, <1>5, Zenon DEF python_seeded_shuffle, InjectiveOrder
<1>6. \/ q = order
      \/ n > 0 /\ q = [i \in 1..n |-> order[((i + round - 2) % n) + 1]]
      \/ q \in python_seeded_shuffle(n)
  <2>1. p.order \in {"stable", "rotate", "shuffle"}
    BY Zenon DEF SnapProfile
  <2>2. CASE n <= 1 \/ p.order = "stable"
    <3>1. ordered_round(p, round) = {plan(p)}
      BY <1>2, <2>2, Zenon DEF ordered_round
    <3>2. QED
      BY <1>1, <3>1, Zenon
  <2>3. CASE ~ (n <= 1 \/ p.order = "stable") /\ p.order = "rotate"
    BY <1>1, <1>2, <2>3 DEF ordered_round
  <2>4. CASE ~ (n <= 1 \/ p.order = "stable") /\ p.order = "shuffle"
    BY <1>1, <1>2, <2>4, Zenon DEF ordered_round
  <2>5. QED
    BY <2>1, <2>2, <2>3, <2>4, Zenon
<1>7. QED
  BY <1>3, <1>4, <1>5, <1>6, Zenon

\* attempt_limit is a number.
LEMMA LimitTyped ==
  ASSUME NEW p, SnapProfile(p) PROVE attempt_limit(p) \in Nat
<1>1. PICK n \in Nat, r \in Nat : n = Len(candidates(p)) /\ r = p.rounds
  BY PlanIsAnOrder, Zenon DEF SnapProfile
<1>2. n * r \in Nat
  OBVIOUS
<1>3. QED
  BY <1>1, <1>2, Zenon DEF attempt_limit, SnapProfile

(* --- the plan ---------------------------------------------------------------- *)

Attempts == Nat \X (Nat \ {0}) \X Nat

\* The parts of an attempt.
LEMMA AttemptFields ==
  /\ \A e \in Attempts : e[1] \in Nat /\ e[2] \in Nat \ {0} /\ e[3] \in Nat
  /\ \A a \in Nat, b \in Nat \ {0}, c \in Nat : <<a, b, c>> \in Attempts
BY Zenon DEF Attempts

DialTyped ==
  /\ DOMAIN dial = DialFields /\ snap \in SnapProfiles
  /\ dial.round \in Nat /\ dial.attempt \in Nat /\ dial.elapsed \in Nat /\ dial.candidate \in Nat
  /\ dial.queue \in Seq(Nat \ {0}) /\ tried \in Seq(Attempts)

\* The candidates still to come in the round differ from each other and from
\* those the round has tried.
QueueKnown ==
  /\ \A i, j \in DOMAIN dial.queue : dial.queue[i] = dial.queue[j] => i = j
  /\ \A i \in DOMAIN tried, k \in DOMAIN dial.queue :
       tried[i][1] = dial.round => tried[i][2] # dial.queue[k]

\* What was tried was tried in this round or before, and the failed candidate
\* that restricts the next one is the last that the round has tried.
RoundKnown ==
  /\ \A i \in DOMAIN tried : /\ tried[i][1] <= dial.round
                             /\ dial.pc = "round" => tried[i][1] < dial.round
  /\ tried # <<>> /\ tried[Len(tried)][1] = dial.round =>
       /\ dial.candidate = tried[Len(tried)][2]
       /\ dial.pc = "candidate" => dial.previous = dial.candidate

PlanKnown ==
  /\ DialTyped /\ QueueKnown /\ RoundKnown
  /\ Len(tried) = dial.attempt
  /\ DialWithinPlan

\* A dial that has tried nothing.
FreshDial ==
  /\ DOMAIN dial = DialFields /\ snap \in SnapProfiles /\ tried = <<>>
  /\ dial.round = 1 /\ dial.attempt = 0 /\ dial.elapsed = 0 /\ dial.candidate = 0 /\ dial.queue = <<>>

\* A fresh dial is within its plan.
LEMMA FreshIsPlanned == FreshDial => PlanKnown
<1> SUFFICES ASSUME FreshDial PROVE PlanKnown
  BY Zenon
<1>1. DialTyped
  BY DEF FreshDial, DialTyped
<1>2. Len(tried) = 0 /\ DOMAIN tried = {} /\ DOMAIN dial.queue = {}
  BY DEF FreshDial
<1>3. QueueKnown /\ RoundKnown
  BY <1>2, Zenon DEF FreshDial, QueueKnown, RoundKnown
<1>4. DialWithinPlan
  <2>1. attempt_limit(snap) \in Nat
    BY LimitTyped, SnapDialAssumption, Zenon DEF FreshDial
  <2>2. QED
    BY <1>2, <2>1 DEF DialWithinPlan
<1>5. QED
  BY <1>1, <1>2, <1>3, <1>4, Zenon DEF PlanKnown, FreshDial

\* So every command begins.
LEMMA DialStartsPlanned ==
  ASSUME NEW on \in BOOLEAN, DialInit(on) PROVE PlanKnown
<1>1. snap \in SnapProfiles
  <2>1. PICK valid : valid = {p \in SnapProfiles : validate(p)} /\ valid # {}
    BY SnapDialAssumption, Zenon
  <2>2. (CHOOSE p \in valid : TRUE) \in valid
    BY <2>1, Zenon
  <2>3. snap \in valid
    BY <2>1, <2>2 DEF DialInit
  <2>4. QED
    BY <2>1, <2>3, Zenon
<1>2. \/ \E command : dial = Dialling(command, 1)
      \/ \E command, carry : dial = OneConnection(command, carry)
      \/ dial = [Dialling("send", 1) EXCEPT !.pc = "off"]
  BY DEF DialInit
<1>3. FreshDial
  <2>1. tried = <<>>
    BY Zenon DEF DialInit
  <2>2. ASSUME NEW command, dial = Dialling(command, 1) PROVE FreshDial
    BY <1>1, <2>1, <2>2, Zenon DEF FreshDial, Dialling, DialFields
  <2>3. ASSUME NEW command, NEW carry, dial = OneConnection(command, carry) PROVE FreshDial
    BY <1>1, <2>1, <2>3, Zenon DEF FreshDial, OneConnection, Dialling, DialFields
  <2>4. CASE dial = [Dialling("send", 1) EXCEPT !.pc = "off"]
    BY <1>1, <2>1, <2>4, Zenon DEF FreshDial, Dialling, DialFields
  <2>5. QED
    BY <1>2, <2>2, <2>3, <2>4, Zenon
<1>4. QED
  BY <1>3, FreshIsPlanned, Zenon

\* A step within an attempt.
LEMMA WithinAttempt ==
  ASSUME PlanKnown, UNCHANGED <<snap, tried>>, DOMAIN dial' = DialFields,
         dial'.round = dial.round, dial'.attempt = dial.attempt, dial'.candidate = dial.candidate,
         dial'.queue = dial.queue, dial'.elapsed \in Nat, dial'.pc # "round",
         dial'.pc = "candidate" => dial'.previous = dial.candidate
  PROVE  PlanKnown'
<1>1. DialTyped'
  BY Zenon DEF PlanKnown, DialTyped
<1>2. QueueKnown'
  BY DEF PlanKnown, QueueKnown
<1>3. RoundKnown'
  BY Zenon DEF PlanKnown, RoundKnown
<1>4. DialWithinPlan'
  BY DEF PlanKnown, DialWithinPlan, Bounded, Budget
<1>5. QED
  BY <1>1, <1>2, <1>3, <1>4, Zenon DEF PlanKnown

\* A step that changes only where the command is keeps the plan.
LEMMA GoesOn ==
  ASSUME PlanKnown, UNCHANGED <<snap, tried>>, NEW pc, pc \notin {"round", "candidate"}, Goes(pc)
  PROVE  PlanKnown'
BY WithinAttempt, Zenon DEF Goes, PlanKnown, DialTyped, DialFields

\* The time that has passed is a number.
LEMMA LaterTyped ==
  ASSUME DialTyped, NEW d \in Nat PROVE Later(d) \in Nat
BY SnapDialAssumption DEF Later, Bounded, Budget, DialTyped, SnapProfile

\* A failed attempt keeps the plan.
LEMMA FailureGoesOn ==
  ASSUME PlanKnown, UNCHANGED <<snap, tried>>, NEW error, NEW d \in Nat, AttemptFails(error, d)
  PROVE  PlanKnown'
<1>1. Later(d) \in Nat /\ DOMAIN dial = DialFields
  BY LaterTyped, Zenon DEF PlanKnown, DialTyped
<1>2. CASE dial' = [dial EXCEPT !.pc = "candidate", !.previous = dial.candidate, !.elapsed = Later(d)]
  BY <1>1, <1>2, WithinAttempt, Zenon DEF DialFields
<1>3. CASE \E pc \in {"refused", "error"} : dial' = [dial EXCEPT !.pc = pc, !.elapsed = Later(d)]
  BY <1>1, <1>3, WithinAttempt, Zenon DEF DialFields
<1>4. QED
  BY <1>2, <1>3, Zenon DEF AttemptFails

\* A round begins with a permutation, and nothing of it is tried yet.
LEMMA BeginRoundPlans ==
  ASSUME PlanKnown, BeginRound PROVE PlanKnown'
<1>1. UNCHANGED <<snap, tried>> /\ dial.pc = "round" /\ SnapProfile(snap)
  BY SnapDialAssumption, Zenon DEF BeginRound, KeptWhileDialling, PlanKnown, DialTyped
<1>2. CASE Goes("error")
  BY <1>1, <1>2, GoesOn, Zenon
<1>3. ASSUME NEW d \in Nat, NEW order \in ordered_round(snap, dial.round),
             dial' = [dial EXCEPT !.pc = "candidate", !.queue = order, !.previous = 0, !.elapsed = Later(d)]
      PROVE  PlanKnown'
  <2>1. PICK n \in Nat : InjectiveOrder(order, n)
    BY <1>1, RoundsAreOrders, Zenon DEF PlanKnown, DialTyped
  <2>2. order \in Seq(Nat \ {0}) /\ DOMAIN order = 1..n /\ \A i, j \in DOMAIN order : order[i] = order[j] => i = j
    BY <2>1 DEF InjectiveOrder
  <2>3. Later(d) \in Nat
    BY LaterTyped, Zenon DEF PlanKnown
  <2>4. /\ DOMAIN dial' = DialFields /\ dial'.pc = "candidate" /\ dial'.queue = order
        /\ dial'.elapsed = Later(d) /\ dial'.round = dial.round /\ dial'.attempt = dial.attempt
        /\ dial'.candidate = dial.candidate
    BY <1>3, Zenon DEF PlanKnown, DialTyped, DialFields
  <2>5. DialTyped'
    BY <1>1, <2>2, <2>3, <2>4, Zenon DEF PlanKnown, DialTyped
  <2>6. \A i \in DOMAIN tried : tried[i][1] < dial.round /\ tried[i][1] \in Nat
    BY <1>1, AttemptFields DEF PlanKnown, RoundKnown, DialTyped
  <2>7. QueueKnown'
    BY <1>1, <2>2, <2>4, <2>6 DEF QueueKnown, PlanKnown, DialTyped
  <2>8. RoundKnown'
    <3>1. tried # <<>> => Len(tried) \in DOMAIN tried
      BY DEF PlanKnown, DialTyped
    <3>2. QED
      BY <1>1, <2>4, <2>6, <3>1 DEF RoundKnown, PlanKnown, DialTyped
  <2>9. DialWithinPlan'
    BY <1>1, Zenon DEF PlanKnown, DialWithinPlan, Bounded, Budget
  <2>10. QED
    BY <1>1, <2>4, <2>5, <2>7, <2>8, <2>9, Zenon DEF PlanKnown
<1>4. \A k : backoff_after_round(snap, k) \subseteq Nat
  BY SnapDialAssumption DEF backoff_after_round
<1>5. Goes("error") \/ \E d \in Nat : \E order \in ordered_round(snap, dial.round) :
        dial' = [dial EXCEPT !.pc = "candidate", !.queue = order, !.previous = 0, !.elapsed = Later(d)]
  <2>1. CASE dial.round = 1
    BY <2>1, Zenon DEF BeginRound
  <2>2. CASE dial.round # 1
    BY <1>4, <2>2, Zenon DEF BeginRound
  <2>3. QED
    BY <2>1, <2>2, Zenon
<1>6. QED
  BY <1>2, <1>3, <1>5, Zenon

\* A round ends with its number behind every attempt.
LEMMA EndRoundPlans ==
  ASSUME PlanKnown, EndRound PROVE PlanKnown'
<1>1. UNCHANGED <<snap, tried>> /\ dial.pc = "candidate"
  BY Zenon DEF EndRound, KeptWhileDialling
<1>2. CASE Goes("error")
  BY <1>1, <1>2, GoesOn, Zenon
<1>3. CASE dial' = [dial EXCEPT !.pc = "round", !.round = @ + 1]
  <2>1. /\ DOMAIN dial' = DialFields /\ dial'.pc = "round" /\ dial'.queue = dial.queue
        /\ dial'.elapsed = dial.elapsed /\ dial'.round = dial.round + 1 /\ dial'.attempt = dial.attempt
        /\ dial'.candidate = dial.candidate
    BY <1>3, Zenon DEF PlanKnown, DialTyped, DialFields
  <2>2. DialTyped'
    BY <1>1, <2>1 DEF PlanKnown, DialTyped
  <2>3. \A i \in DOMAIN tried : tried[i][1] < dial.round + 1 /\ tried[i][1] \in Nat
    BY AttemptFields DEF PlanKnown, RoundKnown, DialTyped
  <2>4. QueueKnown'
    BY <1>1, <2>1, <2>3 DEF QueueKnown, PlanKnown, DialTyped
  <2>5. RoundKnown'
    <3>1. tried # <<>> => Len(tried) \in DOMAIN tried
      BY DEF PlanKnown, DialTyped
    <3>2. QED
      <4>1. tried # <<>> => tried[Len(tried)][1] # dial.round + 1
        BY <2>3, <3>1
      <4>2. \A i \in DOMAIN tried : tried[i][1] <= dial.round + 1 /\ tried[i][1] < dial.round + 1
        BY <2>3 DEF PlanKnown, DialTyped
      <4>3. QED
        BY <1>1, <2>1, <4>1, <4>2, Zenon DEF RoundKnown
  <2>6. DialWithinPlan'
    BY <1>1, Zenon DEF PlanKnown, DialWithinPlan, Bounded, Budget
  <2>7. QED
    BY <1>1, <2>1, <2>2, <2>4, <2>5, <2>6, Zenon DEF PlanKnown
<1>4. QED
  BY <1>2, <1>3, Zenon DEF EndRound

\* What Tail leaves.
LEMMA TailOfQueue ==
  ASSUME DialTyped, QueueKnown, dial.queue # <<>>
  PROVE  /\ Tail(dial.queue) \in Seq(Nat \ {0}) /\ Head(dial.queue) = dial.queue[1]
         /\ Head(dial.queue) \in Nat \ {0} /\ 1 \in DOMAIN dial.queue
         /\ \A k \in DOMAIN Tail(dial.queue) :
              /\ k + 1 \in DOMAIN dial.queue /\ Tail(dial.queue)[k] = dial.queue[k + 1]
              /\ Head(dial.queue) # Tail(dial.queue)[k]
         /\ \A i, j \in DOMAIN Tail(dial.queue) : Tail(dial.queue)[i] = Tail(dial.queue)[j] => i = j
<1>1. PICK q \in Seq(Nat \ {0}) : q = dial.queue /\ q # <<>>
  BY Zenon DEF DialTyped
<1>2. \A i, j \in DOMAIN q : q[i] = q[j] => i = j
  BY <1>1, Zenon DEF QueueKnown
<1>3. /\ Tail(q) \in Seq(Nat \ {0}) /\ Head(q) = q[1] /\ 1 \in DOMAIN q /\ Head(q) \in Nat \ {0}
      /\ \A k \in DOMAIN Tail(q) : k \in Nat \ {0} /\ k + 1 \in DOMAIN q /\ Tail(q)[k] = q[k + 1]
  BY <1>1
<1>4. /\ \A k \in DOMAIN Tail(q) : Head(q) # Tail(q)[k]
      /\ \A i, j \in DOMAIN Tail(q) : Tail(q)[i] = Tail(q)[j] => i = j
  BY <1>2, <1>3
<1>5. QED
  BY <1>1, <1>3, <1>4, Zenon

\* A candidate is taken from the head of the queue, so it is not in the rest.
LEMMA TakeCandidatePlans ==
  ASSUME PlanKnown, TakeCandidate PROVE PlanKnown'
<1>1. /\ UNCHANGED snap /\ dial.pc = "candidate" /\ dial.queue # <<>>
      /\ dial.attempt < attempt_limit(snap) /\ attempt_limit(snap) \in Nat
  BY LimitTyped, SnapDialAssumption, Zenon DEF TakeCandidate, PlanKnown, DialTyped
<1>2. PICK h \in Nat \ {0}, q \in Seq(Nat \ {0}) :
         /\ h = Head(dial.queue) /\ q = Tail(dial.queue) /\ h = dial.queue[1] /\ 1 \in DOMAIN dial.queue
         /\ \A k \in DOMAIN q : k + 1 \in DOMAIN dial.queue /\ q[k] = dial.queue[k + 1] /\ h # q[k]
         /\ \A i, j \in DOMAIN q : q[i] = q[j] => i = j
  BY <1>1, TailOfQueue, Zenon DEF PlanKnown
<1>3. /\ \A i \in DOMAIN tried, k \in DOMAIN q : tried[i][1] = dial.round => tried[i][2] # q[k]
      /\ \A i \in DOMAIN tried : tried[i][1] = dial.round => tried[i][2] # h
      /\ \A k \in DOMAIN q : h # q[k]
      /\ \A i, j \in DOMAIN q : q[i] = q[j] => i = j
  BY <1>2 DEF PlanKnown, QueueKnown
<1>4. CASE dial' = [dial EXCEPT !.queue = Tail(@)] /\ UNCHANGED tried
  <2>1. /\ DOMAIN dial' = DialFields /\ dial'.pc = "candidate" /\ dial'.queue = q
        /\ dial'.elapsed = dial.elapsed /\ dial'.round = dial.round /\ dial'.attempt = dial.attempt
        /\ dial'.candidate = dial.candidate /\ dial'.previous = dial.previous
    BY <1>1, <1>2, <1>4, Zenon DEF PlanKnown, DialTyped, DialFields
  <2>2. DialTyped'
    BY <1>1, <1>4, <2>1, Zenon DEF PlanKnown, DialTyped
  <2>3. QueueKnown'
    <3>1. tried' = tried
      BY <1>4, Zenon
    <3>2. QED
      BY <1>3, <2>1, <3>1 DEF QueueKnown
  <2>4. RoundKnown'
    BY <1>1, <1>4, <2>1, Zenon DEF RoundKnown, PlanKnown
  <2>5. DialWithinPlan'
    BY <1>1, <1>4 DEF PlanKnown, DialWithinPlan, Bounded, Budget
  <2>6. QED
    BY <1>1, <1>4, <2>1, <2>2, <2>3, <2>4, <2>5, Zenon DEF PlanKnown
<1>5. CASE /\ ~ Denied /\ ~ Short
           /\ dial' = [dial EXCEPT !.pc = "connecting", !.queue = Tail(@), !.candidate = Head(dial.queue),
                                   !.attempt = @ + 1]
           /\ tried' = Append(tried, <<dial.round, Head(dial.queue), dial.elapsed>>)
  <2>1. /\ DOMAIN dial' = DialFields /\ dial'.pc = "connecting" /\ dial'.queue = q
        /\ dial'.elapsed = dial.elapsed /\ dial'.round = dial.round /\ dial'.attempt = dial.attempt + 1
        /\ dial'.candidate = h
    BY <1>2, <1>5, Zenon DEF PlanKnown, DialTyped, DialFields
  <2>2. PICK n \in Nat, e \in Attempts :
          /\ n = Len(tried) /\ tried' = Append(tried, e)
          /\ e[1] = dial.round /\ e[2] = h /\ e[3] = dial.elapsed
    <3>1. PICK e : e = <<dial.round, h, dial.elapsed>>
      BY Zenon
    <3>2. e \in Attempts /\ e[1] = dial.round /\ e[2] = h /\ e[3] = dial.elapsed
      BY <3>1, AttemptFields, Zenon DEF PlanKnown, DialTyped
    <3>3. Len(tried) \in Nat /\ tried' = Append(tried, e)
      BY <1>2, <1>5, <3>1, Zenon DEF PlanKnown, DialTyped
    <3>4. QED
      BY <3>2, <3>3, Zenon
  <2>3. /\ tried' \in Seq(Attempts) /\ Len(tried') = n + 1 /\ tried' # <<>>
        /\ DOMAIN tried' = 1 .. n + 1 /\ DOMAIN tried = 1..n
        /\ tried'[n + 1] = e /\ \A i \in 1..n : tried'[i] = tried[i]
    BY <2>2 DEF PlanKnown, DialTyped
  <2>4. DialTyped'
    BY <1>1, <1>2, <2>1, <2>3 DEF PlanKnown, DialTyped
  <2>5. QueueKnown'
    <3>1. \A i \in DOMAIN tried', k \in DOMAIN q : tried'[i][1] = dial.round => tried'[i][2] # q[k]
      BY <1>3, <2>2, <2>3
    <3>2. QED
      BY <1>3, <2>1, <3>1 DEF QueueKnown
  <2>6. RoundKnown'
    <3>1. \A i \in DOMAIN tried' : tried'[i][1] <= dial.round
      BY <2>2, <2>3 DEF RoundKnown, PlanKnown, DialTyped
    <3>2. QED
      BY <2>1, <2>2, <2>3, <3>1, Zenon DEF RoundKnown
  <2>7. DialWithinPlan'
    <3>1. Len(tried') <= attempt_limit(snap)
      BY <1>1, <2>2, <2>3 DEF PlanKnown, DialTyped
    <3>2. \A i \in 1..n : tried[i][1] = dial.round => tried[i][2] # h
      BY <1>3, <2>3, Zenon
    <3>3. \A i, j \in 1..n : i < j /\ tried[i][1] = tried[j][1] => tried[i][2] # tried[j][2]
      BY <2>3, Zenon DEF PlanKnown, DialWithinPlan
    <3>4. \A i, j \in DOMAIN tried' : i < j /\ tried'[i][1] = tried'[j][1] => tried'[i][2] # tried'[j][2]
      <4>1. SUFFICES ASSUME NEW i \in 1 .. n + 1, NEW j \in 1 .. n + 1, i < j, tried'[i][1] = tried'[j][1]
                     PROVE  tried'[i][2] # tried'[j][2]
        BY <2>3, Zenon
      <4>2. i \in 1..n /\ tried'[i] = tried[i]
        BY <2>3, <4>1
      <4>3. CASE j \in 1..n
        BY <2>3, <3>3, <4>1, <4>2, <4>3
      <4>4. CASE j = n + 1
        BY <2>2, <2>3, <3>2, <4>1, <4>2, <4>4
      <4>5. QED
        BY <4>3, <4>4
    <3>5. Bounded => dial.elapsed < Budget
      BY <1>5, SnapDialAssumption DEF Short, Bounded, remaining, Budget, PlanKnown, DialTyped, SnapProfile
    <3>6. n > 0 /\ tried[n][1] = dial.round => candidate_allows_fallback(snap, tried[n][2], h)
      <4>1. SUFFICES ASSUME n > 0, tried[n][1] = dial.round
                     PROVE  candidate_allows_fallback(snap, tried[n][2], h)
        BY Zenon
      <4>2. tried # <<>> /\ n \in DOMAIN tried /\ tried[n][2] \in Nat \ {0}
        BY <2>2, <2>3, <4>1, AttemptFields DEF PlanKnown, DialTyped
      <4>3. dial.previous = tried[n][2]
        BY <1>1, <2>2, <4>1, <4>2, Zenon DEF PlanKnown, RoundKnown
      <4>4. QED
        BY <1>2, <1>5, <4>2, <4>3, Zenon DEF Denied
    <3>7. ASSUME NEW i \in DOMAIN tried'
          PROVE  /\ Bounded => tried'[i][3] < Budget
                 /\ i > 1 /\ tried'[i - 1][1] = tried'[i][1]
                      => candidate_allows_fallback(snap, tried'[i - 1][2], tried'[i][2])
      <4>1. CASE i \in 1..n
        <5>1. tried'[i] = tried[i] /\ (i > 1 => i - 1 \in 1..n /\ tried'[i - 1] = tried[i - 1])
          <6>1. i > 1 => i - 1 \in 1..n
            BY <4>1
          <6>2. QED
            BY <2>3, <4>1, <6>1, Zenon
        <5>2. QED
          BY <2>3, <4>1, <5>1, Zenon DEF PlanKnown, DialWithinPlan
      <4>2. CASE i = n + 1
        <5>1. tried'[i] = e /\ (i > 1 => n > 0 /\ i - 1 = n /\ tried'[i - 1] = tried[n])
          BY <2>3, <4>2
        <5>2. QED
          BY <2>2, <3>5, <3>6, <5>1, Zenon
      <4>3. QED
        BY <2>3, <4>1, <4>2
    <3>8. QED
      BY <1>1, <3>1, <3>4, <3>7, Zenon DEF DialWithinPlan, Bounded, Budget
  <2>8. QED
    BY <2>1, <2>2, <2>3, <2>4, <2>5, <2>6, <2>7, Zenon DEF PlanKnown
<1>6. QED
  BY <1>4, <1>5, Zenon DEF TakeCandidate

\* Every step keeps the plan.
LEMMA DialPlans ==
  ASSUME PlanKnown, [DialNext]_dialVars PROVE PlanKnown'
<1>1. CASE connect_snap_candidate
  <2>1. UNCHANGED <<snap, tried>> /\ snap_candidate_attempt_timeout \in Nat
    BY <1>1, SnapDialAssumption DEF connect_snap_candidate, snap_candidate_attempt_timeout, Bounded,
       remaining, Budget, PlanKnown, DialTyped, SnapProfile
  <2>2. PICK d \in Nat : \/ \E error \in Errors : AttemptFails(error, d)
                         \/ dial' = [dial EXCEPT !.pc = "shaken", !.elapsed = Later(d)]
    <3>1. PICK d \in 0..snap_candidate_attempt_timeout :
               \/ \E error \in Errors : AttemptFails(error, d)
               \/ dial' = [dial EXCEPT !.pc = "shaken", !.elapsed = Later(d)]
      BY <1>1, Zenon DEF connect_snap_candidate
    <3>2. d \in Nat
      BY <2>1, <3>1
    <3>3. QED
      BY <3>1, <3>2, Zenon
  <2>3. CASE dial' = [dial EXCEPT !.pc = "shaken", !.elapsed = Later(d)]
    <3>1. Later(d) \in Nat /\ DOMAIN dial = DialFields
      BY LaterTyped, Zenon DEF PlanKnown, DialTyped
    <3>2. QED
      BY <2>1, <2>3, <3>1, WithinAttempt, Zenon DEF DialFields
  <2>4. QED
    BY <2>1, <2>2, <2>3, FailureGoesOn, Zenon
<1>2. CASE Enforce
  BY <1>2, GoesOn, FailureGoesOn, Zenon DEF Enforce, KeptWhileDialling
<1>3. CASE SendPayload
  <2>1. UNCHANGED <<snap, tried>>
    BY <1>3, Zenon DEF SendPayload
  <2>2. CASE dial' = [dial EXCEPT !.pc = "sending", !.sent = TRUE]
    BY <2>1, <2>2, WithinAttempt, Zenon DEF PlanKnown, DialTyped, DialFields
  <2>3. QED
    BY <1>3, <2>1, <2>2, FailureGoesOn, SnapDialAssumption DEF SendPayload
<1>4. CASE PayloadArrives
  BY <1>4, GoesOn, FailureGoesOn, SnapDialAssumption DEF PayloadArrives
<1>5. CASE recv_control
  BY <1>5, GoesOn, FailureGoesOn, SnapDialAssumption DEF recv_control, KeptWhileDialling
<1>6. CASE DialOnce
  BY <1>6, GoesOn, Zenon DEF DialOnce, connect_secure_session
<1>7. CASE handle_connect
  BY <1>7, GoesOn, Zenon DEF handle_connect, connect_secure_session
<1>8. CASE handle_listen
  BY <1>8, GoesOn, Zenon DEF handle_listen, accept_secure_session
<1>9. CASE AcceptOnce
  BY <1>9, GoesOn, Zenon DEF AcceptOnce, accept_secure_session
<1>10. CASE TakePayload
  <2>1. UNCHANGED <<snap, tried>>
    BY <1>10, Zenon DEF TakePayload
  <2>2. CASE dial' = [dial EXCEPT !.pc = "ok", !.sent = Acknowledged]
    BY <2>1, <2>2, WithinAttempt, Zenon DEF PlanKnown, DialTyped, DialFields
  <2>3. QED
    BY <1>10, <2>1, <2>2, GoesOn, Zenon DEF TakePayload
<1>11. CASE SessionBreaks
  BY <1>11, GoesOn, Zenon DEF SessionBreaks, KeptWhileDialling
<1>12. CASE run_with_reconnect
  <2>1. CASE shutdown
    BY <1>12, <2>1, GoesOn, Zenon DEF run_with_reconnect
  <2>2. CASE ~ shutdown
    <3>1. dial' = Dialling("session", dial.runs + 1) /\ tried' = <<>> /\ snap' = snap /\ snap \in SnapProfiles
      BY <1>12, <2>2, Zenon DEF run_with_reconnect, PlanKnown, DialTyped
    <3>2. FreshDial'
      BY <3>1, Zenon DEF FreshDial, Dialling, DialFields
    <3>3. QED
      BY <3>2, FreshIsPlanned, PTL
  <2>3. QED
    BY <2>1, <2>2, Zenon
<1>13. CASE UNCHANGED <<snap, dial, tried>>
  BY <1>13 DEF PlanKnown, DialTyped, QueueKnown, RoundKnown, DialWithinPlan, Bounded, Budget
<1>14. QED
  BY <1>1, <1>2, <1>3, <1>4, <1>5, <1>6, <1>7, <1>8, <1>9, <1>10, <1>11, <1>12, <1>13,
     BeginRoundPlans, EndRoundPlans, TakeCandidatePlans DEF DialNext, dialVars, RequestShutdown, Repin

(* --- the TLS bridge ----------------------------------------------------------- *)

BridgeFields == {"caller", "worker", "ready", "framing", "written", "relayed", "shut", "out", "in",
                 "remote"}

\* The outgoing half is done only when the local stream is shut and empty,
\* and a shut stream takes no more bytes; a relay ends as RelayOver says.
BridgeKnown ==
  /\ DOMAIN bridge = BridgeFields
  /\ bridge.out \in {"on", "done", "failed"}
  /\ bridge.shut => bridge.caller \in {"draining", "gone"}
  /\ bridge.out = "done" => bridge.shut /\ bridge.relayed = bridge.written
  /\ bridge.worker = "setup" => bridge.ready = <<>>
  /\ bridge.worker = "ended" /\ bridge.ready = <<"ok">> => RelayOver

\* BridgeKnown holds initially.
LEMMA BridgeBegins ==
  ASSUME NEW on \in BOOLEAN, SetupInit(on)
  PROVE  BridgeKnown
<1>1. PICK f : bridge = [NoBridge EXCEPT !.framing = f]
  BY Zenon DEF SetupInit
<1>2. /\ DOMAIN bridge = BridgeFields /\ bridge.out = "on" /\ bridge.shut = FALSE
      /\ bridge.worker = "setup" /\ bridge.ready = <<>>
  BY <1>1, Zenon DEF NoBridge, BridgeFields
<1>3. QED
  BY <1>2, Zenon DEF BridgeKnown

\* BridgeKnown is kept by every step of the set-up.
LEMMA BridgeKept ==
  ASSUME BridgeKnown, [SetupNext]_setupVars
  PROVE  BridgeKnown'
<1>1. CASE SetupEnds
  <2>1. <<"error">> # <<"ok">> /\ <<>> # <<"ok">>
    <3>1. <<"error">>[1] = "error" /\ <<"ok">>[1] = "ok" /\ Len(<<>>) = 0 /\ Len(<<"ok">>) = 1
      BY Zenon
    <3>2. QED
      BY <3>1, Zenon
  <2>2. CASE bridge' = [bridge EXCEPT !.worker = "relay", !.ready = <<"ok">>]
    BY <2>2, Zenon DEF BridgeKnown, BridgeFields
  <2>3. CASE bridge' = [bridge EXCEPT !.worker = "ended", !.ready = <<"error">>]
    <3>1. bridge'.ready # <<"ok">> /\ bridge'.worker = "ended"
      BY <2>1, <2>3, Zenon DEF BridgeKnown, BridgeFields
    <3>2. QED
      BY <2>3, <3>1, Zenon DEF BridgeKnown, BridgeFields
  <2>4. CASE bridge.worker = "setup" /\ bridge' = [bridge EXCEPT !.worker = "ended"]
    <3>1. bridge'.ready # <<"ok">> /\ bridge'.worker = "ended"
      BY <2>1, <2>4, Zenon DEF BridgeKnown, BridgeFields
    <3>2. QED
      BY <2>4, <3>1, Zenon DEF BridgeKnown, BridgeFields
  <2>5. QED
    BY <1>1, <2>2, <2>3, <2>4, Zenon DEF SetupEnds
<1>2. CASE recv_timeout
  BY <1>2, Zenon DEF recv_timeout, BridgeKnown, BridgeFields, RelayOver
<1>3. CASE WriteBytes
  BY <1>3, Zenon DEF WriteBytes, BridgeKnown, BridgeFields, RelayOver
<1>4. CASE SessionDrops
  BY <1>4, Zenon DEF SessionDrops, BridgeKnown, BridgeFields, RelayOver
<1>5. CASE LifecycleDrop
  BY <1>5, Zenon DEF LifecycleDrop, BridgeKnown, BridgeFields, RelayOver
<1>6. CASE RelayOut
  BY <1>6, Zenon DEF RelayOut, BridgeKnown, BridgeFields
<1>7. CASE RelayIn
  BY <1>7, Zenon DEF RelayIn, BridgeKnown, BridgeFields
<1>8. CASE RemoteCloses
  BY <1>8, Zenon DEF RemoteCloses, BridgeKnown, BridgeFields
<1>9. CASE RelayEnds
  BY <1>9, Zenon DEF RelayEnds, BridgeKnown, BridgeFields, RelayOver
<1>10. CASE UNCHANGED bridge
  BY <1>10, Zenon DEF BridgeKnown, RelayOver
<1>11. QED
  BY <1>1, <1>2, <1>3, <1>4, <1>5, <1>6, <1>7, <1>8, <1>9, <1>10, Zenon DEF SetupNext, setupVars

(* --- the calls ----------------------------------------------------------- *)

Names == {"peer", "proxy", "relay", "neighbour"}
Address == [name : Names, n : Nat]
Request == [c : Callers, call : Nat, name : Names]
Answer == [c : Callers, call : Nat, addrs : Seq(Address)]

CallFields == {"pc", "call", "way", "name", "addrs", "hops", "wanted", "touched"}

Ways == {"direct", "socks5", "tor", "onion", "mule", "mesh"}

Relayed(way) == way \in {"socks5", "tor", "onion", "mule"}

Target(way) ==
  IF way = "onion" THEN "relay" ELSE IF Relayed(way) THEN "proxy" ELSE "peer"

\* Whom a call may look up or connect to on its way.
MayReach(way) == {Target(way)} \cup {n \in {"neighbour"} : way = "mesh"}

\* A call keeps to its way, and so do the addresses it still has to try.
CallKnown(call) ==
  /\ DOMAIN call = CallFields
  /\ call.call \in Nat
  /\ call.way \in Ways /\ call.wanted = call.way /\ call.name = Target(call.way)
  /\ call.addrs \in Seq(Address)
  /\ \A i \in 1..Len(call.addrs) : call.addrs[i].name \in MayReach(call.way)
  /\ call.touched \subseteq MayReach(call.way)
  /\ call.pc \in {"method", "credentials", "request"} =>
       Relayed(call.way) /\ call.hops = <<Target(call.way)>>
  /\ call.pc = "stream" =>
       IF Relayed(call.way) THEN call.hops = <<Target(call.way), "peer">>
       ELSE \E n \in MayReach(call.way) : call.hops = <<n>>

Asking(c) == caller[c].pc \in {"resolve", "answer"}

\* A lookup belongs to the present call of its caller only with the name
\* that call looks up; all others are of earlier calls.
RequestKnown(r) ==
  /\ r.call <= caller[r.c].call
  /\ r.call = caller[r.c].call /\ Asking(r.c) => r.name = caller[r.c].name

AnswerKnown(a) ==
  /\ a.call <= caller[a.c].call
  /\ a.call = caller[a.c].call /\ Asking(a.c) =>
       \A i \in 1..Len(a.addrs) : a.addrs[i].name = caller[a.c].name

LookupsKnown ==
  /\ queue \in [DnsWorkers -> Seq(Request)]
  /\ worker \in [DnsWorkers -> SUBSET Request]
  /\ answers \subseteq Answer
  /\ \A w \in DnsWorkers :
       /\ \A i \in 1..Len(queue[w]) : RequestKnown(queue[w][i])
       /\ \A r \in worker[w] : RequestKnown(r)
  /\ \A a \in answers : AnswerKnown(a)

CallersKnown == DOMAIN caller = Callers /\ \A c \in Callers : CallKnown(caller[c])

StreamKnown == CallersKnown /\ LookupsKnown

\* Every address of a name is of that name.
LEMMA AllAddresses ==
  ASSUME NEW name \in Names
  PROVE  /\ Addresses(name) \in Seq(Address) /\ Len(Addresses(name)) = MAX_RESOLVED_ADDRESSES
         /\ \A i \in 1..MAX_RESOLVED_ADDRESSES : Addresses(name)[i].name = name
<1>1. Addresses(name) \in Seq(Address) /\ Len(Addresses(name)) = MAX_RESOLVED_ADDRESSES
  BY StreamSetupAssumption DEF Addresses, Address
<1>2. QED
  BY <1>1, Zenon DEF Addresses

\* A lookup answers with addresses of the name that was asked for.
LEMMA AddressesOf ==
  ASSUME NEW name \in Names, NEW n \in 0..MAX_RESOLVED_ADDRESSES
  PROVE  /\ SubSeq(Addresses(name), 1, n) \in Seq(Address)
         /\ \A i \in 1..Len(SubSeq(Addresses(name), 1, n)) : SubSeq(Addresses(name), 1, n)[i].name = name
BY AllAddresses, StreamSetupAssumption

\* So does one that takes the first address only.
LEMMA FirstAddress ==
  ASSUME NEW name \in Names
  PROVE  /\ SubSeq(Addresses(name), 1, 1) \in Seq(Address)
         /\ \A i \in 1..Len(SubSeq(Addresses(name), 1, 1)) : SubSeq(Addresses(name), 1, 1)[i].name = name
<1>1. 1 \in 0..MAX_RESOLVED_ADDRESSES
  BY StreamSetupAssumption
<1>2. QED
  BY <1>1, AddressesOf, Zenon

\* The lookups under way are none the worse for a step of one caller that
\* keeps its name while it asks, or goes on to its next call.
LEMMA LookupsStay ==
  ASSUME StreamKnown, NEW c \in Callers,
         \A d \in Callers \ {c} : caller'[d] = caller[d],
         caller'[c].call \in Nat, caller'[c].call >= caller[c].call,
         caller'[c].call = caller[c].call /\ Asking(c)' =>
           Asking(c) /\ caller'[c].name = caller[c].name
  PROVE  /\ \A r \in Request : RequestKnown(r) => RequestKnown(r)'
         /\ \A a \in Answer : AnswerKnown(a) => AnswerKnown(a)'
<1>1. ASSUME NEW r \in Request, RequestKnown(r) PROVE RequestKnown(r)'
  <2>1. CASE r.c # c
    BY <1>1, <2>1, Zenon DEF Request, RequestKnown, Asking
  <2>2. CASE r.c = c
    BY <1>1, <2>2 DEF Request, RequestKnown, Asking, StreamKnown, CallersKnown, CallKnown
  <2>3. QED
    BY <2>1, <2>2, Zenon
<1>2. ASSUME NEW a \in Answer, AnswerKnown(a) PROVE AnswerKnown(a)'
  <2>1. CASE a.c # c
    BY <1>2, <2>1, Zenon DEF Answer, AnswerKnown, Asking
  <2>2. CASE a.c = c
    BY <1>2, <2>2 DEF Answer, AnswerKnown, Asking, StreamKnown, CallersKnown, CallKnown
  <2>3. QED
    BY <2>1, <2>2, Zenon
<1>3. QED
  BY <1>1, <1>2, Zenon

\* A step of one caller and nothing else: it keeps to its call without
\* asking, or goes on to its next one.
CallMoves(c) ==
  /\ DOMAIN caller' = Callers /\ \A d \in Callers \ {c} : caller'[d] = caller[d]
  /\ CallKnown(caller[c])'
  /\ \/ caller'[c].call > caller[c].call
     \/ caller'[c].call = caller[c].call /\ ~Asking(c)'
  /\ UNCHANGED <<queue, worker, answers>>

\* A step of one caller that changes no lookup.
LEMMA OneCallerMoves ==
  ASSUME StreamKnown, NEW c \in Callers, CallMoves(c)
  PROVE  StreamKnown'
<1>1. /\ \A d \in Callers \ {c} : caller'[d] = caller[d]
      /\ caller'[c].call \in Nat /\ caller'[c].call >= caller[c].call
      /\ caller'[c].call = caller[c].call => ~Asking(c)'
  BY DEF CallMoves, CallKnown, StreamKnown, CallersKnown
<1>2. /\ \A r \in Request : RequestKnown(r) => RequestKnown(r)'
      /\ \A a \in Answer : AnswerKnown(a) => AnswerKnown(a)'
  BY <1>1, LookupsStay, Zenon
<1>3. LookupsKnown'
  <2>1. LookupsKnown /\ UNCHANGED <<queue, worker, answers>> BY Zenon DEF StreamKnown, CallMoves
  <2>2. ASSUME NEW w \in DnsWorkers, NEW i \in 1..Len(queue[w]) PROVE RequestKnown(queue[w][i])'
    <3>1. queue[w][i] \in Request /\ RequestKnown(queue[w][i]) BY <2>1 DEF LookupsKnown
    <3> QED BY <1>2, <2>1, <3>1, Zenon
  <2>3. ASSUME NEW w \in DnsWorkers, NEW r \in worker[w] PROVE RequestKnown(r)'
    <3>1. r \in Request /\ RequestKnown(r) BY <2>1, Zenon DEF LookupsKnown
    <3> QED BY <1>2, <3>1, Zenon
  <2>4. ASSUME NEW a \in answers PROVE AnswerKnown(a)'
    <3>1. a \in Answer /\ AnswerKnown(a) BY <2>1, Zenon DEF LookupsKnown
    <3> QED BY <1>2, <3>1, Zenon
  <2>5. QED
    BY <2>1, <2>2, <2>3, <2>4, Zenon DEF LookupsKnown
<1>4. CallersKnown'
  <2>1. ASSUME NEW d \in Callers PROVE CallKnown(caller[d])'
    <3>1. CASE d # c
      BY <3>1, Zenon DEF StreamKnown, CallersKnown, CallKnown, CallMoves
    <3>2. QED
      BY <3>1, Zenon DEF CallMoves
  <2>2. QED
    BY <2>1, Zenon DEF CallersKnown, CallMoves
<1>5. QED
  BY <1>3, <1>4, Zenon DEF StreamKnown

\* StreamKnown holds initially.
LEMMA StreamBegins ==
  ASSUME NEW on \in BOOLEAN, SetupInit(on)
  PROVE  StreamKnown
<1>1. CallKnown(NoCall)
  <2>1. /\ DOMAIN NoCall = CallFields
        /\ NoCall.pc = "idle" /\ NoCall.call = 0 /\ NoCall.way = "direct" /\ NoCall.wanted = "direct"
        /\ NoCall.name = "peer" /\ NoCall.addrs = <<>> /\ NoCall.touched = {}
    BY Zenon DEF NoCall, CallFields
  <2>2. "direct" \in Ways /\ Target("direct") = "peer" /\ <<>> \in Seq(Address) /\ Len(<<>>) = 0
    BY DEF Ways, Target, Relayed
  <2>3. QED
    BY <2>1, <2>2 DEF CallKnown
<1>2. CallersKnown
  BY <1>1, Zenon DEF SetupInit, CallersKnown
<1>3. LookupsKnown
  BY DEF SetupInit, LookupsKnown
<1>4. QED
  BY <1>2, <1>3, Zenon DEF StreamKnown

\* A call that fails waits for nothing any more.
LEMMA CallFails ==
  ASSUME StreamKnown, NEW c \in Callers, FailsCall(c), UNCHANGED <<queue, worker, answers>>
  PROVE  StreamKnown'
<1>1. /\ DOMAIN caller' = Callers /\ \A d \in Callers \ {c} : caller'[d] = caller[d]
      /\ caller'[c] = [NoCall EXCEPT !.call = caller[c].call]
  BY Zenon DEF FailsCall, StreamKnown, CallersKnown
<1>2. caller[c].call \in Nat
  BY Zenon DEF StreamKnown, CallersKnown, CallKnown
<1>3. /\ DOMAIN caller'[c] = CallFields
      /\ caller'[c].pc = "idle" /\ caller'[c].call = caller[c].call
      /\ caller'[c].way = "direct" /\ caller'[c].wanted = "direct"
      /\ caller'[c].name = "peer" /\ caller'[c].addrs = <<>> /\ caller'[c].touched = {}
  BY <1>1, Zenon DEF NoCall, CallFields
<1>4. "direct" \in Ways /\ Target("direct") = "peer" /\ <<>> \in Seq(Address) /\ Len(<<>>) = 0
  BY DEF Ways, Target, Relayed
<1>5. CallKnown(caller[c])'
  BY <1>2, <1>3, <1>4 DEF CallKnown
<1>6. ~Asking(c)'
  BY <1>3, Zenon DEF Asking
<1>7. CallMoves(c)
  BY <1>1, <1>3, <1>5, <1>6, Zenon DEF CallMoves
<1>8. QED
  BY <1>7, OneCallerMoves, Zenon

\* A new call with addresses of whom it may reach.
LEMMA CallBegins ==
  ASSUME StreamKnown, NEW c \in Callers, NEW way \in Ways, NEW pc \in {"resolve", "connect"},
         NEW addrs \in Seq(Address), \A i \in 1..Len(addrs) : addrs[i].name \in MayReach(way),
         BeginCall(c, way, Target(way), pc, addrs)
  PROVE  StreamKnown'
<1>1. /\ DOMAIN caller' = Callers /\ \A d \in Callers \ {c} : caller'[d] = caller[d]
      /\ caller'[c] = [pc |-> pc, call |-> caller[c].call + 1, way |-> way, name |-> Target(way),
                       addrs |-> addrs, hops |-> <<>>, wanted |-> way, touched |-> {}]
      /\ UNCHANGED <<queue, worker, answers>>
      /\ caller[c].call \in Nat
  BY Zenon DEF BeginCall, StreamKnown, CallersKnown, CallKnown
<1>2. CallKnown(caller[c])'
  BY <1>1 DEF CallKnown, CallFields
<1>3. caller'[c].call > caller[c].call
  BY <1>1
<1>4. CallMoves(c)
  BY <1>1, <1>2, <1>3, Zenon DEF CallMoves
<1>5. QED
  BY <1>4, OneCallerMoves, Zenon

\* A call begins, under a new number.
LEMMA CallsBegin ==
  ASSUME StreamKnown, NEW c \in Callers,
         \/ connect_tcp_via_underlay(c) \/ connect_onion_bridge(c)
         \/ connect_mule_usb(c) \/ connect_mesh_dtn_local(c)
  PROVE  StreamKnown'
<1>1. /\ Target("direct") = "peer" /\ Target("socks5") = "proxy" /\ Target("tor") = "proxy"
      /\ Target("onion") = "relay" /\ Target("mule") = "proxy" /\ Target("mesh") = "peer"
  BY Zenon DEF Target, Relayed
<1>2. <<>> \in Seq(Address) /\ Len(<<>>) = 0
  OBVIOUS
<1>3. ASSUME NEW way \in Ways, BeginCall(c, way, Target(way), "resolve", <<>>) PROVE StreamKnown'
  <2>1. \A i \in 1..Len(<<>>) : <<>>[i].name \in MayReach(way)
    BY <1>2
  <2>2. QED
    BY <1>2, <1>3, <2>1, CallBegins, Zenon
<1>4. ASSUME NEW way \in Ways,
             BeginCall(c, way, Target(way), "connect", SubSeq(Addresses(Target(way)), 1, 1))
      PROVE  StreamKnown'
  <2> DEFINE addrs == SubSeq(Addresses(Target(way)), 1, 1)
  <2>1. Target(way) \in Names /\ Target(way) \in MayReach(way)
    BY Zenon DEF Target, MayReach, Names
  <2>2. addrs \in Seq(Address) /\ \A i \in 1..Len(addrs) : addrs[i].name \in MayReach(way)
    BY <2>1, FirstAddress, Zenon
  <2> HIDE DEF addrs
  <2>3. BeginCall(c, way, Target(way), "connect", addrs)
    BY <1>4, Zenon DEF addrs
  <2>4. QED
    BY <2>2, <2>3, CallBegins, Zenon
<1>5. CASE connect_mule_usb(c)
  <2> DEFINE addrs == Addresses("proxy")
  <2>1. "proxy" \in Names
    BY Zenon DEF Names
  <2>2. addrs \in Seq(Address) /\ \A i \in 1..Len(addrs) : addrs[i].name = "proxy"
    BY <2>1, AllAddresses, Zenon
  <2>3. BeginCall(c, "mule", Target("mule"), "connect", addrs)
    BY <1>1, <1>5, Zenon DEF connect_mule_usb
  <2>4. "mule" \in Ways /\ "proxy" \in MayReach("mule")
    BY <1>1, Zenon DEF MayReach, Ways
  <2> HIDE DEF addrs
  <2>5. QED
    BY <2>2, <2>3, <2>4, CallBegins, Zenon
<1>6. CASE connect_mesh_dtn_local(c)
  <2> DEFINE near == SubSeq(Addresses("peer"), 1, 1)
             far == SubSeq(Addresses("neighbour"), 1, 1)
  <2>0. "peer" \in Names /\ "neighbour" \in Names
    BY Zenon DEF Names
  <2>1. near \in Seq(Address) /\ \A i \in 1..Len(near) : near[i].name = "peer"
    BY <2>0, FirstAddress, Zenon
  <2>2. far \in Seq(Address) /\ \A i \in 1..Len(far) : far[i].name = "neighbour"
    BY <2>0, FirstAddress, Zenon
  <2>3. "mesh" \in Ways /\ "peer" \in MayReach("mesh") /\ "neighbour" \in MayReach("mesh")
    BY <1>1, Zenon DEF MayReach, Ways
  <2>4. BeginCall(c, "mesh", Target("mesh"), "connect", near \o far)
    BY <1>1, <1>6, Zenon DEF connect_mesh_dtn_local
  <2> HIDE DEF near, far
  <2>5. near \o far \in Seq(Address)
    BY <2>1, <2>2
  <2>6. \A i \in 1..Len(near \o far) : (near \o far)[i].name \in MayReach("mesh")
    BY <2>1, <2>2, <2>3
  <2>7. QED
    BY <2>3, <2>4, <2>5, <2>6, CallBegins, Zenon
<1>7. {"direct", "socks5", "tor", "onion"} \subseteq Ways
  BY Zenon DEF Ways
<1>8. CASE connect_tcp_via_underlay(c)
  BY <1>1, <1>3, <1>4, <1>7, <1>8, Zenon DEF connect_tcp_via_underlay
<1>9. CASE connect_onion_bridge(c)
  BY <1>1, <1>4, <1>7, <1>9, Zenon DEF connect_onion_bridge
<1>10. QED
  BY <1>5, <1>6, <1>8, <1>9, Zenon

\* The lookup of a name: answered at once, queued, or refused.
LEMMA ResolveKept ==
  ASSUME StreamKnown, NEW c \in Callers, resolve_socket_addrs(c)
  PROVE  StreamKnown'
<1> DEFINE call == caller[c]
<1>1. CallKnown(call) /\ call.pc = "resolve" /\ DOMAIN caller = Callers
  BY Zenon DEF StreamKnown, CallersKnown, resolve_socket_addrs
<1>2. call.name \in Names /\ call.name \in MayReach(call.way)
  BY <1>1, Zenon DEF CallKnown, Target, MayReach, Names
<1>3. CASE /\ caller' = [caller EXCEPT ![c].pc = "connect", ![c].addrs = SubSeq(Addresses(call.name), 1, 1)]
           /\ UNCHANGED <<queue, worker, answers>>
  <2> DEFINE addrs == SubSeq(Addresses(call.name), 1, 1)
  <2>1. addrs \in Seq(Address) /\ \A i \in 1..Len(addrs) : addrs[i].name \in MayReach(call.way)
    BY <1>2, FirstAddress, Zenon
  <2> HIDE DEF addrs
  <2>2. caller' = [caller EXCEPT ![c].pc = "connect", ![c].addrs = addrs]
    BY <1>3, Zenon DEF addrs
  <2>3. /\ DOMAIN caller' = Callers /\ \A d \in Callers \ {c} : caller'[d] = caller[d]
        /\ caller'[c] = [caller[c] EXCEPT !.pc = "connect", !.addrs = addrs]
    BY <1>1, <2>2, Zenon DEF CallKnown
  <2>4. CallKnown(caller[c])' /\ caller'[c].call = caller[c].call /\ ~Asking(c)'
    <3>1. /\ DOMAIN caller'[c] = CallFields
          /\ caller'[c].pc = "connect" /\ caller'[c].call = caller[c].call
          /\ caller'[c].way = caller[c].way /\ caller'[c].wanted = caller[c].wanted
          /\ caller'[c].name = caller[c].name /\ caller'[c].addrs = addrs
          /\ caller'[c].hops = caller[c].hops /\ caller'[c].touched = caller[c].touched
      BY <1>1, <2>3, Zenon DEF CallKnown, CallFields
    <3>2. CallKnown(caller[c])'
      BY <1>1, <3>1, <2>1, Zenon DEF CallKnown
    <3>3. QED
      BY <3>1, <3>2, Zenon DEF Asking
  <2>5. CallMoves(c)
    BY <1>3, <2>3, <2>4, Zenon DEF CallMoves
  <2>6. QED
    BY <2>5, OneCallerMoves, Zenon
<1>4. CASE /\ \E w \in DnsWorkers :
                queue' = [queue EXCEPT ![w] = Append(@, [c |-> c, call |-> call.call, name |-> call.name])]
           /\ caller' = [caller EXCEPT ![c].pc = "answer", ![c].touched = @ \cup {call.name}]
           /\ UNCHANGED <<worker, answers>>
  <2> DEFINE new == [c |-> c, call |-> call.call, name |-> call.name]
  <2>1. PICK w \in DnsWorkers : queue' = [queue EXCEPT ![w] = Append(@, new)]
    BY <1>4, Zenon
  <2>2. new \in Request
    BY <1>1, <1>2, Zenon DEF Request, CallKnown
  <2>3. /\ DOMAIN caller' = Callers /\ \A d \in Callers \ {c} : caller'[d] = caller[d]
        /\ caller'[c] = [caller[c] EXCEPT !.pc = "answer", !.touched = @ \cup {call.name}]
    BY <1>1, <1>4, Zenon DEF CallKnown
  <2>4. CallKnown(caller[c])'
    BY <1>1, <1>2, <2>3 DEF CallKnown, CallFields
  <2>5. caller'[c].call = caller[c].call /\ caller'[c].name = caller[c].name /\ Asking(c)
    BY <1>1, <2>3, Zenon DEF CallKnown, CallFields, Asking
  <2>6. /\ \A r \in Request : RequestKnown(r) => RequestKnown(r)'
        /\ \A a \in Answer : AnswerKnown(a) => AnswerKnown(a)'
    <3>1. caller[c].call \in Nat /\ caller'[c].call = caller[c].call
      BY <1>1, <2>5, Zenon DEF CallKnown
    <3>2. caller'[c].call \in Nat /\ caller'[c].call >= caller[c].call
      BY <3>1
    <3>3. \A d \in Callers \ {c} : caller'[d] = caller[d]
      BY <2>3, Zenon
    <3>4. QED
      BY <2>5, <3>2, <3>3, LookupsStay, Zenon
  <2>7. \A r : r = new => RequestKnown(r)'
    BY <1>1, <2>5 DEF RequestKnown, CallKnown
  <2>8. CallersKnown'
    <3>1. ASSUME NEW d \in Callers PROVE CallKnown(caller[d])'
      <4>1. CASE d # c
        BY <2>3, <4>1 DEF StreamKnown, CallersKnown, CallKnown
      <4>2. QED
        BY <2>4, <4>1, Zenon
    <3>2. QED
      BY <2>3, <3>1, Zenon DEF CallersKnown
  <2> HIDE DEF new
  <2>9. queue' \in [DnsWorkers -> Seq(Request)]
    BY <2>1, <2>2 DEF StreamKnown, LookupsKnown
  <2>10. ASSUME NEW v \in DnsWorkers, NEW i \in 1..Len(queue'[v]) PROVE RequestKnown(queue[v][i])'
    <3>1. queue'[v][i] \in Request /\ queue[v] \in Seq(Request)
      BY <2>9, <2>10 DEF StreamKnown, LookupsKnown
    <3>2. CASE i \in 1..Len(queue[v]) /\ queue'[v][i] = queue[v][i]
      <4>1. RequestKnown(queue[v][i])
        BY <3>2, Zenon DEF StreamKnown, LookupsKnown
      <4>2. QED
        BY <2>6, <3>1, <3>2, <4>1, Zenon DEF RequestKnown, Asking
    <3>3. CASE queue'[v][i] = new
      BY <2>7, <3>3, Zenon DEF RequestKnown, Asking
    <3>4. QED
      BY <2>1, <2>2, <2>10, <3>1, <3>2, <3>3 DEF StreamKnown, LookupsKnown
  <2>11. /\ worker' \in [DnsWorkers -> SUBSET Request] /\ answers' \subseteq Answer
         /\ \A v \in DnsWorkers : \A r \in worker'[v] : RequestKnown(r)'
         /\ \A a \in answers' : AnswerKnown(a)'
    BY <1>4, <2>6, Zenon DEF StreamKnown, LookupsKnown
  <2>12. LookupsKnown'
    BY <2>9, <2>10, <2>11, Zenon DEF LookupsKnown
  <2>13. QED
    BY <2>8, <2>12, Zenon DEF StreamKnown
<1>5. CASE FailsCall(c) /\ UNCHANGED <<queue, worker, answers>>
  BY <1>5, CallFails, Zenon
<1>6. QED
  BY <1>3, <1>4, <1>5, Zenon DEF resolve_socket_addrs

\* A resolver thread takes the first request of its queue.
LEMMA TakeKept ==
  ASSUME StreamKnown, NEW w \in DnsWorkers, TakeRequest(w)
  PROVE  StreamKnown'
<1>1. queue[w] \in Seq(Request) /\ queue[w] # <<>>
  BY Zenon DEF StreamKnown, LookupsKnown, TakeRequest
<1>2. /\ Head(queue[w]) = queue[w][1] /\ 1 \in 1..Len(queue[w]) /\ Head(queue[w]) \in Request
      /\ Tail(queue[w]) \in Seq(Request)
      /\ \A i \in 1..Len(Tail(queue[w])) : i + 1 \in 1..Len(queue[w]) /\ Tail(queue[w])[i] = queue[w][i + 1]
  BY <1>1
<1>3. /\ RequestKnown(Head(queue[w]))
      /\ \A i \in 1..Len(Tail(queue[w])) : RequestKnown(Tail(queue[w])[i])
  BY <1>2, Zenon DEF StreamKnown, LookupsKnown
<1>4. /\ \A r : RequestKnown(r)' <=> RequestKnown(r)
      /\ \A a : AnswerKnown(a)' <=> AnswerKnown(a)
      /\ CallersKnown' <=> CallersKnown
  BY DEF TakeRequest, RequestKnown, AnswerKnown, Asking, CallersKnown, CallKnown
<1> DEFINE first == Head(queue[w])
           rest == Tail(queue[w])
<1>5. /\ worker' = [worker EXCEPT ![w] = {first}] /\ queue' = [queue EXCEPT ![w] = rest]
      /\ answers' = answers
  BY Zenon DEF TakeRequest
<1> HIDE DEF first, rest
<1>6. /\ first \in Request /\ rest \in Seq(Request) /\ RequestKnown(first)
      /\ \A i \in 1..Len(rest) : RequestKnown(rest[i])
  BY <1>2, <1>3, Zenon DEF first, rest
<1>7. queue' \in [DnsWorkers -> Seq(Request)] /\ worker' \in [DnsWorkers -> SUBSET Request]
  BY <1>5, <1>6, Zenon DEF StreamKnown, LookupsKnown
<1>8. ASSUME NEW v \in DnsWorkers
      PROVE  /\ \A i \in 1..Len(queue'[v]) : RequestKnown(queue'[v][i])
             /\ \A r \in worker'[v] : RequestKnown(r)
  <2>1. CASE v = w
    BY <1>5, <1>6, <2>1, Zenon DEF StreamKnown, LookupsKnown
  <2>2. CASE v # w
    BY <1>5, <2>2, Zenon DEF StreamKnown, LookupsKnown
  <2>3. QED
    BY <2>1, <2>2, Zenon
<1>9. LookupsKnown'
  BY <1>4, <1>5, <1>7, <1>8, Zenon DEF StreamKnown, LookupsKnown
<1>10. QED
  BY <1>4, <1>9, Zenon DEF StreamKnown

\* A resolver thread answers.
LEMMA LookedUpKept ==
  ASSUME StreamKnown, NEW w \in DnsWorkers, resolve_socket_addrs_bounded(w)
  PROVE  StreamKnown'
<1>1. PICK r \in worker[w], n \in 0..MAX_RESOLVED_ADDRESSES :
        answers' = answers \cup {[c |-> r.c, call |-> r.call, addrs |-> SubSeq(Addresses(r.name), 1, n)]}
  BY Zenon DEF resolve_socket_addrs_bounded
<1>2. r \in Request /\ RequestKnown(r) /\ r.name \in Names
  BY DEF StreamKnown, LookupsKnown, Request
<1> DEFINE addrs == SubSeq(Addresses(r.name), 1, n)
<1>3. addrs \in Seq(Address) /\ \A i \in 1..Len(addrs) : addrs[i].name = r.name
  BY <1>2, AddressesOf, Zenon
<1> HIDE DEF addrs
<1>4. answers' = answers \cup {[c |-> r.c, call |-> r.call, addrs |-> addrs]}
  BY <1>1, Zenon DEF addrs
<1>5. /\ worker' = [worker EXCEPT ![w] = {}] /\ caller' = caller /\ queue' = queue
  BY Zenon DEF resolve_socket_addrs_bounded
<1>6. ASSUME NEW a, a = [c |-> r.c, call |-> r.call, addrs |-> addrs] PROVE a \in Answer /\ AnswerKnown(a)
  BY <1>2, <1>3, <1>6, Zenon DEF Request, Answer, RequestKnown, AnswerKnown
<1>7. /\ \A q : RequestKnown(q)' <=> RequestKnown(q)
      /\ \A a : AnswerKnown(a)' <=> AnswerKnown(a)
      /\ CallersKnown' <=> CallersKnown
  BY <1>5 DEF RequestKnown, AnswerKnown, Asking, CallersKnown, CallKnown
<1>8. answers' \subseteq Answer /\ \A a \in answers' : AnswerKnown(a)
  BY <1>4, <1>6, Zenon DEF StreamKnown, LookupsKnown
<1>9. worker' \in [DnsWorkers -> SUBSET Request] /\ \A v \in DnsWorkers : worker'[v] \subseteq worker[v]
  BY <1>5, Zenon DEF StreamKnown, LookupsKnown
<1>10. LookupsKnown'
  BY <1>5, <1>7, <1>8, <1>9, Zenon DEF StreamKnown, LookupsKnown
<1>11. QED
  BY <1>7, <1>10, Zenon DEF StreamKnown

\* A caller takes an answer to its call, or gives up.
LEMMA HearKept ==
  ASSUME StreamKnown, NEW c \in Callers, Hear(c)
  PROVE  StreamKnown'
<1>1. CallKnown(caller[c]) /\ caller[c].pc = "answer" /\ DOMAIN caller = Callers
  BY Zenon DEF StreamKnown, CallersKnown, Hear
<1>2. CASE \E a \in response_receiver(c) :
             /\ caller' = [caller EXCEPT ![c].pc = "connect", ![c].addrs = a.addrs]
             /\ answers' = answers \ {a} /\ UNCHANGED <<queue, worker>>
  <2>1. PICK a \in response_receiver(c) :
             /\ caller' = [caller EXCEPT ![c].pc = "connect", ![c].addrs = a.addrs]
             /\ answers' = answers \ {a} /\ UNCHANGED <<queue, worker>>
    BY <1>2, Zenon
  <2>2. a \in Answer /\ AnswerKnown(a) /\ a.c = c /\ a.call = caller[c].call /\ Asking(c)
    BY <1>1, Zenon DEF response_receiver, StreamKnown, LookupsKnown, Asking
  <2>3. a.addrs \in Seq(Address) /\ \A i \in 1..Len(a.addrs) : a.addrs[i].name = caller[c].name
    BY <2>2, Zenon DEF Answer, AnswerKnown
  <2>4. caller[c].name \in MayReach(caller[c].way)
    BY <1>1, Zenon DEF CallKnown, MayReach
  <2>5. /\ DOMAIN caller' = Callers /\ \A d \in Callers \ {c} : caller'[d] = caller[d]
        /\ caller'[c] = [caller[c] EXCEPT !.pc = "connect", !.addrs = a.addrs]
    BY <1>1, <2>1, Zenon DEF CallKnown
  <2>6. CallKnown(caller[c])' /\ caller'[c].call = caller[c].call /\ ~Asking(c)'
    BY <1>1, <2>3, <2>4, <2>5 DEF CallKnown, CallFields, Asking
  <2>7. caller'[c].call \in Nat /\ caller'[c].call >= caller[c].call
    <3>1. caller[c].call \in Nat /\ caller'[c].call = caller[c].call
      BY <1>1, <2>6, Zenon DEF CallKnown
    <3>2. QED
      BY <3>1
  <2>8. \A d \in Callers \ {c} : caller'[d] = caller[d]
    BY <2>5, Zenon
  <2>9. /\ \A r \in Request : RequestKnown(r) => RequestKnown(r)'
        /\ \A b \in Answer : AnswerKnown(b) => AnswerKnown(b)'
    BY <2>6, <2>7, <2>8, LookupsStay, Zenon
  <2>10. LookupsKnown'
    BY <2>1, <2>9 DEF StreamKnown, LookupsKnown
  <2>11. CallersKnown'
    <3>1. ASSUME NEW d \in Callers PROVE CallKnown(caller[d])'
      <4>1. CASE d # c
        BY <2>5, <4>1 DEF StreamKnown, CallersKnown, CallKnown
      <4>2. QED
        BY <2>6, <4>1, Zenon
    <3>2. QED
      BY <2>5, <3>1, Zenon DEF CallersKnown
  <2>12. QED
    BY <2>10, <2>11, Zenon DEF StreamKnown
<1>3. CASE FailsCall(c) /\ UNCHANGED <<queue, worker, answers>>
  BY <1>3, CallFails, Zenon
<1>4. QED
  BY <1>2, <1>3, Zenon DEF Hear

\* A caller tries the next address.
LEMMA TryKept ==
  ASSUME StreamKnown, NEW c \in Callers, TryAddress(c)
  PROVE  StreamKnown'
<1>1. /\ CallKnown(caller[c]) /\ DOMAIN caller = Callers
      /\ caller[c].pc = "connect" /\ caller[c].addrs # <<>>
      /\ UNCHANGED <<queue, worker, answers>>
  BY Zenon DEF StreamKnown, CallersKnown, TryAddress
<1> DEFINE to == Head(caller[c].addrs).name
           rest == Tail(caller[c].addrs)
<1>2. /\ to \in MayReach(caller[c].way)
      /\ rest \in Seq(Address) /\ \A i \in 1..Len(rest) : rest[i].name \in MayReach(caller[c].way)
  <2>1. caller[c].addrs \in Seq(Address) /\ caller[c].addrs # <<>>
    BY <1>1, Zenon DEF CallKnown
  <2>2. /\ 1 \in 1..Len(caller[c].addrs) /\ Head(caller[c].addrs) = caller[c].addrs[1]
        /\ rest \in Seq(Address)
        /\ \A i \in 1..Len(rest) : i + 1 \in 1..Len(caller[c].addrs) /\ rest[i] = caller[c].addrs[i + 1]
    BY <2>1
  <2>3. QED
    BY <1>1, <2>2, Zenon DEF CallKnown
<1>3. \/ caller' = [[caller EXCEPT ![c].touched = @ \cup {to}] EXCEPT ![c].addrs = rest]
      \/ caller' = [[caller EXCEPT ![c].touched = @ \cup {to}]
                      EXCEPT ![c].hops = <<to>>, ![c].pc = Connected(caller[c].way)]
  BY <1>1, Zenon DEF TryAddress, CallKnown, CallFields
<1> HIDE DEF to, rest
<1>4. CASE caller' = [[caller EXCEPT ![c].touched = @ \cup {to}] EXCEPT ![c].addrs = rest]
  <2>1. /\ DOMAIN caller' = Callers /\ \A d \in Callers \ {c} : caller'[d] = caller[d]
        /\ caller'[c] = [caller[c] EXCEPT !.touched = @ \cup {to}, !.addrs = rest]
    BY <1>1, <1>4, Zenon DEF CallKnown
  <2>2. CallKnown(caller[c])' /\ caller'[c].call = caller[c].call /\ ~Asking(c)'
    <3>1. /\ DOMAIN caller'[c] = CallFields
          /\ caller'[c].pc = caller[c].pc /\ caller'[c].call = caller[c].call
          /\ caller'[c].way = caller[c].way /\ caller'[c].wanted = caller[c].wanted
          /\ caller'[c].name = caller[c].name /\ caller'[c].addrs = rest
          /\ caller'[c].hops = caller[c].hops /\ caller'[c].touched = caller[c].touched \cup {to}
      BY <1>1, <2>1, Zenon DEF CallKnown, CallFields
    <3>2. CallKnown(caller[c])'
      BY <1>1, <3>1, <1>2, Zenon DEF CallKnown
    <3>3. QED
      BY <1>1, <3>1, <3>2, Zenon DEF Asking
  <2>3. CallMoves(c)
    BY <1>1, <2>1, <2>2, Zenon DEF CallMoves
  <2>4. QED
    BY <2>3, OneCallerMoves, Zenon
<1>5. CASE caller' = [[caller EXCEPT ![c].touched = @ \cup {to}]
                        EXCEPT ![c].hops = <<to>>, ![c].pc = Connected(caller[c].way)]
  <2>1. /\ DOMAIN caller' = Callers /\ \A d \in Callers \ {c} : caller'[d] = caller[d]
        /\ caller'[c] = [caller[c] EXCEPT !.touched = @ \cup {to}, !.hops = <<to>>,
                                          !.pc = Connected(caller[c].way)]
    BY <1>1, <1>5, Zenon DEF CallKnown
  <2>2. /\ Connected(caller[c].way) \in {"stream", "method", "request"}
        /\ Relayed(caller[c].way) <=> Connected(caller[c].way) # "stream"
        /\ Relayed(caller[c].way) => to = Target(caller[c].way)
    BY <1>1, <1>2, Zenon DEF CallKnown, Ways, Connected, Relayed, MayReach
  <2>3. CallKnown(caller[c])' /\ caller'[c].call = caller[c].call /\ ~Asking(c)'
    <3>1. /\ DOMAIN caller'[c] = CallFields
          /\ caller'[c].pc = Connected(caller[c].way) /\ caller'[c].call = caller[c].call
          /\ caller'[c].way = caller[c].way /\ caller'[c].wanted = caller[c].wanted
          /\ caller'[c].name = caller[c].name /\ caller'[c].addrs = caller[c].addrs
          /\ caller'[c].hops = <<to>> /\ caller'[c].touched = caller[c].touched \cup {to}
      BY <1>1, <2>1, Zenon DEF CallKnown, CallFields
    <3>2. CallKnown(caller[c])'
      BY <1>1, <3>1, <1>2, <2>2, Zenon DEF CallKnown
    <3>3. QED
      BY <2>2, <3>1, <3>2, Zenon DEF Asking
  <2>4. CallMoves(c)
    BY <1>1, <2>1, <2>3, Zenon DEF CallMoves
  <2>5. QED
    BY <2>4, OneCallerMoves, Zenon
<1>6. QED
  BY <1>3, <1>4, <1>5, Zenon

\* The second hop is the one after the first.
LEMMA TwoHops ==
  ASSUME NEW first \in Names, NEW next \in Names
  PROVE  Append(<<first>>, next) = <<first, next>>
<1>1. <<first>> \in Seq(Names) /\ Len(<<first>>) = 1 /\ <<first>>[1] = first
  OBVIOUS
<1>2. /\ Append(<<first>>, next) \in Seq(Names) /\ Len(Append(<<first>>, next)) = 2
      /\ Append(<<first>>, next)[1] = first /\ Append(<<first>>, next)[2] = next
  BY <1>1
<1>3. /\ <<first, next>> \in Seq(Names) /\ Len(<<first, next>>) = 2
      /\ <<first, next>>[1] = first /\ <<first, next>>[2] = next
  OBVIOUS
<1>4. \A i \in 1..2 : Append(<<first>>, next)[i] = <<first, next>>[i]
  BY <1>2, <1>3
<1>5. QED
  BY <1>2, <1>3, <1>4, SeqEqual, Zenon

\* The exchange with the SOCKS5 proxy.
LEMMA Socks5Kept ==
  ASSUME StreamKnown, NEW c \in Callers, socks5_connect(c)
  PROVE  StreamKnown'
<1>1. /\ CallKnown(caller[c]) /\ DOMAIN caller = Callers
      /\ caller[c].pc \in {"method", "credentials", "request"}
      /\ UNCHANGED <<queue, worker, answers>>
  BY Zenon DEF StreamKnown, CallersKnown, socks5_connect
<1>2. Relayed(caller[c].way) /\ caller[c].hops = <<Target(caller[c].way)>>
  BY <1>1, Zenon DEF CallKnown
<1>3. ASSUME NEW pc \in {"credentials", "request"}, Moves(c, pc) PROVE StreamKnown'
  <2>1. /\ DOMAIN caller' = Callers /\ \A d \in Callers \ {c} : caller'[d] = caller[d]
        /\ caller'[c] = [caller[c] EXCEPT !.pc = pc]
    BY <1>1, <1>3, Zenon DEF CallKnown, Moves
  <2>2. CallKnown(caller[c])' /\ caller'[c].call = caller[c].call /\ ~Asking(c)'
    <3>1. /\ DOMAIN caller'[c] = CallFields
          /\ caller'[c].pc = pc /\ caller'[c].call = caller[c].call
          /\ caller'[c].way = caller[c].way /\ caller'[c].wanted = caller[c].wanted
          /\ caller'[c].name = caller[c].name /\ caller'[c].addrs = caller[c].addrs
          /\ caller'[c].hops = caller[c].hops /\ caller'[c].touched = caller[c].touched
      BY <1>1, <2>1, Zenon DEF CallKnown, CallFields
    <3>2. CallKnown(caller[c])'
      BY <1>1, <3>1, <1>2, Zenon DEF CallKnown
    <3>3. QED
      BY <3>1, <3>2, Zenon DEF Asking
  <2>3. CallMoves(c)
    BY <1>1, <2>1, <2>2, Zenon DEF CallMoves
  <2>4. QED
    BY <2>3, OneCallerMoves, Zenon
<1>4. CASE caller' = [caller EXCEPT ![c].pc = "stream", ![c].hops = Append(@, "peer")]
  <2>1. /\ DOMAIN caller' = Callers /\ \A d \in Callers \ {c} : caller'[d] = caller[d]
        /\ caller'[c] = [caller[c] EXCEPT !.pc = "stream", !.hops = Append(@, "peer")]
    BY <1>1, <1>4, Zenon DEF CallKnown
  <2>2. caller'[c] = [caller[c] EXCEPT !.pc = "stream", !.hops = <<Target(caller[c].way), "peer">>]
    <3>1. Append(<<Target(caller[c].way)>>, "peer") = <<Target(caller[c].way), "peer">>
      BY TwoHops, Zenon DEF Target, Names
    <3>2. QED
      BY <1>1, <1>2, <2>1, <3>1, Zenon DEF CallKnown, CallFields
  <2>3. CallKnown(caller[c])' /\ caller'[c].call = caller[c].call /\ ~Asking(c)'
    <3>1. /\ DOMAIN caller'[c] = CallFields
          /\ caller'[c].pc = "stream" /\ caller'[c].call = caller[c].call
          /\ caller'[c].way = caller[c].way /\ caller'[c].wanted = caller[c].wanted
          /\ caller'[c].name = caller[c].name /\ caller'[c].addrs = caller[c].addrs
          /\ caller'[c].hops = <<Target(caller[c].way), "peer">> /\ caller'[c].touched = caller[c].touched
      BY <1>1, <2>2, Zenon DEF CallKnown, CallFields
    <3>2. CallKnown(caller[c])'
      BY <1>1, <3>1, <1>2, Zenon DEF CallKnown
    <3>3. QED
      BY <3>1, <3>2, Zenon DEF Asking
  <2>4. CallMoves(c)
    BY <1>1, <2>1, <2>3, Zenon DEF CallMoves
  <2>5. QED
    BY <2>4, OneCallerMoves, Zenon
<1>5. CASE FailsCall(c)
  BY <1>1, <1>5, CallFails, Zenon
<1>6. QED
  BY <1>3, <1>4, <1>5, Zenon DEF socks5_connect

\* StreamKnown is kept by every step of the set-up.
LEMMA StreamKept ==
  ASSUME StreamKnown, [SetupNext]_setupVars
  PROVE  StreamKnown'
<1>1. CASE UNCHANGED connectVars
  <2>1. /\ \A r : RequestKnown(r)' <=> RequestKnown(r)
        /\ \A a : AnswerKnown(a)' <=> AnswerKnown(a)
    BY <1>1, Zenon DEF connectVars, RequestKnown, AnswerKnown, Asking
  <2>2. LookupsKnown'
    BY <1>1, <2>1, Zenon DEF connectVars, StreamKnown, LookupsKnown
  <2>3. CallersKnown'
    BY <1>1 DEF connectVars, StreamKnown, CallersKnown, CallKnown
  <2>4. QED
    BY <2>2, <2>3, Zenon DEF StreamKnown
<1>2. ASSUME NEW c \in Callers, NoAddressLeft(c) PROVE StreamKnown'
  BY <1>2, CallFails, Zenon DEF NoAddressLeft
<1>3. CASE \E c \in Callers :
             \/ connect_tcp_via_underlay(c) \/ connect_onion_bridge(c)
             \/ connect_mule_usb(c) \/ connect_mesh_dtn_local(c)
             \/ resolve_socket_addrs(c) \/ Hear(c)
             \/ TryAddress(c) \/ NoAddressLeft(c) \/ socks5_connect(c)
  BY <1>2, <1>3, CallsBegin, ResolveKept, HearKept, TryKept, Socks5Kept, Zenon
<1>4. CASE \E w \in DnsWorkers : TakeRequest(w) \/ resolve_socket_addrs_bounded(w)
  BY <1>4, TakeKept, LookedUpKept, Zenon
<1>5. QED
  BY <1>1, <1>3, <1>4, Zenon DEF SetupNext, setupVars

\* StreamKnown gives that a stream goes where it was asked to.
LEMMA StreamFollows ==
  ASSUME StreamKnown
  PROVE  StreamAsAsked
<1>1. SUFFICES ASSUME NEW c \in Callers
      PROVE LET call == caller[c]
                relayed == call.wanted \in {"socks5", "tor", "onion", "mule"}
                first == IF call.wanted = "onion" THEN "relay" ELSE "proxy"
            IN /\ call.pc = "stream" =>
                    IF relayed THEN call.hops = <<first, "peer">>
                    ELSE \/ call.hops = <<"peer">>
                         \/ call.wanted = "mesh" /\ call.hops = <<"neighbour">>
               /\ relayed => "peer" \notin call.touched
  BY Zenon DEF StreamAsAsked
<1>2. CallKnown(caller[c])
  BY <1>1, Zenon DEF StreamKnown, CallersKnown
<1>3. QED
  BY <1>2, Zenon DEF CallKnown, Relayed, Target, MayReach
=============================================================================
