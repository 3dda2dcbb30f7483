------------------------------ MODULE EdgeProofs ------------------------------
(***************************************************************************)
(* Proofs about the relay services of module Edge, for any number of       *)
(* relays, request handlers, local connections, streams and bytes.         *)
(***************************************************************************)
EXTENDS Edge, EdgeCarrierProofs

(* --- the quota of a circuit ----------------------------------------------- *)

\* The counter is what the two loops have forwarded and are about to write.
Loop(c) ==
  /\ DOMAIN c = {"pc", "read", "allowed", "forwarded"}
  /\ c.allowed \in Nat /\ c.forwarded \in Nat
  /\ c.pc # "write" => c.allowed = 0

QuotaInv ==
  /\ DOMAIN copy = Directions /\ copied \in Nat /\ copied <= ByteLimit
  /\ \A d \in Directions : Loop(copy[d])
  /\ copied = copy["out"].forwarded + copy["out"].allowed
               + copy["back"].forwarded + copy["back"].allowed

\* What a step may do to one direction of the copy.
Charged(d, c) ==
  /\ copied' \in Nat /\ copied' <= ByteLimit
  /\ copied' = copied + c.allowed + c.forwarded - copy[d].allowed - copy[d].forwarded

\* A step of one direction charges the counter for what it forwards.
LEMMA QuotaMoves ==
  ASSUME QuotaInv, NEW d \in Directions, NEW c,
         copy' = [copy EXCEPT ![d] = c], Loop(c), Charged(d, c)
  PROVE  QuotaInv'
<1>1. DOMAIN copy' = Directions /\ copy'[d] = c /\ \A e \in Directions \ {d} : copy'[e] = copy[e]
  BY Zenon DEF QuotaInv
<1>2. d = "out" \/ d = "back"
  BY Zenon DEF Directions
<1>3. "out" \in Directions /\ "back" \in Directions
  BY Zenon DEF Directions
<1>4. \A e \in Directions : Loop(copy[e])'
  BY <1>1, Zenon DEF QuotaInv, Loop
<1>5. /\ \A e \in Directions : copy[e].allowed \in Nat /\ copy[e].forwarded \in Nat
      /\ c.allowed \in Nat /\ c.forwarded \in Nat
  BY Zenon DEF QuotaInv, Loop
<1>6. copied \in Nat /\ copied = copy["out"].forwarded + copy["out"].allowed
               + copy["back"].forwarded + copy["back"].allowed
  BY Zenon DEF QuotaInv
<1>7. copied' = copy'["out"].forwarded + copy'["out"].allowed
                 + copy'["back"].forwarded + copy'["back"].allowed
  <2>1. CASE d = "out"
    <3>1. copy'["out"] = c /\ copy'["back"] = copy["back"]
      BY <1>1, <1>3, <2>1, Zenon
    <3>2. QED
      BY <1>3, <1>5, <1>6, <2>1, <3>1 DEF Charged
  <2>2. CASE d = "back"
    <3>1. copy'["back"] = c /\ copy'["out"] = copy["out"]
      BY <1>1, <1>3, <2>2, Zenon
    <3>2. QED
      BY <1>3, <1>5, <1>6, <2>2, <3>1 DEF Charged
  <2>3. QED
    BY <1>2, <2>1, <2>2, Zenon
<1>8. QED
  BY <1>1, <1>4, <1>7, Zenon DEF QuotaInv, Charged

\* ReadAndReserve is the step that could overdraw it.
LEMMA ReserveKeeps ==
  ASSUME QuotaInv, NEW d \in Directions, NEW n \in 1..CopyBuffer, ReadAndReserve(d, n)
  PROVE  QuotaInv'
<1>1. /\ DOMAIN copy[d] = {"pc", "read", "allowed", "forwarded"} /\ copy[d].pc = "read"
      /\ copy[d].allowed = 0 /\ copy[d].forwarded \in Nat
      /\ copied \in Nat /\ copied <= ByteLimit /\ ByteLimit \in Nat /\ n \in Nat
  BY OnionAssumption DEF QuotaInv, Loop, ReadAndReserve
<1>2. CASE copied >= ByteLimit
  <2>1. PICK c : c = [copy[d] EXCEPT !.pc = "error"]
    BY Zenon
  <2>2. /\ DOMAIN c = {"pc", "read", "allowed", "forwarded"} /\ c.pc = "error"
        /\ c.allowed = 0 /\ c.forwarded = copy[d].forwarded
    BY <1>1, <2>1, Zenon
  <2>3. copy' = [copy EXCEPT ![d] = c] /\ copied' = copied
    BY <1>2, <2>1, Zenon DEF ReadAndReserve
  <2>4. Loop(c) /\ Charged(d, c)
    BY <1>1, <2>2, <2>3 DEF Loop, Charged
  <2>5. QED
    BY <2>3, <2>4, QuotaMoves, Zenon
<1>3. CASE ~(copied >= ByteLimit)
  <2>1. PICK a : a = Minimum(n, ByteLimit - copied)
    BY Zenon
  <2>2. a \in Nat /\ copied + a <= ByteLimit
    BY <1>1, <1>3, <2>1 DEF Minimum
  <2>3. PICK c : c = [copy[d] EXCEPT !.pc = "write", !.read = n, !.allowed = a]
    BY Zenon
  <2>4. /\ DOMAIN c = {"pc", "read", "allowed", "forwarded"} /\ c.pc = "write"
        /\ c.allowed = a /\ c.forwarded = copy[d].forwarded
    BY <1>1, <2>3, Zenon
  <2>5. copy' = [copy EXCEPT ![d] = c] /\ copied' = copied + a
    BY <1>3, <2>1, <2>3, Zenon DEF ReadAndReserve
  <2>6. Loop(c) /\ Charged(d, c)
    BY <1>1, <2>2, <2>4, <2>5 DEF Loop, Charged
  <2>7. QED
    BY <2>5, <2>6, QuotaMoves, Zenon
<1>4. QED
  BY <1>2, <1>3, Zenon

\* QuotaInv is kept by every step of the path.
LEMMA QuotaKeeps ==
  ASSUME QuotaInv, OnionNext
  PROVE  QuotaInv'
<1>1. CASE UNCHANGED <<copied, copy>>
  BY <1>1, Zenon DEF QuotaInv, Loop
<1>2. ASSUME NEW d \in Directions, ReadEnd(d) PROVE QuotaInv'
  <2>1. PICK c : c = [copy[d] EXCEPT !.pc = "done"]
    BY Zenon
  <2>2. /\ DOMAIN copy[d] = {"pc", "read", "allowed", "forwarded"} /\ copy[d].allowed = 0
        /\ copy[d].forwarded \in Nat /\ copied \in Nat /\ copied <= ByteLimit
    BY <1>2, Zenon DEF QuotaInv, Loop, ReadEnd
  <2>3. /\ DOMAIN c = {"pc", "read", "allowed", "forwarded"} /\ c.pc = "done"
        /\ c.allowed = 0 /\ c.forwarded = copy[d].forwarded
    BY <2>1, <2>2, Zenon
  <2>4. copy' = [copy EXCEPT ![d] = c] /\ copied' = copied
    BY <1>2, <2>1, Zenon DEF ReadEnd
  <2>5. Loop(c) /\ Charged(d, c)
    BY <2>2, <2>3, <2>4 DEF Loop, Charged
  <2>6. QED
    BY <2>4, <2>5, QuotaMoves, Zenon
<1>3. ASSUME NEW d \in Directions, WriteAllowed(d) PROVE QuotaInv'
  <2>1. PICK pc \in {"error", "read"} :
          copy' = [copy EXCEPT ![d] = [pc |-> pc, read |-> 0, allowed |-> 0,
                                       forwarded |-> copy[d].forwarded + copy[d].allowed]]
    BY <1>3, Zenon DEF WriteAllowed
  <2>2. PICK c : c = [pc |-> pc, read |-> 0, allowed |-> 0,
                      forwarded |-> copy[d].forwarded + copy[d].allowed]
    BY Zenon
  <2>3. /\ DOMAIN c = {"pc", "read", "allowed", "forwarded"} /\ c.pc # "write"
        /\ c.allowed = 0 /\ c.forwarded = copy[d].forwarded + copy[d].allowed
    BY <2>2, Zenon
  <2>4. copied' = copied /\ copied \in Nat /\ copied <= ByteLimit
        /\ copy[d].forwarded \in Nat /\ copy[d].allowed \in Nat
    BY <1>3, Zenon DEF WriteAllowed, QuotaInv, Loop
  <2>5. Loop(c) /\ Charged(d, c)
    BY <2>3, <2>4 DEF Loop, Charged
  <2>6. QED
    BY <2>1, <2>2, <2>5, QuotaMoves, Zenon
<1>4. QED
  BY <1>1, <1>2, <1>3, ReserveKeeps, Zenon
     DEF OnionNext, Dial, CheckIdentity, send_open_request, BridgeEnds, relay_copy, OpenCircuit,
         CloseCircuit, StopRelay

(* --- the path ------------------------------------------------------------- *)

\* The hops behind the client are connected in order, a circuit is open only
\* at a relay that is connected, and the stream is handed on after the last.
PathInv ==
  /\ hop \in 1 .. Hops + 1
  /\ walker \in {"dial", "tls", "ask"} => hop <= Hops
  /\ walker = "copy" => hop = Hops + 1
  /\ DOMAIN circuit = Relays /\ DOMAIN reached = Relays
  /\ \A h \in Relays :
       /\ hop > h => reached[h] = h + 1
       /\ circuit[h] = "open" => reached[h] = h + 1
       /\ reached[h] # 0 => reached[h] = h + 1 /\ reached[h] \in targets[h] /\ hop >= h

\* A relay opens its circuit when it has reached the next one.
LEMMA OpenKeeps ==
  ASSUME PathInv, NEW h \in Relays, OpenCircuit(h)
  PROVE  PathInv'
<1>1. h \in Nat /\ hop = h /\ h + 1 \in targets[h] /\ UNCHANGED <<targets, walker, hop>>
  BY OnionAssumption DEF OpenCircuit, Relays
<1>2. DOMAIN circuit' = Relays /\ \A r \in Relays : circuit'[r] = "open" => r = h \/ circuit[r] = "open"
  <2>1. circuit' = [r \in Relays |->
                     CASE r = h -> "open" [] r = h + 1 -> "setup" [] OTHER -> circuit[r]]
    BY Zenon DEF OpenCircuit
  <2>2. ASSUME NEW r \in Relays, r # h PROVE circuit'[r] = "setup" \/ circuit'[r] = circuit[r]
    BY <2>1, <2>2, Zenon
  <2>3. QED
    BY <2>1, <2>2, Zenon
<1>3. /\ DOMAIN reached' = Relays /\ reached'[h] = h + 1
      /\ \A r \in Relays \ {h} : reached'[r] = reached[r]
  BY Zenon DEF OpenCircuit, PathInv
<1>4. QED
  BY <1>1, <1>2, <1>3 DEF PathInv

\* The client asks one hop further only when the last one answered.
LEMMA AskKeeps ==
  ASSUME PathInv, send_open_request
  PROVE  PathInv'
<1>1. /\ walker = "ask" /\ hop \in Relays /\ hop \in Nat /\ Hops \in Nat
      /\ UNCHANGED <<targets, circuit, reached>>
  BY OnionAssumption DEF send_open_request, PathInv, Relays
<1>2. CASE walker' = "failed" /\ UNCHANGED hop
  BY <1>1, <1>2, Zenon DEF PathInv
<1>3. CASE circuit[hop] = "open" /\ hop' = hop + 1 /\ walker' = IF hop = Hops THEN "copy" ELSE "tls"
  <2>1. reached[hop] = hop + 1
    BY <1>1, <1>3, Zenon DEF PathInv
  <2>2. \A h \in Relays : h \in Nat /\ (hop' > h => h = hop \/ hop > h)
    BY <1>1, <1>3, OnionAssumption DEF Relays
  <2>3. hop' \in 1 .. Hops + 1 /\ (walker' # "copy" => hop' <= Hops)
        /\ (walker' = "copy" => hop' = Hops + 1)
    BY <1>1, <1>3 DEF Relays
  <2>4. walker' \in {"copy", "tls"}
    BY <1>3, Zenon
  <2>5. ASSUME NEW h \in Relays
        PROVE  /\ hop' > h => reached'[h] = h + 1
               /\ circuit'[h] = "open" => reached'[h] = h + 1
               /\ reached'[h] # 0 => /\ reached'[h] = h + 1 /\ reached'[h] \in targets'[h]
                                     /\ hop' >= h
    BY <1>1, <1>3, <2>1, <2>2 DEF PathInv
  <2>6. QED
    BY <1>1, <2>3, <2>4, <2>5, Zenon DEF PathInv
<1>4. QED
  BY <1>2, <1>3, Zenon DEF send_open_request

\* PathInv is kept by every step of the path.
LEMMA PathKeeps ==
  ASSUME PathInv, OnionNext
  PROVE  PathInv'
<1>1. CASE UNCHANGED <<targets, circuit, reached, walker, hop>>
  BY <1>1, Zenon DEF PathInv
<1>2. CASE Dial
  <2>1. /\ UNCHANGED <<targets, reached, hop>> /\ walker' \in {"tls", "failed"} /\ walker = "dial"
        /\ circuit' \in {circuit, [circuit EXCEPT ![1] = "setup"]}
    BY <1>2, Zenon DEF Dial
  <2>2. /\ DOMAIN circuit' = Relays
        /\ \A h \in Relays : circuit'[h] = "open" => circuit[h] = "open"
    BY <2>1, Zenon DEF PathInv
  <2>3. QED
    BY <2>1, <2>2, Zenon DEF PathInv
<1>3. CASE CheckIdentity \/ BridgeEnds
  BY <1>3, Zenon DEF CheckIdentity, BridgeEnds, PathInv
<1>4. CASE relay_copy \/ \E h \in Relays : CloseCircuit(h)
  <2>1. /\ UNCHANGED <<targets, reached, walker, hop>>
        /\ \E h \in Relays \cup {1} : circuit' = [circuit EXCEPT ![h] = "closed"]
    BY <1>4, Zenon DEF relay_copy, CloseCircuit
  <2>2. /\ DOMAIN circuit' = Relays
        /\ \A h \in Relays : circuit'[h] = "open" => circuit[h] = "open"
    BY <2>1, Zenon DEF PathInv
  <2>3. QED
    BY <2>1, <2>2, Zenon DEF PathInv
<1>5. QED
  BY <1>1, <1>2, <1>3, <1>4, AskKeeps, OpenKeeps, Zenon
     DEF OnionNext, StopRelay, ReadEnd, WriteAllowed, ReadAndReserve

\* PathInv gives that a path handed on is complete.
LEMMA PathSuffices ==
  ASSUME PathInv
  PROVE  PathComplete
<1>1. ASSUME NEW h \in Relays PROVE walker = "copy" \/ hop > h => reached[h] = h + 1
  BY OnionAssumption DEF PathInv, Relays
<1>2. ASSUME NEW h \in Relays, reached[h] # 0, NEW k \in 1..h PROVE reached[k] = k + 1
  <2>1. reached[h] = h + 1 /\ hop >= h
    BY <1>2, Zenon DEF PathInv
  <2>2. k \in Relays /\ (k = h \/ hop > k)
    BY <2>1, OnionAssumption DEF Relays, PathInv
  <2>3. QED
    BY <2>1, <2>2, Zenon DEF PathInv
<1>3. ASSUME NEW h \in Relays, reached[h] # 0 PROVE reached[h] \in targets[h]
  BY <1>3, Zenon DEF PathInv
<1>4. QED
  BY <1>1, <1>2, <1>3, Zenon DEF PathComplete

(* --- one use of a capability ---------------------------------------------- *)

\* The cache still says that n is used until e, or e has passed.
Spent(n, e) == (n \in DOMAIN cache /\ cache[n] = e) \/ e <= unix_now

DoorTyped ==
  /\ half \in Nat /\ DOMAIN admitted = Nonces /\ DOMAIN task = Tasks
  /\ \A n \in Nonces : admitted[n] = 0 \/ admitted[n] = 1

DoorInv ==
  /\ DoorTyped
  /\ \A t \in Tasks : task[t].pc = "commit" =>
       \E c \in Capabilities : Sound(c) /\ task[t].v = VerifiedCapability(c)
  /\ \A n \in Nonces : admitted[n] = 1 =>
       \E c \in Capabilities : Sound(c) /\ c.nonce = n /\ Spent(n, c.expires + ClockSkew)

\* The clock of the front door reads whole seconds.
LEMMA ClockCounts ==
  ASSUME DoorTyped
  PROVE  unix_now \in Nat
BY DEF DoorTyped, unix_now

\* The cache after a call remembers all that is live, and takes a nonce only
\* if it is not.
LEMMA ConsumeRemembers ==
  ASSUME NEW v, v.replay_expires_at \in Nat, NEW now \in Nat, NEW r, r = consume(v, now)
  PROVE  /\ \A m \in DOMAIN cache : cache[m] > now => m \in DOMAIN r.cache /\ r.cache[m] = cache[m]
         /\ r.ok => /\ ~(v.nonce \in DOMAIN cache /\ cache[v.nonce] > now)
                    /\ v.replay_expires_at > now
                    /\ v.nonce \in DOMAIN r.cache /\ r.cache[v.nonce] = v.replay_expires_at
<1>1. PICK kept : kept = prune(now)
  BY Zenon
<1>2. /\ DOMAIN kept = {m \in DOMAIN cache : cache[m] > now}
      /\ \A m \in DOMAIN kept : kept[m] = cache[m]
  BY <1>1, Zenon DEF prune
<1>3. CASE now < v.valid_from \/ v.replay_expires_at <= now
  <2>1. r = [ok |-> FALSE, full |-> FALSE, cache |-> cache]
    BY <1>3, Zenon DEF consume
  <2>2. QED
    BY <2>1
<1>4. CASE ~(now < v.valid_from \/ v.replay_expires_at <= now)
  <2>1. r = insert(v.nonce, v.replay_expires_at, now)
    BY <1>4, Zenon DEF consume
  <2> DEFINE live == v.nonce \in DOMAIN cache /\ cache[v.nonce] > now
             full == Cardinality(DOMAIN kept) >= capacity
  <2>2. CASE live
    <3>1. r = [ok |-> FALSE, full |-> FALSE, cache |-> cache]
      BY <2>1, <2>2, Zenon DEF insert
    <3>2. QED
      BY <3>1
  <2>3. CASE ~live /\ v.replay_expires_at <= now
    <3>1. r = [ok |-> FALSE, full |-> FALSE, cache |-> kept]
      BY <1>1, <2>1, <2>3 DEF insert
    <3>2. QED
      BY <1>2, <3>1
  <2>4. CASE ~live /\ v.replay_expires_at > now /\ full
    <3>1. r = [ok |-> FALSE, full |-> TRUE, cache |-> kept]
      BY <1>1, <2>1, <2>4 DEF insert
    <3>2. QED
      BY <1>2, <3>1
  <2>5. CASE ~live /\ ~(v.replay_expires_at <= now) /\ ~(v.replay_expires_at > now /\ full)
    <3>1. PICK new : new = [n \in DOMAIN kept \cup {v.nonce} |->
                             IF n = v.nonce THEN v.replay_expires_at ELSE kept[n]]
      BY Zenon
    <3>2. r = [ok |-> TRUE, full |-> FALSE, cache |-> new]
      BY <1>1, <2>1, <2>5, <3>1, Zenon DEF insert
    <3>3. /\ DOMAIN new = DOMAIN kept \cup {v.nonce} /\ new[v.nonce] = v.replay_expires_at
          /\ \A m \in DOMAIN kept \ {v.nonce} : new[m] = kept[m]
      BY <3>1, Zenon
    <3>4. QED
      BY <1>2, <2>5, <3>2, <3>3
  <2>6. QED
    BY <2>2, <2>3, <2>4, <2>5, Zenon
<1>5. QED
  BY <1>3, <1>4, Zenon

\* What the cache holds after a call was there before or is what is entered,
\* and only a live capability finds it full.
LEMMA ConsumeEnters ==
  ASSUME NEW v, v.replay_expires_at \in Nat, NEW now \in Nat, NEW r, r = consume(v, now)
  PROVE  /\ \A m \in DOMAIN r.cache : \/ m \in DOMAIN cache /\ r.cache[m] = cache[m]
                                      \/ m = v.nonce /\ r.cache[m] = v.replay_expires_at
         /\ r.full => /\ v.replay_expires_at > now
                      /\ Cardinality({m \in DOMAIN cache : cache[m] > now}) >= capacity
<1>1. PICK kept : kept = prune(now)
  BY Zenon
<1>2. /\ DOMAIN kept = {m \in DOMAIN cache : cache[m] > now}
      /\ \A m \in DOMAIN kept : m \in DOMAIN cache /\ kept[m] = cache[m]
  BY <1>1, Zenon DEF prune
<1>3. CASE r.cache = cache /\ r.full = FALSE
  BY <1>3, Zenon
<1>4. CASE /\ r.cache = kept
           /\ r.full => /\ v.replay_expires_at > now /\ Cardinality(DOMAIN kept) >= capacity
  BY <1>2, <1>4, Zenon
<1>5. CASE /\ r.full = FALSE
           /\ r.cache = [n \in DOMAIN kept \cup {v.nonce} |->
                           IF n = v.nonce THEN v.replay_expires_at ELSE kept[n]]
  BY <1>2, <1>5
<1>6. QED
  <2>1. r = [ok |-> FALSE, full |-> FALSE, cache |-> cache]
          \/ r = insert(v.nonce, v.replay_expires_at, now)
    BY Zenon DEF consume
  <2> DEFINE live == v.nonce \in DOMAIN cache /\ cache[v.nonce] > now
             full == Cardinality(DOMAIN kept) >= capacity
             new == [n \in DOMAIN kept \cup {v.nonce} |->
                       IF n = v.nonce THEN v.replay_expires_at ELSE kept[n]]
  <2>2. ASSUME r = insert(v.nonce, v.replay_expires_at, now)
        PROVE  \/ r = [ok |-> FALSE, full |-> FALSE, cache |-> cache]
               \/ r = [ok |-> FALSE, full |-> FALSE, cache |-> kept]
               \/ r = [ok |-> FALSE, full |-> TRUE, cache |-> kept]
                    /\ v.replay_expires_at > now /\ full
               \/ r = [ok |-> TRUE, full |-> FALSE, cache |-> new]
    BY <1>1, <2>2, Zenon DEF insert
  <2>3. CASE r = [ok |-> FALSE, full |-> FALSE, cache |-> cache]
    BY <1>3, <2>3
  <2>4. CASE r = [ok |-> FALSE, full |-> FALSE, cache |-> kept]
    BY <1>4, <2>4
  <2>5. CASE r = [ok |-> FALSE, full |-> TRUE, cache |-> kept] /\ v.replay_expires_at > now /\ full
    BY <1>4, <2>5
  <2>6. CASE r = [ok |-> TRUE, full |-> FALSE, cache |-> new]
    <3>1. r.full = FALSE /\ r.cache = new
      BY <2>6
    <3>2. QED
      BY <1>5, <3>1, Zenon
  <2>7. QED
    BY <2>1, <2>2, <2>3, <2>4, <2>5, <2>6, Zenon

\* The check against the replay cache, which also enters the capability.
LEMMA CommitKeeps ==
  ASSUME DoorInv, NEW t \in Tasks, commit_verified(t)
  PROVE  DoorInv'
<1>1. /\ task[t].pc = "commit" /\ task' = [task EXCEPT ![t] = Idle] /\ UNCHANGED half
      /\ unix_now' = unix_now
  BY Zenon DEF commit_verified, Answer, unix_now
<1>2. PICK c \in Capabilities : Sound(c) /\ task[t].v = VerifiedCapability(c)
  BY <1>1, Zenon DEF DoorInv
<1>3. PICK v : v = task[t].v
  BY Zenon
<1>4. v.nonce = c.nonce /\ v.replay_expires_at = c.expires + ClockSkew /\ c.nonce \in Nonces
  BY <1>2, <1>3 DEF VerifiedCapability, Nonces
<1>5. /\ DOMAIN task' = Tasks
      /\ \A u \in Tasks : task'[u].pc = "commit" =>
           \E d \in Capabilities : Sound(d) /\ task'[u].v = VerifiedCapability(d)
  BY <1>1, Zenon DEF DoorInv, DoorTyped, Idle
<1>6. CASE UNCHANGED <<cache, admitted>>
  <2>1. \A n, e : Spent(n, e)' = Spent(n, e)
    BY <1>1, <1>6, Zenon DEF Spent
  <2>2. QED
    BY <1>1, <1>5, <1>6, <2>1, Zenon DEF DoorInv, DoorTyped
<1>7. ASSUME NEW r, r = consume(v, unix_now), cache' = r.cache,
             admitted' = IF r.ok THEN [admitted EXCEPT ![c.nonce] = @ + 1] ELSE admitted
      PROVE  DoorInv'
  <2>1. /\ \A m \in DOMAIN cache : cache[m] > unix_now => m \in DOMAIN cache' /\ cache'[m] = cache[m]
        /\ r.ok => /\ ~(v.nonce \in DOMAIN cache /\ cache[v.nonce] > unix_now)
                   /\ v.replay_expires_at > unix_now
                   /\ v.nonce \in DOMAIN cache' /\ cache'[v.nonce] = v.replay_expires_at
    <3>1. unix_now \in Nat
      BY ClockCounts, Zenon DEF DoorInv
    <3>2. v.replay_expires_at \in Nat
      BY <1>4, FrontDoorAssumption
    <3>3. PICK now \in Nat : now = unix_now
      BY <3>1, Zenon
    <3>4. /\ \A m \in DOMAIN cache : cache[m] > now => m \in DOMAIN r.cache /\ r.cache[m] = cache[m]
          /\ r.ok => /\ ~(v.nonce \in DOMAIN cache /\ cache[v.nonce] > now)
                     /\ v.replay_expires_at > now
                     /\ v.nonce \in DOMAIN r.cache /\ r.cache[v.nonce] = v.replay_expires_at
      BY <1>7, <3>2, <3>3, ConsumeRemembers
    <3>5. QED
      BY <1>7, <3>3, <3>4, Zenon
  <2>2. ASSUME NEW n, NEW e \in Nat, Spent(n, e) PROVE Spent(n, e)'
    <3>1. unix_now \in Nat
      BY ClockCounts, Zenon DEF DoorInv
    <3>2. CASE e <= unix_now
      BY <1>1, <3>2, Zenon DEF Spent
    <3>3. CASE n \in DOMAIN cache /\ cache[n] = e /\ e > unix_now
      BY <2>1, <3>3, Zenon DEF Spent
    <3>4. QED
      BY <2>2, <3>1, <3>2, <3>3 DEF Spent
  <2>3. \A d \in Capabilities : d.expires + ClockSkew \in Nat
    BY FrontDoorAssumption
  <2>4. CASE ~r.ok
    <3>1. UNCHANGED admitted
      BY <1>7, <2>4, Zenon
    <3>2. QED
      BY <1>1, <1>5, <2>2, <2>3, <3>1 DEF DoorInv, DoorTyped
  <2>5. CASE r.ok
    <3>1. admitted[c.nonce] = 0
      <4>1. SUFFICES ASSUME admitted[c.nonce] = 1 PROVE FALSE
        BY <1>4, Zenon DEF DoorInv, DoorTyped
      <4>2. PICK d \in Capabilities :
              Sound(d) /\ d.nonce = c.nonce /\ Spent(c.nonce, d.expires + ClockSkew)
        BY <1>4, <4>1, Zenon DEF DoorInv
      <4>3. d.expires = c.expires
        BY <1>2, <4>2, FrontDoorAssumption, Zenon
      <4>4. unix_now \in Nat /\ c.expires + ClockSkew \in Nat
        BY <2>3, ClockCounts, Zenon DEF DoorInv
      <4>5. \/ v.nonce \in DOMAIN cache /\ cache[v.nonce] = v.replay_expires_at
            \/ v.replay_expires_at <= unix_now
        BY <1>4, <4>2, <4>3, Zenon DEF Spent
      <4>6. v.replay_expires_at \in Nat /\ v.replay_expires_at > unix_now
        BY <1>4, <2>1, <2>5, <4>4, Zenon
      <4>7. QED
        BY <2>1, <2>5, <4>4, <4>5, <4>6
    <3>2. /\ DOMAIN admitted' = Nonces /\ admitted'[c.nonce] = 1
          /\ \A n \in Nonces \ {c.nonce} : admitted'[n] = admitted[n]
      BY <1>4, <1>7, <2>5, <3>1 DEF DoorInv, DoorTyped
    <3>3. Spent(c.nonce, c.expires + ClockSkew)'
      BY <1>4, <2>1, <2>5, Zenon DEF Spent
    <3>4. DoorTyped'
      BY <1>1, <1>5, <3>2, Zenon DEF DoorInv, DoorTyped
    <3>5. ASSUME NEW n \in Nonces, admitted'[n] = 1
          PROVE  \E d \in Capabilities : Sound(d) /\ d.nonce = n /\ Spent(n, d.expires + ClockSkew)'
      <4>1. CASE n = c.nonce
        BY <1>2, <3>3, <4>1, Zenon
      <4>2. CASE n # c.nonce
        BY <2>2, <2>3, <3>2, <3>5, <4>2, Zenon DEF DoorInv
      <4>3. QED
        BY <4>1, <4>2, Zenon
    <3>6. QED
      BY <1>5, <3>4, <3>5, Zenon DEF DoorInv
  <2>6. QED
    BY <2>4, <2>5, Zenon
<1>8. QED
  BY <1>3, <1>4, <1>6, <1>7, Zenon DEF commit_verified

\* DoorInv is kept by every step of the front door.
LEMMA DoorKeeps ==
  ASSUME DoorInv, DoorNext
  PROVE  DoorInv'
<1>1. ASSUME NEW t \in Tasks, UNCHANGED <<half, cache, admitted>>,
             NEW s, task' = [task EXCEPT ![t] = s],
             s.pc = "commit" => \E c \in Capabilities : Sound(c) /\ s.v = VerifiedCapability(c)
      PROVE  DoorInv'
  <2>1. \A n, e : Spent(n, e)' = Spent(n, e)
    BY <1>1, Zenon DEF Spent, unix_now
  <2>2. DOMAIN task' = Tasks /\ task'[t] = s /\ \A u \in Tasks \ {t} : task'[u] = task[u]
    BY <1>1, Zenon DEF DoorInv, DoorTyped
  <2>3. QED
    BY <1>1, <2>1, <2>2, Zenon DEF DoorInv, DoorTyped
<1>2. ASSUME NEW t \in Tasks, prepare(t) PROVE DoorInv'
  BY <1>1, <1>2, Zenon DEF prepare, Answer, Idle
<1>3. ASSUME NEW t \in Tasks, try_acquire_in_window(t) PROVE DoorInv'
  <2>1. task[t].pc = "acquire" /\ UNCHANGED <<half, cache, admitted>>
    BY <1>3, Zenon DEF try_acquire_in_window
  <2>2. CASE Answer(t)
    BY <1>1, <2>1, <2>2, Zenon DEF Answer, Idle
  <2>3. CASE task' = [task EXCEPT ![t] = [pc |-> "verify", second |-> @.second]]
    BY <1>1, <2>1, <2>3, Zenon
  <2>4. CASE task' = [task EXCEPT ![t].observed = limiter]
    <3>1. \A u \in Tasks : task'[u].pc = "commit" => u # t /\ task'[u] = task[u]
      BY <2>1, <2>4 DEF DoorInv, DoorTyped
    <3>2. DOMAIN task' = Tasks
      BY <2>4, Zenon DEF DoorInv, DoorTyped
    <3>3. \A n, e : Spent(n, e)' = Spent(n, e)
      BY <2>1, Zenon DEF Spent, unix_now
    <3>4. DoorTyped'
      BY <2>1, <3>2, Zenon DEF DoorInv, DoorTyped
    <3>5. \A u \in Tasks : task'[u].pc = "commit" =>
            \E c \in Capabilities : Sound(c) /\ task'[u].v = VerifiedCapability(c)
      BY <3>1, Zenon DEF DoorInv
    <3>6. QED
      BY <2>1, <3>3, <3>4, <3>5, Zenon DEF DoorInv
  <2>5. QED
    BY <1>3, <2>2, <2>3, <2>4, Zenon DEF try_acquire_in_window
<1>4. ASSUME NEW t \in Tasks, verify(t) PROVE DoorInv'
  <2>1. UNCHANGED <<half, cache, admitted>>
    BY <1>4, Zenon DEF verify
  <2>2. CASE Answer(t)
    BY <1>1, <2>1, <2>2, Zenon DEF Answer, Idle
  <2>3. ASSUME NEW c \in Capabilities, verify_for_replay(c, unix_now),
               task' = [task EXCEPT ![t] = [pc |-> "commit", v |-> VerifiedCapability(c)]]
        PROVE  DoorInv'
    <3>1. Sound(c)
      BY <2>3, Zenon DEF verify_for_replay
    <3>2. QED
      BY <1>1, <2>1, <2>3, <3>1, Zenon
  <2>4. QED
    BY <1>4, <2>2, <2>3, Zenon DEF verify
<1>5. CASE Tick
  <2>1. half' = half + 1 /\ half \in Nat /\ UNCHANGED <<cache, task, admitted>>
    BY <1>5, Zenon DEF Tick, DoorInv, DoorTyped
  <2>2. unix_now \in Nat /\ unix_now' \in Nat /\ unix_now <= unix_now'
    BY <2>1 DEF unix_now
  <2>3. ASSUME NEW n, NEW e \in Nat, Spent(n, e) PROVE Spent(n, e)'
    BY <2>1, <2>2, <2>3 DEF Spent
  <2>4. \A d \in Capabilities : d.expires + ClockSkew \in Nat
    BY FrontDoorAssumption
  <2>5. DoorTyped'
    BY <2>1 DEF DoorInv, DoorTyped
  <2>6. ASSUME NEW n \in Nonces, admitted[n] = 1
        PROVE  \E d \in Capabilities : Sound(d) /\ d.nonce = n /\ Spent(n, d.expires + ClockSkew)'
    BY <2>3, <2>4, <2>6, Zenon DEF DoorInv
  <2>7. QED
    BY <2>1, <2>5, <2>6, Zenon DEF DoorInv
<1>6. CASE ShutDownDoor
  <2>1. \A n, e : Spent(n, e)' = Spent(n, e)
    BY <1>6, Zenon DEF Spent, unix_now, ShutDownDoor
  <2>2. QED
    BY <1>6, <2>1, Zenon DEF DoorInv, DoorTyped, ShutDownDoor
<1>7. QED
  BY <1>2, <1>3, <1>4, <1>5, <1>6, CommitKeeps, Zenon DEF DoorNext

(* --- room for every capability -------------------------------------------- *)

\* Each verification that the limiter lets through has a place: the window it
\* counts for and its number in that window.  A handler holds the place until
\* its capability is in the cache, and the entry from then on.
Given(p) ==
  /\ p \in Nat \X (1..RateLimit)
  /\ p[1] < limiter.window \/ (p[1] = limiter.window /\ p[2] <= limiter.count)

Holds(t) == task[t].pc = "verify" \/ task[t].pc = "commit"

\* No capability that is verified in time for window w outlives this.
Until(w) == w + MaxLifetime + 2 * ClockSkew

Places(g, h) ==
  /\ \A t \in Tasks : Holds(t) => Given(g[t])
  /\ \A n \in DOMAIN cache : Given(h[n])
  /\ \A t, u \in Tasks : Holds(t) /\ Holds(u) /\ g[t] = g[u] => t = u
  /\ \A m, n \in DOMAIN cache : h[m] = h[n] => m = n
  /\ \A t \in Tasks, n \in DOMAIN cache : Holds(t) => g[t] # h[n]
  /\ \A t \in Tasks : task[t].pc = "verify" => task[t].second <= g[t][1]
  /\ \A t \in Tasks : task[t].pc = "commit" => task[t].v.replay_expires_at <= Until(g[t][1])
  /\ \A n \in DOMAIN cache : cache[n] <= Until(h[n][1])

LimiterInv ==
  /\ phase \in {0, 1} /\ DOMAIN limiter = {"window", "count"}
  /\ limiter.window \in Nat /\ limiter.window <= window_now
  /\ limiter.count \in Nat /\ limiter.count <= RateLimit
  /\ door # "off" => capacity \in Nat /\ ValidCapacity(capacity)
  /\ \A t \in Tasks :
       /\ task[t].pc # "idle" => door # "off"
       /\ task[t].pc = "acquire" =>
            /\ task[t].second \in Nat /\ task[t].window \in Nat
            /\ task[t].second <= task[t].window /\ task[t].window <= window_now
       /\ task[t].pc = "verify" => task[t].second \in Nat
  /\ \A n \in DOMAIN cache : cache[n] \in Nat

RoomInv ==
  /\ LimiterInv
  /\ noRoom => late
  /\ ~late => \E g, h : Places(g, h)

\* The windows of the limiter are less than a second ahead of the clock.
LEMMA WindowsCount ==
  ASSUME half \in Nat, phase \in {0, 1}
  PROVE  /\ unix_now \in Nat /\ window_now \in Nat
         /\ unix_now <= window_now /\ window_now <= unix_now + 1
BY DEF unix_now, window_now

\* A window has RateLimit places.
LEMMA PlacesCount ==
  ASSUME NEW now \in Nat, NEW d \in Nat
  PROVE  /\ IsFiniteSet(((now + 1 - d)..(now + 1)) \X (1..RateLimit))
         /\ Cardinality(((now + 1 - d)..(now + 1)) \X (1..RateLimit)) = RateLimit * (d + 1)
<1> DEFINE W == (now + 1 - d)..(now + 1)
<1>1. IsFiniteSet(W) /\ Cardinality(W) = d + 1
  <2>1. now + 1 - d \in Int /\ now + 1 \in Int
    OBVIOUS
  <2>2. Cardinality(W) = IF now + 1 - d > now + 1 THEN 0 ELSE (now + 1) - (now + 1 - d) + 1
    BY <2>1, FS_Interval, Zenon
  <2>3. QED
    BY <2>1, <2>2, FS_Interval
<1>2. IsFiniteSet(1..RateLimit) /\ Cardinality(1..RateLimit) = RateLimit
  <2>1. 1 \in Int /\ RateLimit \in Int /\ RateLimit >= 1
    BY FrontDoorAssumption
  <2>2. Cardinality(1..RateLimit) = IF 1 > RateLimit THEN 0 ELSE RateLimit - 1 + 1
    BY <2>1, FS_Interval, Zenon
  <2>3. QED
    BY <2>1, <2>2, FS_Interval
<1>3. /\ IsFiniteSet(W \X (1..RateLimit))
      /\ Cardinality(W \X (1..RateLimit)) = Cardinality(W) * Cardinality(1..RateLimit)
  BY <1>1, <1>2, FS_Product, Zenon
<1>4. RateLimit * (d + 1) = (d + 1) * RateLimit
  BY FrontDoorAssumption
<1>5. QED
  BY <1>1, <1>2, <1>3, <1>4, Zenon

\* What is mapped one to one into a set without one of its elements is smaller.
LEMMA FewerThan ==
  ASSUME NEW K, NEW P, IsFiniteSet(P), NEW p \in P, NEW f \in Injection(K, P \ {p})
  PROVE  Cardinality(K) \in Nat /\ Cardinality(K) < Cardinality(P)
<1>1. IsFiniteSet(P \ {p}) /\ Cardinality(P \ {p}) = Cardinality(P) - 1
  BY FS_RemoveElement, Zenon
<1>2. IsFiniteSet(K) /\ Cardinality(K) <= Cardinality(P \ {p})
  BY <1>1, FS_Injection, Zenon
<1>3. Cardinality(K) \in Nat /\ Cardinality(P) \in Nat
  BY <1>2, FS_CardinalityType, Zenon
<1>4. QED
  BY <1>1, <1>2, <1>3

\* A place once given stays given, as the limiter only moves on.
LEMMA GivenStays ==
  ASSUME LimiterInv, limiter' = limiter, NEW p, Given(p)
  PROVE  Given(p)'
BY Zenon DEF Given

\* A handler that passes the limiter gets a place of its own.
LEMMA AcquiringKeeps ==
  ASSUME RoomInv, DoorInv, NEW t \in Tasks, try_acquire_in_window(t)
  PROVE  RoomInv'
<1>1. /\ task[t].pc = "acquire" /\ DOMAIN task = Tasks /\ half \in Nat
      /\ UNCHANGED <<door, half, phase, capacity, cache, noRoom, late>>
      /\ window_now' = window_now /\ window_now \in Nat
  <2>1. task[t].pc = "acquire" /\ UNCHANGED <<door, half, phase, capacity, cache, noRoom, late>>
    BY Zenon DEF try_acquire_in_window
  <2>2. DOMAIN task = Tasks /\ half \in Nat /\ phase \in {0, 1}
    BY Zenon DEF DoorInv, DoorTyped, RoomInv, LimiterInv
  <2>3. QED
    BY <2>1, <2>2, WindowsCount, Zenon DEF window_now
<1>2. ASSUME UNCHANGED limiter,
             \A u \in Tasks : task'[u] = task[u] \/ task'[u].pc = "idle"
               \/ (/\ task[u].pc = "acquire" /\ task'[u].pc = "acquire"
                   /\ task'[u].second = task[u].second /\ task'[u].window = task[u].window)
      PROVE  RoomInv'
  <2>1. LimiterInv'
    BY <1>1, <1>2 DEF RoomInv, LimiterInv, ValidCapacity
  <2>2. \A u \in Tasks : (Holds(u)' => Holds(u) /\ task'[u] = task[u])
    BY <1>2, Zenon DEF Holds
  <2>3. ASSUME NEW g, NEW h, Places(g, h) PROVE Places(g, h)'
    <3>1. \A p : Given(p) => Given(p)'
      BY <1>2, GivenStays, Zenon DEF RoomInv
    <3>2. \A u \in Tasks : task'[u].pc = "verify" \/ task'[u].pc = "commit" => task'[u] = task[u]
      BY <2>2, Zenon DEF Holds
    <3>3. QED
      BY <1>1, <2>2, <2>3, <3>1, <3>2 DEF Places, Until
  <2>4. QED
    BY <1>1, <2>1, <2>3, Zenon DEF RoomInv
<1>3. CASE Answer(t) /\ UNCHANGED limiter
  BY <1>1, <1>2, <1>3, Zenon DEF Answer, Idle
<1>4. CASE task' = [task EXCEPT ![t].observed = limiter] /\ UNCHANGED limiter
  <2>1. \A u \in Tasks : u # t => task'[u] = task[u]
    BY <1>1, <1>4, Zenon
  <2>2. task'[t] = [task[t] EXCEPT !.observed = limiter]
    BY <1>1, <1>4, Zenon
  <2>3. task'[t].pc = task[t].pc /\ task'[t].second = task[t].second /\ task'[t].window = task[t].window
    BY <2>2
  <2>4. QED
    BY <1>1, <1>2, <1>4, <2>1, <2>3, Zenon
<1>5. ASSUME ~Exhausted(task[t].window, limiter),
             limiter' = NextCount(task[t].window, limiter),
             task' = [task EXCEPT ![t] = [pc |-> "verify", second |-> @.second]]
      PROVE  RoomInv'
  <2>1. PICK w : w = task[t].window
    BY Zenon
  <2>2. w \in Nat /\ task[t].second \in Nat /\ task[t].second <= w /\ w <= window_now
    BY <1>1, <2>1, Zenon DEF RoomInv, LimiterInv
  <2>3. limiter.window \in Nat /\ limiter.count \in Nat /\ DOMAIN limiter = {"window", "count"}
    BY Zenon DEF RoomInv, LimiterInv
  <2>4. w >= limiter.window /\ (w = limiter.window => limiter.count < RateLimit)
    BY <1>5, <2>1, <2>2, <2>3, FrontDoorAssumption DEF Exhausted
  <2>5. /\ DOMAIN limiter' = {"window", "count"} /\ limiter'.window = w
        /\ limiter'.count = IF w > limiter.window THEN 1 ELSE limiter.count + 1
    BY <1>5, <2>1, <2>2, <2>3, <2>4 DEF NextCount
  <2>6. limiter'.count \in 1..RateLimit
    BY <2>2, <2>3, <2>4, <2>5, FrontDoorAssumption
  <2>7. /\ task'[t].pc = "verify" /\ task'[t].second = task[t].second
        /\ \A u \in Tasks \ {t} : task'[u] = task[u]
    BY <1>1, <1>5, Zenon
  <2>8. LimiterInv'
    <3>1. limiter'.window \in Nat /\ limiter'.window <= window_now'
      BY <1>1, <2>2, <2>5, Zenon
    <3>2. limiter'.count \in Nat /\ limiter'.count <= RateLimit
      BY <2>6, FrontDoorAssumption
    <3>3. \A u \in Tasks :
            /\ task'[u].pc # "idle" => door # "off"
            /\ task'[u].pc = "acquire" =>
                 /\ task'[u].second \in Nat /\ task'[u].window \in Nat
                 /\ task'[u].second <= task'[u].window /\ task'[u].window <= window_now
            /\ task'[u].pc = "verify" => task'[u].second \in Nat
      BY <1>1, <2>2, <2>7, Zenon DEF RoomInv, LimiterInv
    <3>4. QED
      BY <1>1, <2>5, <3>1, <3>2, <3>3, Zenon DEF RoomInv, LimiterInv, ValidCapacity
  <2>9. ASSUME NEW g, NEW h, Places(g, h)
        PROVE  \E k : Places(k, h)'
    <3>1. PICK p : p = <<w, limiter'.count>>
      BY Zenon
    <3>2. p[1] = w /\ p[2] = limiter'.count /\ p \in Nat \X (1..RateLimit)
      BY <2>2, <2>6, <3>1, Zenon
    <3>3. Given(p)'
      BY <2>5, <2>6, <3>2 DEF Given
    <3>4. ASSUME NEW q, Given(q) PROVE Given(q)' /\ q # p
      <4>1. /\ q \in Nat \X (1..RateLimit) /\ q[1] \in Nat /\ q[2] \in Nat
            /\ q[1] < limiter.window \/ (q[1] = limiter.window /\ q[2] <= limiter.count)
        BY <3>4, FrontDoorAssumption DEF Given
      <4>2. q[1] < w \/ (q[1] = w /\ q[2] < limiter'.count)
        BY <2>2, <2>3, <2>4, <2>5, <4>1
      <4>3. q[1] < limiter'.window \/ (q[1] = limiter'.window /\ q[2] <= limiter'.count)
        BY <2>5, <2>6, <4>1, <4>2
      <4>4. QED
        BY <2>2, <2>6, <3>2, <4>1, <4>2, <4>3 DEF Given
    <3>5. PICK k : k = [u \in Tasks |-> IF u = t THEN p ELSE g[u]]
      BY Zenon
    <3>6. k[t] = p /\ \A u \in Tasks \ {t} : k[u] = g[u]
      BY <3>5, Zenon
    <3>7. \A u \in Tasks \ {t} : Holds(u)' = Holds(u)
      BY <2>7, Zenon DEF Holds
    <3>8. \A u \in Tasks : Holds(u)' => Given(k[u])'
      BY <2>9, <3>3, <3>4, <3>6, <3>7 DEF Places
    <3>9. \A n \in DOMAIN cache' : Given(h[n])'
      BY <1>1, <2>9, <3>4, Zenon DEF Places
    <3>10. \A u \in Tasks \ {t} : Holds(u)' => k[u] # p
      BY <2>9, <3>4, <3>6, <3>7, Zenon DEF Places
    <3>11. ASSUME NEW u \in Tasks, NEW v \in Tasks, Holds(u)', Holds(v)', k[u] = k[v] PROVE u = v
      BY <2>9, <3>6, <3>7, <3>10, <3>11, Zenon DEF Places
    <3>12. \A m, n \in DOMAIN cache' : h[m] = h[n] => m = n
      BY <1>1, <2>9, Zenon DEF Places
    <3>13. ASSUME NEW u \in Tasks, NEW n \in DOMAIN cache', Holds(u)' PROVE k[u] # h[n]
      BY <1>1, <2>9, <3>4, <3>6, <3>7, <3>13 DEF Places
    <3>14. \A u \in Tasks : task'[u].pc = "verify" => task'[u].second <= k[u][1]
      BY <2>2, <2>7, <2>9, <3>2, <3>6, Zenon DEF Places
    <3>15. \A u \in Tasks : task'[u].pc = "commit" => task'[u].v.replay_expires_at <= Until(k[u][1])
      BY <2>7, <2>9, <3>6, Zenon DEF Places
    <3>16. \A n \in DOMAIN cache' : cache'[n] <= Until(h[n][1])
      BY <1>1, <2>9, Zenon DEF Places
    <3>17. Places(k, h)'
      BY <3>8, <3>9, <3>11, <3>12, <3>13, <3>14, <3>15, <3>16 DEF Places, Until
    <3>18. QED
      BY <3>17, Zenon
  <2>10. QED
    BY <1>1, <2>8, <2>9, Zenon DEF RoomInv
<1>6. QED
  BY <1>3, <1>4, <1>5, Zenon DEF try_acquire_in_window

\* A capability verified in the second of its window is dated by that window.
LEMMA VerifyingKeeps ==
  ASSUME RoomInv, DoorInv, NEW t \in Tasks, verify(t)
  PROVE  RoomInv'
<1>1. /\ task[t].pc = "verify" /\ DOMAIN task = Tasks
      /\ UNCHANGED <<door, half, phase, capacity, limiter, cache, noRoom>>
      /\ window_now' = window_now /\ unix_now \in Nat /\ task[t].second \in Nat
  <2>1. task[t].pc = "verify" /\ UNCHANGED <<door, half, phase, capacity, limiter, cache, noRoom>>
    BY Zenon DEF verify
  <2>2. DOMAIN task = Tasks /\ half \in Nat /\ phase \in {0, 1}
    BY Zenon DEF DoorInv, DoorTyped, RoomInv, LimiterInv
  <2>3. QED
    BY <2>1, <2>2, WindowsCount, Zenon DEF window_now, RoomInv, LimiterInv
<1>2. (late => late') /\ (~late' => ~late /\ unix_now <= task[t].second)
  <2>1. late' = (late \/ unix_now > task[t].second)
    BY Zenon DEF verify
  <2>2. ~(unix_now > task[t].second) => unix_now <= task[t].second
    BY <1>1
  <2>3. QED
    BY <2>1, <2>2, Zenon
<1>3. PICK c \in Capabilities :
        \/ /\ verify_for_replay(c, unix_now)
           /\ task' = [task EXCEPT ![t] = [pc |-> "commit", v |-> VerifiedCapability(c)]]
        \/ Answer(t)
  BY Zenon DEF verify
<1>4. /\ \A u \in Tasks \ {t} : task'[u] = task[u]
      /\ task'[t].pc = "idle" \/ (/\ task'[t].pc = "commit" /\ verify_for_replay(c, unix_now)
                                  /\ task'[t].v = VerifiedCapability(c))
  BY <1>1, <1>3 DEF Answer, Idle
<1>5. LimiterInv'
  BY <1>1, <1>4, Zenon DEF RoomInv, LimiterInv, ValidCapacity
<1>6. ASSUME NEW g, NEW h, Places(g, h), unix_now <= task[t].second
      PROVE  Places(g, h)'
  <2>1. \A p : Given(p)' = Given(p)
    BY <1>1, Zenon DEF Given
  <2>2. Holds(t) /\ \A u \in Tasks : Holds(u)' => Holds(u)
    BY <1>1, <1>4, Zenon DEF Holds
  <2>3. task[t].second <= g[t][1] /\ g[t][1] \in Nat
    BY <1>1, <1>6, <2>2, Zenon DEF Places, Given
  <2>4. ASSUME task'[t].pc = "commit" PROVE task'[t].v.replay_expires_at <= Until(g[t][1])
    <3>1. task'[t].v.replay_expires_at = c.expires + ClockSkew
      BY <1>4, <2>4 DEF VerifiedCapability
    <3>2. c.expires - c.issued <= MaxLifetime /\ c.expires > c.issued /\ c.issued <= unix_now + ClockSkew
      BY <1>4, <2>4, Zenon DEF verify_for_replay, Sound
    <3>3. /\ c.expires \in Nat /\ c.issued \in Nat
          /\ MaxLifetime \in Nat /\ ClockSkew \in Nat
      BY FrontDoorAssumption, Zenon
    <3>4. c.expires + ClockSkew <= g[t][1] + MaxLifetime + 2 * ClockSkew
      BY <1>1, <1>6, <2>3, <3>2, <3>3
    <3>5. QED
      BY <3>1, <3>4 DEF Until
  <2>5. \A u \in Tasks : task'[u].pc = "verify" => task'[u].second <= g[u][1]
    BY <1>4, <1>6, Zenon DEF Places
  <2>6. \A u \in Tasks : task'[u].pc = "commit" => task'[u].v.replay_expires_at <= Until(g[u][1])
    BY <1>4, <1>6, <2>4, Zenon DEF Places
  <2>7. QED
    BY <1>1, <1>6, <2>1, <2>2, <2>5, <2>6 DEF Places, Until
<1>7. QED
  BY <1>1, <1>2, <1>5, <1>6, Zenon DEF RoomInv

\* A live entry has a place in one of the windows that the cache has room for,
\* and so has the capability that is to be entered.
LEMMA RoomIsLeft ==
  ASSUME LimiterInv, DoorInv, NEW t \in Tasks, task[t].pc = "commit",
         task[t].v.replay_expires_at > unix_now, NEW g, NEW h, Places(g, h),
         task[t].v.replay_expires_at \in Nat
  PROVE  /\ Cardinality({m \in DOMAIN cache : cache[m] > unix_now}) \in Nat
         /\ Cardinality({m \in DOMAIN cache : cache[m] > unix_now}) < capacity
<1>1. PICK now \in Nat : now = unix_now
  BY ClockCounts, Zenon DEF DoorInv
<1>2. PICK d \in Nat : d = MaxLifetime + 2 * ClockSkew
  BY FrontDoorAssumption
<1>3. half \in Nat /\ phase \in {0, 1} /\ limiter.window \in Nat /\ limiter.window <= now + 1
  <2>1. half \in Nat /\ phase \in {0, 1} /\ limiter.window \in Nat /\ limiter.window <= window_now
    BY Zenon DEF DoorInv, DoorTyped, LimiterInv
  <2>2. QED
    BY <1>1, <2>1, WindowsCount
<1>4. PICK P : P = ((now + 1 - d)..(now + 1)) \X (1..RateLimit)
  BY Zenon
<1>5. ASSUME NEW q, Given(q), NEW e \in Nat, e > now, e <= Until(q[1])
      PROVE  q \in P
  <2>1. /\ q \in Nat \X (1..RateLimit) /\ q[1] \in Nat /\ q[2] \in 1..RateLimit
        /\ q[1] <= limiter.window
    BY <1>3, <1>5 DEF Given
  <2>2. e <= q[1] + d
    BY <1>2, <1>5, <2>1, FrontDoorAssumption DEF Until
  <2>3. q[1] \in (now + 1 - d)..(now + 1)
    BY <1>3, <1>5, <2>1, <2>2
  <2>4. QED
    BY <1>4, <2>1, <2>3, Zenon
<1>6. PICK K : K = {m \in DOMAIN cache : cache[m] > now}
  BY Zenon
<1>7. Holds(t)
  BY Zenon DEF Holds
<1>8. g[t] \in P
  BY <1>1, <1>5, <1>7, Zenon DEF Places
<1>9. \A n \in K : h[n] \in P /\ h[n] # g[t]
  BY <1>5, <1>6, <1>7, Zenon DEF Places, LimiterInv
<1>10. \A m, n \in K : h[m] = h[n] => m = n
  BY <1>6, Zenon DEF Places
<1>11. IsFiniteSet(P) /\ Cardinality(P) = RateLimit * (d + 1)
  BY <1>1, <1>2, <1>4, PlacesCount, Zenon
<1>12. PICK f : f = [n \in K |-> h[n]]
  BY Zenon
<1>13. f \in Injection(K, P \ {g[t]})
  <2>1. f \in [K -> P \ {g[t]}]
    BY <1>9, <1>12, Zenon
  <2>2. \A m, n \in K : f[m] = f[n] => m = n
    BY <1>10, <1>12, Zenon
  <2>3. QED
    BY <2>1, <2>2, Zenon DEF Injection, IsInjective
<1>14. Cardinality(K) \in Nat /\ Cardinality(K) < Cardinality(P)
  BY <1>8, <1>11, <1>13, FewerThan
<1>15. capacity \in Nat /\ capacity >= RateLimit * (d + 1) /\ RateLimit * (d + 1) \in Nat
  BY <1>2, FrontDoorAssumption DEF LimiterInv, ValidCapacity, replay_retention_secs
<1>16. QED
  BY <1>1, <1>6, <1>11, <1>14, <1>15

\* The entry of a capability takes over the place of its handler.
LEMMA CommittingKeeps ==
  ASSUME RoomInv, DoorInv, NEW t \in Tasks, commit_verified(t)
  PROVE  RoomInv'
<1>1. /\ task[t].pc = "commit" /\ task' = [task EXCEPT ![t] = Idle] /\ DOMAIN task = Tasks
      /\ UNCHANGED <<door, half, phase, capacity, limiter, late>>
      /\ unix_now' = unix_now /\ window_now' = window_now
  BY Zenon DEF commit_verified, Answer, unix_now, window_now, DoorInv, DoorTyped
<1>2. PICK c \in Capabilities : Sound(c) /\ task[t].v = VerifiedCapability(c)
  BY <1>1, Zenon DEF DoorInv
<1>3. PICK v : v = task[t].v
  BY Zenon
<1>4. v.replay_expires_at \in Nat
  BY <1>2, <1>3, FrontDoorAssumption DEF VerifiedCapability
<1>5. task'[t].pc = "idle" /\ \A u \in Tasks \ {t} : task'[u] = task[u]
  BY <1>1, Zenon DEF Idle
<1>6. PICK now \in Nat : now = unix_now
  BY ClockCounts, Zenon DEF DoorInv
<1>7. (\A n \in DOMAIN cache' : cache'[n] \in Nat) => LimiterInv'
  BY <1>1, <1>5, Zenon DEF RoomInv, LimiterInv, ValidCapacity
<1>8. \A p : Given(p)' = Given(p)
  BY <1>1, Zenon DEF Given
<1>9. Holds(t) /\ ~Holds(t)' /\ \A u \in Tasks \ {t} : Holds(u)' = Holds(u)
  BY <1>1, <1>5, Zenon DEF Holds
<1>10. ASSUME NEW g, NEW h, NEW k, Places(g, h),
              \A n \in DOMAIN cache' :
                \/ n \in DOMAIN cache /\ cache'[n] = cache[n] /\ k[n] = h[n]
                \/ n = v.nonce /\ cache'[n] = v.replay_expires_at /\ k[n] = g[t]
       PROVE  Places(g, k)'
  <2>1. \A u \in Tasks : Holds(u)' => u # t /\ Holds(u) /\ Given(g[u])'
    BY <1>8, <1>9, <1>10, Zenon DEF Places
  <2>2. \A n \in DOMAIN cache' : Given(k[n])'
    BY <1>8, <1>9, <1>10, Zenon DEF Places
  <2>3. \A u, w \in Tasks : Holds(u)' /\ Holds(w)' /\ g[u] = g[w] => u = w
    BY <1>10, <2>1, Zenon DEF Places
  <2>4. \A m, n \in DOMAIN cache' : k[m] = k[n] => m = n
    BY <1>9, <1>10 DEF Places
  <2>5. \A u \in Tasks, n \in DOMAIN cache' : Holds(u)' => g[u] # k[n]
    BY <1>9, <1>10, <2>1, Zenon DEF Places
  <2>6. \A u \in Tasks : task'[u].pc = "verify" => task'[u].second <= g[u][1]
    BY <1>5, <1>10, Zenon DEF Places
  <2>7. \A u \in Tasks : task'[u].pc = "commit" => task'[u].v.replay_expires_at <= Until(g[u][1])
    BY <1>5, <1>10, Zenon DEF Places
  <2>8. \A n \in DOMAIN cache' : cache'[n] <= Until(k[n][1])
    BY <1>1, <1>3, <1>10, Zenon DEF Places
  <2>9. QED
    BY <2>1, <2>2, <2>3, <2>4, <2>5, <2>6, <2>7, <2>8 DEF Places, Until
<1>11. CASE UNCHANGED <<cache, noRoom>>
  <2>1. LimiterInv'
    BY <1>7, <1>11, Zenon DEF RoomInv, LimiterInv
  <2>2. ASSUME NEW g, NEW h, Places(g, h) PROVE Places(g, h)'
    BY <1>10, <1>11, <2>2, Zenon
  <2>3. QED
    BY <1>1, <1>11, <2>1, <2>2, Zenon DEF RoomInv
<1>12. ASSUME NEW r, r = consume(v, now), cache' = r.cache,
              noRoom' => noRoom \/ r.full
       PROVE  RoomInv'
  <2>1. /\ \A m \in DOMAIN r.cache : \/ m \in DOMAIN cache /\ r.cache[m] = cache[m]
                                     \/ m = v.nonce /\ r.cache[m] = v.replay_expires_at
        /\ r.full => /\ v.replay_expires_at > now
                     /\ Cardinality({m \in DOMAIN cache : cache[m] > now}) >= capacity
    BY <1>4, <1>12, ConsumeEnters
  <2>2. LimiterInv'
    BY <1>4, <1>7, <1>12, <2>1, Zenon DEF RoomInv, LimiterInv
  <2>3. ASSUME NEW g, NEW h, Places(g, h) PROVE (\E k : Places(g, k)') /\ ~r.full
    <3>1. PICK k : k = [n \in DOMAIN cache' |->
                         IF n \in DOMAIN cache /\ cache'[n] = cache[n] THEN h[n] ELSE g[t]]
      BY Zenon
    <3>2. \A n \in DOMAIN cache' :
            \/ n \in DOMAIN cache /\ cache'[n] = cache[n] /\ k[n] = h[n]
            \/ n = v.nonce /\ cache'[n] = v.replay_expires_at /\ k[n] = g[t]
      BY <1>12, <2>1, <3>1
    <3>3. Places(g, k)'
      BY <1>10, <2>3, <3>2
    <3>4. ASSUME r.full PROVE FALSE
      <4>1. LimiterInv /\ \A n \in DOMAIN cache : cache[n] \in Nat
        BY Zenon DEF RoomInv, LimiterInv
      <4>2. task[t].v.replay_expires_at > unix_now /\ task[t].v.replay_expires_at \in Nat
        BY <1>3, <1>4, <1>6, <2>1, <3>4
      <4>3. PICK live : live = Cardinality({m \in DOMAIN cache : cache[m] > now})
        BY Zenon
      <4>4. live \in Nat /\ live < capacity
        BY <1>1, <1>6, <2>3, <4>1, <4>2, <4>3, RoomIsLeft
      <4>5. capacity \in Nat /\ live >= capacity
        <5>1. capacity \in Nat
          BY <1>1, <4>1, Zenon DEF LimiterInv
        <5>2. live >= capacity
          BY <2>1, <3>4, <4>3, Zenon
        <5>3. QED
          BY <5>1, <5>2, Zenon
      <4>6. QED
        BY <4>4, <4>5
    <3>5. QED
      BY <3>3, <3>4, Zenon
  <2>4. CASE late
    BY <1>1, <2>2, <2>4 DEF RoomInv
  <2>5. CASE ~late
    <3>1. PICK g, h : Places(g, h)
      BY <2>5, Zenon DEF RoomInv
    <3>2. ~noRoom'
      BY <1>12, <2>3, <2>5, <3>1, Zenon DEF RoomInv
    <3>3. QED
      BY <2>2, <2>3, <3>1, <3>2 DEF RoomInv
  <2>6. QED
    BY <2>4, <2>5, Zenon
<1>13. UNCHANGED <<cache, noRoom>> \/ \E r : /\ r = consume(v, now) /\ cache' = r.cache
                                             /\ noRoom' => noRoom \/ r.full
  BY <1>3, <1>6, Zenon DEF commit_verified
<1>14. QED
  BY <1>11, <1>12, <1>13, Zenon

\* RoomInv is kept by every step of the front door.
LEMMA RoomKeeps ==
  ASSUME RoomInv, DoorInv, DoorNext
  PROVE  RoomInv'
<1>1. DOMAIN task = Tasks /\ half \in Nat /\ phase \in {0, 1}
  BY Zenon DEF DoorInv, DoorTyped, RoomInv, LimiterInv
<1>2. ASSUME UNCHANGED <<limiter, cache, noRoom, late>>, LimiterInv',
             \A u \in Tasks : task'[u] = task[u] \/ task'[u].pc = "idle" \/ task'[u].pc = "acquire"
      PROVE  RoomInv'
  <2>1. \A p : Given(p)' = Given(p)
    BY <1>2, Zenon DEF Given
  <2>2. \A u \in Tasks : Holds(u)' => Holds(u) /\ task'[u] = task[u]
    BY <1>2, Zenon DEF Holds
  <2>3. \A u \in Tasks : task'[u].pc = "verify" \/ task'[u].pc = "commit" => task'[u] = task[u]
    BY <1>2, Zenon
  <2>4. ASSUME NEW g, NEW h, Places(g, h) PROVE Places(g, h)'
    BY <1>2, <2>1, <2>2, <2>3, <2>4 DEF Places, Until
  <2>5. QED
    BY <1>2, <2>4, Zenon DEF RoomInv
<1>3. ASSUME NEW t \in Tasks, prepare(t) PROVE RoomInv'
  <2>1. /\ UNCHANGED <<door, half, phase, capacity, limiter, cache, noRoom, late>> /\ door = "on"
        /\ window_now' = window_now
    BY <1>3, Zenon DEF prepare, window_now
  <2>2. /\ \A u \in Tasks \ {t} : task'[u] = task[u]
        /\ \/ task'[t].pc = "idle"
           \/ /\ task'[t].pc = "acquire" /\ task'[t].second = unix_now
              /\ task'[t].window = window_now
    <3>1. PICK s : /\ task' = [task EXCEPT ![t] = s]
                   /\ s = Idle \/ s = [pc |-> "acquire", second |-> unix_now, window |-> window_now,
                                      observed |-> limiter]
      BY <1>3, Zenon DEF prepare, Answer
    <3>2. task'[t] = s /\ \A u \in Tasks \ {t} : task'[u] = task[u]
      BY <1>1, <3>1, Zenon
    <3>3. s.pc = "idle" \/ (s.pc = "acquire" /\ s.second = unix_now /\ s.window = window_now)
      <4>1. CASE s = Idle
        BY <4>1 DEF Idle
      <4>2. CASE s = [pc |-> "acquire", second |-> unix_now, window |-> window_now, observed |-> limiter]
        BY <4>2
      <4>3. QED
        BY <3>1, <4>1, <4>2, Zenon
    <3>4. QED
      BY <3>2, <3>3, Zenon
  <2>3. unix_now \in Nat /\ window_now \in Nat /\ unix_now <= window_now
    BY <1>1, WindowsCount, Zenon
  <2>4. LimiterInv'
    <3>1. /\ task'[t].pc # "idle" => door # "off"
          /\ task'[t].pc = "acquire" =>
               /\ task'[t].second \in Nat /\ task'[t].window \in Nat
               /\ task'[t].second <= task'[t].window /\ task'[t].window <= window_now
          /\ task'[t].pc # "verify"
      BY <2>1, <2>2, <2>3
    <3>2. ValidCapacity(capacity)' = ValidCapacity(capacity)
      BY <2>1, Zenon DEF ValidCapacity
    <3>3. QED
      BY <2>1, <2>2, <3>1, <3>2, Zenon DEF RoomInv, LimiterInv
  <2>5. QED
    BY <1>2, <2>1, <2>2, <2>4, Zenon
<1>4. CASE Tick
  <2>1. /\ half' = half + 1
        /\ UNCHANGED <<door, phase, capacity, limiter, cache, task, noRoom, late>>
    BY <1>4, Zenon DEF Tick
  <2>2. window_now \in Nat /\ window_now' \in Nat /\ window_now <= window_now'
    BY <1>1, <2>1 DEF window_now
  <2>3. LimiterInv'
    <3>1. limiter.window \in Nat /\ limiter.window <= window_now'
      <4>1. limiter.window \in Nat /\ limiter.window <= window_now
        BY Zenon DEF RoomInv, LimiterInv
      <4>2. QED
        BY <2>2, <4>1
    <3>2. ASSUME NEW u \in Tasks, task[u].pc = "acquire" PROVE task[u].window <= window_now'
      <4>1. task[u].window \in Nat /\ task[u].window <= window_now
        BY <3>2, Zenon DEF RoomInv, LimiterInv
      <4>2. QED
        BY <2>2, <4>1
    <3>3. ValidCapacity(capacity)' = ValidCapacity(capacity)
      BY <2>1, Zenon DEF ValidCapacity
    <3>4. QED
      BY <2>1, <3>1, <3>2, <3>3, Zenon DEF RoomInv, LimiterInv
  <2>4. QED
    BY <1>2, <2>1, <2>3, Zenon
<1>5. CASE ShutDownDoor
  <2>1. /\ door = "on" /\ door' = "shutdown" /\ window_now' = window_now
        /\ UNCHANGED <<half, phase, capacity, limiter, cache, task, noRoom, late>>
    BY <1>5, Zenon DEF ShutDownDoor, window_now
  <2>2. LimiterInv'
    BY <2>1, Zenon DEF RoomInv, LimiterInv, ValidCapacity
  <2>3. QED
    BY <1>2, <2>1, <2>2, Zenon
<1>6. QED
  BY <1>3, <1>4, <1>5, AcquiringKeeps, VerifyingKeeps, CommittingKeeps DEF DoorNext

(* --- the relay services together ------------------------------------------ *)

EdgeInv == QuotaInv /\ PathInv /\ DoorInv /\ RoomInv /\ PoolInv /\ ServeInv

\* The invariants of all the relay services hold initially.
LEMMA EdgeStarts ==
  ASSUME EdgeInit
  PROVE  EdgeInv
<1>1. /\ \E on : DoorInit(on)
      /\ \E kind : ClientInit(kind)
      /\ \E kind : ServeInit(kind)
      /\ \E kind : OnionInit(kind)
  BY Zenon DEF EdgeInit
<1>2. QuotaInv
  BY <1>1, OnionAssumption DEF OnionInit, QuotaInv, Loop, Free, Directions
<1>3. PathInv
  BY <1>1, OnionAssumption DEF OnionInit, PathInv, Relays
<1>4. DoorInv
  BY <1>1 DEF DoorInit, DoorInv, DoorTyped, Idle
<1>5. PoolInv
  BY <1>1, PoolStarts, Zenon
<1>6. ServeInv
  BY <1>1, ServeStarts, Zenon
<1>7. RoomInv
  <2>1. PICK on : DoorInit(on)
    BY <1>1
  <2>2. LimiterInv
    <3>1. half = 0 /\ phase \in {0, 1} /\ limiter = [window |-> 0, count |-> 0] /\ cache = [n \in {} |-> 0]
      BY <2>1, Zenon DEF DoorInit
    <3>2. \A t \in Tasks : task[t].pc = "idle"
      BY <2>1, Zenon DEF DoorInit, Idle
    <3>3. door # "off" => capacity \in Nat /\ ValidCapacity(capacity)
      BY <2>1, FrontDoorAssumption, Zenon DEF DoorInit
    <3>4. 0 <= window_now
      BY <3>1, WindowsCount
    <3>5. QED
      BY <3>1, <3>2, <3>3, <3>4, FrontDoorAssumption DEF LimiterInv
  <2>3. Places(task, cache)
    BY <2>1, Zenon DEF DoorInit, Places, Holds, Idle
  <2>4. ~noRoom
    BY <2>1, Zenon DEF DoorInit
  <2>5. QED
    BY <2>2, <2>3, <2>4 DEF RoomInv
<1>8. QED
  BY <1>2, <1>3, <1>4, <1>5, <1>6, <1>7 DEF EdgeInv

\* A step is a step of one service, and leaves the others alone.
LEMMA EdgeKeeps ==
  ASSUME EdgeInv, [EdgeNext]_edgeVars
  PROVE  EdgeInv'
<1>1. /\ OnionNext \/ UNCHANGED onionVars
      /\ DoorNext \/ UNCHANGED doorVars
      /\ [ClientNext]_clientVars
      /\ [ServeNext]_serveVars
  BY Zenon DEF EdgeNext, edgeVars
<1>2. QuotaInv'
  <2>1. CASE UNCHANGED onionVars
    BY <2>1, Zenon DEF EdgeInv, QuotaInv, Loop, onionVars
  <2>2. QED
    BY <1>1, <2>1, QuotaKeeps DEF EdgeInv
<1>3. PathInv'
  <2>1. CASE UNCHANGED onionVars
    BY <2>1, Zenon DEF EdgeInv, PathInv, onionVars
  <2>2. QED
    BY <1>1, <2>1, PathKeeps DEF EdgeInv
<1>4. DoorInv'
  <2>1. CASE UNCHANGED doorVars
    BY <2>1, Zenon DEF EdgeInv, DoorInv, DoorTyped, Spent, unix_now, doorVars
  <2>2. QED
    BY <1>1, <2>1, DoorKeeps, Zenon DEF EdgeInv
<1>5. PoolInv' /\ ServeInv'
  BY <1>1, PoolKeeps, ServeKeeps, Zenon DEF EdgeInv
<1>6. RoomInv'
  <2>1. CASE UNCHANGED doorVars
    <3>1. UNCHANGED <<door, half, phase, capacity, limiter, cache, task, noRoom, late>>
      BY <2>1, Zenon DEF doorVars
    <3>2. ASSUME NEW g, NEW h, Places(g, h) PROVE Places(g, h)'
      <4>1. \A p : Given(p)' = Given(p)
        BY <3>1, Zenon DEF Given
      <4>2. \A t : Holds(t)' = Holds(t)
        BY <3>1, Zenon DEF Holds
      <4>3. QED
        BY <3>1, <3>2, <4>1, <4>2, Zenon DEF Places, Until
    <3>3. LimiterInv'
      <4>1. window_now' = window_now /\ ValidCapacity(capacity)' = ValidCapacity(capacity)
        BY <3>1, Zenon DEF window_now, ValidCapacity
      <4>2. QED
        BY <3>1, <4>1, Zenon DEF EdgeInv, RoomInv, LimiterInv
    <3>4. QED
      BY <3>1, <3>2, <3>3, Zenon DEF EdgeInv, RoomInv
  <2>2. QED
    BY <1>1, <2>1, RoomKeeps, Zenon DEF EdgeInv
<1>7. QED
  BY <1>2, <1>3, <1>4, <1>5, <1>6 DEF EdgeInv

\* Together they give the properties of the relay services.
LEMMA EdgeSuffices ==
  EdgeInv => QuotaHolds /\ PathComplete /\ CapabilityOnce /\ PoolSound /\ RelaysWhole
<1>1. QuotaInv => QuotaHolds
  BY Zenon DEF QuotaInv, QuotaHolds
<1>2. PathInv => PathComplete
  BY PathSuffices, Zenon
<1>3. DoorInv /\ RoomInv => CapabilityOnce
  <2>1. DoorInv => AdmittedOnce
    BY DEF DoorInv, DoorTyped, AdmittedOnce
  <2>2. RoomInv => (noRoom => late)
    BY Zenon DEF RoomInv
  <2>3. QED
    BY <2>1, <2>2, Zenon DEF CapabilityOnce
<1>4. QED
  BY <1>1, <1>2, <1>3, PoolSuffices, ServeSuffices DEF EdgeInv

\* They hold in every behaviour of Edge.
LEMMA EdgeIsSound == Spec => []EdgeInv
<1>1. EdgeInit => EdgeInv
  BY EdgeStarts, Zenon
<1>2. EdgeInv /\ [EdgeNext]_edgeVars => EdgeInv'
  BY EdgeKeeps, Zenon
<1>3. QED
  BY <1>1, <1>2, PTL DEF Spec

(***************************************************************************)
(* The two directions of an onion circuit together never forward more than *)
(* its quota, for every quota and every buffer size, although each looks   *)
(* at the counter and charges it by itself (copy_direction).               *)
(***************************************************************************)
THEOREM QuotaAlwaysHolds == Spec => []QuotaHolds
BY EdgeIsSound, EdgeSuffices, PTL

(***************************************************************************)
(* On a path of any length the client hands its stream to the session only *)
(* after every relay, in order, has connected to the next one as it is     *)
(* configured (connect_stream_inner, handle_relay_stream).                 *)
(***************************************************************************)
THEOREM PathIsComplete == Spec => []PathComplete
BY EdgeIsSound, EdgeSuffices, PTL

(***************************************************************************)
(* A capability admits one request, for any number of handlers that verify *)
(* and commit it concurrently, any clock skew and any lifetime, and however *)
(* often the cache drops what has expired (ReplayCache::insert, consume).  *)
(* And every cache that the configuration accepts has room for what the    *)
(* limiter lets through while it is live, at any rate, unless a handler is *)
(* held up between reading its window and verifying                        *)
(* (try_acquire_in_window, replay_retention_secs).                         *)
(***************************************************************************)
THEOREM CapabilityAdmitsOnce == Spec => []CapabilityOnce
BY EdgeIsSound, EdgeSuffices, PTL

(***************************************************************************)
(* The HTTP/2 pool keeps to its bounds, hands out each token once, and     *)
(* leaves no handler waiting for a slot that nobody will announce, for any *)
(* number of local connections, pooled connections and streams             *)
(* (Http2Pool::acquire, PoolStreamPermit::drop).                           *)
(***************************************************************************)
THEOREM PoolIsSound == Spec => []PoolSound
BY EdgeIsSound, EdgeSuffices, PTL

(***************************************************************************)
(* A relay that reports success has carried everything, within its limit,  *)
(* and the idle deadline never closes an HTTP/2 connection under a stream, *)
(* for any number of streams and bytes (forward_with_cancel,               *)
(* wait_until_idle).                                                       *)
(***************************************************************************)
THEOREM RelaysAreWhole == Spec => []RelaysWhole
BY EdgeIsSound, EdgeSuffices, PTL
=============================================================================
