-------------------------- MODULE EdgeCarrierProofs -------------------------
(***************************************************************************)
(* Proofs about the SOCKS5 client of the edge, for any number of local     *)
(* connections, pooled connections, streams and tokens, and about a server *)
(* connection, for any number of streams and bytes.                        *)
(***************************************************************************)
EXTENDS EdgeClient, EdgeServe, FiniteSetTheorems, TLAPS

(* --- the SOCKS5 client ----------------------------------------------------- *)

Locked == {"check", "connect", "connected"}
Waiting == {"full", "wait"}
Early == {"none", "handshake", "token"} \cup Acquiring

\* What a handler is like by itself: it has no token before its stream, asks
\* the pool over HTTP/2 only, and knows the connection it has opened.
HandlerOk(s) ==
  /\ DOMAIN s = {"pc", "lease", "new", "token"} /\ s.token \in BOOLEAN
  /\ s.pc \in Early => ~s.token
  /\ s.pc \in Acquiring => client = "h2"
  /\ s.pc \in {"token", "lookup"} => client # "h2"
  /\ s.pc = "connected" => s.new \in Conns

Handled ==
  /\ DOMAIN handler = Handlers /\ DOMAIN conn = Conns
  /\ \A h \in Handlers : HandlerOk(handler[h])

\* A handler that looks at the pool or opens a connection holds the lock, and
\* there is room for that connection.
PoolLocked ==
  /\ pool \subseteq Conns /\ Cardinality(pool) <= MaxConns
  /\ \A h \in Handlers : /\ handler[h].pc \in Locked => serial = {h}
                         /\ handler[h].pc \in {"connect", "connected"} => Cardinality(pool) < MaxConns

LeasesBounded == client = "h2" => \A c \in Conns : leased(c) <= MaxStreams

TokensCounted ==
  tokens \in Int /\ tokens + Cardinality({h \in Handlers : handler[h].token}) = Bundle

\* Somebody will notify.
Notifier == \E g \in Handlers : handler[g].lease # 0 \/ handler[g].pc = "notify"

WaitersNotified ==
  \A h \in Handlers : handler[h].pc \in Waiting /\ h \notin woken => Notifier

PoolInv == Handled /\ PoolLocked /\ LeasesBounded /\ TokensCounted /\ WaitersNotified

Moves(h, s) == handler' = [handler EXCEPT ![h] = s] /\ UNCHANGED client

\* Sets of connections and of handlers are finite and can be counted.
LEMMA PoolFinite ==
  /\ IsFiniteSet(Conns) /\ IsFiniteSet(Handlers)
  /\ \A P \in SUBSET Conns : IsFiniteSet(P) /\ Cardinality(P) \in Nat
  /\ \A H \in SUBSET Handlers : IsFiniteSet(H) /\ Cardinality(H) \in Nat
  /\ \A P \in SUBSET Conns : \A Q \in SUBSET P : Cardinality(Q) <= Cardinality(P)
<1>1. IsFiniteSet(Conns) /\ IsFiniteSet(Handlers)
  BY FS_Interval, EdgeClientAssumption DEF Conns
<1>2. QED
  BY <1>1, FS_Subset, FS_CardinalityType, Zenon

\* One more element adds at most one to a count.
LEMMA OneMore ==
  ASSUME NEW S, NEW x, IsFiniteSet(S)
  PROVE  /\ IsFiniteSet(S \cup {x}) /\ Cardinality(S \cup {x}) \in Nat
         /\ Cardinality(S \cup {x}) <= Cardinality(S) + 1
<1>1. IsFiniteSet(S \cup {x}) /\ Cardinality(S) \in Nat /\ Cardinality(S \cup {x}) \in Nat
  BY FS_AddElement, FS_CardinalityType, Zenon
<1>2. QED
  BY <1>1, FS_AddElement

\* A step of one handler leaves the others as they are.
LEMMA MovedHandlers ==
  ASSUME Handled, NEW h \in Handlers, NEW s, Moves(h, s), HandlerOk(s), DOMAIN conn' = Conns
  PROVE  /\ Handled' /\ handler'[h] = s
         /\ \A g \in Handlers \ {h} : handler'[g] = handler[g]
BY Zenon DEF Handled, Moves, HandlerOk

\* Whoever looks at the pool holds its lock, and has room for what it opens.
LEMMA MovedLock ==
  ASSUME Handled, PoolLocked, NEW h \in Handlers, NEW s, Moves(h, s), HandlerOk(s),
         DOMAIN conn' = Conns,
         \/ UNCHANGED serial \/ serial' = serial \ {h} \/ serial = {} \/ serial = {h},
         s.pc \in Locked => serial' = {h},
         pool' \subseteq pool,
         s.pc \in {"connect", "connected"} => Cardinality(pool') < MaxConns
  PROVE  PoolLocked'
<1>1. handler'[h] = s /\ \A g \in Handlers \ {h} : handler'[g] = handler[g]
  BY MovedHandlers, Zenon
<1>2. /\ pool' \subseteq Conns /\ Cardinality(pool') \in Nat /\ Cardinality(pool) \in Nat
      /\ Cardinality(pool') <= Cardinality(pool) /\ MaxConns \in Nat
  BY PoolFinite, EdgeClientAssumption, Zenon DEF PoolLocked
<1>3. ASSUME NEW g \in Handlers \ {h}, handler[g].pc \in Locked PROVE serial' = {g}
  BY <1>3, Zenon DEF PoolLocked
<1>4. ASSUME NEW g \in Handlers
      PROVE  /\ handler'[g].pc \in Locked => serial' = {g}
             /\ handler'[g].pc \in {"connect", "connected"} => Cardinality(pool') < MaxConns
  BY <1>1, <1>2, <1>3 DEF PoolLocked
<1>5. QED
  BY <1>2, <1>4 DEF PoolLocked

\* A step takes a lease only where a slot is free.
LEMMA MovedLeases ==
  ASSUME Handled, LeasesBounded, NEW h \in Handlers, NEW s, Moves(h, s), HandlerOk(s),
         DOMAIN conn' = Conns,
         \/ s.lease \in {0, handler[h].lease} \/ client # "h2" \/ leased(s.lease) < MaxStreams
  PROVE  LeasesBounded'
<1>1. handler'[h] = s /\ \A g \in Handlers \ {h} : handler'[g] = handler[g]
  BY MovedHandlers, Zenon
<1>2. SUFFICES ASSUME client = "h2", NEW c \in Conns PROVE leased(c)' <= MaxStreams
  BY Zenon DEF LeasesBounded, Moves
<1> DEFINE L == {g \in Handlers : handler[g].lease = c}
           M == {g \in Handlers : handler'[g].lease = c}
<1>3. /\ IsFiniteSet(L) /\ IsFiniteSet(M) /\ Cardinality(L) \in Nat /\ Cardinality(M) \in Nat
      /\ Cardinality(L \cup {h}) <= Cardinality(L) + 1 /\ IsFiniteSet(L \cup {h})
      /\ Cardinality(L \cup {h}) \in Nat
  <2>1. IsFiniteSet(L) /\ IsFiniteSet(M) /\ Cardinality(L) \in Nat /\ Cardinality(M) \in Nat
    BY PoolFinite, Zenon
  <2>2. QED
    BY <2>1, OneMore, Zenon
<1>4. leased(c) = Cardinality(L) /\ leased(c)' = Cardinality(M) /\ MaxStreams \in Nat
  BY EdgeClientAssumption, Zenon DEF leased
<1>5. Cardinality(L) <= MaxStreams
  BY <1>2, <1>4, Zenon DEF LeasesBounded
<1>6. CASE M \subseteq L
  BY <1>3, <1>4, <1>5, <1>6, FS_Subset
<1>7. CASE ~(M \subseteq L)
  <2>1. s.lease = c /\ handler[h].lease # c /\ M \subseteq L \cup {h}
    BY <1>1, <1>7, Zenon
  <2>2. c # 0
    BY DEF Conns
  <2>3. Cardinality(L) < MaxStreams
    BY <1>2, <1>4, <2>1, <2>2, Zenon
  <2>4. Cardinality(M) <= Cardinality(L \cup {h})
    BY <1>3, <2>1, FS_Subset, Zenon
  <2>5. QED
    BY <1>3, <1>4, <2>3, <2>4
<1>8. QED
  BY <1>6, <1>7, Zenon

\* A token a handler takes is one fewer in the bundle.
LEMMA MovedTokens ==
  ASSUME Handled, TokensCounted, NEW h \in Handlers, NEW s, Moves(h, s), HandlerOk(s),
         DOMAIN conn' = Conns,
         \/ s.token = handler[h].token /\ tokens' = tokens
         \/ ~handler[h].token /\ s.token /\ tokens' = tokens - 1
  PROVE  TokensCounted'
<1>1. handler'[h] = s /\ \A g \in Handlers \ {h} : handler'[g] = handler[g]
  BY MovedHandlers, Zenon
<1> DEFINE T == {g \in Handlers : handler[g].token}
           U == {g \in Handlers : handler'[g].token}
<1>2. IsFiniteSet(T) /\ Cardinality(T) \in Nat
  BY PoolFinite, Zenon
<1>3. tokens \in Int /\ tokens + Cardinality(T) = Bundle /\ Bundle \in Nat
  BY EdgeClientAssumption, Zenon DEF TokensCounted
<1>4. CASE s.token = handler[h].token /\ tokens' = tokens
  <2>1. U = T
    BY <1>1, <1>4, Zenon
  <2>2. QED
    BY <1>3, <1>4, <2>1, Zenon DEF TokensCounted
<1>5. CASE ~handler[h].token /\ s.token /\ tokens' = tokens - 1
  <2>1. U = T \cup {h} /\ h \notin T
    BY <1>1, <1>5
  <2>2. Cardinality(U) = Cardinality(T) + 1
    BY <1>2, <2>1, FS_AddElement, Zenon
  <2>3. QED
    BY <1>2, <1>3, <1>5, <2>2 DEF TokensCounted
<1>6. QED
  BY <1>4, <1>5, Zenon

\* While somebody waits unnotified, somebody is left to notify.
LEMMA MovedWaiters ==
  ASSUME Handled, WaitersNotified, NEW h \in Handlers, NEW s, Moves(h, s), HandlerOk(s),
         DOMAIN conn' = Conns,
         \A g \in Handlers \ {h} : handler[g].pc \in Waiting /\ g \in woken => g \in woken',
         s.pc \in Waiting /\ h \notin woken'
           => Notifier \/ (handler[h].pc \in Waiting /\ h \notin woken),
         \/ s.lease # 0 \/ s.pc = "notify"
         \/ handler[h].lease = 0 /\ handler[h].pc # "notify"
         \/ \A g \in Handlers : handler'[g].pc \in Waiting => g \in woken'
  PROVE  WaitersNotified'
<1>1. handler'[h] = s /\ \A g \in Handlers \ {h} : handler'[g] = handler[g]
  BY MovedHandlers, Zenon
<1>2. SUFFICES ASSUME NEW g \in Handlers, handler'[g].pc \in Waiting, g \notin woken' PROVE Notifier'
  BY Zenon DEF WaitersNotified
<1>3. Notifier
  BY <1>1, <1>2, Zenon DEF WaitersNotified
<1>4. PICK k \in Handlers : handler[k].lease # 0 \/ handler[k].pc = "notify"
  BY <1>3, Zenon DEF Notifier
<1>5. CASE k # h
  BY <1>1, <1>4, <1>5, Zenon DEF Notifier
<1>6. CASE k = h
  BY <1>1, <1>2, <1>4, <1>6, Zenon DEF Notifier
<1>7. QED
  BY <1>5, <1>6, Zenon

\* Most steps only move a handler on, which keeps its lease and its token.
Lockwise(h, pc) ==
  /\ UNCHANGED serial \/ serial' = serial \ {h} \/ serial = {} \/ serial = {h}
  /\ pc \in Locked => serial' = {h}
  /\ pool' \subseteq pool
  /\ pc \in {"connect", "connected"} => Cardinality(pool') < MaxConns

Onwards(h, pc) ==
  /\ pc \in Early => handler[h].pc \in Early
  /\ pc \in Acquiring => client = "h2"
  /\ pc = "token" => client # "h2"
  /\ pc \notin {"connected", "lookup"}

\* The steps that change nothing but where the handler is.
LEMMA GotoKeeps ==
  ASSUME PoolInv, NEW h \in Handlers, NEW pc, Goto(h, pc), UNCHANGED <<client, tokens>>,
         DOMAIN conn' = Conns, Lockwise(h, pc), Onwards(h, pc),
         \A g \in Handlers \ {h} : g \in woken => g \in woken',
         pc \in Waiting /\ h \notin woken' => Notifier \/ (handler[h].pc \in Waiting /\ h \notin woken),
         handler[h].pc # "notify" \/ \A g \in Handlers : handler'[g].pc \in Waiting => g \in woken'
  PROVE  PoolInv'
<1>1. PICK s : s = [handler[h] EXCEPT !.pc = pc]
  BY Zenon
<1>2. HandlerOk(handler[h])
  BY Zenon DEF PoolInv, Handled
<1>3. /\ DOMAIN s = {"pc", "lease", "new", "token"} /\ s.pc = pc /\ s.lease = handler[h].lease
      /\ s.new = handler[h].new /\ s.token = handler[h].token
  BY <1>1, <1>2, Zenon DEF HandlerOk
<1>4. Moves(h, s)
  BY <1>1, Zenon DEF Goto, Moves
<1>5. HandlerOk(s)
  BY <1>2, <1>3, Zenon DEF HandlerOk, Onwards
<1>6. Handled'
  BY <1>4, <1>5, MovedHandlers, Zenon DEF PoolInv
<1>7. PoolLocked'
  BY <1>3, <1>4, <1>5, MovedLock, Zenon DEF PoolInv, Lockwise
<1>8. LeasesBounded'
  BY <1>3, <1>4, <1>5, MovedLeases, Zenon DEF PoolInv
<1>9. TokensCounted'
  BY <1>3, <1>4, <1>5, MovedTokens, Zenon DEF PoolInv
<1>10. WaitersNotified'
  BY <1>3, <1>4, <1>5, MovedWaiters, Zenon DEF PoolInv
<1>11. QED
  BY <1>6, <1>7, <1>8, <1>9, <1>10, Zenon DEF PoolInv

\* The steps before a handler has a stream and after it has ended it.
LEMMA EasyKeeps ==
  ASSUME PoolInv, NEW h \in Handlers,
         \/ AcceptLocal(h) \/ socks5_handshake(h) \/ Arm(h) \/ TakeSerial(h) \/ WaitForSlot(h)
         \/ SendRequest(h) \/ Response(h) \/ Copy(h)
         \/ build_http3(h) \/ exchange_http3(h)
  PROVE  PoolInv'
<1> USE DEF Early, Acquiring, Waiting, Locked
<1>1. HandlerOk(handler[h]) /\ DOMAIN conn = Conns
  BY Zenon DEF PoolInv, Handled
<1>2. /\ DOMAIN conn' = Conns /\ UNCHANGED <<client, tokens, pool>>
      /\ \A g \in Handlers \ {h} : g \in woken => g \in woken'
  BY <1>1, Zenon DEF AcceptLocal, socks5_handshake, Arm, TakeSerial, WaitForSlot, SendRequest, Response, Copy,
              build_http3, exchange_http3
<1>3. handler[h].pc # "notify"
  BY Zenon DEF AcceptLocal, socks5_handshake, Arm, TakeSerial, WaitForSlot, SendRequest, Response, Copy,
         build_http3, exchange_http3, Pc
<1>4. ASSUME NEW pc, Goto(h, pc), UNCHANGED serial, Onwards(h, pc), pc \notin Locked,
             pc \in Waiting /\ h \notin woken' => handler[h].pc \in Waiting /\ h \notin woken
      PROVE  PoolInv'
  <2>1. Lockwise(h, pc)
    BY <1>2, <1>4, Zenon DEF Lockwise
  <2>2. QED
    BY <1>2, <1>3, <1>4, <2>1, GotoKeeps, Zenon
<1>5. CASE AcceptLocal(h)
  <2>1. PICK pc \in {"handshake", "ended"} : Goto(h, pc)
    BY <1>5, Zenon DEF AcceptLocal
  <2>2. Onwards(h, pc) /\ UNCHANGED serial
    BY <1>5, Zenon DEF AcceptLocal, Onwards, Pc
  <2>3. QED
    BY <1>4, <2>1, <2>2, Zenon
<1>6. CASE socks5_handshake(h)
  <2>1. PICK pc \in {"ended", "arm", "token"} :
          Goto(h, pc) /\ (pc = "arm" => client = "h2") /\ (pc = "token" => client # "h2")
    BY <1>6, Zenon DEF socks5_handshake, End
  <2>2. Onwards(h, pc) /\ UNCHANGED serial
    BY <1>6, <2>1, Zenon DEF socks5_handshake, Onwards, Pc
  <2>3. QED
    BY <1>4, <2>1, <2>2, Zenon
<1>7. CASE Arm(h)
  <2>1. Goto(h, "lock") /\ Onwards(h, "lock") /\ UNCHANGED serial
    BY <1>1, <1>7, Zenon DEF Arm, Onwards, Pc, HandlerOk
  <2>2. QED
    BY <1>4, <2>1, Zenon
<1>8. CASE TakeSerial(h)
  <2>1. CASE Goto(h, "check") /\ serial = {} /\ serial' = {h}
    <3>1. Onwards(h, "check") /\ Lockwise(h, "check")
      BY <1>1, <1>2, <1>8, <2>1, Zenon DEF TakeSerial, Onwards, Lockwise, Pc, HandlerOk
    <3>2. QED
      BY <1>2, <1>3, <2>1, <3>1, GotoKeeps, Zenon
  <2>2. CASE End(h) /\ UNCHANGED serial
    <3>1. Goto(h, "ended") /\ Onwards(h, "ended")
      BY <2>2, Zenon DEF End, Onwards
    <3>2. QED
      BY <1>4, <2>2, <3>1, Zenon
  <2>3. QED
    BY <1>8, <2>1, <2>2, Zenon DEF TakeSerial
<1>9. CASE WaitForSlot(h)
  <2>1. PICK pc \in {"wait", "arm", "ended"} : Goto(h, pc)
    BY <1>9, Zenon DEF WaitForSlot, End
  <2>2. /\ handler[h].pc \in Waiting /\ UNCHANGED <<serial, woken>> /\ Onwards(h, pc)
    BY <1>1, <1>9, Zenon DEF WaitForSlot, Onwards, Pc, HandlerOk
  <2>3. QED
    BY <1>4, <2>1, <2>2, Zenon
<1>10. CASE SendRequest(h) \/ Response(h) \/ Copy(h) \/ build_http3(h) \/ exchange_http3(h)
  <2>1. PICK pc \in {"response", "ending", "copy", "drain", "exchange", "half"} : Goto(h, pc)
    BY <1>10, Zenon DEF SendRequest, Response, Copy, build_http3, exchange_http3
  <2>2. Onwards(h, pc) /\ UNCHANGED serial
    BY <1>10, Zenon DEF Onwards, SendRequest, Response, Copy, build_http3, exchange_http3
  <2>3. QED
    BY <1>4, <2>1, <2>2, Zenon
<1>11. QED
  BY <1>5, <1>6, <1>7, <1>8, <1>9, <1>10, Zenon

\* A stream is handed out under the lock, which is then given up.
LEMMA StreamKeeps ==
  ASSUME PoolInv, NEW h \in Handlers, NEW c \in Conns, Stream(h, c), handler[h].pc \in Locked,
         leased(c) < MaxStreams, UNCHANGED <<client, woken>>, DOMAIN conn' = Conns,
         pool' \subseteq Conns, Cardinality(pool') <= MaxConns
  PROVE  PoolInv'
<1>1. PICK s : s = [handler[h] EXCEPT !.lease = c, !.token = TRUE, !.pc = "request"]
  BY Zenon
<1>2. HandlerOk(handler[h]) /\ DOMAIN handler = Handlers
  BY Zenon DEF PoolInv, Handled
<1>3. /\ DOMAIN s = {"pc", "lease", "new", "token"} /\ s.pc = "request" /\ s.lease = c
      /\ s.token = TRUE
  BY <1>1, <1>2, Zenon DEF HandlerOk
<1>4. Moves(h, s) /\ tokens' = tokens - 1
  BY <1>1, <1>2, Zenon DEF Stream, Moves, HandlerOk
<1>5. HandlerOk(s)
  BY <1>3, Zenon DEF HandlerOk, Early, Acquiring
<1>6. ~handler[h].token
  BY <1>2, Zenon DEF HandlerOk, Early, Acquiring, Locked
<1>7. Handled' /\ handler'[h] = s /\ \A g \in Handlers \ {h} : handler'[g] = handler[g]
  BY <1>4, <1>5, MovedHandlers, Zenon DEF PoolInv
<1>8. PoolLocked'
  <2>1. \A g \in Handlers : handler[g].pc \in Locked => serial = {g}
    BY Zenon DEF PoolInv, PoolLocked
  <2>2. \A g \in Handlers \ {h} : handler[g].pc \notin Locked
    BY <2>1, Zenon
  <2>3. \A g \in Handlers : handler'[g].pc \notin Locked
    BY <1>3, <1>7, <2>2, Zenon DEF Locked
  <2>4. QED
    BY <2>3, Zenon DEF PoolLocked, Locked
<1>9. LeasesBounded'
  BY <1>3, <1>4, <1>5, MovedLeases, Zenon DEF PoolInv
<1>10. TokensCounted'
  BY <1>3, <1>4, <1>5, <1>6, MovedTokens, Zenon DEF PoolInv
<1>11. WaitersNotified'
  <2>1. s.lease # 0 /\ s.pc \notin Waiting
    BY <1>3 DEF Conns, Waiting
  <2>2. QED
    BY <1>4, <1>5, <2>1, MovedWaiters, Zenon DEF PoolInv
<1>12. QED
  BY <1>7, <1>8, <1>9, <1>10, <1>11, Zenon DEF PoolInv

\* A set of numbers has a least one: the connection acquire takes.
LEMMA LeastOf ==
  ASSUME NEW S, S \subseteq Nat, S # {}
  PROVE  \E x \in S : \A y \in S : x <= y
<1>1. PICK R : R = OpToRel(<, Nat)
  BY Zenon
<1>2. \A x, y \in Nat : y < x => <<y, x>> \in R
  BY <1>1, Zenon DEF OpToRel
<1>3. IsWellFoundedOn(R, Nat)
  BY <1>1, NatLessThanWellFounded, Zenon
<1>4. PICK x \in S : \A y \in S : ~(<<y, x>> \in R)
  BY <1>3, WFMin, Zenon
<1>5. \A y \in S : x \in Nat /\ y \in Nat /\ ~(y < x)
  BY <1>2, <1>4, Zenon
<1>6. \A y \in S : x <= y
  BY <1>5
<1>7. QED
  BY <1>6, Zenon

\* The look at the pool under its lock, and the lease it may find.
LEMMA CheckPoolKeeps ==
  ASSUME PoolInv, NEW h \in Handlers, CheckPool(h)
  PROVE  PoolInv'
<1> DEFINE usable == {c \in pool : is_usable(c)}
           free == {c \in usable : try_lease(c)}
<1>1. /\ handler[h].pc = "check" /\ UNCHANGED <<client, conn, woken>> /\ serial = {h}
      /\ client = "h2" /\ DOMAIN conn' = Conns /\ pool \subseteq Conns
  BY Zenon DEF CheckPool, Pc, PoolInv, PoolLocked, Handled, HandlerOk, Locked, Acquiring
<1>2. /\ Cardinality(usable) \in Nat /\ Cardinality(usable) <= Cardinality(pool)
      /\ Cardinality(usable) <= MaxConns /\ usable \subseteq pool
  <2>1. Cardinality(pool) \in Nat /\ Cardinality(pool) <= MaxConns /\ MaxConns \in Nat
    BY <1>1, PoolFinite, EdgeClientAssumption, Zenon DEF PoolInv, PoolLocked
  <2>2. Cardinality(usable) \in Nat /\ Cardinality(usable) <= Cardinality(pool)
    BY <1>1, PoolFinite, Zenon
  <2>3. QED
    BY <2>1, <2>2
<1>3. ASSUME NEW pc \in {"ended", "connect", "full"}, Goto(h, pc), UNCHANGED tokens,
             pool' \subseteq pool,
             pc \in Locked => serial' = {h},
             pc = "connect" => Cardinality(pool') < MaxConns, pc = "full" => Notifier
      PROVE  PoolInv'
  <2>1. Lockwise(h, pc)
    BY <1>1, <1>3, Zenon DEF Lockwise
  <2>2. Onwards(h, pc)
    BY <1>1, Zenon DEF Onwards, Early, Acquiring
  <2>3. QED
    BY <1>1, <1>3, <2>1, <2>2, GotoKeeps, Zenon DEF Waiting
<1>4. CASE End(h) /\ UNCHANGED <<pool, tokens>>
  BY <1>3, <1>4, Zenon DEF End, Locked
<1>5. ASSUME free # {}, Stream(h, CHOOSE c \in free : \A d \in free : c <= d), pool' = usable
      PROVE  PoolInv'
  <2>1. PICK c \in free : \A d \in free : c <= d
    <3>1. free \subseteq Conns
      BY <1>1, Zenon
    <3>2. Conns \subseteq Nat
      BY EdgeClientAssumption DEF Conns
    <3>3. PICK S : S = free
      BY Zenon
    <3>4. S # {} /\ S \subseteq Nat
      BY <1>5, <3>1, <3>2, <3>3, Zenon
    <3>5. \E x \in S : \A y \in S : x <= y
      BY <3>4, LeastOf, Zenon
    <3>6. QED
      BY <3>3, <3>5, Zenon
  <2>2. (CHOOSE e \in free : \A d \in free : e <= d) \in free
    BY <2>1, Zenon
  <2>3. PICK x : x = CHOOSE e \in free : \A d \in free : e <= d
    BY Zenon
  <2>4. x \in Conns /\ Stream(h, x) /\ leased(x) < MaxStreams
    BY <1>1, <1>5, <2>2, <2>3, Zenon DEF try_lease
  <2>5. QED
    BY <1>1, <1>2, <1>5, <2>4, StreamKeeps, Zenon DEF Locked
<1>6. CASE Cardinality(usable) < MaxConns /\ Goto(h, "connect") /\ UNCHANGED <<serial, tokens>>
           /\ pool' = usable
  BY <1>1, <1>2, <1>3, <1>6, Zenon
<1>7. ASSUME free = {}, ~(Cardinality(usable) < MaxConns), Goto(h, "full"), UNCHANGED tokens,
             pool' = usable
      PROVE  PoolInv'
  <2>1. usable # {}
    BY <1>2, <1>7, FS_EmptySet, EdgeClientAssumption
  <2>2. PICK c \in usable : ~try_lease(c)
    BY <1>7, <2>1, Zenon
  <2>3. c \in Conns /\ is_usable(c) /\ ~(leased(c) < MaxStreams)
    BY <1>1, <2>2, Zenon DEF try_lease
  <2>4. PICK L : L = {g \in Handlers : handler[g].lease = c}
    BY Zenon
  <2>5. leased(c) = Cardinality(L) /\ IsFiniteSet(L) /\ Cardinality(L) \in Nat
    BY <2>4, PoolFinite, Zenon DEF leased
  <2>6. L # {}
    BY <2>3, <2>5, FS_EmptySet, EdgeClientAssumption
  <2>7. Notifier
    BY <2>3, <2>4, <2>6 DEF Notifier, Conns
  <2>8. QED
    BY <1>2, <1>3, <1>7, <2>7, Zenon DEF Locked
<1>8. QED
  BY <1>4, <1>5, <1>6, <1>7, Zenon DEF CheckPool

\* A new connection is opened under the lock.
LEMMA ConnectKeeps ==
  ASSUME PoolInv, NEW h \in Handlers, connect_connection(h)
  PROVE  PoolInv'
<1>1. /\ handler[h].pc = "connect" /\ UNCHANGED <<client, woken, tokens, pool>> /\ serial = {h}
      /\ client = "h2" /\ DOMAIN conn = Conns /\ Cardinality(pool) < MaxConns
      /\ HandlerOk(handler[h]) /\ DOMAIN handler = Handlers
  BY Zenon DEF connect_connection, Pc, PoolInv, PoolLocked, Handled, HandlerOk, Locked, Acquiring
<1>2. CASE End(h) /\ serial' = {} /\ UNCHANGED conn
  <2>1. Goto(h, "ended") /\ Lockwise(h, "ended") /\ Onwards(h, "ended")
    BY <1>1, <1>2, Zenon DEF End, Lockwise, Onwards, Early, Acquiring, Locked
  <2>2. QED
    BY <1>1, <1>2, <2>1, GotoKeeps, Zenon DEF Waiting
<1>3. ASSUME NEW c \in Conns, conn' = [conn EXCEPT ![c] = "up"],
             handler' = [handler EXCEPT ![h].pc = "connected", ![h].new = c], UNCHANGED serial
      PROVE  PoolInv'
  <2>1. PICK s : s = [handler[h] EXCEPT !.pc = "connected", !.new = c]
    BY Zenon
  <2>2. /\ DOMAIN s = {"pc", "lease", "new", "token"} /\ s.pc = "connected" /\ s.new = c
        /\ s.lease = handler[h].lease /\ s.token = handler[h].token
    BY <1>1, <2>1, Zenon DEF HandlerOk
  <2>3. Moves(h, s) /\ DOMAIN conn' = Conns
    BY <1>1, <1>3, <2>1, Zenon DEF Moves, HandlerOk
  <2>4. HandlerOk(s)
    BY <1>1, <2>2, Zenon DEF HandlerOk, Early, Acquiring
  <2>5. Handled'
    BY <2>3, <2>4, MovedHandlers, Zenon DEF PoolInv
  <2>6. PoolLocked'
    BY <1>1, <1>3, <2>2, <2>3, <2>4, MovedLock, Zenon DEF PoolInv
  <2>7. LeasesBounded'
    BY <2>2, <2>3, <2>4, MovedLeases, Zenon DEF PoolInv
  <2>8. TokensCounted'
    BY <1>1, <2>2, <2>3, <2>4, MovedTokens, Zenon DEF PoolInv
  <2>9. WaitersNotified'
    BY <1>1, <2>2, <2>3, <2>4, MovedWaiters, Zenon DEF PoolInv, Waiting
  <2>10. QED
    BY <2>5, <2>6, <2>7, <2>8, <2>9, Zenon DEF PoolInv
<1>4. QED
  BY <1>2, <1>3, Zenon DEF connect_connection

\* The new connection is put in the pool and leased.
LEMMA ConnectedKeeps ==
  ASSUME PoolInv, NEW h \in Handlers, Connected(h)
  PROVE  PoolInv'
<1>1. PICK c : c = handler[h].new
  BY Zenon
<1>2. /\ handler[h].pc = "connected" /\ UNCHANGED <<client, woken>> /\ serial = {h} /\ serial' = {}
      /\ DOMAIN conn = Conns /\ Cardinality(pool) < MaxConns /\ c \in Conns /\ pool \subseteq Conns
  BY <1>1, Zenon DEF Connected, Pc, PoolInv, PoolLocked, Handled, HandlerOk, Locked
<1>3. CASE stopping \/ ~try_lease(c)
  <2>1. /\ Goto(h, "ended") /\ UNCHANGED <<pool, tokens>> /\ DOMAIN conn' = Conns
    BY <1>1, <1>2, <1>3, Zenon DEF Connected, End
  <2>2. Lockwise(h, "ended") /\ Onwards(h, "ended")
    BY <1>2, <2>1, Zenon DEF Lockwise, Onwards, Early, Acquiring, Locked
  <2>3. QED
    BY <1>2, <2>1, <2>2, GotoKeeps, Zenon DEF Waiting
<1>4. CASE ~(stopping \/ ~try_lease(c))
  <2>1. Stream(h, c) /\ pool' = pool \cup {c} /\ UNCHANGED conn /\ leased(c) < MaxStreams
    BY <1>1, <1>4, Zenon DEF Connected, try_lease
  <2>2. pool' \subseteq Conns /\ IsFiniteSet(pool) /\ Cardinality(pool) \in Nat /\ MaxConns \in Nat
    BY <1>2, <2>1, PoolFinite, EdgeClientAssumption, Zenon
  <2>3. Cardinality(pool') \in Nat /\ Cardinality(pool') <= Cardinality(pool) + 1
    BY <2>1, <2>2, OneMore, Zenon
  <2>4. Cardinality(pool') <= MaxConns
    BY <1>2, <2>2, <2>3
  <2>5. QED
    BY <1>2, <2>1, <2>2, <2>4, StreamKeeps, Zenon DEF Locked
<1>5. QED
  BY <1>3, <1>4, Zenon

\* The lease goes before the notification is given.
LEMMA DropKeeps ==
  ASSUME PoolInv, NEW h \in Handlers, DropPermit(h) \/ stop_http3(h)
  PROVE  PoolInv'
<1>1. /\ handler[h].pc = "ending" /\ UNCHANGED <<client, woken, tokens, pool, serial, conn>>
      /\ DOMAIN conn' = Conns /\ HandlerOk(handler[h]) /\ DOMAIN handler = Handlers
  BY Zenon DEF DropPermit, stop_http3, Pc, PoolInv, Handled
<1>2. PICK pc \in {"notify", "ended"} :
         /\ handler' = [handler EXCEPT ![h].lease = 0, ![h].pc = pc]
         /\ pc = "ended" => client = "h3"
  BY Zenon DEF DropPermit, stop_http3
<1>3. PICK s : s = [handler[h] EXCEPT !.lease = 0, !.pc = pc]
  BY Zenon
<1>4. /\ DOMAIN s = {"pc", "lease", "new", "token"} /\ s.pc = pc /\ s.lease = 0
      /\ s.token = handler[h].token
  BY <1>1, <1>3, Zenon DEF HandlerOk
<1>5. Moves(h, s)
  BY <1>1, <1>2, <1>3, Zenon DEF Moves, HandlerOk
<1>6. HandlerOk(s)
  BY <1>1, <1>2, <1>4, Zenon DEF HandlerOk, Early, Acquiring
<1>7. Handled' /\ handler'[h] = s /\ \A g \in Handlers \ {h} : handler'[g] = handler[g]
  BY <1>1, <1>5, <1>6, MovedHandlers, Zenon DEF PoolInv
<1>8. PoolLocked'
  BY <1>1, <1>2, <1>4, <1>5, <1>6, MovedLock, Zenon DEF PoolInv, Locked
<1>9. LeasesBounded'
  BY <1>1, <1>4, <1>5, <1>6, MovedLeases, Zenon DEF PoolInv
<1>10. TokensCounted'
  BY <1>1, <1>4, <1>5, <1>6, MovedTokens, Zenon DEF PoolInv
<1>11. s.pc = "notify" \/ \A g \in Handlers : handler'[g].pc \in Waiting => g \in woken'
  <2>1. \A g \in Handlers : handler[g].pc \in Waiting => client = "h2"
    BY Zenon DEF PoolInv, Handled, HandlerOk, Waiting, Acquiring
  <2>2. CASE pc = "ended"
    BY <1>1, <1>2, <1>4, <1>7, <2>1, <2>2, Zenon DEF Waiting
  <2>3. QED
    BY <1>2, <1>4, <2>2, Zenon
<1>12. WaitersNotified'
  BY <1>1, <1>2, <1>4, <1>5, <1>6, <1>11, MovedWaiters, Zenon DEF PoolInv, Waiting
<1>13. QED
  BY <1>7, <1>8, <1>9, <1>10, <1>12, Zenon DEF PoolInv

\* A dropped lease wakes one who waits.
LEMMA NotifyKeeps ==
  ASSUME PoolInv, NEW h \in Handlers, NotifyDropped(h)
  PROVE  PoolInv'
<1>1. /\ UNCHANGED <<client, tokens, pool, serial, conn>> /\ Goto(h, "ended")
      /\ DOMAIN conn' = Conns /\ DOMAIN handler = Handlers
      /\ \A g \in Handlers : DOMAIN handler[g] = {"pc", "lease", "new", "token"}
  BY Zenon DEF NotifyDropped, End, PoolInv, Handled, HandlerOk
<1>2. Lockwise(h, "ended") /\ Onwards(h, "ended")
  BY <1>1, Zenon DEF Lockwise, Onwards, Early, Acquiring, Locked
<1>3. \A g \in Handlers : handler'[g].pc = handler[g].pc \/ handler'[g].pc = "ended"
  BY <1>1, Zenon DEF Goto
<1>4. woken \subseteq woken' /\ \A g \in Handlers : handler[g].pc \in Waiting => g \in woken'
  BY Zenon DEF NotifyDropped, notify_waiters, Pc, Waiting, Acquiring
<1>5. \A g \in Handlers : handler'[g].pc \in Waiting => g \in woken'
  BY <1>3, <1>4, Zenon DEF Waiting
<1>6. QED
  BY <1>1, <1>2, <1>4, <1>5, GotoKeeps, Zenon DEF Waiting

\* Over HTTP/3 a handler takes a token of the bundle and an endpoint of its own.
LEMMA Http3Keeps ==
  ASSUME PoolInv, NEW h \in Handlers, take_token_http3(h) \/ connect_http3_quic(h)
  PROVE  PoolInv'
<1>1. /\ handler[h].pc \in {"token", "lookup"} /\ UNCHANGED <<client, woken, pool, serial, conn>>
      /\ DOMAIN conn' = Conns /\ HandlerOk(handler[h]) /\ DOMAIN handler = Handlers
  BY Zenon DEF take_token_http3, connect_http3_quic, Pc, PoolInv, Handled
<1>2. CASE End(h) /\ UNCHANGED tokens
  <2>1. Goto(h, "ended") /\ Lockwise(h, "ended") /\ Onwards(h, "ended")
    BY <1>1, <1>2, Zenon DEF End, Lockwise, Onwards, Early, Acquiring, Locked
  <2>2. QED
    BY <1>1, <1>2, <2>1, GotoKeeps, Zenon DEF Waiting
<1>3. ASSUME NEW s, DOMAIN s = {"pc", "lease", "new", "token"}, s.pc \in {"lookup", "build"},
             s.token \in BOOLEAN, Moves(h, s),
             \/ s.token = handler[h].token /\ tokens' = tokens
             \/ ~handler[h].token /\ s.token /\ tokens' = tokens - 1,
             s.lease = handler[h].lease \/ s.lease = 1
      PROVE  PoolInv'
  <2>1. client # "h2"
    BY <1>1, Zenon DEF HandlerOk
  <2>2. HandlerOk(s)
    BY <1>3, <2>1, Zenon DEF HandlerOk, Early, Acquiring
  <2>3. Handled' /\ PoolLocked'
    BY <1>1, <1>3, <2>2, MovedHandlers, MovedLock, Zenon DEF PoolInv, Locked
  <2>4. LeasesBounded'
    BY <1>1, <2>1, Zenon DEF LeasesBounded
  <2>5. TokensCounted'
    BY <1>1, <1>3, <2>2, MovedTokens, Zenon DEF PoolInv
  <2>6. WaitersNotified'
    <3>1. \A g \in Handlers : handler'[g].pc \notin Waiting
      BY <1>1, <2>1, <2>3, Zenon DEF Handled, HandlerOk, Waiting, Acquiring
    <3>2. QED
      BY <3>1, Zenon DEF WaitersNotified
  <2>7. QED
    BY <2>3, <2>4, <2>5, <2>6, Zenon DEF PoolInv
<1>4. ASSUME handler' = [handler EXCEPT ![h].token = TRUE, ![h].pc = "lookup"], tokens' = tokens - 1,
             handler[h].pc = "token"
      PROVE  PoolInv'
  <2>1. PICK s : s = [handler[h] EXCEPT !.token = TRUE, !.pc = "lookup"]
    BY Zenon
  <2>2. /\ DOMAIN s = {"pc", "lease", "new", "token"} /\ s.pc = "lookup" /\ s.token = TRUE
        /\ s.lease = handler[h].lease /\ handler[h].token = FALSE
    BY <1>1, <1>4, <2>1, Zenon DEF HandlerOk, Early
  <2>3. Moves(h, s)
    BY <1>1, <1>4, <2>1, Zenon DEF Moves, HandlerOk
  <2>4. QED
    BY <1>3, <1>4, <2>2, <2>3, Zenon
<1>5. ASSUME handler' = [handler EXCEPT ![h].lease = 1, ![h].pc = "build"], UNCHANGED tokens
      PROVE  PoolInv'
  <2>1. PICK s : s = [handler[h] EXCEPT !.lease = 1, !.pc = "build"]
    BY Zenon
  <2>2. /\ DOMAIN s = {"pc", "lease", "new", "token"} /\ s.pc = "build" /\ s.lease = 1
        /\ s.token = handler[h].token /\ s.token \in BOOLEAN
    BY <1>1, <2>1, Zenon DEF HandlerOk
  <2>3. Moves(h, s)
    BY <1>1, <1>5, <2>1, Zenon DEF Moves, HandlerOk
  <2>4. QED
    BY <1>3, <1>5, <2>2, <2>3, Zenon
<1>6. QED
  BY <1>2, <1>4, <1>5, Zenon DEF take_token_http3, connect_http3_quic, Pc

\* A handler that is cancelled gives up its lock and its lease.
LEMMA AbortKeeps ==
  ASSUME PoolInv, NEW h \in Handlers, AbortHandler(h)
  PROVE  PoolInv'
<1>1. /\ handler[h].pc # "notify" /\ UNCHANGED <<client, woken, tokens, pool>> /\ serial' = serial \ {h}
      /\ DOMAIN conn' = Conns
  BY Zenon DEF AbortHandler, Pc, PoolInv, Handled
<1>2. PICK pc \in {"ended", "ending"} : Goto(h, pc)
  BY Zenon DEF AbortHandler
<1>3. Lockwise(h, pc) /\ Onwards(h, pc)
  BY <1>1, Zenon DEF Lockwise, Onwards, Early, Acquiring, Locked
<1>4. QED
  BY <1>1, <1>2, <1>3, GotoKeeps, Zenon DEF Waiting

\* The steps that move no handler.
LEMMA ElsewhereKeeps ==
  ASSUME PoolInv, UNCHANGED <<client, handler, pool, serial, tokens>>,
         DOMAIN conn' = Conns, woken \subseteq woken'
  PROVE  PoolInv'
<1>1. Handled' /\ PoolLocked' /\ LeasesBounded' /\ TokensCounted'
  BY DEF PoolInv, Handled, HandlerOk, PoolLocked, LeasesBounded, leased, TokensCounted
<1>2. Notifier' <=> Notifier
  BY Zenon DEF Notifier
<1>3. WaitersNotified'
  BY <1>2, Zenon DEF PoolInv, WaitersNotified
<1>4. QED
  BY <1>1, <1>3, Zenon DEF PoolInv

\* PoolInv is kept by every step of the client.
LEMMA PoolKeeps ==
  ASSUME PoolInv, [ClientNext]_clientVars
  PROVE  PoolInv'
<1>1. ASSUME NEW h \in Handlers, AcceptLocal(h) \/ HandlerStep(h) \/ AbortHandler(h)
      PROVE  PoolInv'
  <2>1. CASE ProducerCancelled(h)
    BY <2>1, ElsewhereKeeps, Zenon DEF ProducerCancelled, PoolInv, Handled
  <2>2. QED
    BY <1>1, <2>1, EasyKeeps, CheckPoolKeeps, ConnectKeeps, ConnectedKeeps, DropKeeps, NotifyKeeps,
       Http3Keeps, AbortKeeps DEF HandlerStep
<1>2. ASSUME NEW c \in Conns, ConnectionEnds(c) \/ ConnectionDropped(c) \/ ConnectionNotifies(c)
      PROVE  PoolInv'
  <2>1. DOMAIN conn' = Conns /\ woken \subseteq woken'
    BY <1>2, Zenon DEF ConnectionEnds, ConnectionDropped, ConnectionNotifies, notify_waiters, PoolInv, Handled
  <2>2. QED
    BY <1>2, <2>1, ElsewhereKeeps, Zenon DEF ConnectionEnds, ConnectionDropped, ConnectionNotifies
<1>3. CASE StopClient \/ GraceOver \/ UNCHANGED clientVars
  BY <1>3, ElsewhereKeeps, Zenon DEF StopClient, GraceOver, clientVars, PoolInv, Handled
<1>4. QED
  BY <1>1, <1>2, <1>3, Zenon DEF ClientNext

\* PoolInv holds initially.
LEMMA PoolStarts ==
  ASSUME NEW kind, ClientInit(kind)
  PROVE  PoolInv
<1>1. Handled
  BY Zenon DEF ClientInit, Handled, HandlerOk, Acquiring, Early
<1>2. PoolLocked
  BY FS_EmptySet, EdgeClientAssumption DEF ClientInit, PoolLocked, Locked
<1>3. LeasesBounded
  <2>1. ASSUME NEW c \in Conns PROVE {h \in Handlers : handler[h].lease = c} = {}
    BY DEF ClientInit, Conns
  <2>2. \A c \in Conns : leased(c) = 0
    BY <2>1, FS_EmptySet, Zenon DEF leased
  <2>3. QED
    BY <2>2, EdgeClientAssumption DEF LeasesBounded
<1>4. TokensCounted
  <2>1. {h \in Handlers : handler[h].token} = {}
    BY Zenon DEF ClientInit
  <2>2. Cardinality({h \in Handlers : handler[h].token}) = 0
    BY <2>1, FS_EmptySet, Zenon
  <2>3. QED
    BY <2>2, EdgeClientAssumption DEF TokensCounted, ClientInit
<1>5. WaitersNotified
  BY Zenon DEF ClientInit, WaitersNotified, Waiting
<1>6. QED
  BY <1>1, <1>2, <1>3, <1>4, <1>5, Zenon DEF PoolInv

\* PoolInv gives what is said of the pool.
LEMMA PoolSuffices == PoolInv => PoolSound
BY Zenon DEF PoolInv, PoolLocked, LeasesBounded, TokensCounted, WaitersNotified, Waiting, Notifier,
       PoolSound, Pc

(* --- a server connection --------------------------------------------------- *)

StreamFields ==
  {"pc", "open", "reset", "outcome", "client", "up", "pipe", "put", "upDone", "putDone",
   "origin", "down", "queue", "out", "downDone"}

StreamTyped(r) ==
  /\ DOMAIN r = StreamFields
  /\ r.client \in Nat /\ r.up \in Nat /\ r.pipe \in Nat /\ r.put \in Nat
  /\ r.origin \in Nat /\ r.down \in Nat /\ r.queue \in Nat /\ r.out \in Nat
  /\ r.open \in BOOLEAN /\ r.reset \in BOOLEAN
  /\ r.upDone \in BOOLEAN /\ r.putDone \in BOOLEAN /\ r.downDone \in BOOLEAN

\* What was read is in the pipe or with the backend, what the backend sent is
\* in the queue or with the client, and a direction is done when all is through.
StreamCounted(r) ==
  /\ r.put + r.pipe = r.up /\ r.up <= r.client /\ r.up <= MaxStreamBytes
  /\ r.down <= r.origin /\ r.down <= MaxStreamBytes
  /\ r.out + r.queue <= r.down /\ (r.open => r.out + r.queue = r.down)
  /\ r.upDone => r.up = r.client
  /\ r.putDone => r.upDone /\ r.pipe = 0
  /\ r.downDone => r.down = r.origin
  /\ serve = "h3" => r.pipe = 0 /\ r.queue = 0

\* A stream is open until it has sent everything, unless it was reset.
StreamGuarded(r) ==
  /\ r.pc \notin {"relay", "over"} => r.queue = 0 /\ r.out = 0 /\ r.down = 0
  /\ r.outcome = "ok" => r.pc = "over" /\ r.put = r.client /\ r.down = r.origin
  /\ serve = "h2" /\ Unfinished(r) => r.open

StreamOk(r) == StreamTyped(r) /\ StreamCounted(r) /\ StreamGuarded(r)

ServeInv ==
  /\ DOMAIN stream = Streams /\ cut = {}
  /\ \A s \in Streams : StreamOk(stream[s])

\* The record that takes a stream's place.
Becomes(s, r) == stream' = [stream EXCEPT ![s] = r] /\ UNCHANGED <<serve, cut>>

\* A step of one stream leaves the others as they are.
LEMMA StreamMoves ==
  ASSUME ServeInv, NEW s \in Streams, NEW r, Becomes(s, r), StreamOk(r)
  PROVE  ServeInv'
<1>1. \A t \in Streams : stream'[t] = IF t = s THEN r ELSE stream[t]
  BY Zenon DEF ServeInv, Becomes
<1>2. \A t : StreamOk(t)' <=> StreamOk(t)
  BY DEF Becomes, StreamOk, StreamTyped, StreamCounted, StreamGuarded, Unfinished
<1>3. QED
  BY <1>1, <1>2, Zenon DEF ServeInv, Becomes

\* What each step makes of a stream: first those that carry nothing.
LEMMA GuardKeeps ==
  ASSUME ServeInv, NEW s \in Streams,
         \/ Request(s) \/ RequestHttp3(s) \/ Decide(s) \/ DecideHttp3(s) \/ ConnectBackend(s)
         \/ ConnectBackendHttp3(s) \/ Answered(s) \/ ClientResets(s) \/ EndResponse(s)
  PROVE  ServeInv'
<1>1. PICK t : t = stream[s] /\ StreamOk(t)
  BY Zenon DEF ServeInv
<1>2. PICK r : /\ Becomes(s, r)
               /\ \/ t.pc = "none" /\ r = [t EXCEPT !.pc = "deciding", !.open = TRUE]
                  \/ t.pc = "deciding" /\ r = [t EXCEPT !.pc = "answer"]
                  \/ t.pc = "deciding" /\ r = [t EXCEPT !.pc = "backend"]
                  \/ t.pc = "backend" /\ r = [t EXCEPT !.pc = "answer"]
                  \/ t.pc = "backend" /\ r = [t EXCEPT !.pc = "relay"]
                  \/ t.pc \in {"answer", "backend"} /\ r = [t EXCEPT !.pc = "over", !.open = FALSE]
                  \/ r = [t EXCEPT !.open = FALSE, !.reset = TRUE, !.queue = 0]
                  \/ /\ t.pc \in {"deciding", "backend", "answer"}
                     /\ r = [t EXCEPT !.pc = "over", !.open = FALSE, !.reset = TRUE]
                  \/ t.pc = "over" /\ t.queue = 0 /\ r = [t EXCEPT !.open = FALSE]
  BY <1>1, Zenon DEF Request, RequestHttp3, Decide, DecideHttp3, ConnectBackend, ConnectBackendHttp3,
              Answered, ClientResets, EndResponse, Set, Quiet, Becomes
<1>3. SUFFICES StreamOk(r)
  BY <1>2, StreamMoves, Zenon
<1>4. CASE t.pc = "none" /\ r = [t EXCEPT !.pc = "deciding", !.open = TRUE]
  BY <1>1, <1>4, EdgeServeAssumption
  DEF StreamOk, StreamFields, StreamTyped, StreamCounted, StreamGuarded,
       Unfinished
<1>5. CASE t.pc = "deciding" /\ r = [t EXCEPT !.pc = "answer"]
  BY <1>1, <1>5, EdgeServeAssumption, Zenon
  DEF StreamOk, StreamFields, StreamTyped, StreamCounted, StreamGuarded,
       Unfinished
<1>6. CASE t.pc = "deciding" /\ r = [t EXCEPT !.pc = "backend"]
  BY <1>1, <1>6, EdgeServeAssumption, Zenon
  DEF StreamOk, StreamFields, StreamTyped, StreamCounted, StreamGuarded,
       Unfinished
<1>7. CASE t.pc = "backend" /\ r = [t EXCEPT !.pc = "answer"]
  BY <1>1, <1>7, EdgeServeAssumption, Zenon
  DEF StreamOk, StreamFields, StreamTyped, StreamCounted, StreamGuarded,
       Unfinished
<1>8. CASE t.pc = "backend" /\ r = [t EXCEPT !.pc = "relay"]
  BY <1>1, <1>8, EdgeServeAssumption, Zenon
  DEF StreamOk, StreamFields, StreamTyped, StreamCounted, StreamGuarded,
       Unfinished
<1>9. CASE t.pc \in {"answer", "backend"} /\ r = [t EXCEPT !.pc = "over", !.open = FALSE]
  BY <1>1, <1>9, EdgeServeAssumption
  DEF StreamOk, StreamFields, StreamTyped, StreamCounted, StreamGuarded,
       Unfinished
<1>10. CASE r = [t EXCEPT !.open = FALSE, !.reset = TRUE, !.queue = 0]
  BY <1>1, <1>10, EdgeServeAssumption
  DEF StreamOk, StreamFields, StreamTyped, StreamCounted, StreamGuarded,
       Unfinished
<1>11. CASE t.pc = "over" /\ t.queue = 0 /\ r = [t EXCEPT !.open = FALSE]
  BY <1>1, <1>11, EdgeServeAssumption
  DEF StreamOk, StreamFields, StreamTyped, StreamCounted, StreamGuarded,
       Unfinished
<1>12. CASE /\ t.pc \in {"deciding", "backend", "answer"}
            /\ r = [t EXCEPT !.pc = "over", !.open = FALSE, !.reset = TRUE]
  BY <1>1, <1>12, EdgeServeAssumption
  DEF StreamOk, StreamFields, StreamTyped, StreamCounted, StreamGuarded,
       Unfinished
<1>13. QED
  BY <1>2, <1>4, <1>5, <1>6, <1>7, <1>8, <1>9, <1>10, <1>11, <1>12, Zenon

\* The tasks that carry bytes.
LEMMA CarryKeeps ==
  ASSUME ServeInv, NEW s \in Streams,
         \/ ReadRequest(s) \/ forward_with_cancel(s) \/ ReadBackend(s) \/ SendFrame(s)
  PROVE  ServeInv'
<1>1. PICK t : t = stream[s] /\ StreamOk(t)
  BY Zenon DEF ServeInv
<1>2. PICK r : /\ Becomes(s, r)
               /\ \/ /\ t.pc = "relay" /\ serve = "h2" /\ ~t.upDone
                     /\ t.up < t.client /\ t.up + 1 <= MaxStreamBytes
                     /\ r = [t EXCEPT !.up = @ + 1, !.pipe = @ + 1]
                  \/ t.up = t.client /\ r = [t EXCEPT !.upDone = TRUE]
                  \/ /\ t.pc = "relay" /\ t.pipe > 0 /\ ~t.putDone
                     /\ r = [t EXCEPT !.pipe = @ - 1, !.put = @ + 1]
                  \/ t.pipe = 0 /\ t.upDone /\ r = [t EXCEPT !.putDone = TRUE]
                  \/ /\ t.pc = "relay" /\ serve = "h2" /\ t.open /\ ~t.downDone
                     /\ t.down < t.origin /\ t.down + 1 <= MaxStreamBytes
                     /\ r = [t EXCEPT !.down = @ + 1, !.queue = @ + 1]
                  \/ t.down = t.origin /\ r = [t EXCEPT !.downDone = TRUE]
                  \/ t.open /\ t.queue > 0 /\ r = [t EXCEPT !.queue = @ - 1, !.out = @ + 1]
                  \/ /\ t.pc = "relay"
                     /\ r = [t EXCEPT !.pc = "over", !.outcome = "error", !.open = @ /\ serve = "h2"]
  BY <1>1, Zenon DEF ReadRequest, forward_with_cancel, ReadBackend, SendFrame, Set, Quiet, Becomes,
              Relaying, add_bounded_stream_bytes, Over
<1>3. SUFFICES StreamOk(r)
  BY <1>2, StreamMoves, Zenon
<1>4. CASE /\ t.pc = "relay" /\ serve = "h2" /\ ~t.upDone
           /\ t.up < t.client /\ t.up + 1 <= MaxStreamBytes
           /\ r = [t EXCEPT !.up = @ + 1, !.pipe = @ + 1]
  BY <1>1, <1>4, EdgeServeAssumption
  DEF StreamOk, StreamFields, StreamTyped, StreamCounted, StreamGuarded,
       Unfinished
<1>5. CASE t.up = t.client /\ r = [t EXCEPT !.upDone = TRUE]
  BY <1>1, <1>5, EdgeServeAssumption, Zenon
  DEF StreamOk, StreamFields, StreamTyped, StreamCounted, StreamGuarded,
       Unfinished
<1>6. CASE /\ t.pc = "relay" /\ t.pipe > 0 /\ ~t.putDone
           /\ r = [t EXCEPT !.pipe = @ - 1, !.put = @ + 1]
  <2>1. /\ DOMAIN r = StreamFields /\ t.pipe > 0 /\ r.pipe = t.pipe - 1 /\ r.put = t.put + 1
        /\ r.pc = t.pc /\ r.open = t.open /\ r.reset = t.reset /\ r.outcome = t.outcome
        /\ r.client = t.client /\ r.up = t.up /\ r.upDone = t.upDone /\ r.putDone = t.putDone
        /\ r.origin = t.origin /\ r.down = t.down /\ r.queue = t.queue /\ r.out = t.out
        /\ r.downDone = t.downDone
    BY <1>1, <1>6, Zenon DEF StreamOk, StreamTyped, StreamFields
  <2>2. StreamTyped(t) /\ StreamCounted(t) /\ StreamGuarded(t)
    BY <1>1, Zenon DEF StreamOk
  <2>3. StreamTyped(r)
    BY <2>1, <2>2 DEF StreamTyped
  <2>4. StreamCounted(r)
    BY <1>6, <2>1, <2>2, EdgeServeAssumption DEF StreamTyped, StreamCounted
  <2>5. StreamGuarded(r)
    BY <1>6, <2>1, <2>2, Zenon DEF StreamTyped, StreamCounted, StreamGuarded, Unfinished
  <2>6. QED
    BY <2>3, <2>4, <2>5, Zenon DEF StreamOk
<1>7. CASE t.pipe = 0 /\ t.upDone /\ r = [t EXCEPT !.putDone = TRUE]
  BY <1>1, <1>7, EdgeServeAssumption, Zenon
  DEF StreamOk, StreamFields, StreamTyped, StreamCounted, StreamGuarded,
       Unfinished
<1>8. CASE /\ t.pc = "relay" /\ serve = "h2" /\ t.open /\ ~t.downDone
           /\ t.down < t.origin /\ t.down + 1 <= MaxStreamBytes
           /\ r = [t EXCEPT !.down = @ + 1, !.queue = @ + 1]
  <2>1. /\ DOMAIN r = StreamFields /\ r.down = t.down + 1 /\ r.queue = t.queue + 1 /\ r.pc = t.pc
        /\ r.open = t.open /\ r.reset = t.reset /\ r.outcome = t.outcome /\ r.client = t.client
        /\ r.up = t.up /\ r.pipe = t.pipe /\ r.put = t.put /\ r.upDone = t.upDone
        /\ r.putDone = t.putDone /\ r.origin = t.origin /\ r.out = t.out
        /\ r.downDone = t.downDone
    BY <1>1, <1>8, Zenon DEF StreamOk, StreamTyped, StreamFields
  <2>2. StreamTyped(t) /\ StreamCounted(t) /\ StreamGuarded(t)
    BY <1>1, Zenon DEF StreamOk
  <2>3. StreamTyped(r)
    BY <2>1, <2>2 DEF StreamTyped
  <2>4. StreamCounted(r)
    BY <1>8, <2>1, <2>2, EdgeServeAssumption DEF StreamTyped, StreamCounted
  <2>5. StreamGuarded(r)
    BY <1>8, <2>1, <2>2, Zenon DEF StreamTyped, StreamCounted, StreamGuarded, Unfinished
  <2>6. QED
    BY <2>3, <2>4, <2>5, Zenon DEF StreamOk
<1>9. CASE t.down = t.origin /\ r = [t EXCEPT !.downDone = TRUE]
  BY <1>1, <1>9, EdgeServeAssumption
  DEF StreamOk, StreamFields, StreamTyped, StreamCounted, StreamGuarded,
       Unfinished
<1>10. CASE t.open /\ t.queue > 0 /\ r = [t EXCEPT !.queue = @ - 1, !.out = @ + 1]
  <2>1. /\ DOMAIN r = StreamFields /\ t.queue > 0 /\ r.queue = t.queue - 1 /\ r.out = t.out + 1
        /\ r.pc = t.pc /\ r.open = t.open /\ r.reset = t.reset /\ r.outcome = t.outcome
        /\ r.client = t.client /\ r.up = t.up /\ r.pipe = t.pipe /\ r.put = t.put
        /\ r.upDone = t.upDone /\ r.putDone = t.putDone /\ r.origin = t.origin /\ r.down = t.down
        /\ r.downDone = t.downDone
    BY <1>1, <1>10, Zenon DEF StreamOk, StreamTyped, StreamFields
  <2>2. StreamTyped(t) /\ StreamCounted(t) /\ StreamGuarded(t)
    BY <1>1, Zenon DEF StreamOk
  <2>3. StreamTyped(r)
    BY <2>1, <2>2 DEF StreamTyped
  <2>4. StreamCounted(r)
    BY <1>10, <2>1, <2>2, EdgeServeAssumption DEF StreamTyped, StreamCounted
  <2>5. StreamGuarded(r)
    BY <1>10, <2>1, <2>2 DEF StreamTyped, StreamCounted, StreamGuarded, Unfinished
  <2>6. QED
    BY <2>3, <2>4, <2>5, Zenon DEF StreamOk
<1>11. CASE /\ t.pc = "relay"
           /\ r = [t EXCEPT !.pc = "over", !.outcome = "error", !.open = @ /\ serve = "h2"]
  BY <1>1, <1>11, EdgeServeAssumption, Zenon
  DEF StreamOk, StreamFields, StreamTyped, StreamCounted, StreamGuarded,
       Unfinished
<1>12. QED
  BY <1>2, <1>4, <1>5, <1>6, <1>7, <1>8, <1>9, <1>10, <1>11, Zenon

\* What the HTTP/3 relay carries, and how either relay ends.
LEMMA CarryHttp3Keeps ==
  ASSUME ServeInv, NEW s \in Streams,
         \/ RequestToBackendHttp3(s) \/ BackendToResponseHttp3(s) \/ RelayEnds(s)
         \/ RelayEndsHttp3(s)
  PROVE  ServeInv'
<1>1. PICK t : t = stream[s] /\ StreamOk(t)
  BY Zenon DEF ServeInv
<1>2. PICK r : /\ Becomes(s, r)
               /\ \/ /\ t.pc = "relay" /\ ~t.upDone
                     /\ t.up < t.client /\ t.up + 1 <= MaxStreamBytes
                     /\ r = [t EXCEPT !.up = @ + 1, !.put = @ + 1]
                  \/ serve = "h3" /\ t.up = t.client /\ r = [t EXCEPT !.upDone = TRUE, !.putDone = TRUE]
                  \/ /\ t.pc = "relay" /\ ~t.downDone
                     /\ t.down < t.origin /\ t.down + 1 <= MaxStreamBytes
                     /\ r = [t EXCEPT !.down = @ + 1, !.out = @ + 1]
                  \/ t.down = t.origin /\ r = [t EXCEPT !.downDone = TRUE]
                  \/ /\ t.pc = "relay"
                     /\ r = [t EXCEPT !.pc = "over", !.outcome = "error", !.open = @ /\ serve = "h2"]
                  \/ /\ t.pc = "relay" /\ t.upDone /\ t.downDone /\ (t.putDone \/ serve = "h3")
                     /\ r = [t EXCEPT !.pc = "over", !.outcome = "ok", !.open = @ /\ serve = "h2"]
  BY <1>1, Zenon DEF RequestToBackendHttp3, BackendToResponseHttp3, RelayEnds, RelayEndsHttp3, Set, Quiet,
              Becomes, Relaying, add_bounded_stream_bytes, Over
<1>3. SUFFICES StreamOk(r)
  BY <1>2, StreamMoves, Zenon
<1>4. CASE /\ t.pc = "relay" /\ ~t.upDone
           /\ t.up < t.client /\ t.up + 1 <= MaxStreamBytes
           /\ r = [t EXCEPT !.up = @ + 1, !.put = @ + 1]
  BY <1>1, <1>4, EdgeServeAssumption
  DEF StreamOk, StreamFields, StreamTyped, StreamCounted, StreamGuarded,
       Unfinished
<1>5. CASE serve = "h3" /\ t.up = t.client /\ r = [t EXCEPT !.upDone = TRUE, !.putDone = TRUE]
  BY <1>1, <1>5, EdgeServeAssumption, Zenon
  DEF StreamOk, StreamFields, StreamTyped, StreamCounted, StreamGuarded,
       Unfinished
<1>6. CASE /\ t.pc = "relay" /\ ~t.downDone
           /\ t.down < t.origin /\ t.down + 1 <= MaxStreamBytes
           /\ r = [t EXCEPT !.down = @ + 1, !.out = @ + 1]
  BY <1>1, <1>6, EdgeServeAssumption
  DEF StreamOk, StreamFields, StreamTyped, StreamCounted, StreamGuarded,
       Unfinished
<1>7. CASE t.down = t.origin /\ r = [t EXCEPT !.downDone = TRUE]
  BY <1>1, <1>7, EdgeServeAssumption, Zenon
  DEF StreamOk, StreamFields, StreamTyped, StreamCounted, StreamGuarded,
       Unfinished
<1>8. CASE /\ t.pc = "relay"
           /\ r = [t EXCEPT !.pc = "over", !.outcome = "error", !.open = @ /\ serve = "h2"]
  BY <1>1, <1>8, EdgeServeAssumption, Zenon
  DEF StreamOk, StreamFields, StreamTyped, StreamCounted, StreamGuarded,
       Unfinished
<1>9. CASE /\ t.pc = "relay" /\ t.upDone /\ t.downDone /\ (t.putDone \/ serve = "h3")
           /\ r = [t EXCEPT !.pc = "over", !.outcome = "ok", !.open = @ /\ serve = "h2"]
  <2>1. /\ DOMAIN r = StreamFields /\ r.pc = "over" /\ r.outcome = "ok"
        /\ r.open = (t.open /\ serve = "h2") /\ r.reset = t.reset /\ r.client = t.client
        /\ r.up = t.up /\ r.pipe = t.pipe /\ r.put = t.put /\ r.upDone = t.upDone
        /\ r.putDone = t.putDone /\ r.origin = t.origin /\ r.down = t.down /\ r.queue = t.queue
        /\ r.out = t.out /\ r.downDone = t.downDone
    BY <1>1, <1>9, Zenon DEF StreamOk, StreamTyped, StreamFields
  <2>2. StreamTyped(t) /\ StreamCounted(t) /\ StreamGuarded(t)
    BY <1>1, Zenon DEF StreamOk
  <2>3. StreamTyped(r)
    BY <2>1, <2>2, Zenon DEF StreamTyped
  <2>4. StreamCounted(r)
    BY <1>9, <2>1, <2>2, EdgeServeAssumption, Zenon DEF StreamTyped, StreamCounted
  <2>5. StreamGuarded(r)
    BY <1>9, <2>1, <2>2 DEF StreamTyped, StreamCounted, StreamGuarded, Unfinished
  <2>6. QED
    BY <2>3, <2>4, <2>5, Zenon DEF StreamOk
<1>10. QED
  BY <1>2, <1>4, <1>5, <1>6, <1>7, <1>8, <1>9, Zenon

\* A connection that is closed ends its streams without a report.
LEMMA ClosedKeeps ==
  ASSUME ServeInv, stream' = Closed(stream), UNCHANGED serve, cut' = {}
  PROVE  ServeInv'
<1>1. ASSUME NEW s \in Streams, NEW t, t = stream[s], NEW r, r = Closed(stream)[s] PROVE StreamOk(r)
  <2>1. StreamOk(t)
    BY <1>1, Zenon DEF ServeInv
  <2>2. \/ r = t
        \/ /\ t.pc = "relay"
           /\ r = [t EXCEPT !.pc = "over", !.outcome = "error", !.open = FALSE, !.queue = 0]
        \/ t.pc \notin {"none", "relay"} /\ r = [t EXCEPT !.pc = "over", !.open = FALSE, !.queue = 0]
    BY <1>1, Zenon DEF Closed
  <2>3. CASE r = t
    BY <2>1, <2>3, Zenon
  <2>4. CASE /\ t.pc = "relay"
             /\ r = [t EXCEPT !.pc = "over", !.outcome = "error", !.open = FALSE, !.queue = 0]
    BY <2>1, <2>4 DEF StreamOk, StreamFields, StreamTyped, StreamCounted, StreamGuarded,
       Unfinished
  <2>5. CASE t.pc \notin {"none", "relay"} /\ r = [t EXCEPT !.pc = "over", !.open = FALSE, !.queue = 0]
    BY <2>1, <2>5 DEF StreamOk, StreamFields, StreamTyped, StreamCounted, StreamGuarded,
       Unfinished
  <2>6. QED
    BY <2>2, <2>3, <2>4, <2>5, Zenon
<1>2. \A t : StreamOk(t)' <=> StreamOk(t)
  BY DEF StreamOk, StreamTyped, StreamCounted, StreamGuarded, Unfinished
<1>3. DOMAIN stream' = Streams /\ \A s \in Streams : stream'[s] = Closed(stream)[s]
  BY Zenon DEF Closed
<1>4. QED
  BY <1>1, <1>2, <1>3, Zenon DEF ServeInv

\* No stream is unfinished when the count of the guards says there is none.
LEMMA NoneUnfinished ==
  ASSUME ServeInv, serve = "h2", active_streams = 0
  PROVE  {s \in Streams : Unfinished(stream[s])} = {}
<1> DEFINE Open == {s \in Streams : stream[s].open}
<1>1. IsFiniteSet(Open)
  BY FS_Subset, EdgeServeAssumption, Zenon
<1>2. Open = {}
  BY <1>1, FS_EmptySet, Zenon DEF active_streams
<1>3. QED
  BY <1>2, Zenon DEF ServeInv, StreamOk, StreamGuarded

\* ServeInv is kept by every step of the server connection.
LEMMA ServeKeeps ==
  ASSUME ServeInv, [ServeNext]_serveVars
  PROVE  ServeInv'
<1>1. ASSUME UNCHANGED <<serve, stream, cut>> PROVE ServeInv'
  BY <1>1 DEF ServeInv, StreamOk, StreamTyped, StreamCounted, StreamGuarded, Unfinished
<1>2. CASE AcceptConnection \/ TlsHandshake \/ Look \/ Elapse \/ UNCHANGED serveVars
  BY <1>1, <1>2, Zenon DEF AcceptConnection, TlsHandshake, Look, Elapse, serveVars
<1>3. CASE CloseLink \/ AcceptTimeout
  BY <1>3, ClosedKeeps, Zenon DEF CloseLink, AcceptTimeout, ServeInv
<1>4. CASE Wake
  <2>1. CASE active_streams = 0 /\ age >= IdleTimeout
    BY <1>4, <2>1, NoneUnfinished, ClosedKeeps, Zenon DEF Wake
  <2>2. CASE ~(active_streams = 0 /\ age >= IdleTimeout)
    BY <1>1, <1>4, <2>2, Zenon DEF Wake
  <2>3. QED
    BY <2>1, <2>2, Zenon
<1>5. ASSUME NEW s \in Streams,
             \/ Request(s) \/ Decide(s) \/ ConnectBackend(s) \/ Answered(s) \/ ClientResets(s)
             \/ RequestHttp3(s) \/ DecideHttp3(s) \/ ConnectBackendHttp3(s)
             \/ ReadRequest(s) \/ forward_with_cancel(s) \/ ReadBackend(s) \/ RelayEnds(s)
             \/ RequestToBackendHttp3(s) \/ BackendToResponseHttp3(s) \/ RelayEndsHttp3(s)
             \/ SendFrame(s) \/ EndResponse(s)
      PROVE  ServeInv'
  BY <1>5, GuardKeeps, CarryKeeps, CarryHttp3Keeps, Zenon
<1>6. QED
  BY <1>2, <1>3, <1>4, <1>5, Zenon DEF ServeNext

\* ServeInv holds initially.
LEMMA ServeStarts ==
  ASSUME NEW kind, ServeInit(kind)
  PROVE  ServeInv
<1>1. PICK c \in Amounts(kind), o \in Amounts(kind) :
        stream = [s \in Streams |-> NewStream(c[s], o[s])]
  BY DEF ServeInit
<1>2. ASSUME NEW s \in Streams PROVE StreamOk(NewStream(c[s], o[s]))
  <2>1. c[s] \in Nat /\ o[s] \in Nat
    BY EdgeServeAssumption DEF Amounts
  <2>2. PICK r : r = NewStream(c[s], o[s])
    BY Zenon
  <2>3. StreamTyped(r) /\ DOMAIN r = StreamFields
    BY <2>1, <2>2, EdgeServeAssumption, Zenon DEF NewStream, StreamTyped, StreamFields
  <2>4. StreamCounted(r) /\ StreamGuarded(r)
    BY <2>1, <2>2, EdgeServeAssumption DEF NewStream, StreamCounted, StreamGuarded, Unfinished
  <2>5. QED
    BY <2>2, <2>3, <2>4, Zenon DEF StreamOk
<1>3. QED
  BY <1>1, <1>2, Zenon DEF ServeInv, ServeInit

\* ServeInv gives what is said of the relays.
LEMMA ServeSuffices == ServeInv => RelaysWhole
<1>1. ASSUME NEW r, StreamOk(r)
      PROVE  /\ r.put <= MaxStreamBytes /\ r.out <= MaxStreamBytes
             /\ r.outcome = "ok" => /\ r.put = r.client /\ r.down = r.origin
                                    /\ r.open => r.out + r.queue = r.down
  BY <1>1, EdgeServeAssumption DEF StreamOk, StreamTyped, StreamCounted, StreamGuarded
<1>2. QED
  BY <1>1, Zenon DEF ServeInv, RelaysWhole
=============================================================================
