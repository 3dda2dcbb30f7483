------------------------------ MODULE EdgeClient ------------------------------
(***************************************************************************)
(* The loopback SOCKS5 side of the edge relay.  Over HTTP/2 its handlers   *)
(* share a bounded pool of connections and a bundle of one-use capability  *)
(* tokens; over HTTP/3 each handler opens a connection of its own.  A      *)
(* handler serves one local connection.                                    *)
(*                                                                         *)
(* Every step of a handler ends where the code awaits.  What is copied is  *)
(* left out: a stream is in progress until one of its ends finishes, fails *)
(* or times out.  Connections are numbered in the order they are opened,   *)
(* which is the order of the pool: both happen under one lock.             *)
(***************************************************************************)
EXTENDS Integers, FiniteSets

CONSTANTS
  Handlers,       \* local connections, at most socks.max_connections at once
  MaxLocal,       \* socks.max_connections
  MaxConns,       \* max_http2_connections
  MaxStreams,     \* max_streams_per_connection
  MaxConnects,    \* bound on the connections ever opened
  Bundle          \* tokens in the bundle

Conns == 1..MaxConnects

ASSUME EdgeClientAssumption ==
  /\ IsFiniteSet(Handlers) /\ Bundle \in Nat /\ MaxConnects \in Nat
  /\ MaxConns \in Nat \ {0} /\ MaxStreams \in Nat \ {0}

VARIABLES
  client,         \* "h2", "h3", or "off" when another part is explored
  stopping,       \* the shutdown token is cancelled
  grace,          \* SHUTDOWN_GRACE is over
  handler,        \* what each handler is doing, its connection and lease, its token
  producer,       \* the handlers whose request-body task runs
  conn,           \* the state of each HTTP/2 connection
  pool,           \* the connections of the pool
  serial,         \* who holds acquire_lock
  woken,          \* the handlers whose armed notification has been given
  tokens          \* tokens left

clientVars == <<client, stopping, grace, handler, producer, conn, pool, serial, woken, tokens>>

Acquiring == {"arm", "lock", "check", "full", "wait", "connect", "connected"}

Pc(h) == handler[h].pc

Goto(h, pc) == handler' = [handler EXCEPT ![h].pc = pc]

End(h) == Goto(h, "ended")

\* A lease and a token, handed out together.
Stream(h, c) ==
  /\ handler' = [handler EXCEPT ![h].lease = c, ![h].token = TRUE, ![h].pc = "request"]
  /\ tokens' = tokens - 1

leased(c) == Cardinality({h \in Handlers : handler[h].lease = c})

is_usable(c) == conn[c] = "up"

try_lease(c) == is_usable(c) /\ leased(c) < MaxStreams

\* A slip: a notification is armed only when the wait for it begins.
notify_waiting == woken' = woken \cup {h \in Handlers : Pc(h) = "wait"}

\* notify_waiters reaches those who armed their notification before it.
notify_waiters == woken' = woken \cup {h \in Handlers : Pc(h) \in Acquiring \ {"arm"}}

----------------------------------------------------------------------------
\* The local listener and the SOCKS5 handshake.

Serving == {h \in Handlers : Pc(h) \notin {"none", "ended"}}

AcceptLocal(h) ==
  /\ client # "off" /\ ~stopping /\ Pc(h) = "none"
  /\ Goto(h, IF Cardinality(Serving) < MaxLocal THEN "handshake" ELSE "ended")
  /\ UNCHANGED <<client, stopping, grace, producer, conn, pool, serial, woken, tokens>>

socks5_handshake(h) ==
  /\ Pc(h) = "handshake"
  /\ \/ End(h)
     \/ Goto(h, IF client = "h2" THEN "arm" ELSE "token")
  /\ UNCHANGED <<client, stopping, grace, producer, conn, pool, serial, woken, tokens>>

----------------------------------------------------------------------------
\* Http2Pool::acquire.

Arm(h) ==
  /\ Pc(h) = "arm"
  /\ woken' = woken \ {h}
  /\ Goto(h, "lock")
  /\ UNCHANGED <<client, stopping, grace, producer, conn, pool, serial, tokens>>

TakeSerial(h) ==
  /\ Pc(h) = "lock"
  /\ \/ /\ serial = {}
        /\ serial' = {h}
        /\ Goto(h, "check")
     \/ /\ stopping
        /\ End(h)
        /\ UNCHANGED serial
  /\ UNCHANGED <<client, stopping, grace, producer, conn, pool, woken, tokens>>

\* A slip: the lock is given up before the new connection is opened.
CheckPoolUnlocked(h) ==
  /\ Pc(h) = "check"
  /\ LET usable == {c \in pool : is_usable(c)}
         free == {c \in usable : try_lease(c)}
     IN  IF tokens = 0
         THEN End(h) /\ UNCHANGED <<pool, tokens>>
         ELSE /\ pool' = usable
              /\ IF free # {}
                 THEN Stream(h, CHOOSE c \in free : \A d \in free : c <= d)
                 ELSE /\ Goto(h, IF Cardinality(usable) < MaxConns THEN "connect" ELSE "full")
                      /\ UNCHANGED tokens
  /\ serial' = {}
  /\ UNCHANGED <<client, stopping, grace, producer, conn, woken>>

\* Under the lock, without waiting: no token is left, a connection of the
\* pool takes the stream, a new one may be opened, or the handler must wait.
CheckPool(h) ==
  /\ Pc(h) = "check"
  /\ LET usable == {c \in pool : is_usable(c)}
         free == {c \in usable : try_lease(c)}
     IN  IF tokens = 0
         THEN End(h) /\ serial' = {} /\ UNCHANGED <<pool, tokens>>
         ELSE /\ pool' = usable
              /\ IF free # {}
                 THEN /\ Stream(h, CHOOSE c \in free : \A d \in free : c <= d)
                      /\ serial' = {}
                 ELSE /\ IF Cardinality(usable) < MaxConns
                         THEN Goto(h, "connect") /\ UNCHANGED serial
                         ELSE Goto(h, "full") /\ serial' = {}
                      /\ UNCHANGED tokens
  /\ UNCHANGED <<client, stopping, grace, producer, conn, woken>>

\* A slot may be released between the look at the pool and the wait.
WaitForSlot(h) ==
  /\ Pc(h) \in {"full", "wait"}
  /\ \/ Pc(h) = "full" /\ Goto(h, "wait")
     \/ h \in woken /\ Goto(h, "arm")
     \/ stopping /\ End(h)
  /\ UNCHANGED <<client, stopping, grace, producer, conn, pool, serial, woken, tokens>>

\* TCP, TLS and HTTP/2 handshakes, each with its timeout, under the lock.
connect_connection(h) ==
  /\ Pc(h) = "connect"
  /\ \/ /\ End(h)
        /\ serial' = {}
        /\ UNCHANGED conn
     \/ \E c \in Conns :
          /\ conn[c] = "none" /\ \A d \in Conns : d < c => conn[d] # "none"
          /\ conn' = [conn EXCEPT ![c] = "up"]
          /\ handler' = [handler EXCEPT ![h].pc = "connected", ![h].new = c]
          /\ UNCHANGED serial
  /\ UNCHANGED <<client, stopping, grace, producer, pool, woken, tokens>>

\* The new connection may have ended already; a connection that is not put
\* in the pool is dropped, which cancels it.
Connected(h) ==
  /\ Pc(h) = "connected"
  /\ LET c == handler[h].new IN
     IF stopping \/ ~try_lease(c)
     THEN /\ End(h)
          /\ conn' = [conn EXCEPT ![c] = "dead"]
          /\ UNCHANGED <<pool, tokens>>
     ELSE /\ pool' = pool \cup {c}
          /\ Stream(h, c)
          /\ UNCHANGED conn
  /\ serial' = {}
  /\ UNCHANGED <<client, stopping, grace, producer, woken>>

\* The task that drives a connection: it cancels first and notifies after.
ConnectionEnds(c) ==
  /\ conn[c] = "up"
  /\ conn' = [conn EXCEPT ![c] = "closing"]
  /\ UNCHANGED <<client, stopping, grace, handler, producer, pool, serial, woken, tokens>>

\* Taken out of the pool and of every stream, the connection is dropped and
\* its task aborted, before or after it has notified.
ConnectionDropped(c) ==
  /\ conn[c] = "closing" /\ leased(c) = 0 /\ c \notin pool
  /\ conn' = [conn EXCEPT ![c] = "dead"]
  /\ UNCHANGED <<client, stopping, grace, handler, producer, pool, serial, woken, tokens>>

ConnectionNotifies(c) ==
  /\ conn[c] = "closing"
  /\ conn' = [conn EXCEPT ![c] = "dead"]
  /\ notify_waiters
  /\ UNCHANGED <<client, stopping, grace, handler, producer, pool, serial, tokens>>

----------------------------------------------------------------------------
\* handle_socks5, once it has its stream.

\* The request is sent while a task of its own reads the local connection;
\* the producer is aborted on every path that does not reach the copy.
SendRequest(h) ==
  /\ Pc(h) = "request"
  /\ Goto(h, "response")
  /\ producer' = producer \cup {h}
  /\ UNCHANGED <<client, stopping, grace, conn, pool, serial, woken, tokens>>

\* No answer in time, a status other than 200, or a 200, which the local side
\* is told of.
Response(h) ==
  /\ Pc(h) = "response"
  /\ \/ Goto(h, "ending") /\ producer' = producer \ {h}
     \/ Goto(h, "copy") /\ UNCHANGED producer
  /\ UNCHANGED <<client, stopping, grace, conn, pool, serial, woken, tokens>>

\* The body is exhausted and written out, or either side fails or times out.
Copy(h) ==
  /\ Pc(h) \in {"copy", "drain"}
  /\ \/ /\ Goto(h, "ending")
        /\ producer' = producer \ {h}
     \/ /\ Pc(h) = "copy" /\ h \in producer
        /\ producer' = producer \ {h}
        /\ Goto(h, "drain")
  /\ UNCHANGED <<client, stopping, grace, conn, pool, serial, woken, tokens>>

\* PoolStreamPermit::drop releases the slot and then notifies; a handler
\* without a lease has none to drop.
DropPermit(h) ==
  /\ Pc(h) = "ending" /\ client = "h2"
  /\ handler' = [handler EXCEPT ![h].lease = 0, ![h].pc = "notify"]
  /\ UNCHANGED <<client, stopping, grace, producer, conn, pool, serial, woken, tokens>>

NotifyDropped(h) ==
  /\ Pc(h) = "notify"
  /\ notify_waiters
  /\ End(h)
  /\ UNCHANGED <<client, stopping, grace, producer, conn, pool, serial, tokens>>

----------------------------------------------------------------------------
\* handle_socks5_http3: a token is taken before the edge is looked up, and
\* the endpoint lives in lease 1 until it is closed.

take_token_http3(h) ==
  /\ Pc(h) = "token"
  /\ IF tokens = 0 THEN End(h) /\ UNCHANGED tokens
     ELSE /\ handler' = [handler EXCEPT ![h].token = TRUE, ![h].pc = "lookup"]
          /\ tokens' = tokens - 1
  /\ UNCHANGED <<client, stopping, grace, producer, conn, pool, serial, woken>>

connect_http3_quic(h) ==
  /\ Pc(h) = "lookup"
  /\ \/ End(h)
     \/ handler' = [handler EXCEPT ![h].lease = 1, ![h].pc = "build"]
  /\ UNCHANGED <<client, stopping, grace, producer, conn, pool, serial, woken, tokens>>

\* The HTTP/3 connection is built and the request sent, or the endpoint is
\* closed; no SOCKS reply is written for a failure.
build_http3(h) ==
  /\ Pc(h) = "build"
  /\ Goto(h, "exchange") \/ Goto(h, "ending")
  /\ UNCHANGED <<client, stopping, grace, producer, conn, pool, serial, woken, tokens>>

\* Both directions finish, or one fails, or the client is stopping.
exchange_http3(h) ==
  /\ Pc(h) \in {"exchange", "half"}
  /\ Goto(h, "ending") \/ (Pc(h) = "exchange" /\ Goto(h, "half"))
  /\ UNCHANGED <<client, stopping, grace, producer, conn, pool, serial, woken, tokens>>

stop_http3(h) ==
  /\ Pc(h) = "ending" /\ client = "h3"
  /\ handler' = [handler EXCEPT ![h].lease = 0, ![h].pc = "ended"]
  /\ UNCHANGED <<client, stopping, grace, producer, conn, pool, serial, woken, tokens>>

----------------------------------------------------------------------------
\* Shutdown.

StopClient ==
  /\ client # "off" /\ ~stopping
  /\ stopping' = TRUE
  /\ UNCHANGED <<client, grace, handler, producer, conn, pool, serial, woken, tokens>>

GraceOver ==
  /\ stopping /\ ~grace /\ Serving # {}
  /\ grace' = TRUE
  /\ UNCHANGED <<client, stopping, handler, producer, conn, pool, serial, woken, tokens>>

\* abort_all drops the handler's future where it waits: its lock, its lease,
\* a connection not yet pooled, and, detached, its producer, whose token is
\* cancelled with the shutdown.
AbortHandler(h) ==
  /\ grace /\ h \in Serving /\ Pc(h) \notin {"ending", "notify"}
  /\ Goto(h, IF handler[h].lease = 0 THEN "ended" ELSE "ending")
  /\ serial' = serial \ {h}
  /\ conn' = IF Pc(h) = "connected" THEN [conn EXCEPT ![handler[h].new] = "dead"] ELSE conn
  /\ UNCHANGED <<client, stopping, grace, producer, pool, woken, tokens>>

ProducerCancelled(h) ==
  /\ stopping /\ h \in producer /\ Pc(h) = "ended"
  /\ producer' = producer \ {h}
  /\ UNCHANGED <<client, stopping, grace, handler, conn, pool, serial, woken, tokens>>

ClientInit(kind) ==
  /\ client = kind
  /\ stopping = FALSE /\ grace = FALSE
  /\ handler = [h \in Handlers |-> [pc |-> "none", lease |-> 0, new |-> 0, token |-> FALSE]]
  /\ producer = {}
  /\ conn = [c \in Conns |-> "none"]
  /\ pool = {} /\ serial = {} /\ woken = {}
  /\ tokens = Bundle

HandlerStep(h) ==
  \/ socks5_handshake(h)
  \/ Arm(h) \/ TakeSerial(h) \/ CheckPool(h) \/ WaitForSlot(h) \/ connect_connection(h)
  \/ Connected(h)
  \/ SendRequest(h) \/ Response(h) \/ Copy(h) \/ DropPermit(h) \/ NotifyDropped(h)
  \/ take_token_http3(h) \/ connect_http3_quic(h) \/ build_http3(h) \/ exchange_http3(h)
  \/ stop_http3(h)
  \/ ProducerCancelled(h)

ClientNext ==
  \/ \E h \in Handlers : AcceptLocal(h) \/ HandlerStep(h) \/ AbortHandler(h)
  \/ \E c \in Conns : ConnectionEnds(c) \/ ConnectionDropped(c) \/ ConnectionNotifies(c)
  \/ StopClient \/ GraceOver

----------------------------------------------------------------------------
\* The pool never has more connections than configured nor more streams on
\* one than it has slots, and no two handlers had the same token (acquire,
\* take_token, PoolStreamPermit).  A handler that waits for a slot without
\* having been notified has somebody to notify it: another handler holds a
\* stream, or has given up its slot and is about to notify (acquire arms its
\* notification before it looks; PoolStreamPermit::drop releases before it
\* notifies).
PoolSound ==
  /\ Cardinality(pool) <= MaxConns
  /\ client = "h2" => \A c \in Conns : leased(c) <= MaxStreams
  /\ tokens + Cardinality({h \in Handlers : handler[h].token}) = Bundle
  /\ \A h \in Handlers :
       Pc(h) \in {"full", "wait"} /\ h \notin woken =>
         \E g \in Handlers : handler[g].lease # 0 \/ Pc(g) = "notify"
=============================================================================
