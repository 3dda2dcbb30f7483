------------------------------- MODULE EdgeServe -------------------------------
(***************************************************************************)
(* One connection of the edge server, over HTTP/2 or HTTP/3, with the      *)
(* relay streams on it: the handshake, the requests that pass or fail the  *)
(* front door, the tasks that carry the bytes of a stream to the backend   *)
(* and back, and what ends a connection - its peer, the shutdown, the idle *)
(* deadline of HTTP/2, the deadline HTTP/3 puts on the next request.       *)
(*                                                                         *)
(* Bytes are counted.  Over HTTP/2 the request passes two tasks joined by  *)
(* a bounded duplex pipe and the response a bounded queue; over HTTP/3     *)
(* both go straight through.                                               *)
(***************************************************************************)
EXTENDS Naturals, FiniteSets

CONSTANTS
  Streams,          \* requests on the connection
  Offers,           \* Offers[s]: the most its client or its backend has to send
  MaxStreamBytes,   \* limits.max_stream_bytes
  PipeRoom,         \* capacity of the duplex pipe
  ResponseQueue,    \* RESPONSE_QUEUE
  IdleTimeout       \* the idle deadline, in ticks

ASSUME EdgeServeAssumption == IsFiniteSet(Streams) /\ MaxStreamBytes \in Nat

VARIABLES
  serve,            \* "h2", "h3", or "off" when another part is explored
  link,             \* "waiting" to be accepted, "tls", "up" or "closed"
  stream,           \* the state of each stream
  age,              \* ticks since the last activity, at most IdleTimeout
  watch,            \* wait_until_idle: "look", or "sleep" until the deadline it read
  nap,              \* ticks it still sleeps
  cut               \* the streams alive when the HTTP/2 idle deadline closed the link

serveVars == <<serve, link, stream, age, watch, nap, cut>>

\* A stream holds its Http2StreamGuard from the request until its response
\* body is dropped.
NewStream(client, origin) ==
  [pc |-> "none", open |-> FALSE, reset |-> FALSE, outcome |-> "none",
   client |-> client, up |-> 0, pipe |-> 0, put |-> 0, upDone |-> FALSE, putDone |-> FALSE,
   origin |-> origin, down |-> 0, queue |-> 0, out |-> 0, downDone |-> FALSE]

active_streams == Cardinality({s \in Streams : stream[s].open})

Set(s, r) == stream' = [stream EXCEPT ![s] = r]

Touch == age' = 0

Quiet == UNCHANGED <<serve, link, watch, nap, cut>>

----------------------------------------------------------------------------
\* The connection and its requests.

\* Refused when the server is stopping or has max_connections already.
AcceptConnection ==
  /\ link = "waiting"
  /\ link' \in {"tls", "closed"}
  /\ UNCHANGED <<serve, stream, age, watch, nap, cut>>

TlsHandshake ==
  /\ link = "tls"
  /\ link' \in {"up", "closed"}
  /\ UNCHANGED <<serve, stream, age, watch, nap, cut>>

\* service_fn takes the guard before the request is looked at.
Request(s) ==
  /\ serve = "h2" /\ link = "up" /\ stream[s].pc = "none"
  /\ Set(s, [stream[s] EXCEPT !.pc = "deciding", !.open = TRUE])
  /\ Touch /\ Quiet

\* HTTP/3 resolves the request and spawns a task for it, or gives up the
\* connection.
RequestHttp3(s) ==
  /\ serve = "h3" /\ link = "up" /\ stream[s].pc = "none"
  /\ Set(s, [stream[s] EXCEPT !.pc = "deciding", !.open = TRUE])
  /\ Touch /\ Quiet

\* Refused by the front door, for its content type or for its length; or
\* let through to the backend.
Decide(s) ==
  /\ serve = "h2" /\ stream[s].pc = "deciding"
  /\ \E pc \in {"answer", "backend"} : Set(s, [stream[s] EXCEPT !.pc = pc])
  /\ Quiet /\ UNCHANGED age

DecideHttp3(s) ==
  /\ serve = "h3" /\ stream[s].pc = "deciding"
  /\ \E pc \in {"answer", "backend"} : Set(s, [stream[s] EXCEPT !.pc = pc])
  /\ Quiet /\ UNCHANGED age

\* A slip: the guard lives in the handler and goes when it returns.
ConnectBackendUnguarded(s) ==
  /\ serve = "h2" /\ stream[s].pc = "backend"
  /\ \/ Set(s, [stream[s] EXCEPT !.pc = "relay", !.open = FALSE])
     \/ Set(s, [stream[s] EXCEPT !.pc = "answer"])
  /\ Quiet /\ UNCHANGED age

\* A backend that does not answer, and the shutdown, are answered too.
ConnectBackend(s) ==
  /\ serve = "h2" /\ stream[s].pc = "backend"
  /\ \E pc \in {"answer", "relay"} : Set(s, [stream[s] EXCEPT !.pc = pc])
  /\ Quiet /\ UNCHANGED age

\* HTTP/3 drops the stream of a request whose backend does not answer; the
\* end of a task restarts the wait for the next request.
ConnectBackendHttp3(s) ==
  /\ serve = "h3" /\ stream[s].pc = "backend"
  /\ \/ Set(s, [stream[s] EXCEPT !.pc = "relay"]) /\ UNCHANGED age
     \/ Set(s, [stream[s] EXCEPT !.pc = "over", !.open = FALSE]) /\ Touch
  /\ Quiet

\* A fixed answer has been sent.
Answered(s) ==
  /\ stream[s].pc = "answer"
  /\ Set(s, [stream[s] EXCEPT !.pc = "over", !.open = FALSE])
  /\ Touch /\ Quiet

\* The client resets the stream: the response body is dropped, and over
\* HTTP/2 the handler too, if it has not answered yet.
ClientResets(s) ==
  /\ link = "up" /\ stream[s].open
  /\ \/ /\ serve = "h3" \/ stream[s].pc \in {"relay", "over"}
        /\ Set(s, [stream[s] EXCEPT !.open = FALSE, !.reset = TRUE, !.queue = 0])
     \/ /\ serve = "h2" /\ stream[s].pc \in {"deciding", "backend", "answer"}
        /\ Set(s, [stream[s] EXCEPT !.pc = "over", !.open = FALSE, !.reset = TRUE])
  /\ Touch /\ Quiet

----------------------------------------------------------------------------
\* The relay tasks.  The first error ends all of them; what is still in the
\* pipe is lost, what is in the response queue is not.

add_bounded_stream_bytes(total) == total + 1 <= MaxStreamBytes

Relaying(s) == stream[s].pc = "relay"

\* The task is over; the connection ends the body of an HTTP/2 response when
\* its queue is empty, an HTTP/3 stream goes with its task.
Over(r, outcome) ==
  [r EXCEPT !.pc = "over", !.outcome = outcome, !.open = @ /\ serve = "h2"]

ReadRequest(s) ==
  /\ serve = "h2" /\ Relaying(s) /\ stream[s].open /\ ~stream[s].upDone
  /\ LET r == stream[s] IN
     \/ /\ r.up < r.client
        /\ IF add_bounded_stream_bytes(r.up)
           THEN r.pipe < PipeRoom /\ Set(s, [r EXCEPT !.up = @ + 1, !.pipe = @ + 1])
           ELSE Set(s, Over(r, "error"))
     \/ r.up = r.client /\ Set(s, [r EXCEPT !.upDone = TRUE])
  /\ Touch /\ Quiet

forward_with_cancel(s) ==
  /\ serve = "h2" /\ Relaying(s) /\ ~stream[s].putDone
  /\ LET r == stream[s] IN
     \/ /\ r.pipe > 0
        /\ IF add_bounded_stream_bytes(r.put)
           THEN Set(s, [r EXCEPT !.pipe = @ - 1, !.put = @ + 1])
           ELSE Set(s, Over(r, "error"))
     \/ r.pipe = 0 /\ r.upDone /\ Set(s, [r EXCEPT !.putDone = TRUE])
  /\ Quiet /\ UNCHANGED age

ReadBackend(s) ==
  /\ serve = "h2" /\ Relaying(s) /\ ~stream[s].downDone
  /\ LET r == stream[s] IN
     \/ /\ r.down < r.origin
        /\ IF add_bounded_stream_bytes(r.down) /\ r.open
           THEN /\ r.queue < ResponseQueue
                /\ Set(s, [r EXCEPT !.down = @ + 1, !.queue = @ + 1])
           ELSE Set(s, Over(r, "error"))
     \/ r.down = r.origin /\ Set(s, [r EXCEPT !.downDone = TRUE])
  /\ Touch /\ Quiet

RequestToBackendHttp3(s) ==
  /\ serve = "h3" /\ Relaying(s) /\ ~stream[s].upDone
  /\ LET r == stream[s] IN
     \/ /\ r.up < r.client
        /\ IF add_bounded_stream_bytes(r.up)
           THEN Set(s, [r EXCEPT !.up = @ + 1, !.put = @ + 1]) /\ UNCHANGED age
           ELSE Set(s, Over(r, "error")) /\ Touch
     \/ r.up = r.client /\ Set(s, [r EXCEPT !.upDone = TRUE, !.putDone = TRUE])
        /\ UNCHANGED age
  /\ Quiet

\* The response is finished as soon as the backend is.
BackendToResponseHttp3(s) ==
  /\ serve = "h3" /\ Relaying(s) /\ ~stream[s].downDone
  /\ LET r == stream[s] IN
     \/ /\ r.down < r.origin
        /\ IF add_bounded_stream_bytes(r.down)
           THEN Set(s, [r EXCEPT !.down = @ + 1, !.out = @ + 1]) /\ UNCHANGED age
           ELSE Set(s, Over(r, "error")) /\ Touch
     \/ r.down = r.origin /\ Set(s, [r EXCEPT !.downDone = TRUE]) /\ UNCHANGED age
  /\ Quiet

\* A slip: the relay is over when either direction is.
RelayFirstEnd(s) ==
  /\ serve = "h2" /\ Relaying(s)
  /\ stream[s].downDone \/ stream[s].putDone
  /\ Set(s, Over(stream[s], "ok"))
  /\ UNCHANGED age /\ Quiet

\* try_join: all the tasks are done, or an idle timeout, an error of either
\* side, a reset or the shutdown ends them.
RelayEnds(s) ==
  /\ serve = "h2" /\ Relaying(s)
  /\ LET r == stream[s] IN
     \/ r.upDone /\ r.putDone /\ r.downDone /\ Set(s, Over(r, "ok"))
     \/ Set(s, Over(r, "error"))
  /\ UNCHANGED age /\ Quiet

RelayEndsHttp3(s) ==
  /\ serve = "h3" /\ Relaying(s)
  /\ LET r == stream[s] IN
     \/ r.upDone /\ r.downDone /\ Set(s, Over(r, "ok"))
     \/ Set(s, Over(r, "error"))
  /\ Touch /\ Quiet

\* The connection takes a frame of the response from its queue.
SendFrame(s) ==
  /\ link = "up" /\ stream[s].open /\ stream[s].queue > 0
  /\ Set(s, [stream[s] EXCEPT !.queue = @ - 1, !.out = @ + 1])
  /\ Touch /\ Quiet

\* The relay task has ended and with it the sender of the queue.
EndResponse(s) ==
  /\ link = "up" /\ stream[s].open /\ stream[s].pc = "over" /\ stream[s].queue = 0
  /\ Set(s, [stream[s] EXCEPT !.open = FALSE])
  /\ Touch /\ Quiet

----------------------------------------------------------------------------
\* What closes the connection.

Closed(st) ==
  [s \in Streams |->
    IF st[s].pc = "relay" THEN [st[s] EXCEPT !.pc = "over", !.outcome = "error", !.open = FALSE,
                                             !.queue = 0]
    ELSE IF st[s].pc = "none" THEN st[s]
    ELSE [st[s] EXCEPT !.pc = "over", !.open = FALSE, !.queue = 0]]

\* The peer, a failed keep-alive or the shutdown of the server; the token of
\* the connection is cancelled, which ends its relay tasks.
CloseLink ==
  /\ link = "up"
  /\ link' = "closed"
  /\ stream' = Closed(stream)
  /\ UNCHANGED <<serve, age, watch, nap, cut>>

Look ==
  /\ serve = "h2" /\ link = "up" /\ watch = "look" /\ active_streams = 0
  /\ watch' = "sleep"
  /\ nap' = IdleTimeout - age
  /\ UNCHANGED <<serve, link, stream, age, cut>>

Unfinished(r) == ~r.reset /\ (r.pc \notin {"none", "over"} \/ r.queue > 0)

\* The deadline that was read has passed; both conditions are looked at again.
Wake ==
  /\ serve = "h2" /\ link = "up" /\ watch = "sleep" /\ nap = 0
  /\ watch' = "look"
  /\ IF active_streams = 0 /\ age >= IdleTimeout
     THEN /\ link' = "closed"
          /\ cut' = {s \in Streams : Unfinished(stream[s])}
          /\ stream' = Closed(stream)
     ELSE UNCHANGED <<link, cut, stream>>
  /\ UNCHANGED <<serve, age, nap>>

\* HTTP/3 waits for the next request no longer than the idle timeout; the
\* error returns from the connection and drops the tasks of its requests.
AcceptTimeout ==
  /\ serve = "h3" /\ link = "up" /\ age >= IdleTimeout
  /\ link' = "closed"
  /\ stream' = Closed(stream)
  /\ UNCHANGED <<serve, age, watch, nap, cut>>

Elapse ==
  /\ link = "up"
  /\ age' = IF age < IdleTimeout THEN age + 1 ELSE age
  /\ nap' = IF nap > 0 THEN nap - 1 ELSE 0
  /\ <<age', nap'>> # <<age, nap>>
  /\ UNCHANGED <<serve, link, stream, watch, cut>>

\* What each client and each backend sends before it finishes.
Amounts(kind) ==
  {f \in [Streams -> 0..MaxStreamBytes + 1] :
     \A s \in Streams : f[s] <= IF kind = "off" THEN 0 ELSE Offers[s]}

ServeInit(kind) ==
  /\ serve = kind
  /\ link = IF kind = "off" THEN "closed" ELSE "waiting"
  /\ stream \in {[s \in Streams |-> NewStream(c[s], o[s])] : c, o \in Amounts(kind)}
  /\ age = 0 /\ watch = "look" /\ nap = 0 /\ cut = {}

ServeNext ==
  \/ AcceptConnection \/ TlsHandshake \/ CloseLink \/ Look \/ Wake \/ AcceptTimeout \/ Elapse
  \/ \E s \in Streams :
       \/ Request(s) \/ Decide(s) \/ ConnectBackend(s) \/ Answered(s) \/ ClientResets(s)
       \/ RequestHttp3(s) \/ DecideHttp3(s) \/ ConnectBackendHttp3(s)
       \/ ReadRequest(s) \/ forward_with_cancel(s) \/ ReadBackend(s) \/ RelayEnds(s)
       \/ RequestToBackendHttp3(s) \/ BackendToResponseHttp3(s) \/ RelayEndsHttp3(s)
       \/ SendFrame(s) \/ EndResponse(s)

----------------------------------------------------------------------------
\* The idle deadline of an HTTP/2 connection never closes it under a stream:
\* none is being decided, connected or relayed, and none has response frames
\* left (wait_until_idle and the guard that map_frame keeps).  And a relay
\* that reports success took all that its client and its backend sent until
\* they finished, within the limit, and what it has not yet sent to the
\* client is in the queue unless the response was dropped.
RelaysWhole ==
  /\ cut = {}
  /\ \A s \in Streams : LET r == stream[s] IN
       /\ r.put <= MaxStreamBytes /\ r.out <= MaxStreamBytes
       /\ r.outcome = "ok" =>
            /\ r.put = r.client /\ r.down = r.origin
            /\ r.open => r.out + r.queue = r.down
=============================================================================
