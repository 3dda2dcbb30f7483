--------------------------------- MODULE Onion ---------------------------------
(***************************************************************************)
(* The onion relays: a client opens a path relay by relay, each hop a TLS  *)
(* session inside the circuit of the one before, and a local bridge hands  *)
(* the last stream to the blocking SHPH session.  A relay connects only to *)
(* the targets it is configured with and meters the bytes of a circuit     *)
(* over both directions.  A hop is the number of its relay on the path;    *)
(* hop Hops + 1 is the destination.                                        *)
(*                                                                         *)
(* A step ends where a task awaits: between the look at the quota and its  *)
(* compare-exchange the two directions of a circuit, which one task polls, *)
(* do not interleave.                                                      *)
(***************************************************************************)
EXTENDS Naturals

CONSTANTS
  Hops,           \* number of relays on the path
  Allowed,        \* Allowed[h]: the configurations of relay h, sets of targets
  ByteLimit,      \* max_bytes_per_circuit
  CopyBuffer      \* RELAY_COPY_BUFFER_BYTES

ASSUME OnionAssumption ==
  Hops \in Nat \ {0} /\ ByteLimit \in Nat \ {0} /\ CopyBuffer \in Nat \ {0}

Relays == 1..Hops
Directions == {"out", "back"}
Destination == Hops + 1

VARIABLES
  onion,          \* "on", or "off" when another part is explored
  targets,        \* allowed_targets of each relay
  circuit,        \* "none", "setup", "open" or "closed"
  reached,        \* the target each relay is connected to, 0 for none
  halted,       \* the relays that were told to stop
  walker,         \* "dial", "tls", "ask", "copy" or "failed"
  hop,            \* the hop the client is opening
  copied,         \* the counter of the entry relay's circuit
  copy            \* its two copy_direction loops

onionVars == <<onion, targets, circuit, reached, halted, walker, hop, copied, copy>>

Free == [pc |-> "read", read |-> 0, allowed |-> 0, forwarded |-> 0]

----------------------------------------------------------------------------
\* The client.

\* TcpStream::connect to the entry relay, whose permits may be exhausted.
Dial ==
  /\ walker = "dial" /\ onion = "on"
  /\ \/ /\ 1 \notin halted
        /\ circuit' = [circuit EXCEPT ![1] = "setup"]
        /\ walker' = "tls"
     \/ walker' = "failed" /\ UNCHANGED circuit
  /\ UNCHANGED <<onion, targets, reached, halted, hop, copied, copy>>

\* The circuits that carry the client's stream to its current hop.
Carried == \A h \in 1..hop - 1 : circuit[h] = "open"

\* The pinned certificate and the protocol are checked before the token is
\* sent.
CheckIdentity ==
  /\ walker = "tls"
  /\ \/ Carried /\ circuit[hop] = "setup" /\ walker' = "ask"
     \/ walker' = "failed"
  /\ UNCHANGED <<onion, targets, circuit, reached, halted, hop, copied, copy>>

\* A slip: an answer is taken for a good one.
send_open_request_trusting ==
  /\ walker = "ask"
  /\ \/ /\ hop' = hop + 1
        /\ walker' = IF hop = Hops THEN "copy" ELSE "tls"
     \/ walker' = "failed" /\ UNCHANGED hop
  /\ UNCHANGED <<onion, targets, circuit, reached, halted, copied, copy>>

\* OPEN_OK moves on to the next hop, or hands the stream to the bridge;
\* everything else, and the setup timeout, fails the path.
send_open_request ==
  /\ walker = "ask"
  /\ \/ /\ Carried /\ circuit[hop] = "open"
        /\ hop' = hop + 1
        /\ walker' = IF hop = Hops THEN "copy" ELSE "tls"
     \/ walker' = "failed" /\ UNCHANGED hop
  /\ UNCHANGED <<onion, targets, circuit, reached, halted, copied, copy>>

\* copy_bidirectional of the local bridge ends.
BridgeEnds ==
  /\ walker = "copy" /\ walker' = "failed"
  /\ UNCHANGED <<onion, targets, circuit, reached, halted, hop, copied, copy>>

----------------------------------------------------------------------------
\* handle_relay_stream.

\* A valid request for a configured target is connected and answered; when
\* the target is the next relay, its circuit begins.
OpenCircuit(h) ==
  /\ circuit[h] = "setup" /\ walker = "ask" /\ hop = h
  /\ h + 1 \in targets[h]
  /\ h + 1 \notin halted
  /\ circuit' = [r \in Relays |->
                  CASE r = h -> "open" [] r = h + 1 -> "setup" [] OTHER -> circuit[r]]
  /\ reached' = [reached EXCEPT ![h] = h + 1]
  /\ UNCHANGED <<onion, targets, halted, walker, hop, copied, copy>>

\* Denied, unreachable, or setup_timeout; later max_lifetime, an end of the
\* stream, or the abort two seconds after the relay stops.
CloseCircuit(h) ==
  /\ circuit[h] \in {"setup", "open"}
  /\ circuit' = [circuit EXCEPT ![h] = "closed"]
  /\ UNCHANGED <<onion, targets, reached, halted, walker, hop, copied, copy>>

StopRelay(h) ==
  /\ onion = "on" /\ h \notin halted
  /\ halted' = halted \cup {h}
  /\ UNCHANGED <<onion, targets, circuit, reached, walker, hop, copied, copy>>

----------------------------------------------------------------------------
\* copy_direction on the entry relay's circuit.

Copying == circuit[1] = "open"

Minimum(a, b) == IF a <= b THEN a ELSE b

\* A slip: the quota is looked at, but what was taken is never counted.
ReadUnreserved(d, n) ==
  /\ Copying /\ copy[d].pc = "read"
  /\ LET allowed == Minimum(n, ByteLimit - copied) IN
     IF copied >= ByteLimit THEN copy' = [copy EXCEPT ![d].pc = "error"]
     ELSE copy' = [copy EXCEPT ![d] = [@ EXCEPT !.pc = "write", !.read = n, !.allowed = allowed]]
  /\ UNCHANGED <<onion, targets, circuit, reached, halted, walker, hop, copied>>

\* The bytes of one read are reserved, as far as the quota goes.
ReadAndReserve(d, n) ==
  /\ Copying /\ copy[d].pc = "read"
  /\ LET allowed == Minimum(n, ByteLimit - copied) IN
     IF copied >= ByteLimit
     THEN copy' = [copy EXCEPT ![d].pc = "error"] /\ UNCHANGED copied
     ELSE /\ copied' = copied + allowed
          /\ copy' = [copy EXCEPT ![d] =
                       [@ EXCEPT !.pc = "write", !.read = n, !.allowed = allowed]]
  /\ UNCHANGED <<onion, targets, circuit, reached, halted, walker, hop>>

\* End of stream: the writer is shut down.
ReadEnd(d) ==
  /\ Copying /\ copy[d].pc = "read"
  /\ copy' = [copy EXCEPT ![d].pc = "done"]
  /\ UNCHANGED <<onion, targets, circuit, reached, halted, walker, hop, copied>>

WriteAllowed(d) ==
  /\ Copying /\ copy[d].pc = "write"
  /\ LET c == copy[d]
         spent == c.allowed # c.read \/ copied >= ByteLimit
     IN  copy' = [copy EXCEPT ![d] =
                   [pc |-> IF spent THEN "error" ELSE "read", read |-> 0, allowed |-> 0,
                    forwarded |-> c.forwarded + c.allowed]]
  /\ UNCHANGED <<onion, targets, circuit, reached, halted, walker, hop, copied>>

\* try_join: both directions are done, or one has failed.
relay_copy ==
  /\ Copying
  /\ \/ \A d \in Directions : copy[d].pc = "done"
     \/ \E d \in Directions : copy[d].pc = "error"
  /\ circuit' = [circuit EXCEPT ![1] = "closed"]
  /\ UNCHANGED <<onion, targets, reached, halted, walker, hop, copied, copy>>

OnionInit(kind) ==
  /\ onion = kind
  /\ targets \in IF kind = "off" THEN {[h \in Relays |-> {}]}
                 ELSE {f \in [Relays -> UNION {Allowed[h] : h \in Relays}] :
                        \A h \in Relays : f[h] \in Allowed[h]}
  /\ circuit = [h \in Relays |-> "none"]
  /\ reached = [h \in Relays |-> 0]
  /\ halted = {} /\ walker = "dial" /\ hop = 1
  /\ copied = 0 /\ copy = [d \in Directions |-> Free]

OnionNext ==
  \/ Dial \/ CheckIdentity \/ send_open_request \/ BridgeEnds \/ relay_copy
  \/ \E h \in Relays : OpenCircuit(h) \/ CloseCircuit(h) \/ StopRelay(h)
  \/ \E d \in Directions : ReadEnd(d) \/ WriteAllowed(d)
  \/ \E d \in Directions, n \in 1..CopyBuffer : ReadAndReserve(d, n)

----------------------------------------------------------------------------
\* A circuit forwards no more than its quota over both directions together,
\* whatever is still being written in the other one (copy_direction).
QuotaHolds ==
  copy["out"].forwarded + copy["out"].allowed + copy["back"].forwarded + copy["back"].allowed
    <= ByteLimit

\* The session has its local stream at once, but bytes flow on it only when
\* every relay of the path, in order, has connected to the next one and the
\* last to the destination, all as configured; there is no other way to it
\* (connect_onion_bridge, connect_stream_inner, send_open_request,
\* handle_relay_stream).
PathComplete ==
  \A h \in Relays :
    /\ walker = "copy" \/ hop > h => reached[h] = h + 1
    /\ reached[h] # 0 => reached[h] \in targets[h] /\ \A k \in 1..h : reached[k] = k + 1
=============================================================================
