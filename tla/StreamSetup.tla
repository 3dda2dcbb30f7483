---------------------------- MODULE StreamSetup -----------------------------
(***************************************************************************)
(* How a byte stream to the peer comes about (shph-transport lib.rs and    *)
(* snap_adapter.rs).  Directly, through a SOCKS5 proxy or through Tor: the *)
(* name is looked up by a pool of resolver threads with bounded queues,    *)
(* its addresses are tried in turn, and a proxy is asked for the peer.  Or *)
(* through a TLS bridge: a thread sets the bridge up and then relays       *)
(* between it and a local socket pair, until the session drops its         *)
(* SnapBridgeLifecycle.                                                    *)
(*                                                                         *)
(* Deadlines may pass at any step.  An address is [name, n]: the n-th      *)
(* address of a name.                                                      *)
(***************************************************************************)
EXTENDS Naturals, Sequences, FiniteSets

CONSTANTS Callers, DnsWorkers, MAX_DNS_RESOLVER_QUEUE,
          MAX_RESOLVED_ADDRESSES,
          MaxCalls,      \* bound on the connections of a caller
          MaxBytes       \* bound on what the session writes to a bridge

ASSUME StreamSetupAssumption == MAX_RESOLVED_ADDRESSES \in Nat \ {0}

VARIABLES setup,     \* "connect", "bridge" or "off"
          caller,    \* c -> see NoCall
          queue,     \* w -> requests waiting for the worker, [c, call, name]
          worker,    \* w -> the request at work, in a set of at most one
          answers,   \* answers in their channels, [c, call, addrs]
          bridge     \* see NoBridge

connectVars == <<caller, queue, worker, answers>>
setupVars == <<setup, connectVars, bridge>>

\* way: the underlay or adapter of the call; name: whom it connects to;
\* addrs: addresses still to try; hops: the stream so far.  Ghosts: wanted,
\* the way that was asked for; touched, the names this call has looked up or
\* connected to.
NoCall == [pc |-> "idle", call |-> 0, way |-> "direct", name |-> "peer", addrs |-> <<>>,
           hops |-> <<>>, wanted |-> "direct", touched |-> {}]

\* caller: what connect_tls_bridge and then the session do; worker: the
\* thread; ready: the channel of size one; out, in: the halves of the relay.
NoBridge == [caller |-> "waiting", worker |-> "setup", ready |-> <<>>, framing |-> "raw",
             written |-> 0, relayed |-> 0, shut |-> FALSE, out |-> "on", in |-> "on",
             remote |-> "open"]

SetupInit(on) ==
  /\ setup \in IF on THEN {"connect", "bridge"} ELSE {"off"}
  /\ caller = [c \in Callers |-> NoCall]
  /\ queue = [w \in DnsWorkers |-> <<>>]
  /\ worker = [w \in DnsWorkers |-> {}]
  /\ answers = {}
  /\ bridge \in {[NoBridge EXCEPT !.framing = f] :
                  f \in IF setup = "bridge" THEN {"raw", "framed"} ELSE {"raw"}}

(* --- looking a name up ------------------------------------------------------- *)

Moves(c, pc) == caller' = [caller EXCEPT ![c].pc = pc]
FailsCall(c) == caller' = [caller EXCEPT ![c] = [NoCall EXCEPT !.call = caller[c].call]]

Addresses(name) == [n \in 1..MAX_RESOLVED_ADDRESSES |-> [name |-> name, n |-> n]]

BeginCall(c, way, name, pc, addrs) ==
  /\ setup = "connect" /\ caller[c].pc \in {"idle", "stream"} /\ caller[c].call < MaxCalls
  /\ caller' = [caller EXCEPT ![c] =
                  [pc |-> pc, call |-> caller[c].call + 1, way |-> way, name |-> name, addrs |-> addrs,
                   hops |-> <<>>, wanted |-> way, touched |-> {}]]
  /\ UNCHANGED <<queue, worker, answers>>

\* connect_tcp_via_underlay_inner.  The proxy of Tor is a literal loopback
\* address, or the call fails before it does anything.
connect_tcp_via_underlay(c) ==
  \/ BeginCall(c, "direct", "peer", "resolve", <<>>)
  \/ BeginCall(c, "socks5", "proxy", "resolve", <<>>)
  \/ BeginCall(c, "tor", "proxy", "connect", SubSeq(Addresses("proxy"), 1, 1))

\* connect_onion_bridge: the first relay of the route, a literal address.
connect_onion_bridge(c) == BeginCall(c, "onion", "relay", "connect", SubSeq(Addresses("relay"), 1, 1))

\* connect_mule_usb: the proxy, looked up outside the pool.
connect_mule_usb(c) == BeginCall(c, "mule", "proxy", "connect", Addresses("proxy"))

\* connect_mesh_dtn_local: the peer, then the peers of the mesh file.
connect_mesh_dtn_local(c) ==
  BeginCall(c, "mesh", "peer", "connect",
            SubSeq(Addresses("peer"), 1, 1) \o SubSeq(Addresses("neighbour"), 1, 1))

\* resolve_socket_addrs_with_deadline: a literal is its own address; any
\* queue with room may be the first one asked, as the start moves on.
resolve_socket_addrs(c) ==
  /\ caller[c].pc = "resolve"
  /\ \/ /\ caller' = [caller EXCEPT ![c].pc = "connect",
                                    ![c].addrs = SubSeq(Addresses(caller[c].name), 1, 1)]
        /\ UNCHANGED queue
     \/ /\ \E w \in DnsWorkers :
             /\ Len(queue[w]) < MAX_DNS_RESOLVER_QUEUE
             /\ queue' = [queue EXCEPT ![w] =
                            Append(@, [c |-> c, call |-> caller[c].call, name |-> caller[c].name])]
        /\ caller' = [caller EXCEPT ![c].pc = "answer", ![c].touched = @ \cup {caller[c].name}]
     \/ FailsCall(c) /\ UNCHANGED queue    \* the queues are full, or it is too late
  /\ UNCHANGED <<worker, answers>>

\* The thread of dns_resolver_pool takes a request, and sends the answer in
\* the request's own channel; nobody hears it when the caller has given up.
TakeRequest(w) ==
  /\ worker[w] = {} /\ queue[w] # <<>>
  /\ worker' = [worker EXCEPT ![w] = {Head(queue[w])}]
  /\ queue' = [queue EXCEPT ![w] = Tail(@)]
  /\ UNCHANGED <<caller, answers>>

resolve_socket_addrs_bounded(w) ==
  /\ \E r \in worker[w], n \in 0..MAX_RESOLVED_ADDRESSES :
       answers' = answers \cup {[c |-> r.c, call |-> r.call, addrs |-> SubSeq(Addresses(r.name), 1, n)]}
  /\ worker' = [worker EXCEPT ![w] = {}]
  /\ UNCHANGED <<caller, queue>>

\* A slip: a caller has one channel for the answers to all its lookups.
response_receiver_shared(c) == {a \in answers : a.c = c}

response_receiver(c) == {a \in answers : a.c = c /\ a.call = caller[c].call}

Hear(c) ==
  /\ caller[c].pc = "answer"
  /\ \/ \E a \in response_receiver(c) :
          /\ caller' = [caller EXCEPT ![c].pc = "connect", ![c].addrs = a.addrs]
          /\ answers' = answers \ {a}
     \/ FailsCall(c) /\ UNCHANGED answers
  /\ UNCHANGED <<queue, worker>>

(* --- connecting ---------------------------------------------------------------- *)

\* What follows when the connection stands.
Connected(way) ==
  CASE way \in {"direct", "mesh"} -> "stream"
    [] way \in {"socks5", "tor"} -> "method"
    [] way \in {"onion", "mule"} -> "request"

\* connect_tcp_with_deadline: the addresses in turn.
TryAddress(c) ==
  /\ caller[c].pc = "connect" /\ caller[c].addrs # <<>>
  /\ LET to == Head(caller[c].addrs).name
         tried == [caller EXCEPT ![c].touched = @ \cup {to}]
     IN \/ caller' = [tried EXCEPT ![c].addrs = Tail(@)]
        \/ caller' = [tried EXCEPT ![c].hops = <<to>>, ![c].pc = Connected(caller[c].way)]
  /\ UNCHANGED <<queue, worker, answers>>

\* A slip: when no proxy can be reached, the peer is tried itself.
NoAddressLeft_direct(c) ==
  /\ caller[c].pc = "connect" /\ caller[c].addrs = <<>>
  /\ IF caller[c].name = "peer" THEN FailsCall(c)
     ELSE caller' = [caller EXCEPT ![c].way = "direct", ![c].name = "peer", ![c].pc = "resolve"]
  /\ UNCHANGED <<queue, worker, answers>>

NoAddressLeft(c) ==
  /\ caller[c].pc = "connect" /\ caller[c].addrs = <<>>
  /\ FailsCall(c)
  /\ UNCHANGED <<queue, worker, answers>>

\* socks5_connect_authenticated_with_cancel: the method, for Tor a fresh user
\* and password, then the peer by name; the onion and mule adapters only ask
\* for the peer.  Any step may be refused, be too late or be cancelled.
socks5_connect(c) ==
  /\ \/ /\ caller[c].pc = "method"
        /\ Moves(c, IF caller[c].way = "tor" THEN "credentials" ELSE "request")
     \/ caller[c].pc = "credentials" /\ Moves(c, "request")
     \/ /\ caller[c].pc = "request"
        /\ caller' = [caller EXCEPT ![c].pc = "stream", ![c].hops = Append(@, "peer")]
     \/ caller[c].pc \in {"method", "credentials", "request"} /\ FailsCall(c)
  /\ UNCHANGED <<queue, worker, answers>>

(* --- the TLS bridge -------------------------------------------------------------- *)

Bridge == setup = "bridge"

\* The thread: setup ends, with its own timeout, and says so.  The channel
\* has room and its reader is there until connect_tls_bridge returns.
SetupEnds ==
  /\ Bridge /\ bridge.worker = "setup"
  /\ \/ /\ bridge.caller \in {"waiting", "closing", "draining"}
        /\ \/ bridge' = [bridge EXCEPT !.worker = "relay", !.ready = <<"ok">>]
           \/ bridge' = [bridge EXCEPT !.worker = "ended", !.ready = <<"error">>]
     \/ /\ bridge.caller = "gone"
        /\ bridge' = [bridge EXCEPT !.worker = "ended"]

\* connect_tls_bridge hears of it, or gives up.
recv_timeout ==
  /\ Bridge /\ bridge.caller = "waiting"
  /\ \/ /\ bridge.ready # <<>>
        /\ bridge' = [bridge EXCEPT !.caller = IF Head(bridge.ready) = "ok" THEN "open" ELSE "closing"]
     \/ bridge' = [bridge EXCEPT !.caller = "closing"]

WriteBytes ==
  /\ Bridge /\ bridge.caller = "open" /\ bridge.written < MaxBytes
  /\ bridge' = [bridge EXCEPT !.written = @ + 1]

SessionDrops ==
  /\ Bridge /\ bridge.caller = "open"
  /\ bridge' = [bridge EXCEPT !.caller = "closing"]

\* Drop of SnapBridgeLifecycle: the local stream is shut down, then the
\* thread has a second to finish.
LifecycleDrop ==
  /\ Bridge
  /\ \/ bridge.caller = "closing" /\ bridge' = [bridge EXCEPT !.caller = "draining", !.shut = TRUE]
     \/ bridge.caller = "draining" /\ bridge' = [bridge EXCEPT !.caller = "gone"]

\* The outgoing half: bytes, then the end of the local stream.
RelayOut ==
  /\ Bridge /\ bridge.worker = "relay" /\ bridge.out = "on"
  /\ \/ /\ bridge.relayed < bridge.written
        /\ bridge' = [bridge EXCEPT !.relayed = @ + 1]
     \/ /\ bridge.relayed = bridge.written /\ bridge.shut
        /\ bridge' = [bridge EXCEPT !.out = "done"]
     \/ bridge' = [bridge EXCEPT !.out = "failed"]

\* The incoming half ends with the stream from the bridge, or fails: its
\* bytes cannot be written to a local stream that is shut, or what it reads
\* is an error or not what the framing allows.
RelayIn ==
  /\ Bridge /\ bridge.worker = "relay" /\ bridge.in = "on"
  /\ \/ bridge.remote = "closed" /\ bridge' = [bridge EXCEPT !.in = "done"]
     \/ bridge' = [bridge EXCEPT !.in = "failed"]

RemoteCloses ==
  /\ Bridge /\ bridge.remote = "open" /\ bridge.worker = "relay"
  /\ bridge' = [bridge EXCEPT !.remote = "closed"]

\* A slip: the relay is over when either half is.
RelayOver_either == bridge.out # "on" \/ bridge.in # "on"

\* copy_bidirectional gives up both halves when one fails; the framed relays
\* join both halves whatever becomes of each.
RelayOver ==
  \/ bridge.out # "on" /\ bridge.in # "on"
  \/ bridge.framing = "raw" /\ "failed" \in {bridge.out, bridge.in}

RelayEnds ==
  /\ Bridge /\ bridge.worker = "relay" /\ RelayOver
  /\ bridge' = [bridge EXCEPT !.worker = "ended"]

SetupNext ==
  \/ /\ \/ \E c \in Callers :
             \/ connect_tcp_via_underlay(c) \/ connect_onion_bridge(c)
             \/ connect_mule_usb(c) \/ connect_mesh_dtn_local(c)
             \/ resolve_socket_addrs(c) \/ Hear(c)
             \/ TryAddress(c) \/ NoAddressLeft(c) \/ socks5_connect(c)
        \/ \E w \in DnsWorkers : TakeRequest(w) \/ resolve_socket_addrs_bounded(w)
     /\ UNCHANGED <<setup, bridge>>
  \/ /\ \/ SetupEnds \/ recv_timeout \/ WriteBytes \/ SessionDrops \/ LifecycleDrop
        \/ RelayOut \/ RelayIn \/ RemoteCloses \/ RelayEnds
     /\ UNCHANGED <<setup, connectVars>>

(* --- properties ------------------------------------------------------------------- *)

(***************************************************************************)
(* A stream leads to the peer by the way that was asked for, also when the *)
(* lookup of an earlier call is answered late or an earlier call failed:   *)
(* to the peer itself, or to the proxy or relay and from there to the      *)
(* peer, or, for the mesh only, to a neighbour.  A call behind a proxy or  *)
(* relay neither looks up the peer's name on this host nor connects to it  *)
(* (resolve_socket_addrs_with_deadline, connect_tcp_via_underlay_inner).   *)
(***************************************************************************)
StreamAsAsked ==
  \A c \in Callers :
    LET call == caller[c]
        relayed == call.wanted \in {"socks5", "tor", "onion", "mule"}
        first == IF call.wanted = "onion" THEN "relay" ELSE "proxy"
    IN /\ call.pc = "stream" =>
            IF relayed THEN call.hops = <<first, "peer">>
            ELSE \/ call.hops = <<"peer">>
                 \/ call.wanted = "mesh" /\ call.hops = <<"neighbour">>
       /\ relayed => "peer" \notin call.touched

(***************************************************************************)
(* When the relay of a TLS bridge has ended, everything the session wrote  *)
(* before it dropped the bridge was handed on, unless the outgoing half    *)
(* failed itself or, with raw framing, the incoming half did; the other    *)
(* end closing first, or closing while the drop waits, takes nothing away  *)
(* (connect_tls_bridge, relay_snap_websocket, relay_snap_shroud).          *)
(***************************************************************************)
BridgeKeepsBytes ==
  /\ bridge.worker = "ended" /\ bridge.ready = <<"ok">>
  /\ bridge.out # "failed"
  /\ bridge.framing = "raw" => bridge.in # "failed"
  => bridge.relayed = bridge.written
=============================================================================
