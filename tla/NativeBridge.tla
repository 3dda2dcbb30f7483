---------------------------- MODULE NativeBridge ----------------------------
(***************************************************************************)
(* What `shph up` does with a standards-QUIC session of the blocking       *)
(* adapter, the one a SNAP candidate yields (shph-cli/src/main.rs):        *)
(* run_connect_loop connects, enforces the peer policy, activates the      *)
(* session, and then                                                       *)
(*   "linux"    splits it between two blocking threads that exchange       *)
(*              packets with an async reader and writer of the TUN device  *)
(*              over two bounded queues,                                   *)
(*   "windows"  splits it between two threads that use the TUN device      *)
(*              themselves, or                                             *)
(*   "stdin"    without a native TUN device, sends lines of input and      *)
(*              never receives.                                            *)
(* The TUN device, the peer and the operator are the environment: a read   *)
(* yields a packet, is refused as malformed, reports the end of the        *)
(* device or fails; a write succeeds, is refused or fails.                 *)
(***************************************************************************)
EXTENDS BlockingQuic

CONSTANTS
  QueueCapacity,  \* BRIDGE_QUEUE_CAPACITY
  MaxPackets      \* bound: packets read from the TUN device, or input lines

ASSUME BridgeAssumption == QueueCapacity \in Nat \ {0} /\ MaxPackets \in Nat

----------------------------------------------------------------------------
\* The packet boundary of shph-tun: what a read or a write of the TUN device
\* makes of a frame.  A frame is its length and the header fields the
\* validation reads; header is ihl * 4, total the IPv4 total length or the
\* IPv6 payload length.

MAX_TUN_PACKET_BYTES == 65535

Frame(version, header, total, len) ==
  [version |-> version, header |-> header, total |-> total, len |-> len]

\* Frames on both sides of every comparison below.
Frames ==
  {Frame(4, 20, 20, 20), Frame(4, 60, 65535, 65535), Frame(4, 20, 19, 19),
   Frame(4, 16, 20, 20), Frame(4, 24, 20, 20), Frame(4, 20, 21, 20),
   Frame(6, 40, 1, 41), Frame(6, 40, 0, 40), Frame(6, 40, 2, 41), Frame(6, 40, 1, 39),
   Frame(5, 20, 20, 20), Frame(4, 20, 65535, 65536), Frame(0, 0, 0, 0)}

validate_ipv4_packet(f) ==
  /\ f.len >= 20
  /\ f.header >= 20
  /\ f.header <= f.len
  /\ f.total >= f.header
  /\ f.total = f.len

validate_ipv6_packet(f) ==
  /\ f.len >= 40
  /\ f.total # 0
  /\ 40 + f.total = f.len

validate_ip_packet(f) ==
  /\ f.len \in 1..MAX_TUN_PACKET_BYTES
  /\ \/ f.version = 4 /\ validate_ipv4_packet(f)
     \/ f.version = 6 /\ validate_ipv6_packet(f)

\* AsyncTunDevice::recv_packet on what the descriptor yields; an interrupted
\* read or a readiness that was not one is tried again.
recv_packet(f) ==
  IF f.len > MAX_TUN_PACKET_BYTES THEN "tun"
  ELSE IF f.len = 0 THEN "closed"
  ELSE IF validate_ip_packet(f) THEN "ok" ELSE "tun"

\* AsyncTunDevice::send_packet and classify_tun_write_result: `write` is what
\* the descriptor does with a valid frame.
Writes == {"whole", "short", "failed"}
send_packet(f, write) ==
  IF ~validate_ip_packet(f) THEN "tun"
  ELSE IF write = "whole" THEN "ok"
  ELSE IF write = "short" THEN "short" ELSE "io"

\* WintunRuntime::try_receive_packet under TunDevice::recv_packet: an empty
\* ring is waited for and reported as a timeout, nothing ends the device.
try_receive_packet(f) == IF validate_ip_packet(f) THEN "ok" ELSE "tun"

\* WintunRuntime::send_packet: a full ring is an error of its own kind.
Rings == {"room", "full", "failed"}
wintun_send_packet(f, ring) ==
  IF ~validate_ip_packet(f) THEN "tun"
  ELSE IF ring = "room" THEN "ok"
  ELSE IF ring = "full" THEN "exhausted" ELSE "tun"

----------------------------------------------------------------------------
\* The bridge.

VARIABLES
  mode,        \* "linux", "windows" or "stdin"; see also StandardsTun
  requested,   \* shutdown::shutdown_requested
  main,        \* the thread of run_connect_loop
  local,       \* local_shutdown: the select ended on the operator's request
  result,      \* what the loop is about to return: "ok", "closed" or "error"
  flag,        \* the AtomicBool the threads share
  tunReader,   \* native_async_tun_to_transport_loop: "run", or how it ended
  tunWriter,   \* native_async_transport_to_tun_loop: "run", or how it ended
  toTransport, \* queue from the TUN reader to the sender thread
  toTun,       \* queue from the receiver thread to the TUN writer
  sender,      \* the thread that owns the sender handle
  receiver,    \* the thread that owns the receiver handle
  ended        \* how each of the two threads ended

queues  == <<toTransport, toTun>>
tasks   == <<tunReader, tunWriter>>
threads == <<sender, receiver, ended>>
control == <<main, local, result, flag>>
bridge  == <<mode, requested, control, tasks, queues, threads>>

Adapted == {"linux", "windows", "stdin"}

BridgeInit ==
  /\ requested = FALSE
  /\ local = FALSE
  /\ result = "ok"
  /\ flag = FALSE
  /\ tunReader = "off" /\ tunWriter = "off"
  /\ toTransport = <<>> /\ toTun = <<>>
  /\ sender = "off" /\ receiver = "off"
  /\ ended = [t \in {"sender", "receiver"} |-> "ok"]

Request ==
  /\ ~requested
  /\ requested' = TRUE
  /\ UNCHANGED <<adapter, mode, control, tasks, queues, threads>>

\* Both flags that every loop looks at.
Stopping == flag \/ requested

-----------------------------------------------------------------------------
(* run_connect_loop *)

Connects ==
  /\ main = "start"
  /\ connect
  /\ main' = "connecting"
  /\ UNCHANGED <<mode, requested, local, result, flag, tasks, queues, threads>>

\* connect returns: a session whose data plane is held, the worker's error,
\* or the timeout, after which the worker is joined.
ConnectReturns ==
  /\ main = "connecting"
  /\ \/ SessionEstablished /\ main' = "policy" /\ UNCHANGED result
     \/ StartupTimeout /\ main' = "joining" /\ result' = "error"
     \/ startup = "err" /\ main' = "ended" /\ result' = "error" /\ UNCHANGED adapter
  /\ UNCHANGED <<mode, requested, local, flag, tasks, queues, threads>>

\* enforce_peer_policy refuses: the session is dropped before activation.
PolicyRefuses ==
  /\ main = "policy"
  /\ DropSession
  /\ main' = "joining" /\ result' = "error"
  /\ UNCHANGED <<worker, connection, startup, outbound, inbound>>
  /\ UNCHANGED <<mode, requested, local, flag, tasks, queues, threads>>

\* enforce_peer_policy passes, the session is activated, and the loop for the
\* platform starts.
PolicyPasses ==
  /\ main = "policy"
  /\ activate
  /\ main' = IF mode = "stdin" THEN "lines" ELSE "bridge"
  /\ tunReader' = IF mode = "linux" THEN "run" ELSE "off"
  /\ tunWriter' = IF mode = "linux" THEN "run" ELSE "off"
  /\ sender' = IF mode = "stdin" THEN "off" ELSE "run"
  /\ receiver' = IF mode = "stdin" THEN "off" ELSE "run"
  /\ UNCHANGED <<mode, requested, local, result, flag, queues, ended>>

\* The thread that dropped the last share of the session joined the worker.
MainJoined ==
  /\ main = "joining"
  /\ WorkerJoined
  /\ main' = "ended"
  /\ UNCHANGED <<worker, connection, setup, outbound, inbound, stop, handles>>
  /\ UNCHANGED <<mode, requested, local, result, flag, tasks, queues, threads>>

-----------------------------------------------------------------------------
(* The next packet of the TUN device, or line of input *)

NextPacket == Message("tx", Cardinality(Handed("tx")))
Reads(p)   == p.n < MaxPackets /\ sent' = sent \cup {p}

\* stream_stdin_lines: a line is sent; the end of input, a shutdown request or
\* an error of either end ends the loop, and with it the session.
LineSent ==
  /\ main = "lines" /\ ~requested
  /\ Reads(NextPacket)
  /\ IF CommandsClosed
     THEN DropSession /\ main' = "joining" /\ result' = "closed"
          /\ UNCHANGED <<commands, sending, reply>>
     ELSE QueueCommand(NextPacket) /\ main' = "line_call"
          /\ UNCHANGED <<result, activation, shared>>
  /\ UNCHANGED <<worker, conn, got, refused, startup, inbound>>
  /\ UNCHANGED <<mode, requested, local, flag, tasks, queues, threads>>

LineReturns ==
  /\ main = "line_call"
  /\ \E r \in {"ok", "protocol", "transport", "closed", "timeout"} :
       /\ SendReturns(r)
       /\ IF r = "ok" THEN main' = "lines" /\ UNCHANGED <<result, activation, shared>>
          ELSE DropSession /\ main' = "joining" /\ result' = IF r = "closed" THEN r ELSE "error"
  /\ UNCHANGED <<worker, connection, startup, inbound>>
  /\ UNCHANGED <<mode, requested, local, flag, tasks, queues, threads>>

LinesEnd ==
  /\ main = "lines"
  /\ DropSession
  /\ main' = "joining" /\ result' \in {"ok", "error"}
  /\ UNCHANGED <<worker, connection, startup, outbound, inbound>>
  /\ UNCHANGED <<mode, requested, local, flag, tasks, queues, threads>>

-----------------------------------------------------------------------------
(* The async half of the Linux bridge *)

\* native_async_tun_to_transport_loop: a packet goes into the queue, which the
\* loop waits for, and a malformed one is only counted; the loop ends on a
\* stop flag, on the end of the device, when the sender thread is gone, or on
\* a device error.
TunReaderStep ==
  /\ tunReader = "run"
  /\ \/ \E f \in Frames :
          /\ ~Stopping
          /\ \/ /\ recv_packet(f) = "ok" /\ Reads(NextPacket)
                /\ IF sender = "done" THEN tunReader' = "closed" /\ UNCHANGED toTransport
                   ELSE /\ Len(toTransport) < QueueCapacity
                        /\ toTransport' = Append(toTransport, NextPacket)
                        /\ UNCHANGED tunReader
             \/ /\ recv_packet(f) = "closed"
                /\ tunReader' = "ok" /\ UNCHANGED <<sent, toTransport>>
     \/ /\ tunReader' = IF Stopping THEN "ok" ELSE "error"
        /\ UNCHANGED <<sent, toTransport>>
  /\ UNCHANGED <<worker, conn, got, refused, setup, outbound, inbound, shared>>
  /\ UNCHANGED <<mode, requested, control, tunWriter, toTun, threads>>

\* native_async_transport_to_tun_loop: a packet goes to the device, is refused
\* by it as malformed, or ends the loop; so do a stop flag and the end of the
\* receiver thread.
TunWriterStep ==
  /\ tunWriter = "run"
  /\ \/ \E f \in Frames, write \in Writes :
          LET r == send_packet(f, write)
          IN  /\ toTun # <<>>
              /\ toTun' = Tail(toTun)
              /\ got' = IF r = "ok" THEN Append(got, Head(toTun)) ELSE got
              /\ refused' = IF r = "tun" THEN refused \cup {Head(toTun)} ELSE refused
              /\ tunWriter' = IF r \in {"short", "io"} THEN "error" ELSE "run"
     \/ /\ Stopping \/ (toTun = <<>> /\ receiver = "done")
        /\ tunWriter' = "ok" /\ UNCHANGED <<got, refused, toTun>>
  /\ UNCHANGED <<worker, conn, sent, setup, outbound, inbound, shared>>
  /\ UNCHANGED <<mode, requested, control, tunReader, toTransport, threads>>

\* run_bidirectional_native_async: the first of the reader, the writer, a
\* finished thread and the operator's request ends the select.  The flag is
\* set and the two async loops are dropped, which closes their ends of the
\* queues.
SelectEnds ==
  /\ main = "bridge" /\ mode = "linux"
  /\ \E first \in {tunReader, tunWriter} \cup {"thread", "request"} :
       /\ first # "run"
       /\ first = "thread" => "done" \in {sender, receiver}
       /\ first = "request" => requested
       /\ local' = (first = "request")
       /\ result' = IF first \in {"closed", "error"} THEN first ELSE "ok"
  /\ flag' = TRUE
  /\ tunReader' = "off" /\ tunWriter' = "off"
  /\ main' = "tasks"
  /\ UNCHANGED <<adapter, mode, requested, queues, threads>>

\* Both threads have been awaited: the first error other than a closed
\* connection, else ConnectionClosed unless the operator asked.
TasksDone ==
  /\ main = "tasks"
  /\ sender = "done" /\ receiver = "done"
  /\ LET all == {result, ended["sender"], ended["receiver"]}
     IN  result' = IF "error" \in all THEN "error"
                   ELSE IF "closed" \in all /\ ~local THEN "closed" ELSE "ok"
  /\ main' = "ended"
  /\ UNCHANGED <<adapter, mode, requested, local, flag, tasks, queues, threads>>

\* run_bidirectional_native_sync: the same for the two Windows threads, which
\* are joined in order.
ThreadsJoined ==
  /\ main = "bridge" /\ mode = "windows"
  /\ sender = "done" /\ receiver = "done"
  /\ LET all == {ended["sender"], ended["receiver"]}
     IN  result' = IF "error" \in all THEN "error"
                   ELSE IF "closed" \in all /\ ~requested THEN "closed" ELSE "ok"
  /\ main' = "ended"
  /\ UNCHANGED <<adapter, mode, requested, local, flag, tasks, queues, threads>>

-----------------------------------------------------------------------------
(* The two threads *)

\* A thread leaves its loop and drops its handle; dropping the last one means
\* joining the worker first.
Leaves(t) == IF handles = {t} THEN "joining" ELSE "done"

ThreadJoined ==
  /\ \/ sender = "joining" /\ sender' = "done" /\ UNCHANGED receiver
     \/ receiver = "joining" /\ receiver' = "done" /\ UNCHANGED sender
  /\ WorkerJoined
  /\ UNCHANGED <<worker, connection, setup, outbound, inbound, stop, handles>>
  /\ UNCHANGED <<mode, requested, control, tasks, queues, ended>>

\* native_transport_sender_loop: the next packet of the queue is sent; a
\* closed and empty queue ends the loop.
SenderLoop ==
  /\ mode = "linux" /\ sender = "run"
  /\ IF toTransport = <<>>
     THEN /\ tunReader # "run"
          /\ DropHandle("sender") /\ sender' = Leaves("sender")
          /\ UNCHANGED <<outbound, toTransport, ended>>
     ELSE /\ toTransport' = Tail(toTransport)
          /\ IF CommandsClosed
             THEN /\ DropHandle("sender") /\ sender' = Leaves("sender")
                  /\ ended' = [ended EXCEPT !["sender"] = "closed"]
                  /\ UNCHANGED outbound
             ELSE /\ QueueCommand(Head(toTransport)) /\ sender' = "call"
                  /\ UNCHANGED <<shared, ended>>
  /\ UNCHANGED <<worker, connection, setup, inbound>>
  /\ UNCHANGED <<mode, requested, control, tasks, toTun, receiver>>

\* A slip: a Windows thread leaves without telling the other.
StopsNobody == UNCHANGED flag

\* shutdown.store(true) on the way out of a Windows loop.
StopsOther == flag' = TRUE

\* windows_tun_to_transport_loop: the thread reads the device itself, and
\* counts what is malformed.  A stop flag ends it, and it sets the flag; a
\* device error does both too.
WindowsSenderLoop ==
  /\ mode = "windows" /\ sender = "run"
  /\ \/ /\ \E f \in Frames : try_receive_packet(f) = "ok"
        /\ Reads(NextPacket)
        /\ IF CommandsClosed
           THEN /\ DropHandle("sender") /\ sender' = Leaves("sender")
                /\ ended' = [ended EXCEPT !["sender"] = "closed"]
                /\ UNCHANGED outbound
           ELSE /\ QueueCommand(NextPacket) /\ sender' = "call"
                /\ UNCHANGED <<shared, ended>>
        /\ UNCHANGED flag
     \/ /\ DropHandle("sender") /\ sender' = Leaves("sender")
        /\ ended' = [ended EXCEPT !["sender"] = IF Stopping THEN "ok" ELSE "error"]
        /\ StopsOther
        /\ UNCHANGED <<sent, outbound>>
  /\ UNCHANGED <<worker, conn, got, refused, setup, inbound>>
  /\ UNCHANGED <<mode, requested, main, local, result, tasks, queues, receiver>>

\* send_frame returns to either loop: every error ends it, and on Windows
\* without setting the flag.
SenderReturns ==
  /\ sender = "call"
  /\ \E r \in {"ok", "protocol", "transport", "closed", "timeout"} :
       /\ SendReturns(r)
       /\ IF r = "ok" THEN sender' = "run" /\ UNCHANGED <<shared, ended>>
          ELSE /\ DropHandle("sender") /\ sender' = Leaves("sender")
               /\ ended' = [ended EXCEPT !["sender"] = IF r = "closed" THEN r ELSE "error"]
  /\ UNCHANGED <<worker, connection, setup, inbound>>
  /\ UNCHANGED <<mode, requested, control, tasks, queues, receiver>>

ReceiverLeaves(how) ==
  /\ DropHandle("receiver")
  /\ receiver' = Leaves("receiver")
  /\ ended' = [ended EXCEPT !["receiver"] = how]

\* native_transport_receiver_loop: a datagram waits for room in the queue to
\* the TUN writer (in `incoming`, not in the thread's hand); the loop ends on
\* a stop flag, which it may look at a packet late, a closed queue or an error.
ReceiverLoop ==
  /\ mode = "linux" /\ receiver = "run"
  /\ \/ /\ Stopping
        /\ ReceiverLeaves("ok")
        /\ UNCHANGED <<incoming, toTun>>
     \/ /\ \E item \in Failures : recv_frame(item) /\ ReceiverLeaves(IF item.chan = "closed" THEN "closed" ELSE "error")
        /\ UNCHANGED toTun
     \/ /\ tunWriter = "run" /\ Len(toTun) < QueueCapacity
        /\ incoming # <<>> /\ Head(incoming) \notin Failures
        /\ recv_frame(Head(incoming))
        /\ toTun' = Append(toTun, Head(incoming))
        /\ UNCHANGED <<shared, receiver, ended>>
     \/ /\ tunWriter # "run" /\ incoming # <<>> /\ Head(incoming) \notin Failures
        /\ recv_frame(Head(incoming))
        /\ ReceiverLeaves("ok")
        /\ UNCHANGED toTun
  /\ UNCHANGED <<worker, connection, setup, outbound, pending>>
  /\ UNCHANGED <<mode, requested, control, tasks, toTransport, sender>>

\* windows_transport_to_tun_loop: a datagram goes to the device or is refused
\* by it, and a full ring ends the loop; every way out sets the flag.
WindowsReceiverLoop ==
  /\ mode = "windows" /\ receiver = "run"
  /\ \/ /\ Stopping
        /\ ReceiverLeaves("ok")
        /\ UNCHANGED <<incoming, got, refused>>
        /\ StopsOther
     \/ /\ \E item \in Failures : recv_frame(item) /\ ReceiverLeaves(IF item.chan = "closed" THEN "closed" ELSE "error")
        /\ UNCHANGED <<got, refused>>
        /\ StopsOther
     \/ /\ incoming # <<>> /\ Head(incoming) \notin Failures
        /\ recv_frame(Head(incoming))
        /\ \E f \in Frames, ring \in Rings :
             LET r == wintun_send_packet(f, ring)
             IN  /\ got' = IF r = "ok" THEN Append(got, Head(incoming)) ELSE got
                 /\ refused' = IF r = "tun" THEN refused \cup {Head(incoming)} ELSE refused
                 /\ IF r = "exhausted" THEN ReceiverLeaves("error") /\ StopsOther
                    ELSE UNCHANGED <<shared, receiver, ended, flag>>
  /\ UNCHANGED <<worker, conn, sent, setup, outbound, pending>>
  /\ UNCHANGED <<mode, requested, main, local, result, tasks, queues, sender>>

-----------------------------------------------------------------------------
MainStep     == Connects \/ ConnectReturns \/ PolicyRefuses \/ PolicyPasses \/ MainJoined
                \/ LineReturns \/ SelectEnds \/ TasksDone \/ ThreadsJoined
LinesStep    == LineSent \/ LinesEnd
SenderStep   == SenderLoop \/ WindowsSenderLoop \/ SenderReturns
ReceiverStep == ReceiverLoop \/ WindowsReceiverLoop

Worker == WorkerStep /\ UNCHANGED bridge
Lost   == ConnectionLost /\ UNCHANGED bridge
=============================================================================
