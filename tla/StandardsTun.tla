---------------------------- MODULE StandardsTun ----------------------------
(***************************************************************************)
(* The direct path of `shph up --transport quic-standard` on Linux:        *)
(* run_standards_quic_listen_loop and run_standards_quic_connect_loop      *)
(* (shph-cli/src/main.rs) and the bridge they run                          *)
(* (shph-transport/src/standards_tun.rs), in which one loop reads the TUN  *)
(* device and sends datagrams and another receives datagrams and writes    *)
(* the device, with the plain, the Phantom One or the Shroud 3 envelope.   *)
(* The two loops reuse the names of NativeBridge: tunReader and tunWriter. *)
(***************************************************************************)
EXTENDS NativeBridge

CONSTANTS
  MaxInvalid,   \* max_invalid_datagrams
  MaxSessions   \* bound: connections accepted or made

ASSUME TunAssumption == MaxInvalid \in Nat \ {0} /\ MaxSessions \in Nat

VARIABLES
  envelope,     \* "plain", "phantom" or "shroud3"
  invalid,      \* invalid_datagrams of the session
  sessions      \* connections so far

direct == <<envelope, invalid, sessions>>

\* Variables of the adapter that the direct path has no part in.
idle == <<worker, setup, outbound, inbound, shared, toTransport, toTun, threads, flag>>

Direct == {"listen", "connect"}

DirectInit ==
  /\ mode \in Adapted \cup Direct
  /\ main = IF mode \in Direct THEN "accepting" ELSE "start"
  /\ envelope \in IF mode \in Direct THEN {"plain", "phantom", "shroud3"} ELSE {"plain"}
  /\ invalid = 0
  /\ sessions = 0

-----------------------------------------------------------------------------
(* The two loops of the CLI *)

\* What accept_inner can fail with at each of its steps, and connect_inner
\* likewise; both run under one timeout.
accept_inner ==
  {"timeout"} \cup {"transport"}                   \* endpoint, connection, stream
  \cup {"transport", "protocol", "serialization"}  \* read_hello, write_message
  \cup {"auth", "handshake", "protocol", "crypto"} \* verify, absorb and derive

\* accept: an authenticated connection.  The listener reports a peer that
\* failed and waits for the next, except for the errors it returns with.
ListenerAccepts ==
  /\ main = "accepting" /\ mode = "listen" /\ sessions < MaxSessions
  /\ sessions' = sessions + 1
  /\ \/ conn' = "open" /\ main' = "negotiating" /\ UNCHANGED result
     \/ \E e \in accept_inner :
          /\ UNCHANGED conn
          /\ IF e \in {"timeout", "auth", "handshake", "protocol", "transport"}
             THEN UNCHANGED <<main, result>>
             ELSE main' = "ended" /\ result' = "error"
  /\ UNCHANGED <<idle, mode, requested, local, tasks, sent, got, refused, envelope, invalid>>

\* connect, once.
ConnectorConnects ==
  /\ main = "accepting" /\ mode = "connect"
  /\ sessions' = sessions + 1
  /\ \/ conn' = "open" /\ main' = "negotiating" /\ UNCHANGED result
     \/ main' = "ended" /\ result' = "error" /\ UNCHANGED conn
  /\ UNCHANGED <<idle, mode, requested, local, tasks, sent, got, refused, envelope, invalid>>

\* wait_for_native_shutdown while the listener waits for a peer.
ListenerStops ==
  /\ main = "accepting" /\ mode = "listen" /\ requested
  /\ main' = "ended"
  /\ UNCHANGED <<connection, idle, mode, requested, local, result, tasks, direct>>

\* negotiate_phantom_one, the peer policy, the MTU and the audit record: each
\* failure ends the loop, and the connection with it.
SessionRefused ==
  /\ main = "negotiating"
  /\ conn' = "lost"
  /\ main' = "ended" /\ result' = "error"
  /\ UNCHANGED <<idle, mode, requested, local, tasks, sent, got, refused, direct>>

SessionStarts ==
  /\ main = "negotiating"
  /\ main' = "bridge"
  /\ tunReader' = "run" /\ tunWriter' = "run"
  /\ invalid' = 0
  /\ UNCHANGED <<connection, idle, mode, requested, local, result, envelope, sessions>>

\* How the select over the bridge and wait_for_native_shutdown ends.
BridgeReturns(r) ==
  /\ main = "bridge"
  /\ r \in {tunReader, tunWriter} \cup {"request"}
  /\ r \notin {"run", "off"}
  /\ r = "request" => requested
  /\ tunReader' = "off" /\ tunWriter' = "off"
  /\ conn' = "lost"
  /\ UNCHANGED <<idle, mode, requested, local, sent, got, refused, direct>>

\* A listener goes on after a clean end and after ConnectionClosed; every
\* other error ends it.
ListenerSessionEnds ==
  /\ mode = "listen"
  /\ \E r \in {"closed", "error", "request"} :
       /\ BridgeReturns(r)
       /\ main' = IF r = "closed" /\ ~requested THEN "accepting" ELSE "ended"
       /\ result' = IF r = "request" \/ main' = "accepting" THEN "ok" ELSE r

ConnectorEnds ==
  /\ mode = "connect"
  /\ \E r \in {"closed", "error", "request"} :
       BridgeReturns(r) /\ main' = "ended" /\ result' = IF r = "request" THEN "ok" ELSE r

-----------------------------------------------------------------------------
(* standards_tun::run: two loops under try_join *)

\* Both loops select on connection.closed: try_join returns at the first
\* error, so a loop moves only while the other has not ended.
Bridging == main = "bridge" /\ mode \in Direct /\ tunReader = "run" /\ tunWriter = "run"

\* tun.recv_packet: a valid packet, or an end of the session that also closes
\* the connection; a malformed packet is an error like a failed read.
DeviceEnds ==
  /\ \E f \in Frames : tunReader' = IF recv_packet(f) = "closed" THEN "closed" ELSE "error"
  /\ conn' = "lost"
  /\ UNCHANGED <<sent, got, refused>>
PacketRead == (\E f \in Frames : recv_packet(f) = "ok") /\ Reads(NextPacket)

PacketSent    == conn = "open" /\ got' = Append(got, NextPacket) /\ UNCHANGED <<conn, refused, tunReader>>
PacketDropped == conn = "open" /\ refused' = refused \cup {NextPacket} /\ UNCHANGED <<conn, got, tunReader>>
SendFails     == conn' = "lost" /\ tunReader' = "error" /\ UNCHANGED <<got, refused>>

\* tun_to_quic_loop, with send_datagram_lossy.
tun_to_quic_loop ==
  envelope = "plain" /\ (DeviceEnds \/ (PacketRead /\ (PacketSent \/ PacketDropped \/ SendFails)))

\* phantom_one_tun_to_quic_loop: a packet that does not fit the envelope ends
\* the session like any other error of the sender.
phantom_one_tun_to_quic_loop ==
  envelope = "phantom" /\ (DeviceEnds \/ (PacketRead /\ (PacketSent \/ SendFails)))

\* shroud3_tun_to_quic_loop: a packet that does not fit, or that the pacer
\* gives up on, is dropped.
shroud3_tun_to_quic_loop ==
  envelope = "shroud3" /\ (DeviceEnds \/ (PacketRead /\ (PacketSent \/ PacketDropped \/ SendFails)))

DirectReader ==
  /\ Bridging
  /\ tun_to_quic_loop \/ phantom_one_tun_to_quic_loop \/ shroud3_tun_to_quic_loop
  /\ UNCHANGED <<idle, mode, requested, main, local, result, tunWriter, direct>>

\* One datagram to the device.  What the device refuses by its header is
\* counted, and at the limit closes the connection; a failed write does so at
\* once.
Datagram == Message("rx", Cardinality(Handed("rx")))

quic_to_tun(valid, fatal) ==
  /\ conn = "open" /\ Datagram.n < MaxDatagrams
  /\ sent' = sent \cup {Datagram}
  /\ IF fatal
     THEN conn' = "lost" /\ tunWriter' = "error" /\ UNCHANGED <<got, refused, invalid>>
     ELSE IF valid
     THEN got' = Append(got, Datagram) /\ UNCHANGED <<conn, refused, invalid, tunWriter>>
     ELSE /\ refused' = refused \cup {Datagram}
          /\ invalid' = invalid + 1
          /\ IF invalid' >= MaxInvalid THEN conn' = "lost" /\ tunWriter' = "error"
             ELSE UNCHANGED <<conn, tunWriter>>
          /\ UNCHANGED got

\* The read fails on a connection that is gone.
ReadFails ==
  /\ conn = "lost" /\ tunWriter' = "error"
  /\ UNCHANGED <<conn, sent, got, refused, invalid>>

\* quic_to_tun_loop: the packet is written, refused by its header, or the
\* device fails.
quic_to_tun_loop ==
  envelope = "plain" /\ (ReadFails \/ \E f \in Frames, w \in Writes : quic_to_tun(validate_ip_packet(f), w # "whole"))

\* phantom_one_quic_to_tun_loop: what does not decrypt or decode is fatal.
phantom_one_quic_to_tun_loop ==
  /\ envelope = "phantom"
  /\ \/ ReadFails
     \/ \E f \in Frames, opened \in BOOLEAN, w \in Writes :
          quic_to_tun(validate_ip_packet(f), ~opened \/ w # "whole")

\* shroud3_quic_to_tun_loop: what does not decode is counted with the rest.
shroud3_quic_to_tun_loop ==
  /\ envelope = "shroud3"
  /\ \/ ReadFails
     \/ \E f \in Frames, decoded \in BOOLEAN, w \in Writes :
          quic_to_tun(decoded /\ validate_ip_packet(f), w # "whole")

DirectWriter ==
  /\ Bridging
  /\ quic_to_tun_loop \/ phantom_one_quic_to_tun_loop \/ shroud3_quic_to_tun_loop
  /\ UNCHANGED <<idle, mode, requested, main, local, result, tunReader, envelope, sessions>>

\* connection.closed in either loop.
DirectClosed ==
  /\ Bridging /\ conn = "lost"
  /\ \/ tunReader' = "closed" /\ UNCHANGED tunWriter
     \/ tunWriter' = "closed" /\ UNCHANGED tunReader
  /\ UNCHANGED <<connection, idle, mode, requested, main, local, result, direct>>

DirectMain == ListenerAccepts \/ ConnectorConnects \/ ListenerStops
              \/ SessionRefused \/ SessionStarts \/ ListenerSessionEnds \/ ConnectorEnds
=============================================================================
