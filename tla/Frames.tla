-------------------------------- MODULE Frames --------------------------------
(***************************************************************************)
(* The data frames of an authenticated session on its carrier              *)
(* (shph-transport/src/lib.rs): length-prefixed frames on a TCP byte       *)
(* stream, read in pieces between read timeouts, and one frame per UDP     *)
(* datagram for the experimental QUIC carrier.                             *)
(*                                                                         *)
(* A byte of the stream is [frame, pos]: the frame it belongs to and its   *)
(* place in it.  Frame n has Prefix bytes of length and BodyBytes[n] of    *)
(* ciphertext.  A datagram is [from, id, whole]: its source address, the   *)
(* frame it carries and whether it arrives undamaged.                      *)
(***************************************************************************)
EXTENDS Integers, Sequences, FiniteSets, SequencesExt

CONSTANTS
  PrefixBytes,     \* 4 in the code
  BodyBytes,       \* frame number -> ciphertext bytes
  MaxInvalid,      \* MAX_QUIC_INVALID_DATAGRAMS_PER_RECV
  MaxDatagrams     \* a bound of the model on datagrams under way

VARIABLES
  carrier,         \* "tcp", "udp", or "off" when a behaviour uses neither
  sentFrames,      \* frames handed to the carrier
  bytes,           \* TCP: the bytes under way
  wire, expected,  \* TcpFrameReader
  broken,          \* TCP: the sender failed within a frame and is gone
  datagrams,       \* UDP: what is under way
  opened,        \* the frames the receive cipher has accepted
  invalid,         \* UDP: invalid datagrams of the current recv call
  inRecv,          \* UDP: a recv call is under way
  got,             \* frames handed to the user, in order
  faults           \* ghost: errors recv returned

frameVars == <<carrier, sentFrames, bytes, wire, expected, broken, datagrams, opened,
               invalid, inRecv, got, faults>>

WireOf(n) == [i \in 1 .. PrefixBytes + BodyBytes[n] |-> [frame |-> n, pos |-> i]]

-----------------------------------------------------------------------------
(* TCP.                                                                    *)

\* write_encrypted_tcp_frame: the length and the ciphertext.
WriteFrame ==
  /\ carrier = "tcp" /\ ~broken /\ sentFrames < Len(BodyBytes)
  /\ sentFrames' = sentFrames + 1
  /\ bytes' = bytes \o WireOf(sentFrames + 1)
  /\ UNCHANGED <<carrier, wire, expected, broken, datagrams, opened, invalid, inRecv, got, faults>>

\* A write that fails within a frame ends the session.
WriteBreaks ==
  /\ carrier = "tcp" /\ ~broken /\ sentFrames < Len(BodyBytes)
  /\ broken' = TRUE
  /\ \E k \in 0 .. PrefixBytes + BodyBytes[sentFrames + 1] - 1 :
       bytes' = bytes \o SubSeq(WireOf(sentFrames + 1), 1, k)
  /\ UNCHANGED <<carrier, sentFrames, wire, expected, datagrams, opened, invalid, inRecv, got,
                 faults>>

\* The length in the first PrefixBytes bytes; 0 when they are not a prefix.
LengthIn(buffer) ==
  IF \A i \in 1 .. PrefixBytes : buffer[i] = [frame |-> buffer[1].frame, pos |-> i]
  THEN BodyBytes[buffer[1].frame] ELSE 0

\* The ciphertext opens: it is that of one frame, which is new.
Opens(buffer) ==
  LET n == buffer[1].frame IN buffer = WireOf(n) /\ n \notin opened

Needed == IF expected = 0 THEN PrefixBytes - Len(wire) ELSE expected - Len(wire)

\* The reader after a read: `b` is what it holds.
AfterRead(b) ==
  LET len  == IF expected # 0 THEN expected
              ELSE IF Len(b) < PrefixBytes THEN 0 ELSE PrefixBytes + LengthIn(b)
  IN  IF len = PrefixBytes
      THEN /\ wire' = <<>> /\ expected' = 0
           /\ faults' = faults \cup {"length"}
           /\ UNCHANGED <<opened, got>>
      ELSE IF len = 0 \/ Len(b) < len
      THEN wire' = b /\ expected' = len /\ UNCHANGED <<opened, got, faults>>
      ELSE /\ wire' = <<>> /\ expected' = 0
           /\ IF Opens(b)
              THEN /\ opened' = opened \cup {b[1].frame}
                   /\ got' = Append(got, b[1].frame)
                   /\ UNCHANGED faults
              ELSE faults' = faults \cup {"decrypt"} /\ UNCHANGED <<opened, got>>

\* One read of TcpFrameReader::recv_frame: it never asks for more than the
\* frame it is in.
ReadSome ==
  /\ carrier = "tcp" /\ bytes # <<>>
  /\ \E k \in 1 .. Needed :
       /\ k <= Len(bytes)
       /\ bytes' = SubSeq(bytes, k + 1, Len(bytes))
       /\ AfterRead(wire \o SubSeq(bytes, 1, k))
  /\ UNCHANGED <<carrier, sentFrames, broken, datagrams, invalid, inRecv>>

\* A slip: what read_exact had taken is forgotten with the call that timed
\* out.
DroppedAfterTimeout == wire' = <<>> /\ expected' = 0

\* The bytes and the frame boundary stay for the next call.
KeptAfterTimeout == UNCHANGED <<wire, expected>>

\* The polling read of a bridge loop times out between two segments.
ReadTimesOut ==
  /\ carrier = "tcp"
  /\ KeptAfterTimeout
  /\ faults' = faults \cup {"timeout"}
  /\ UNCHANGED <<carrier, sentFrames, bytes, broken, datagrams, opened, invalid, inRecv, got>>

-----------------------------------------------------------------------------
(* UDP.                                                                    *)

Addresses == {"peer", "other"}

SendDatagram ==
  /\ carrier = "udp" /\ sentFrames < Len(BodyBytes)
  /\ sentFrames' = sentFrames + 1
  /\ datagrams' = datagrams \cup {[from |-> "peer", id |-> sentFrames + 1, whole |-> TRUE]}
  /\ UNCHANGED <<carrier, bytes, wire, expected, broken, opened, invalid, inRecv, got, faults>>

\* The network loses, damages and duplicates, and other hosts send too.
NetworkActs ==
  /\ carrier = "udp"
  /\ \/ \E d \in datagrams : datagrams' = datagrams \ {d}
     \/ /\ Cardinality(datagrams) < MaxDatagrams
        /\ \E n \in 1 .. sentFrames, from \in Addresses, whole \in BOOLEAN :
             datagrams' = datagrams \cup {[from |-> from, id |-> n, whole |-> whole]}
  /\ UNCHANGED <<carrier, sentFrames, bytes, wire, expected, broken, opened, invalid, inRecv, got,
                 faults>>

CallRecv ==
  /\ carrier = "udp" /\ ~inRecv
  /\ inRecv' = TRUE /\ invalid' = 0
  /\ UNCHANGED <<carrier, sentFrames, bytes, wire, expected, broken, datagrams, opened, got, faults>>

\* decode_encrypted_quic_frame_with_profile: lengths, then the cipher.
Valid(d) == d.from = "peer" /\ d.whole /\ d.id \notin opened

\* One turn of the loop of read_encrypted_quic_frame.
TakeDatagram ==
  /\ carrier = "udp" /\ inRecv
  /\ \E d \in datagrams :
       /\ datagrams' = datagrams \ {d}
       /\ IF Valid(d)
          THEN /\ opened' = opened \cup {d.id}
               /\ got' = Append(got, d.id)
               /\ inRecv' = FALSE
               /\ UNCHANGED <<invalid, faults>>
          ELSE /\ invalid' = invalid + 1
               /\ inRecv' = (invalid + 1 < MaxInvalid)
               /\ faults' = IF invalid + 1 < MaxInvalid THEN faults ELSE faults \cup {"invalid"}
               /\ UNCHANGED <<opened, got>>
  /\ UNCHANGED <<carrier, sentFrames, bytes, wire, expected, broken>>

\* A timeout after invalid datagrams is a protocol error.
RecvTimesOut ==
  /\ carrier = "udp" /\ inRecv
  /\ inRecv' = FALSE
  /\ faults' = faults \cup {IF invalid > 0 THEN "invalid" ELSE "timeout"}
  /\ UNCHANGED <<carrier, sentFrames, bytes, wire, expected, broken, datagrams, opened, invalid,
                 got>>

-----------------------------------------------------------------------------
\* The session is used whole or split into a sender and a receiver, which
\* share nothing but the stream or the socket.
SecureTcpSession_new == bytes = <<>> /\ wire = <<>> /\ expected = 0 /\ broken = FALSE

ExperimentalQuicSession_new == datagrams = {} /\ invalid = 0 /\ inRecv = FALSE

FramesInit(c) ==
  /\ carrier = c
  /\ SecureTcpSession_new /\ ExperimentalQuicSession_new
  /\ sentFrames = 0 /\ opened = {} /\ got = <<>> /\ faults = {}

FramesNext ==
  \/ WriteFrame \/ WriteBreaks \/ ReadSome \/ ReadTimesOut
  \/ SendDatagram \/ NetworkActs \/ CallRecv \/ TakeDatagram \/ RecvTimesOut

-----------------------------------------------------------------------------
\* However the stream is cut into reads and wherever a poll times out, the
\* TCP reader hands over the frames sent, whole and in order, and meets no
\* malformed frame; the UDP reader hands over no frame twice and none that
\* is damaged or from another address (TcpFrameReader::recv_frame,
\* read_encrypted_quic_frame).
FramesIntact ==
  /\ carrier = "tcp" => /\ got = [i \in 1 .. Len(got) |-> i]
                        /\ Len(got) <= sentFrames
                        /\ faults \subseteq {"timeout"}
  /\ carrier = "udp" => /\ IsInjective(got)
                        /\ ToSet(got) \subseteq 1 .. sentFrames
=============================================================================
