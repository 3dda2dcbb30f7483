----------------------------- MODULE PhantomQuic -----------------------------
(***************************************************************************)
(* Phantom One on a standards-QUIC connection                              *)
(* (shph-transport/src/standards_quic.rs): the capability exchange, the    *)
(* datagrams and the one application stream.  One directional sequence     *)
(* space and one cipher serve the datagrams, which overtake each other and *)
(* are lost, and the stream, which QUIC delivers in order.                 *)
(*                                                                         *)
(* Used with mode = "phantom".  offer[e] is the profile the end asks for,  *)
(* 0 for none.  The code reads the path MTU before it waits for a          *)
(* datagram and uses it after: `armed` is the value read.                  *)
(***************************************************************************)
EXTENDS EnvelopePolicy

CONSTANTS
  StreamLimit,          \* MAX_PHANTOM_ONE_STREAM_ENVELOPE_BYTES
  PhantomCipherReach    \* the replay window of the Phantom One cipher

VARIABLES
  claimed,        \* end -> the stream it holds: "none", "opened" or "accepted"
  stream,         \* the direction to the receiver of the application stream:
                  \* [state, records]
  armed,          \* the receiver waits for a datagram: Some(path MTU read)
  streamRefused   \* ghost: sequence numbers of stream records refused

phantomVars == <<claimed, stream, armed, streamRefused>>

NoStream    == [state |-> "none", records |-> <<>>]
ResetStream == [state |-> "reset", records |-> <<>>]
Carrying(records) == [state |-> "open", records |-> records]

Requested(e) == IF offer[e] = 0 THEN None ELSE Some(Profiles[offer[e]])

-----------------------------------------------------------------------------
(* negotiate_phantom_one.                                                  *)

SendCapability(e) ==
  /\ phase[e] = "start"
  /\ ctrl' = Tell(e, Requested(e))
  /\ phase' = [phase EXCEPT ![e] = "offered"]
  /\ UNCHANGED <<why, policy, offer, enc, dec>>

\* The exact same request, or the connection is closed.
Agrees(e, peers) == peers = Requested(e)

enable_phantom_one(e) ==
  LET profile == Requested(e)[1]
  IN  /\ policy' = [policy EXCEPT ![e] = Some(for_profile(profile))]
      /\ enc' = IF e = "sender" THEN NewEncoder(Generation, for_profile(profile)) ELSE enc
      /\ dec' = IF e = "receiver" THEN NewDecoder(Generation, for_profile(profile)) ELSE dec

RecvCapability(e) ==
  /\ phase[e] = "offered" /\ ctrl[e] # <<>>
  /\ ctrl' = [ctrl EXCEPT ![e] = Tail(@)]
  /\ IF ~Agrees(e, Head(ctrl[e]))
     THEN Fail(e, "mismatch") /\ UNCHANGED <<enc, dec>>
     ELSE /\ phase' = [phase EXCEPT ![e] = "open"]
          /\ IF Requested(e) = None THEN UNCHANGED <<policy, enc, dec>> ELSE enable_phantom_one(e)
          /\ UNCHANGED <<why, offer>>

CapabilityTimeout(e) == Timeout(e) /\ UNCHANGED <<enc, dec>>

CapabilityStep ==
  /\ mode = "phantom"
  /\ \E e \in Ends : SendCapability(e) \/ RecvCapability(e) \/ CapabilityTimeout(e)
  /\ UNCHANGED <<mode, limit, nonce, sentUse, sched, taken, gotUse, gotCover, covers,
                 refused, net, now, hurt, phantomVars>>

Enabled(e) == mode = "phantom" /\ phase[e] = "open" /\ policy[e] # None

-----------------------------------------------------------------------------
(* Sending.  Datagrams and stream records take the next number alike.      *)

SendPhantomDatagram ==
  /\ Enabled("sender")
  /\ \E size \in Payloads, carried \in BOOLEAN :
       \E target \in target_size(enc, size, limit["sender"]) :
         SendFrame("data", size, size, target, limit["sender"], carried)
  /\ UNCHANGED <<mode, negotiationVars, limit, sched, recvVars, now, hurt, phantomVars>>

WriteStreamRecord(type, size) ==
  \E target \in target_size(enc, size, StreamLimit) :
    /\ CanEncode(enc, size, target, StreamLimit)
    /\ enc' = Encoded(enc, size, target)
    /\ nonce' = nonce + 1
    /\ stream' = Carrying(Append(stream.records, Sealed(EncodedFrame(enc, type, size, target))))

\* open_phantom_one_stream: the stream starts with a control record.
OpenStream ==
  /\ Enabled("sender") /\ claimed["sender"] = "none"
  /\ claimed' = [claimed EXCEPT !["sender"] = "opened"]
  /\ WriteStreamRecord("control", 1)
  /\ UNCHANGED <<mode, negotiationVars, limit, sentUse, sched, recvVars, net, now, hurt, armed,
                 streamRefused>>

SendStreamRecord ==
  /\ Enabled("sender") /\ claimed["sender"] # "none" /\ stream # ResetStream
  /\ \E size \in Payloads : WriteStreamRecord("data", size)
  /\ UNCHANGED <<mode, negotiationVars, limit, sentUse, sched, recvVars, net, now, hurt, claimed,
                 armed, streamRefused>>

-----------------------------------------------------------------------------
(* Receiving.                                                              *)

PhantomCipherFresh(n) == n \notin taken /\ \A m \in taken : m <= n + PhantomCipherReach

\* decrypt and decode; what is refused leaves an error with the caller, who
\* may go on.
PhantomTake(record, mtu) ==
  IF ~PhantomCipherFresh(record.nonce) THEN UNCHANGED <<dec, taken>>
  ELSE /\ taken' = taken \cup {record.nonce}
       /\ dec' = IF Decodes(dec, record.frame, mtu) THEN Decoded(dec, record.frame) ELSE dec

PhantomAccepts(record, mtu) ==
  PhantomCipherFresh(record.nonce) /\ Decodes(dec, record.frame, mtu)

WaitDatagram ==
  /\ Enabled("receiver") /\ armed = None
  /\ armed' = Some(limit["receiver"])
  /\ UNCHANGED <<envVars, claimed, stream, streamRefused>>

RecvPhantomDatagram ==
  /\ Enabled("receiver") /\ armed # None
  /\ \E i \in DOMAIN net :
       /\ net' = SubSeq(net, 1, i - 1) \o SubSeq(net, i + 1, Len(net))
       /\ IF net[i].frame.len > armed[1] THEN UNCHANGED <<dec, taken>>
          ELSE PhantomTake(net[i], armed[1])
  /\ armed' = None
  /\ UNCHANGED <<mode, negotiationVars, limit, sendVars, gotUse, gotCover, covers, refused, now,
                 hurt, claimed, stream, streamRefused>>

TakeStreamRecord(record) ==
  /\ stream' = Carrying(Tail(stream.records))
  /\ PhantomTake(record, StreamLimit)
  /\ streamRefused' = IF PhantomAccepts(record, StreamLimit) THEN streamRefused
                      ELSE streamRefused \cup {record.frame.seq}

\* accept_phantom_one_stream: an end that already holds a stream resets the
\* new one, and so does one that cannot take the introduction.
AcceptStream ==
  /\ Enabled("receiver") /\ armed = None
  /\ stream.records # <<>>
  /\ Head(stream.records).frame.type = "control"
  /\ IF claimed["receiver"] # "none"
     THEN stream' = ResetStream /\ UNCHANGED <<dec, taken, claimed, streamRefused>>
     ELSE /\ PhantomTake(Head(stream.records), StreamLimit)
          /\ IF PhantomAccepts(Head(stream.records), StreamLimit)
             THEN /\ claimed' = [claimed EXCEPT !["receiver"] = "accepted"]
                  /\ stream' = Carrying(Tail(stream.records))
                  /\ UNCHANGED streamRefused
             ELSE /\ stream' = ResetStream
                  /\ streamRefused' = streamRefused \cup {Head(stream.records).frame.seq}
                  /\ UNCHANGED claimed
  /\ UNCHANGED <<mode, negotiationVars, limit, sendVars, gotUse, gotCover, covers, refused, net,
                 now, hurt, armed>>

RecvStreamRecord ==
  /\ Enabled("receiver") /\ armed = None /\ claimed["receiver"] # "none"
  /\ stream.records # <<>>
  /\ Head(stream.records).frame.type = "data"
  /\ TakeStreamRecord(Head(stream.records))
  /\ UNCHANGED <<mode, negotiationVars, limit, sendVars, gotUse, gotCover, covers, refused, net,
                 now, hurt, claimed, armed>>

\* The receiver opens the stream instead, and the sender accepts it and
\* writes its records on the other half.  The introduction travels in the
\* other direction's sequence space, which the model does not follow: the
\* sender may never accept.
OpenStreamBack ==
  /\ Enabled("receiver") /\ claimed["receiver"] = "none"
  /\ claimed' = [claimed EXCEPT !["receiver"] = "opened"]
  /\ UNCHANGED <<envVars, stream, armed, streamRefused>>

AcceptStreamBack ==
  /\ Enabled("sender") /\ claimed = [sender |-> "none", receiver |-> "opened"]
  /\ claimed' = [claimed EXCEPT !["sender"] = "accepted"]
  /\ UNCHANGED <<envVars, stream, armed, streamRefused>>

PhantomNext ==
  \/ CapabilityStep \/ SendPhantomDatagram \/ OpenStream \/ SendStreamRecord
  \/ WaitDatagram \/ RecvPhantomDatagram \/ AcceptStream \/ RecvStreamRecord
  \/ OpenStreamBack \/ AcceptStreamBack

-----------------------------------------------------------------------------
\* "callers needing reliability should use the dedicated Phantom One
\* application stream" (send_phantom_one_datagram): a record that QUIC
\* delivered on that stream is handed over, whatever datagrams do meanwhile.
\* The code does not keep this.  enable_phantom_one gives stream and datagrams
\* one sequence space, and read_phantom_one_stream_record applies the replay
\* windows of cipher and decoder, which datagrams sent later may have moved
\* past the record.
StreamIsReliable == streamRefused = {}
=============================================================================
