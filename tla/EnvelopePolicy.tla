--------------------------- MODULE EnvelopePolicy ---------------------------
(***************************************************************************)
(* The negotiated envelope sessions of                                     *)
(* shph-transport/src/envelope_policy.rs: NegotiatedTcp on a reliable      *)
(* ordered carrier and NegotiatedQuic on QUIC datagrams, which are lost    *)
(* and reordered, and whose largest size moves while the session runs.     *)
(*                                                                         *)
(* Two ends exchange an offer and an acknowledgement over the ordered      *)
(* control channel.  After that the model follows one direction, from      *)
(* "sender" to "receiver"; the two directions share no state.              *)
(***************************************************************************)
EXTENDS PhantomOne

CONSTANTS
  Offers,          \* a sequence of the EnvelopeOffers an end may make
  Transcript,      \* the binding of this authenticated session
  Overhead,        \* AEAD (and framing) bytes around an envelope
  Payloads,        \* the payload sizes the sender's user sends
  CarrierLimits,   \* sizes a QUIC datagram may carry, less the AEAD overhead
  CipherReach,     \* the replay window of the datagram cipher
  MaxCovers,       \* the 32 iterations of recv
  Profiles,        \* the profiles in the order of their ids
  MaxTime          \* a bound of the model on the cover clock

VARIABLES
  mode,     \* "tcp", "quic" (this module) or a part of another module
  offer,    \* end -> index in Offers of the offer it makes
  phase,    \* end -> "start", "offered", "acked", "open", "failed"
  why,      \* end -> the reason it failed, "" while it has not
  ctrl,     \* end -> what the control channel holds for it
  limit,    \* end -> its current carrier limit
  policy,   \* end -> None or Some(NegotiatedPolicy)
  enc, dec, \* the sender's encoder and the receiver's decoder
  nonce,    \* the sender's cipher counter
  taken,    \* the nonces the receiver's cipher accepted
  net,      \* what is under way, a sequence in the order of sending
  sentUse, gotUse,    \* FrameUsage of the sender and the receiver
  sched,    \* the sender's CoverScheduler
  gotCover, \* cover bytes the receiver has counted
  covers,   \* cover frames taken by the current recv
  now,
  refused,  \* ghost: why the receiver refused a frame
  hurt      \* ghost: what the network did: "loss", "reorder", "shrink"

negotiationVars == <<offer, phase, why, ctrl, policy>>
sendVars == <<enc, nonce, sentUse, sched>>
recvVars == <<dec, taken, gotUse, gotCover, covers, refused>>
envVars == <<mode, negotiationVars, limit, sendVars, recvVars, net, now, hurt>>

Ends == {"sender", "receiver"}
Peer(e) == IF e = "sender" THEN "receiver" ELSE "sender"

Rank(profile) == CHOOSE i \in DOMAIN Profiles : Profiles[i] = profile

NoUse == [frames |-> 0, bytes |-> 0]

-----------------------------------------------------------------------------
(* Offers.                                                                 *)

intersect(a, b) ==
  [frames |-> Least(a.frames, b.frames), bytes |-> Least(a.bytes, b.bytes)]

same_policy_settings(left, right) ==
  \A f \in {"min", "max", "weights", "budget", "bound"} : left[f] = right[f]

\* None when the profile cannot be used with this configuration.
profile_config(config, profile) ==
  LET candidate == [config EXCEPT !.profile = profile]
  IN  IF (config.bound \/ config.profile = profile) /\ ValidConfig(candidate)
      THEN Some(candidate) ELSE None

\* What EnvelopeOffer::new and the with_ builders accept.
ValidOffer(o) ==
  /\ validate_path_mtu(o.out) /\ validate_path_mtu(o.in)
  /\ o.config.profile \in o.supported
  /\ \A p \in o.supported : profile_config(o.config, p) # None
  /\ o.config.bound \/ Cardinality(o.supported) = 1
  /\ \A b \in {o.outBudget, o.inBudget} : b.frames > 0 /\ b.bytes > 0
  /\ o.cover # None => o.cover[1].idle >= o.cover[1].interval

ASSUME OffersAssumption == \A i \in DOMAIN Offers : ValidOffer(Offers[i])

\* The profile fewest of the two ends would rather not have, the lowest id
\* among those.
Chosen(mine, peers) ==
  LET common == mine.supported \cap peers.supported
      cost(p) == Cardinality({c \in {<<1, mine.config>>, <<2, peers.config>>} :
                                c[2].profile # p})
  IN  CHOOSE p \in common : \A q \in common :
        cost(p) < cost(q) \/ (cost(p) = cost(q) /\ Rank(p) <= Rank(q))

\* A slip: each end takes its own preferred profile when the peer has it.
ChosenByMe(mine, peers) ==
  IF mine.config.profile \in peers.supported THEN mine.config.profile
  ELSE Chosen(mine, peers)

Negotiable(mine, peers) ==
  /\ mine.binding = peers.binding
  /\ same_policy_settings(mine.config, peers.config)
  /\ mine.cover = peers.cover
  /\ mine.supported \cap peers.supported # {}

\* A slip: the agreement uses that profile.
NegotiateByPreference(mine, peers) ==
  IF ~Negotiable(mine, peers) THEN None
  ELSE Some([config |-> [mine.config EXCEPT !.profile = ChosenByMe(mine, peers)],
             out |-> Least(mine.out, peers.in), in |-> Least(mine.in, peers.out),
             outBudget |-> intersect(mine.outBudget, peers.inBudget),
             inBudget |-> intersect(mine.inBudget, peers.outBudget)])

negotiate(mine, peers) ==
  IF ~Negotiable(mine, peers) THEN None
  ELSE Some([config |-> profile_config(mine.config, Chosen(mine, peers))[1],
             out |-> Least(mine.out, peers.in), in |-> Least(mine.in, peers.out),
             outBudget |-> intersect(mine.outBudget, peers.inBudget),
             inBudget |-> intersect(mine.inBudget, peers.outBudget)])

\* The acknowledgement hashes the offers in the order of their encodings and
\* the agreement seen from the end whose offer comes first.  An offer is sent
\* with its index in Offers, which stands for the order of the encodings.
acknowledgement(i, mine, j, peers) ==
  LET a == negotiate(mine, peers)[1]
  IN  [offers  |-> {<<i, mine>>, <<j, peers>>},
       profile |-> a.config.profile,
       limits  |-> IF i <= j THEN <<a.out, a.in>> ELSE <<a.in, a.out>>,
       budgets |-> IF i <= j THEN <<a.outBudget, a.inBudget>>
                   ELSE <<a.inBudget, a.outBudget>>]

\* The offer an end really makes: QUIC clips both limits to what its
\* datagrams carry now.
Clipped(o, carrier) == [o EXCEPT !.out = Least(@, carrier), !.in = Least(@, carrier)]

MyOffer(e) ==
  IF mode = "quic" THEN Clipped(Offers[offer[e]], limit[e]) ELSE Offers[offer[e]]

-----------------------------------------------------------------------------
(* establish_with_offer.  A failed end closes the connection.              *)

Tell(e, message) == [ctrl EXCEPT ![Peer(e)] = Append(@, message)]

Fail(e, reason) ==
  /\ phase' = [phase EXCEPT ![e] = "failed"]
  /\ why' = [why EXCEPT ![e] = reason]
  /\ UNCHANGED <<policy, offer>>

\* The offer must be bound to the session the two ends authenticated.
SendOffer(e) ==
  /\ phase[e] = "start"
  /\ IF MyOffer(e).binding = Transcript /\ validate_path_mtu(MyOffer(e).out)
          /\ validate_path_mtu(MyOffer(e).in)
     THEN /\ ctrl' = Tell(e, [type |-> "offer", index |-> offer[e], body |-> MyOffer(e)])
          /\ phase' = [phase EXCEPT ![e] = "offered"]
          /\ policy' = [policy EXCEPT ![e] = Some(MyOffer(e))]
          /\ UNCHANGED <<why, offer>>
     ELSE Fail(e, "setup") /\ UNCHANGED ctrl

\* Between its offer and its acknowledgement policy[e] keeps the offer made.
RecvOffer(e) ==
  /\ phase[e] = "offered" /\ ctrl[e] # <<>>
  /\ LET peers == Head(ctrl[e])
         mine  == policy[e][1]
     IN  IF negotiate(mine, peers.body) = None
         THEN Fail(e, "disagreement") /\ ctrl' = [ctrl EXCEPT ![e] = Tail(@)]
         ELSE LET ack == acknowledgement(offer[e], mine, peers.index, peers.body)
              IN  /\ ctrl' = [ctrl EXCEPT ![e] = Tail(@),
                                          ![Peer(e)] = Append(@, [type |-> "ack", body |-> ack])]
                  /\ policy' = [policy EXCEPT ![e] =
                                  Some([agreed |-> negotiate(mine, peers.body)[1], ack |-> ack])]
                  /\ phase' = [phase EXCEPT ![e] = "acked"]
                  /\ UNCHANGED <<why, offer>>

\* The policy the session object keeps.
OpenPolicy(agreed) == agreed

RecvAck(e) ==
  /\ phase[e] = "acked" /\ ctrl[e] # <<>>
  /\ ctrl' = [ctrl EXCEPT ![e] = Tail(@)]
  /\ IF Head(ctrl[e]).body # policy[e][1].ack
     THEN Fail(e, "acknowledgement")
     ELSE /\ policy' = [policy EXCEPT ![e] = Some(OpenPolicy(policy[e][1].agreed))]
          /\ phase' = [phase EXCEPT ![e] = "open"]
          /\ UNCHANGED <<why, offer>>

\* The deadline passes, or the peer that failed has closed the connection.
Timeout(e) ==
  /\ phase[e] \in {"offered", "acked"}
  /\ Fail(e, "timeout") /\ UNCHANGED ctrl

\* The state of a session object that has just been built.
OpensNow(e) == phase[e] # "open" /\ phase'[e] = "open"

Generation == 1

NegotiationStep ==
  /\ mode \in {"tcp", "quic"}
  /\ \E e \in Ends : SendOffer(e) \/ RecvOffer(e) \/ RecvAck(e) \/ Timeout(e)
  /\ IF OpensNow("sender")
     THEN /\ enc' = NewEncoder(Generation, policy'["sender"][1].config)
          /\ sched' = NewScheduler(Offers[offer["sender"]].cover)
     ELSE UNCHANGED <<enc, sched>>
  /\ dec' = IF OpensNow("receiver") THEN NewDecoder(Generation, policy'["receiver"][1].config)
            ELSE dec
  /\ UNCHANGED <<mode, limit, nonce, sentUse, taken, gotUse, gotCover, covers, refused,
                 net, now, hurt>>

-----------------------------------------------------------------------------
(* Frames.                                                                 *)

\* current_frame_limit: what QUIC carries now, within what was agreed.
current_frame_limit(e, negotiated) ==
  IF mode = "tcp" THEN negotiated ELSE Least(limit[e], negotiated)

WithinBudget(use, budget, size) ==
  use.frames + 1 <= budget.frames /\ use.bytes + size <= budget.bytes

Charge(use, size) == [frames |-> use.frames + 1, bytes |-> use.bytes + size]

Sealed(frame) == [frame |-> frame, nonce |-> nonce]

\* Encode, reserve, encrypt, hand to the carrier.
SendFrame(type, size, charged, target, mtu, carried) ==
  /\ CanEncode(enc, size, target, mtu)
  /\ enc' = Encoded(enc, size, target)
  /\ sentUse' = Charge(sentUse, charged)
  /\ nonce' = nonce + 1
  /\ net' = IF carried THEN Append(net, Sealed(EncodedFrame(enc, type, size, target))) ELSE net

\* send.  A datagram the carrier refuses has used up its number and its
\* budget all the same, and earns no cover.
Send ==
  /\ mode \in {"tcp", "quic"} /\ phase["sender"] = "open"
  /\ \E size \in Payloads, carried \in {TRUE, mode = "tcp"} :
       LET p   == policy["sender"][1]
           mtu == current_frame_limit("sender", p.out)
       IN  /\ WithinBudget(sentUse, p.outBudget, size)
           /\ \E target \in target_size(enc, size, mtu) :
                SendFrame("data", size, size, target, mtu, carried)
           /\ sched' = IF carried THEN record_payload(sched, now, size) ELSE sched
           /\ hurt' = IF carried THEN hurt ELSE hurt \cup {"loss"}
  /\ UNCHANGED <<mode, negotiationVars, limit, recvVars, now>>

\* send_cover_if_due; `held` stands for pending payload or congestion.
SendCoverIfDue ==
  /\ mode \in {"tcp", "quic"} /\ phase["sender"] = "open"
  /\ LET p   == policy["sender"][1]
         mtu == current_frame_limit("sender", p.out)
     IN  /\ sentUse.frames < p.outBudget.frames
         /\ \E held, cancelled \in BOOLEAN, target \in target_size(enc, 1, mtu) :
              LET seen == observe(sched, now, cancelled)
                  due  == ~held /\ MayReserve(seen, now, target + Overhead)
              IN  /\ sched' = IF due THEN Reserved(seen, now, target + Overhead) ELSE seen
                  /\ IF due THEN SendFrame("keepalive", 1, 0, target, mtu, TRUE)
                     ELSE UNCHANGED <<enc, sentUse, nonce, net>>
  /\ UNCHANGED <<mode, negotiationVars, limit, recvVars, now, hurt>>

\* External: the replay window of the cipher (see AntiReplay), by what it
\* promises.  On TCP the frames come in order and it never refuses one.
CipherFresh(n) == n \notin taken /\ \A m \in taken : m <= n + CipherReach

cover_budget_allows(cover, payload, bytes) == bytes <= Allowance(cover, payload)

\* recv returns the error and the caller ends the session.
Refuse(reason) ==
  /\ refused' = refused \cup {reason}
  /\ phase' = [phase EXCEPT !["receiver"] = "failed"]
  /\ why' = [why EXCEPT !["receiver"] = reason]

\* A slip: the byte of a cover frame is charged as payload.
ChargeCoverAsPayload(use) == Charge(use, 1)

\* A cover frame counts as a frame and as no payload.
ChargeCover(use) == Charge(use, 0)

\* A frame the cipher and the decoder have accepted.
RecvKeepalive(frame, p, cover) ==
  LET bytes == gotCover + frame.len + Overhead
  IN  IF cover = None THEN Refuse("cover") /\ UNCHANGED <<gotUse, gotCover, covers>>
      ELSE IF mode = "quic" /\ bytes > cover[1].maximum
           THEN Refuse("cover") /\ UNCHANGED <<gotUse, gotCover, covers>>
      ELSE IF ~WithinBudget(gotUse, p.inBudget, 0)
           THEN /\ Refuse("budget")
                /\ gotCover' = IF mode = "quic" THEN bytes ELSE gotCover
                /\ UNCHANGED <<gotUse, covers>>
      ELSE /\ gotCover' = bytes
           /\ gotUse' = ChargeCover(gotUse)
           /\ covers' = IF covers + 1 = MaxCovers THEN 0 ELSE covers + 1
           /\ IF mode = "tcp" /\ ~cover_budget_allows(cover[1], gotUse.bytes, bytes)
              THEN Refuse("cover") ELSE UNCHANGED <<refused, phase, why>>

RecvData(frame, p, cover) ==
  IF mode = "quic" /\ cover # None
       /\ ~cover_budget_allows(cover[1], gotUse.bytes + frame.size, gotCover)
  THEN Refuse("cover") /\ UNCHANGED <<gotUse, gotCover, covers>>
  ELSE IF ~WithinBudget(gotUse, p.inBudget, frame.size)
  THEN Refuse("budget") /\ UNCHANGED <<gotUse, gotCover, covers>>
  ELSE /\ gotUse' = Charge(gotUse, frame.size)
       /\ covers' = 0
       /\ UNCHANGED <<gotCover, refused, phase, why>>

\* recv: TCP hands over the oldest frame, QUIC any of those under way.  After
\* MaxCovers cover frames recv gives up and its caller calls it again.
Recv ==
  /\ mode \in {"tcp", "quic"} /\ phase["receiver"] = "open"
  /\ \E i \in DOMAIN net :
       LET frame == net[i].frame
           p     == policy["receiver"][1]
           mtu   == current_frame_limit("receiver", p.in)
           cover == Offers[offer["receiver"]].cover
       IN  /\ mode = "tcp" => i = 1
           /\ net' = SubSeq(net, 1, i - 1) \o SubSeq(net, i + 1, Len(net))
           /\ hurt' = IF i = 1 THEN hurt ELSE hurt \cup {"reorder"}
           /\ IF frame.len > mtu
              THEN Refuse("size") /\ UNCHANGED <<dec, taken, gotUse, gotCover, covers>>
              ELSE IF ~CipherFresh(net[i].nonce)
              THEN Refuse("stale") /\ UNCHANGED <<dec, taken, gotUse, gotCover, covers>>
              ELSE /\ taken' = taken \cup {net[i].nonce}
                   /\ IF ~FreshSequence(dec, frame.seq) \/ ~Decodes(dec, frame, mtu)
                      THEN /\ Refuse(IF FreshSequence(dec, frame.seq) THEN "envelope" ELSE "stale")
                           /\ UNCHANGED <<dec, gotUse, gotCover, covers>>
                      ELSE /\ dec' = Decoded(dec, frame)
                           /\ IF frame.type = "keepalive" THEN RecvKeepalive(frame, p, cover)
                              ELSE RecvData(frame, p, cover)
  /\ UNCHANGED <<mode, offer, ctrl, policy, limit, sendVars, now>>

-----------------------------------------------------------------------------
(* The carrier (external) and the clock.                                   *)

Lose ==
  /\ mode \in {"quic", "phantom"}
  /\ \E i \in DOMAIN net : net' = SubSeq(net, 1, i - 1) \o SubSeq(net, i + 1, Len(net))
  /\ hurt' = hurt \cup {"loss"}
  /\ UNCHANGED <<mode, negotiationVars, limit, sendVars, recvVars, now>>

\* Path MTU discovery raises an end's limit, black-hole detection lowers it.
LimitMoves ==
  /\ mode \in {"quic", "phantom"}
  /\ \E e \in Ends, size \in CarrierLimits :
       /\ size # limit[e]
       /\ mode = "phantom" => phase["receiver"] = "open"
       /\ limit' = [limit EXCEPT ![e] = size]
       /\ hurt' = IF size < limit[e] /\ e = "receiver" /\ phase[e] # "start" THEN hurt \cup {"shrink"} ELSE hurt
  /\ UNCHANGED <<mode, negotiationVars, sendVars, recvVars, net, now>>

Tick ==
  /\ mode \in {"tcp", "quic"} /\ phase["sender"] = "open"
  /\ sched.policy # None
  /\ now < MaxTime
  /\ now' = now + 1
  /\ UNCHANGED <<mode, negotiationVars, limit, sendVars, recvVars, net, hurt>>

EnvelopeNext ==
  NegotiationStep \/ Send \/ SendCoverIfDue \/ Recv \/ Lose \/ LimitMoves \/ Tick

-----------------------------------------------------------------------------
\* Two ends that follow the code never come to different conclusions: an
\* acknowledgement, once it arrives, is the one expected, and when both ends
\* are open the limits and budgets of one are those of the other mirrored,
\* with one profile that both support (negotiate and acknowledgement).  Hence
\* what the sender puts on the carrier stays within the frame size, frame
\* count, payload, padding and cover bytes the receiver offered to take
\* (FrameUsage::reserve, target_size, CoverScheduler::reserve).  The Phantom
\* One capability exchange opens both ends only for the profile both asked
\* for (negotiate_phantom_one_inner).
PoliciesAgree ==
  /\ \A e \in Ends : why[e] # "acknowledgement"
  /\ mode \in {"tcp", "quic"} /\ (\A e \in Ends : phase[e] = "open") =>
       LET s == policy["sender"][1]
           r == policy["receiver"][1]
       IN  /\ s.config = r.config
           /\ s.out = r.in /\ s.in = r.out
           /\ s.outBudget = r.inBudget /\ s.inBudget = r.outBudget
           /\ \A e \in Ends : s.config.profile \in Offers[offer[e]].supported
  /\ mode = "phantom" /\ (\A e \in Ends : phase[e] = "open") =>
       offer["sender"] = offer["receiver"]
  /\ mode \in {"tcp", "quic"} /\ phase["sender"] = "open" =>
       LET o == Offers[offer["receiver"]]
       IN  /\ sentUse.frames <= o.inBudget.frames /\ sentUse.bytes <= o.inBudget.bytes
           /\ o.config.budget # None => enc.padding <= o.config.budget[1]
           /\ o.cover # None => sched.bytes <= Allowance(o.cover[1], sched.payload)
           /\ \A i \in DOMAIN net : net[i].frame.len <= o.in /\ net[i].frame.profile \in o.supported

\* A frame of a peer that follows the policy is refused only for what the
\* network did to it: for its size only if the receiver's datagrams have
\* become smaller, for the cover allowance only if payload that had earned
\* it was lost or is late, as stale only after reordering.  Budgets, profile
\* and padding never refuse one, and TCP refuses none (NegotiatedTcp::recv,
\* NegotiatedQuic::recv).
RefusedForTheNetworkOnly ==
  /\ "size" \in refused => "shrink" \in hurt
  /\ "cover" \in refused => hurt \cap {"loss", "reorder"} # {}
  /\ "stale" \in refused => "reorder" \in hurt
  /\ refused \cap {"budget", "envelope"} = {}
=============================================================================
