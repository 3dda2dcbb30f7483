----------------------------- MODULE PhantomOne -----------------------------
(***************************************************************************)
(* The Phantom One inner envelope (shph-transport/src/phantom_one.rs): the *)
(* encoder that picks a frame size and numbers the frame, and the decoder  *)
(* that checks it against the session's policy and its replay window.      *)
(*                                                                         *)
(* Bytes are abstracted to their number.  A frame is a record of the       *)
(* header fields: profile, generation, type, seq, the payload size and the *)
(* total length.  A frame that damage or a stranger could have produced    *)
(* never reaches the decoder: the AEAD around it refuses those first.      *)
(***************************************************************************)
EXTENDS Integers, FiniteSets, Sequences, FiniteSetsExt

CONSTANTS
  HeaderBytes,    \* PHANTOM_ONE_HEADER_BYTES
  MaxEnvelope,    \* PHANTOM_ONE_MAX_ENVELOPE_BYTES
  MaxPadding,     \* PHANTOM_ONE_MAX_PADDING_BYTES
  ReplayReach,    \* the decoder's window_size
  MaxSequence,    \* u64::MAX, the last sequence number
  base_tiers,     \* profile -> ascending sequence of frame sizes
  JitterBound     \* profile -> largest jitter added to a tier

ASSUME PhantomAssumption ==
  /\ {HeaderBytes, ReplayReach} \subseteq Nat \ {0}
  /\ {MaxEnvelope, MaxPadding, MaxSequence} \subseteq Nat
  /\ DOMAIN base_tiers = DOMAIN JitterBound

\* Option<T>
None    == <<>>
Some(x) == <<x>>

Least(x, y) == IF x <= y THEN x ELSE y

Monus(x, y) == IF x >= y THEN x - y ELSE 0

Tiers(profile) == {base_tiers[profile][i] : i \in DOMAIN base_tiers[profile]}

accepts_frame_len(profile, len) ==
  \E t \in Tiers(profile) : len \in t .. t + JitterBound[profile]

\* PhantomOneConfig::validate.  `weights` is Some(w) with w the sequence of the
\* weights of the tiers, or None for SizeSelection::FirstFit.
ValidConfig(config) ==
  /\ config.weights # None =>
       LET heavy == {i \in DOMAIN config.weights[1] : config.weights[1][i] > 0}
       IN  config.bound /\ heavy # {} /\ heavy \subseteq DOMAIN base_tiers[config.profile]
  /\ config.min <= config.max
  /\ config.max <= MaxPadding

for_profile(profile) ==
  [profile |-> profile, min |-> 0, max |-> MaxPadding, bound |-> TRUE,
   weights |-> None, budget |-> None]

validate_path_mtu(mtu) == mtu \in HeaderBytes .. MaxEnvelope

-----------------------------------------------------------------------------
NewEncoder(generation, config) ==
  [generation |-> generation, next |-> Some(0), config |-> config, padding |-> 0]

remaining_padding(enc) ==
  IF enc.config.budget = None THEN MaxPadding
  ELSE Monus(enc.config.budget[1], enc.padding)

\* PhantomOneEncoder::target_size: the sizes it may return for a payload of
\* `size` bytes, none when it returns an error.  The weighted choice takes
\* any fitting tier of positive weight, first fit takes the smallest one and
\* adds jitter, and only an unbound configuration goes between the tiers.
target_size(enc, size, mtu) ==
  LET config  == enc.config
      minimum == HeaderBytes + size + config.min
      maximum == Least(HeaderBytes + size + Least(config.max, remaining_padding(enc)), mtu)
      fitting == {t \in Tiers(config.profile) : t \in minimum .. maximum}
      heavy   == {t \in fitting :
                    \E i \in DOMAIN base_tiers[config.profile] :
                      base_tiers[config.profile][i] = t /\ config.weights[1][i] > 0}
  IN  IF ~validate_path_mtu(mtu) \/ enc.next = None \/ minimum > mtu THEN {}
      ELSE IF config.weights # None THEN heavy
      ELSE IF fitting # {}
           THEN Min(fitting) .. Least(Min(fitting) + JitterBound[config.profile], maximum)
      ELSE IF config.bound THEN {} ELSE minimum .. maximum

\* What encode_with_target_into asks of an explicit target size.
CanEncode(enc, size, target, mtu) ==
  LET padding == target - HeaderBytes - size
  IN  /\ validate_path_mtu(mtu) /\ enc.next # None
      /\ target <= mtu
      /\ padding \in enc.config.min .. enc.config.max
      /\ padding <= remaining_padding(enc)
      /\ enc.config.bound => accepts_frame_len(enc.config.profile, target)

\* The encoder after a frame: the sequence number moves on, or is used up.
Encoded(enc, size, target) ==
  [enc EXCEPT !.next = IF @[1] = MaxSequence THEN None ELSE Some(@[1] + 1),
              !.padding = @ + (target - HeaderBytes - size)]

EncodedFrame(enc, type, size, target) ==
  [profile |-> enc.config.profile, generation |-> enc.generation, type |-> type,
   seq |-> enc.next[1], size |-> size, len |-> target]

-----------------------------------------------------------------------------
\* seen_bitmap is kept as the set of the positions of its one bits: position
\* d stands for sequence highest - d.
NewDecoder(generation, config) ==
  [generation |-> generation, config |-> config, highest |-> None,
   seen |-> {}, padding |-> 0]

Padding(frame) == frame.len - HeaderBytes - frame.size

decode_parts(dec, frame, mtu) ==
  /\ validate_path_mtu(mtu)
  /\ frame.len \in HeaderBytes .. mtu
  /\ frame.profile = dec.config.profile
  /\ frame.generation = dec.generation
  /\ Padding(frame) \in dec.config.min .. dec.config.max
  /\ dec.config.bound => accepts_frame_len(frame.profile, frame.len)

next_padding_bytes(dec, frame) ==
  dec.config.budget # None => dec.padding + Padding(frame) <= dec.config.budget[1]

\* accept_sequence: its verdict and the bitmap it leaves.
FreshSequence(dec, seq) ==
  \/ dec.highest = None
  \/ seq > dec.highest[1]
  \/ dec.highest[1] - seq < ReplayReach /\ dec.highest[1] - seq \notin dec.seen

accept_sequence(dec, seq) ==
  IF dec.highest = None THEN [dec EXCEPT !.highest = Some(seq), !.seen = {0}]
  ELSE IF seq > dec.highest[1]
       THEN LET shift == seq - dec.highest[1]
            IN  [dec EXCEPT !.highest = Some(seq),
                            !.seen = IF shift >= ReplayReach THEN {0}
                                     ELSE {0} \cup ({d + shift : d \in @} \cap 0 .. ReplayReach - 1)]
       ELSE [dec EXCEPT !.seen = @ \cup {dec.highest[1] - seq}]

\* PhantomOneDecoder::decode: the padding counter moves only with a frame
\* that the replay window accepts.
Decodes(dec, frame, mtu) ==
  decode_parts(dec, frame, mtu) /\ next_padding_bytes(dec, frame)
    /\ FreshSequence(dec, frame.seq)

Decoded(dec, frame) ==
  [accept_sequence(dec, frame.seq) EXCEPT !.padding = @ + Padding(frame)]

----------------------------------------------------------------------------
\* The cover-traffic budget of shph-transport/src/cover.rs.  The caller drives
\* it with the time since the session's origin.

CONSTANT MaxCoverFrame   \* the largest cover frame, 4096 bytes in the code

\* A policy is Some([interval, idle, maximum, percent]) or None.
NewScheduler(policy) ==
  [policy |-> policy, observed |-> 0, data |-> None, cover |-> None,
   payload |-> 0, bytes |-> 0, stopped |-> FALSE]

record_payload(sched, now, size) ==
  [sched EXCEPT !.observed = now, !.data = Some(now), !.payload = @ + size]

Allowance(policy, payload) ==
  Least((payload * policy.percent) \div 100, policy.maximum)

\* CoverScheduler::reserve: the time and the cancellation are noted whatever
\* the verdict.
observe(sched, now, cancelled) ==
  [sched EXCEPT !.observed = now, !.stopped = @ \/ cancelled]

\* A slip: the relative part of the allowance is left out.
MayReserveAbsolute(sched, now, bytes) ==
  /\ sched.policy # None /\ sched.data # None
  /\ ~sched.stopped
  /\ bytes <= Monus(sched.policy[1].maximum, sched.bytes)

MayReserve(sched, now, bytes) ==
  /\ sched.policy # None /\ sched.data # None
  /\ ~sched.stopped
  /\ bytes \in 1 .. MaxCoverFrame
  /\ now - sched.data[1] < sched.policy[1].idle
  /\ now - (IF sched.cover = None THEN sched.data ELSE sched.cover)[1]
       >= sched.policy[1].interval
  /\ bytes <= Monus(Allowance(sched.policy[1], sched.payload), sched.bytes)

Reserved(sched, now, bytes) ==
  [sched EXCEPT !.bytes = @ + bytes, !.cover = Some(now)]
=============================================================================
