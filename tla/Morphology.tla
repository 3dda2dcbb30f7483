----------------------------- MODULE Morphology -----------------------------
(***************************************************************************)
(* Traffic morphology: the Shroud 2 size classes, batcher and workload     *)
(* profiles (shph-transport/src/shroud2), the Shroud 3 workload modes      *)
(* (shroud3.rs) and the datagram pacer (pacing.rs).                        *)
(*                                                                         *)
(* The parts share no state; `part` says which of them a behaviour uses.   *)
(* Time is a clock of ticks that the callers read.  The carrier's largest  *)
(* datagram, `mtu`, moves at any time: QUIC reports it anew on each call.  *)
(***************************************************************************)
EXTENDS Integers, Sequences, FiniteSets, SequencesExt

CONSTANTS
  Header, Prefix,      \* MORPHOLOGY_HEADER_BYTES, BATCH_MESSAGE_LENGTH_BYTES
  Mtus,                \* what QUIC may report as largest datagram
  MessageSizes, MaxMessages, MaxWait,    \* MorphologyBatchPolicy
  SizeClasses,         \* the size classes of a profile
  Thresholds,          \* AdaptiveMorphologyConfig, a record
  BurstGap, BurstLength, Dwell, QueueLimit,  \* WorkloadConfig, Shroud3Config
  WorkloadSizes,       \* payload sizes of the workload parts
  DensityPercent, SustainedSize, SustainedGap, HistoryCapacity,
  Confirmations,       \* transition_confirmations
  Slots, Budget, Delays,                 \* DatagramPacer
  MaxMessagesSent, MaxCalls, MaxObservations, EndOfTime   \* bounds of the model

ASSUME ThresholdsOrdered ==     \* AdaptiveMorphologyConfig::validate
  /\ Thresholds.interactive_exit < Thresholds.interactive_enter
  /\ Thresholds.interactive_enter < Thresholds.video_exit
  /\ Thresholds.video_exit < Thresholds.video_enter
  /\ Thresholds.video_enter < Thresholds.bulk_exit
  /\ Thresholds.bulk_exit < Thresholds.bulk_enter

VARIABLES
  part, time, mtu,
  link,                \* "up", or "lost": send_datagram_wait fails
  buffer, first,       \* MorphologyBatcher: messages, first_message_at
  accepted, wireOut,   \* ghosts: messages pushed; messages sent, in order
  spoiled,             \* ghost: messages of batches that could not be sent
  shrunk,              \* ghost: the MTU fell while a batch was being gathered
  engine,              \* WorkloadMorphology or AdaptiveShroud3
  seen,                \* ghost: the classifications of the latest observations
  changed,             \* ghost: when the profile last changed, -1 if never
  queue, pacer         \* datagrams being paced and the pacer's counters

batchVars == <<buffer, first, accepted, wireOut, spoiled, shrunk>>
engineVars == <<engine, seen, changed>>
pacerVars == <<queue, pacer>>
morphVars == <<part, time, mtu, link, batchVars, engineVars, pacerVars>>

Smaller(x, y) == IF x <= y THEN x ELSE y

-----------------------------------------------------------------------------
(* Shroud 2: sizes and batches.  A message is [id, size].                  *)

\* target_size: the payload's own size or a class that holds it, cut to the
\* MTU; none when the payload does not fit.
target_sizes(payload, limit) ==
  LET minimum == payload + Header
  IN  IF minimum > limit THEN {}
      ELSE {minimum} \cup {Smaller(c, limit) : c \in {k \in SizeClasses : k >= minimum}}

EncodedBytes(messages) == FoldLeft(LAMBDA n, m : n + Prefix + m.size, 0, messages)

\* A slip: the batch grows without regard to the room left.
MustFlushFirstByCount(message, limit) ==
  buffer # <<>> /\ (time - first >= MaxWait \/ Len(buffer) >= MaxMessages)

\* push_at: the batch gathered so far goes first when it is due, full, or
\* would outgrow the datagram.
MustFlushFirst(message, limit) ==
  buffer # <<>> /\
    \/ time - first >= MaxWait
    \/ Len(buffer) >= MaxMessages
    \/ EncodedBytes(Append(buffer, message)) > limit - Header

\* send_morphology_batch: the limit is read again.  A batch that no longer
\* fits, or that the connection does not take any more, has left the batcher
\* and is lost with an error to the caller.
SendBatch(messages, limit) ==
  IF link = "up" /\ target_sizes(EncodedBytes(messages), limit) # {}
  THEN wireOut' = wireOut \o messages /\ UNCHANGED spoiled
  ELSE spoiled' = spoiled \cup ToSet(messages) /\ UNCHANGED wireOut

\* send_morphology_message.
PushMessage ==
  /\ part = "batch" /\ Len(accepted) < MaxMessagesSent
  /\ \E size \in MessageSizes, later \in Mtus :
       LET message == [id |-> Len(accepted) + 1, size |-> size]
       IN  /\ Prefix + size <= mtu - Header
           /\ accepted' = Append(accepted, message)
           /\ IF MustFlushFirst(message, mtu)
              THEN /\ mtu' = later
                   /\ SendBatch(buffer, later)
                   /\ buffer' = <<message>>
                   /\ first' = time
                   /\ shrunk' = (shrunk \/ later < mtu)
              ELSE /\ later = mtu
                   /\ buffer' = Append(buffer, message)
                   /\ first' = IF buffer = <<>> THEN time ELSE first
                   /\ UNCHANGED <<mtu, wireOut, spoiled, shrunk>>
  /\ UNCHANGED <<part, link, time, engineVars, pacerVars>>

\* flush_morphology_batch and flush_morphology_batch_if_due.
FlushBatch ==
  /\ part = "batch" /\ buffer # <<>>
  /\ SendBatch(buffer, mtu)
  /\ buffer' = <<>>
  /\ UNCHANGED <<part, link, time, mtu, first, accepted, shrunk, engineVars, pacerVars>>

MtuMoves ==
  /\ part \in {"batch", "pacer"}
  /\ \E size \in Mtus \ {mtu} : mtu' = size /\ shrunk' = (shrunk \/ size < mtu)
  /\ UNCHANGED <<part, link, time, buffer, first, accepted, wireOut, spoiled, engineVars, pacerVars>>

-----------------------------------------------------------------------------
(* WorkloadMorphology::encode.                                             *)

CeilQuarter(n) == (n + 3) \div 4

\* The integer moving average of AdaptiveMorphologyEngine::observe_payload.
Average(ewma, size) ==
  IF size >= ewma THEN ewma + CeilQuarter(size - ewma) ELSE ewma - CeilQuarter(ewma - size)

NextProfile(profile, ewma) ==
  CASE profile = "LowLatency" /\ ewma >= Thresholds.interactive_enter -> "Web"
    [] profile = "Web" /\ ewma <= Thresholds.interactive_exit -> "LowLatency"
    [] profile = "Web" /\ ewma >= Thresholds.video_enter -> "Video"
    [] profile = "Video" /\ ewma <= Thresholds.video_exit -> "Web"
    [] profile = "Video" /\ ewma >= Thresholds.bulk_enter -> "Bulk"
    [] profile = "Bulk" /\ ewma <= Thresholds.bulk_exit -> "Video"
    [] OTHER -> profile

BurstNow ==
  IF engine.last >= 0 /\ time - engine.last <= BurstGap THEN engine.burst + 1 ELSE 1

Wanted(ewma, burst, age) ==
  IF age >= QueueLimit THEN "LowLatency"
  ELSE IF burst >= BurstLength /\ ewma >= Thresholds.video_enter THEN "Bulk"
  ELSE NextProfile(engine.mode, ewma)

\* The first observation starts the dwell time too.
Suppressed(mode) ==
  LET origin == IF engine.switched >= 0 THEN engine.switched
                ELSE IF engine.last >= 0 THEN engine.last ELSE time
  IN  mode # engine.mode /\ time - origin < Dwell

\* Nothing of the engine changes when the payload does not fit.
ObserveWorkload ==
  /\ part = "workload" /\ engine.n < MaxObservations
  /\ \E size \in WorkloadSizes, age \in {0, QueueLimit} :
       LET ewma   == Average(engine.ewma, size)
           wanted == Wanted(ewma, BurstNow, age)
           mode   == IF Suppressed(wanted) THEN engine.mode ELSE wanted
       IN  /\ age <= time
           /\ engine' = [engine EXCEPT
                !.mode = mode, !.ewma = ewma, !.last = time, !.burst = BurstNow,
                !.switched = IF mode # engine.mode \/ @ < 0 THEN time ELSE @,
                !.n = @ + 1]
           /\ changed' = IF mode # engine.mode THEN time ELSE changed
  /\ UNCHANGED <<part, link, time, mtu, batchVars, seen, pacerVars>>

-----------------------------------------------------------------------------
(* AdaptiveShroud3::encode.  gap = -1 stands for no earlier observation.   *)

Median(s) == SortSeq(s, <)[Len(s) \div 2 + 1]

Gaps(history) == SelectSeq([i \in DOMAIN history |-> history[i].gap], LAMBDA g : g >= 0)

burst_density_percent(history) ==
  LET gaps == Gaps(history)
  IN  IF Len(gaps) < 3 THEN 0
      ELSE (100 * Len(SelectSeq(gaps, LAMBDA g : g <= BurstGap))) \div Len(gaps)

classify_workload(history, burst, age) ==
  IF age >= QueueLimit THEN "QueuePressure"
  ELSE IF burst >= BurstLength /\ burst_density_percent(history) >= DensityPercent THEN "Bursty"
  ELSE IF /\ Len(history) >= 4
          /\ Median([i \in DOMAIN history |-> history[i].size]) >= SustainedSize
          /\ Gaps(history) # <<>> /\ Median(Gaps(history)) <= SustainedGap
       THEN "Sustained"
  ELSE "Interactive"

\* A slip: the count of confirmations goes on when another mode is seen.
plan_transition_miscounting(observed) ==
  LET count == engine.count + 1
  IN  IF observed = engine.mode
      THEN [mode |-> engine.mode, pending |-> "", count |-> 0]
      ELSE IF observed = "QueuePressure"
      THEN [mode |-> observed, pending |-> "", count |-> 0]
      ELSE IF count >= Confirmations /\ (engine.switched < 0 \/ time - engine.switched >= Dwell)
      THEN [mode |-> observed, pending |-> "", count |-> 0]
      ELSE [mode |-> engine.mode, pending |-> observed, count |-> count]

\* Queue pressure is answered at once; any other mode must be seen
\* Confirmations times running, the dwell time after the last change.
plan_transition(observed) ==
  LET count == IF engine.pending = observed THEN engine.count + 1 ELSE 1
  IN  IF observed = engine.mode
      THEN [mode |-> engine.mode, pending |-> "", count |-> 0]
      ELSE IF observed = "QueuePressure"
      THEN [mode |-> observed, pending |-> "", count |-> 0]
      ELSE IF count >= Confirmations /\ (engine.switched < 0 \/ time - engine.switched >= Dwell)
      THEN [mode |-> observed, pending |-> "", count |-> 0]
      ELSE [mode |-> engine.mode, pending |-> observed, count |-> count]

Latest(s, n) == SubSeq(s, (IF Len(s) > n THEN Len(s) - n ELSE 0) + 1, Len(s))

ObserveShroud3 ==
  /\ part = "shroud3" /\ engine.n < MaxObservations
  /\ \E size \in WorkloadSizes, age \in {0, QueueLimit} :
       LET gap      == IF engine.last < 0 THEN -1 ELSE time - engine.last
           history  == Latest(Append(engine.history, [size |-> size, gap |-> gap]),
                              HistoryCapacity)
           observed == classify_workload(history, BurstNow, age)
           plan     == plan_transition(observed)
       IN  /\ engine' = [engine EXCEPT
                !.mode = plan.mode, !.pending = plan.pending, !.count = plan.count,
                !.history = history, !.last = time, !.burst = BurstNow, !.n = @ + 1,
                !.switched = IF plan.mode # engine.mode THEN time ELSE @]
           /\ seen' = Latest(Append(seen, observed), Confirmations)
           /\ changed' = IF plan.mode # engine.mode THEN time ELSE changed
  /\ UNCHANGED <<part, link, time, mtu, batchVars, pacerVars>>

-----------------------------------------------------------------------------
(* DatagramPacer::send_until.  A caller holds a slot from its reservation  *)
(* to its result.                                                          *)

Count(counters) ==
  pacer' = [c \in DOMAIN pacer |-> IF c \in counters THEN pacer[c] + 1 ELSE pacer[c]]

CountFull == Count({"calls", "rejected_full", "locally_dropped"})

\* A call with invalid arguments returns before it reserves or counts anything.
Enqueue ==
  /\ part = "pacer" /\ pacer.calls < MaxCalls
  /\ \E delay \in Delays, until \in {Budget, Budget - 1}, size \in Mtus :
       IF Cardinality(queue) >= Slots THEN CountFull /\ UNCHANGED queue
       ELSE /\ queue' = queue \cup
                 {[id |-> pacer.calls, deadline |-> time + Smaller(until, Budget),
                   release |-> time + Smaller(delay, Budget), size |-> size]}
            /\ Count({"calls"})
  /\ UNCHANGED <<part, link, time, mtu, batchVars, engineVars>>

\* wait_for_release, then the carrier's limit, then the carrier itself; an
\* error of the carrier is counted as a drop only.
Handoff ==
  /\ part = "pacer"
  /\ \E d \in queue :
       /\ time >= d.release
       /\ queue' = queue \ {d}
       /\ IF time >= d.deadline THEN Count({"expired", "locally_dropped"})
          ELSE IF d.size > mtu \/ link = "lost" THEN Count({"locally_dropped"})
          ELSE Count({"sent"})
  /\ UNCHANGED <<part, link, time, mtu, batchVars, engineVars>>

\* race_cancel: a cancelled caller, or one whose deadline comes first.
GiveUp ==
  /\ part = "pacer"
  /\ \E d \in queue :
       /\ queue' = queue \ {d}
       /\ \/ Count({"cancelled", "locally_dropped"})
          \/ time >= d.deadline /\ Count({"expired", "locally_dropped"})
  /\ UNCHANGED <<part, link, time, mtu, batchVars, engineVars>>

-----------------------------------------------------------------------------
CarrierLost ==
  /\ part \in {"batch", "pacer"} /\ link = "up"
  /\ link' = "lost"
  /\ UNCHANGED <<part, time, mtu, batchVars, engineVars, pacerVars>>

TimePasses ==
  /\ part # "off" /\ time < EndOfTime
  /\ time' = time + 1
  /\ UNCHANGED <<part, link, mtu, batchVars, engineVars, pacerVars>>

MorphologyParts == {"batch", "workload", "shroud3", "pacer"}

MorphologyInit(p) ==
  /\ part = p
  /\ time = 0 /\ link = "up"
  /\ mtu \in IF p \in {"batch", "pacer"} THEN Mtus ELSE {CHOOSE m \in Mtus : TRUE}
  /\ buffer = <<>> /\ first = 0 /\ accepted = <<>> /\ wireOut = <<>>
  /\ spoiled = {} /\ shrunk = FALSE
  /\ engine = [mode |-> IF p = "shroud3" THEN "Interactive" ELSE "LowLatency",
               ewma |-> 0, last |-> -1, switched |-> -1, burst |-> 0,
               history |-> <<>>, pending |-> "", count |-> 0, n |-> 0]
  /\ seen = <<>> /\ changed = -1
  /\ queue = {}
  /\ pacer = [c \in {"calls", "sent", "expired", "cancelled", "rejected_full",
                     "locally_dropped"} |-> 0]

MorphologyNext ==
  \/ PushMessage \/ FlushBatch \/ MtuMoves
  \/ ObserveWorkload \/ ObserveShroud3
  \/ Enqueue \/ Handoff \/ GiveUp
  \/ CarrierLost \/ TimePasses

-----------------------------------------------------------------------------
\* No message and no datagram vanishes unnoticed.  Every message the batcher
\* took is on the wire, still gathered, or was reported lost with its batch,
\* in order, and a batch is lost only if the datagram size has fallen or the
\* connection is gone.  Every call of the pacer that got past its arguments
\* holds a slot or has been counted once as sent or dropped
\* (MorphologyBatcher, DatagramPacer::record_result).
NothingVanishes ==
  /\ SelectSeq(accepted, LAMBDA m : m \notin spoiled) = wireOut \o buffer
  /\ spoiled # {} => shrunk \/ link = "lost"
  /\ pacer.calls = Cardinality(queue) + pacer.sent + pacer.locally_dropped
  /\ Cardinality(queue) <= Slots

\* The shape of the traffic does not flap: a profile or mode changes at the
\* earliest the dwell time after the last change, and a Shroud 3 mode only
\* after it was seen Confirmations times in a row; only queue pressure is
\* answered at once (WorkloadMorphology::encode, plan_transition).
ChangesAreDamped ==
  [][engine'.mode # engine.mode =>
       \/ part = "shroud3" /\ engine'.mode = "QueuePressure"
       \/ /\ changed >= 0 => time - changed >= Dwell
          /\ part = "shroud3" =>
               Len(seen') = Confirmations /\ ToSet(seen') = {engine'.mode}]_morphVars
=============================================================================
