---------------------------- MODULE FileTransport ---------------------------
(***************************************************************************)
(* The two file carriers of shph-transport/src/lib.rs: offline mesh and    *)
(* data mule.  An initiator "I" and a responder "R" exchange the handshake *)
(* and then data frames as files: a sender renames an envelope into the    *)
(* peer's queue, the receiver scans the queue, sorts what it found, claims *)
(* one file by renaming it, reads it, and removes or rejects it.           *)
(*                                                                         *)
(* The environment: a wall clock that may stand still, advance or step     *)
(* back; a directory listing that may miss a file created while it runs; a *)
(* courier that copies an old envelope in again; for the mule a third node *)
(* that writes to the same recipient; either node killed at any step and   *)
(* started again, while its queue and the files it had claimed stay.       *)
(* Queues hold what the two nodes write; sizes, depths and symlinks are    *)
(* not told apart (an entry that breaks those limits is never put there).  *)
(* A claimed file is its reader's own, so claiming, reading and settling   *)
(* one is a single step, which a kill may cut short.                       *)
(***************************************************************************)
EXTENDS Integers, FiniteSets, Sequences, SequencesExt

CONSTANTS
  SecureCarriers, ClassicCarriers, \* the carriers run with and without pqc
  MaxRuns,    \* bound: attempts of the two nodes together
  MaxSend,    \* bound: frames sent in all
  MaxNow,     \* bound: the clock, in milliseconds
  MaxFaults,  \* bound: clock steps, copies, strays and kills
  MaxSeen,    \* max_seen, the size of the set of envelopes already accepted
  MaxAge,     \* max_age_ms of the data mule
  Quota       \* max_total_bytes of the data mule, in envelopes

Nodes == {"I", "R"}
Peer(n) == IF n = "I" THEN "R" ELSE "I"
None == -1

ASSUME FileAssumption ==
  /\ SecureCarriers \cup ClassicCarriers \subseteq {"mesh", "mule"}
  /\ MaxRuns \in Nat /\ MaxSend \in Nat /\ MaxNow \in Nat /\ MaxFaults \in Nat
  /\ MaxSeen \in Nat \ {0} /\ MaxAge \in Nat \ {0} /\ Quota \in Nat \ {0}

VARIABLES
  carrier,    \* "mesh" or "mule"
  pqc,        \* HandshakeProfile::uses_pqc
  now,        \* the wall clock
  faults,     \* faults so far
  node,       \* the process of each node, see Idle
  spool,      \* spool[n]: the envelopes in the queue n reads
  rejected,   \* rejected[n]: files n's queue holds as *.rejected
  orphaned,   \* orphaned[n]: files left as *.processing by a process of n
  written,    \* history: every envelope ever put into each queue
  consumed,   \* history: envelopes whose payload each node accepted
  sent, got,  \* history: frames encrypted and frames returned, as messages
  excused     \* history: something happened that may cost a frame

config  == <<carrier, pqc>>
disk    == <<spool, rejected, written, excused>>
history == <<sent, got, consumed>>
vars == <<config, now, faults, node, disk, orphaned, history>>

\* A process that is not in a session.  `run` names the handshake material,
\* `peer` the run whose hello was accepted, `next` is next_sequence, `listing`
\* the directory listing in progress, `pending` the candidates in the order
\* they will be claimed, `key` the session keys, `nonce` and `last` the state
\* of the two ciphers.
Idle(run) ==
  [pc |-> "idle", run |-> run, peer |-> 0, next |-> 0, seen |-> <<>>, scanning |-> FALSE,
   listing |-> {}, pending |-> <<>>, key |-> <<>>, nonce |-> 0, last |-> None]

\* Bodies of envelopes.  A ciphertext names the two runs it was made between;
\* a frame is under a key and carries a nonce.
Hello(run)        == [kind |-> "hello", run |-> run]
Ciphertext(a, b)  == [kind |-> "ct", ends |-> <<a, b>>]
Frame(key, nonce) == [kind |-> "data", key |-> key, nonce |-> nonce]
Stray             == [kind |-> "stray"]

\* The path of an envelope in a queue is made of its timestamp and sequence.
Name(f) == <<f.t, f.s>>

Init ==
  /\ pqc \in BOOLEAN
  /\ carrier \in IF pqc THEN SecureCarriers ELSE ClassicCarriers
  /\ now = 0
  /\ faults = 0
  /\ node = [n \in Nodes |-> Idle(0)]
  /\ spool = [n \in Nodes |-> {}]
  /\ rejected = [n \in Nodes |-> {}]
  /\ orphaned = [n \in Nodes |-> {}]
  /\ written = [n \in Nodes |-> {}]
  /\ consumed = [n \in Nodes |-> {}]
  /\ sent = {}
  /\ got = <<>>
  /\ excused = FALSE

Fault == faults < MaxFaults /\ faults' = faults + 1

-----------------------------------------------------------------------------
(* Writing *)

\* now_unix_ms: some time may have passed since the clock was last read.
now_unix_ms == now' \in {now, now + 1} \cap 0 .. MaxNow

\* data_mule_envelope_expired, with saturating subtraction both ways.
data_mule_envelope_expired(f) == now' - f.t > MaxAge \/ f.t - now' > MaxAge

\* What a scan of the mule's tree sets aside, by the clock just read.
Expired(n) == IF carrier = "mule" THEN {f \in spool[n] : data_mule_envelope_expired(f)} ELSE {}

\* What the outbox holds once the writer's own scan has set expired files
\* aside, and the quota on it.  The outbox is one directory for all its
\* recipients, of whom others may have any number of envelopes in it.
data_mule_spool_usage(to, others) == Cardinality(spool[to] \ Expired(to)) + others
OverQuota(to, others) == carrier = "mule" /\ data_mule_spool_usage(to, others) + 1 > Quota

\* write_file_atomically ends in a rename, which replaces a file of that name.
Put(queue, f) == {g \in queue : Name(g) # Name(f)} \cup {f}

\* send_payload, on top of queues the handler may already have changed.  A
\* write may cost a frame when the clock has not moved on since an earlier
\* write to the same queue (then names meet, or the order is wrong), and when
\* an expired envelope was set aside.
send_payload(queues, n, seq, body) ==
  LET to == Peer(n)
      f  == [t |-> now', s |-> seq, from |-> n, body |-> body]
  IN  /\ now_unix_ms
      /\ \E others \in 0 .. Quota : ~OverQuota(to, others)
      /\ spool' = [queues EXCEPT ![to] = Put(@ \ Expired(to), f)]
      /\ rejected' = [rejected EXCEPT ![to] = @ \cup Expired(to)]
      /\ written' = [written EXCEPT ![to] = @ \cup {f}]
      /\ excused' = (excused \/ Expired(to) # {} \/ \E g \in written[to] : g.t >= f.t)

\* send_payload over the mule's quota: an error, after the scan.
send_payload_refused(queues, n) ==
  LET to == Peer(n)
  IN  /\ now_unix_ms
      /\ \E others \in 0 .. Quota : OverQuota(to, others)
      /\ spool' = [queues EXCEPT ![to] = @ \ Expired(to)]
      /\ rejected' = [rejected EXCEPT ![to] = @ \cup Expired(to)]
      /\ excused' = (excused \/ Expired(to) # {})
      /\ UNCHANGED written

Becomes(n, process) == node' = [node EXCEPT ![n] = process]

\* Keys are those of the two runs and the ciphertext the end used, if any.
SessionKey(n, run, peer, ends) ==
  [initiator |-> IF n = "I" THEN run ELSE peer,
   responder |-> IF n = "I" THEN peer ELSE run, ends |-> ends]

\* The session gets a new writer and a new reader: sequence numbers start
\* again at zero and nothing has been seen.
Session(n, run, peer, ends) ==
  [Idle(run) EXCEPT !.pc = "session", !.peer = peer, !.key = SessionKey(n, run, peer, ends)]

MayStart == node["I"].run + node["R"].run < MaxRuns

\* The initiator builds its material and sends its hello before it reads.
Connect ==
  /\ node["I"].pc = "idle" /\ MayStart
  /\ LET run == node["I"].run + 1
     IN  \/ /\ send_payload(spool, "I", 0, Hello(run))
            /\ Becomes("I", [Idle(run) EXCEPT !.pc = "wait_hello", !.next = 1])
         \/ /\ send_payload_refused(spool, "I")
            /\ Becomes("I", Idle(run))
  /\ UNCHANGED <<config, faults, orphaned, history>>

\* The responder builds its material and waits for a hello.
Accept ==
  /\ node["R"].pc = "idle" /\ MayStart
  /\ Becomes("R", [Idle(node["R"].run + 1) EXCEPT !.pc = "wait_hello"])
  /\ UNCHANGED <<config, now, faults, disk, orphaned, history>>

\* send_frame: encrypt, then send_payload.  The nonce and the sequence number
\* are used up even when the mule's quota refuses the envelope.
SendFrame(n) ==
  LET p == node[n]
  IN  /\ p.pc = "session" /\ Cardinality(sent) < MaxSend
      /\ send_payload(spool, n, p.next, Frame(p.key, p.nonce)) \/ send_payload_refused(spool, n)
      /\ Becomes(n, [p EXCEPT !.next = @ + 1, !.nonce = @ + 1])
      /\ sent' = sent \cup {[chan |-> <<n, p.key>>, n |-> p.nonce]}
      /\ UNCHANGED <<config, faults, orphaned, got, consumed>>

-----------------------------------------------------------------------------
(* Reading *)

\* replay_key of the mule, the pair of timestamp and sequence of the mesh.
replay_key(f) == <<f.from, f.t, f.s>>

\* The peer filter: only the mule's acceptor starts without one.
Filtered(n) == carrier = "mesh" \/ n = "I" \/ node[n].pc # "wait_hello"

\* What the scan keeps as a candidate.
Candidate(n, f) ==
  /\ Filtered(n) => f.from = Peer(n)
  /\ replay_key(f) \notin ToSet(node[n].seen)

\* A slip: the candidates are sorted newest first.
EarlierReversed(f, g) == f.t > g.t \/ (f.t = g.t /\ f.s >= g.s)

\* The order in which candidates are claimed.  The mule compares identifiers
\* as strings, which for sequence numbers below ten is the same order; beyond,
\* it differs only among envelopes of one millisecond, which excuse a frame.
Earlier(f, g) == f.t < g.t \/ (f.t = g.t /\ f.s <= g.s)

Polls(n) == node[n].pc \in {"wait_hello", "wait_ct", "session"} /\ node[n].pending = <<>>

\* read_dir is opened.
ScanStart(n) ==
  /\ Polls(n) /\ ~node[n].scanning
  /\ Becomes(n, [node[n] EXCEPT !.scanning = TRUE, !.listing = spool[n]])
  /\ UNCHANGED <<config, now, faults, disk, orphaned, history>>

\* The listing is complete: it has every file that was there all along and
\* any of those created meanwhile.  The mule rejects expired envelopes on the
\* way.  Missing an older file than one it has may cost the older one.
ScanEnd(n) ==
  /\ Polls(n) /\ node[n].scanning
  /\ IF carrier = "mule" THEN now_unix_ms ELSE UNCHANGED now
  /\ \E late \in SUBSET (spool[n] \ node[n].listing) :
       LET listed  == (spool[n] \cap node[n].listing) \cup late
           expired == listed \cap Expired(n)
           found   == {f \in listed \ expired : Candidate(n, f)}
       IN  /\ Becomes(n, [node[n] EXCEPT !.scanning = FALSE, !.listing = {},
                                         !.pending = SetToSortSeq(found, Earlier)])
           /\ spool' = [spool EXCEPT ![n] = @ \ expired]
           /\ rejected' = [rejected EXCEPT ![n] = @ \cup expired]
           /\ excused' = (\/ excused \/ expired # {}
                          \/ \E f \in spool[n] \ listed, g \in found : Earlier(f, g))
  /\ UNCHANGED <<config, faults, written, orphaned, history>>

\* claim_file renames away whatever now has the first candidate's name: the
\* file the scan read, another one written over it, or nothing.
Claimed(n) ==
  IF node[n].pending = <<>> THEN {} ELSE {f \in spool[n] : Name(f) = Name(Head(node[n].pending))}

\* What is read again under the claim must agree with the scan.
Agrees(n, f) == f.from = Head(node[n].pending).from /\ Candidate(n, f)

\* The rest of the candidates: the mesh scans anew for every payload.
Remaining(n) == IF carrier = "mesh" THEN <<>> ELSE Tail(node[n].pending)

\* The candidate is gone, or is rejected for not agreeing.
ClaimSkips(n) ==
  /\ node[n].pending # <<>>
  /\ \A f \in Claimed(n) : ~Agrees(n, f)
  /\ spool' = [spool EXCEPT ![n] = @ \ Claimed(n)]
  /\ rejected' = [rejected EXCEPT ![n] = @ \cup Claimed(n)]
  /\ Becomes(n, [node[n] EXCEPT !.pending = Tail(@)])
  /\ UNCHANGED <<config, now, faults, written, excused, orphaned, history>>

\* A payload is in hand.
InHand(n) == {f \in Claimed(n) : Agrees(n, f)}

\* Its file has left the queue.
Without(n, f) == [spool EXCEPT ![n] = @ \ {f}]

Consume(n, f) == consumed' = [consumed EXCEPT ![n] = @ \cup {f}]

\* commit_frame, commit_envelope: the claimed file is removed.
Committed(n, f) ==
  /\ spool' = Without(n, f)
  /\ UNCHANGED <<rejected, written, excused>>

\* quarantine_claimed_file: it is kept under a name no scan looks at.
Quarantined(n, f) ==
  /\ spool' = Without(n, f)
  /\ rejected' = [rejected EXCEPT ![n] = @ \cup {f}]
  /\ UNCHANGED <<written, excused>>

\* mark_seen: the oldest entry goes when the set is full.
mark_seen(seen, f) ==
  LET all == Append(seen, replay_key(f))
  IN  IF Len(all) > MaxSeen THEN Tail(all) ELSE all

\* A verified hello as the initiator takes it: a ciphertext goes out in the
\* secure profile, and the session starts.
InitiatorHello(f) ==
  LET p == node["I"]
      peer == f.body.run
  IN  \/ /\ pqc
         /\ send_payload(Without("I", f), "I", p.next, Ciphertext(p.run, peer))
         /\ Becomes("I", Session("I", p.run, peer, <<p.run, peer>>))
      \/ /\ pqc
         /\ send_payload_refused(Without("I", f), "I")
         /\ Becomes("I", Idle(p.run))
      \/ /\ ~pqc
         /\ Committed("I", f)
         /\ Becomes("I", Session("I", p.run, peer, <<>>))
         /\ UNCHANGED now

\* As the responder takes it: it answers with its own hello; the secure
\* profile then waits for the ciphertext with the same reader, from now on
\* bound to this peer.
ResponderHello(f) ==
  LET p == node["R"]
      peer == f.body.run
      waiting == [p EXCEPT !.pc = "wait_ct", !.peer = peer, !.next = 1,
                           !.seen = mark_seen(@, f),
                           !.pending = SelectSeq(Remaining("R"), LAMBDA g : g.from = f.from)]
  IN  \/ /\ send_payload(Without("R", f), "R", 0, Hello(p.run))
         /\ Becomes("R", IF pqc THEN waiting ELSE Session("R", p.run, peer, <<>>))
      \/ /\ send_payload_refused(Without("R", f), "R")
         /\ Becomes("R", Idle(p.run))

\* A payload that cannot be used is rejected and ends the attempt; `usable`
\* ones too, when the peer's hello has gone stale on the way.
HandshakeFails(n, f, usable) ==
  /\ IF usable THEN Fault ELSE UNCHANGED faults
  /\ Quarantined(n, f)
  /\ Becomes(n, Idle(node[n].run))
  /\ UNCHANGED <<now, consumed>>

\* receive_verified_hello.
ReceiveHello(n) ==
  /\ node[n].pc = "wait_hello"
  /\ \E f \in InHand(n) :
       LET usable == f.body.kind = "hello" /\ f.from = Peer(n)
       IN  \/ HandshakeFails(n, f, usable)
           \/ /\ usable
              /\ IF n = "I" THEN InitiatorHello(f) ELSE ResponderHello(f)
              /\ Consume(n, f)
              /\ UNCHANGED faults
  /\ UNCHANGED <<config, orphaned, sent, got>>

\* receive_verified_responder_pq: any ciphertext of the right size is taken,
\* as ML-KEM rejects implicitly.
ReceiveCiphertext ==
  LET p == node["R"]
  IN  /\ p.pc = "wait_ct"
      /\ \E f \in InHand("R") :
           \/ HandshakeFails("R", f, f.body.kind = "ct")
           \/ /\ f.body.kind = "ct"
              /\ Committed("R", f)
              /\ Consume("R", f)
              /\ Becomes("R", Session("R", p.run, p.peer, f.body.ends))
              /\ UNCHANGED <<now, faults>>
      /\ UNCHANGED <<config, orphaned, sent, got>>

\* A slip: the receiver relies on the set of seen envelopes alone.
DecryptsAnyNonce(p, f) == f.body.kind = "data" /\ f.body.key = p.key

\* ReceiveCipher::decrypt in strict mode.
Decrypts(p, f) == f.body.kind = "data" /\ f.body.key = p.key /\ f.body.nonce > p.last

ReturnFrame(n, f) ==
  LET p == node[n]
  IN  /\ Decrypts(p, f)
      /\ Committed(n, f)
      /\ Consume(n, f)
      /\ Becomes(n, [p EXCEPT !.last = f.body.nonce, !.seen = mark_seen(@, f),
                              !.pending = Remaining(n)])
      /\ got' = Append(got, [chan |-> <<f.from, p.key>>, n |-> f.body.nonce])

\* A slip: a frame that does not decrypt is removed like any other.
RejectFrameRemoving(n, f) ==
  /\ ~Decrypts(node[n], f)
  /\ Committed(n, f)
  /\ Becomes(n, [node[n] EXCEPT !.pending = Remaining(n)])
  /\ UNCHANGED <<got, consumed>>

RejectFrame(n, f) ==
  /\ ~Decrypts(node[n], f)
  /\ Quarantined(n, f)
  /\ Becomes(n, [node[n] EXCEPT !.pending = Remaining(n)])
  /\ UNCHANGED <<got, consumed>>

\* receive_decrypted_frame: a frame that decrypts is committed and returned,
\* any other file is rejected and the loop goes on.
ReceiveFrame(n) ==
  /\ node[n].pc = "session"
  /\ \E f \in InHand(n) : ReturnFrame(n, f) \/ RejectFrame(n, f)
  /\ UNCHANGED <<config, now, faults, orphaned, sent>>

\* The deadline of the handshake passes while no candidate is at hand.
Timeout(n) ==
  /\ Polls(n) /\ ~node[n].scanning /\ node[n].pc # "session"
  /\ Becomes(n, Idle(node[n].run))
  /\ UNCHANGED <<config, now, faults, disk, orphaned, history>>

-----------------------------------------------------------------------------
(* The environment *)

ClockStepsBack ==
  /\ Fault
  /\ now > 0
  /\ now' = now - 1
  /\ UNCHANGED <<config, node, disk, orphaned, history>>

\* The process ends, whatever it is doing; a file it had just claimed keeps
\* the name it was claimed under, which no scan looks at.
Stop(n) ==
  /\ Fault
  /\ node[n].pc # "idle"
  /\ \E left \in {{}, InHand(n)} :
       /\ orphaned' = [orphaned EXCEPT ![n] = @ \cup left]
       /\ spool' = [spool EXCEPT ![n] = @ \ left]
  /\ Becomes(n, Idle(node[n].run))
  /\ UNCHANGED <<config, now, rejected, written, excused, history>>

\* A courier or a synchronised spool brings an envelope once more.
Redeliver(n) ==
  /\ Fault
  /\ \E f \in written[n] :
       /\ spool' = [spool EXCEPT ![n] = Put(@, f)]
       /\ excused' = (excused \/ \E g \in spool[n] : g # f /\ Name(g) = Name(f))
  /\ UNCHANGED <<config, now, node, rejected, written, orphaned, history>>

\* Another sender to the same recipient of the mule.
StrayEnvelope(n) ==
  /\ Fault
  /\ carrier = "mule"
  /\ LET f == [t |-> now, s |-> 0, from |-> "other", body |-> Stray]
     IN  /\ spool' = [spool EXCEPT ![n] = Put(@, f)]
         /\ written' = [written EXCEPT ![n] = @ \cup {f}]
         /\ excused' = (excused \/ \E g \in spool[n] : Name(g) = Name(f))
  /\ UNCHANGED <<config, now, node, rejected, orphaned, history>>

\* A second process of the node has scanned the same queue, wins the rename
\* and, holding no session keys for the file, rejects it.
OtherProcessClaims(n) ==
  /\ Fault
  /\ \E f \in spool[n] :
       /\ spool' = Without(n, f)
       /\ rejected' = [rejected EXCEPT ![n] = @ \cup {f}]
  /\ excused' = TRUE
  /\ UNCHANGED <<config, now, node, written, orphaned, history>>

Next ==
  \/ Connect \/ Accept \/ ReceiveCiphertext \/ ClockStepsBack
  \/ \E n \in Nodes : \/ SendFrame(n) \/ ScanStart(n) \/ ScanEnd(n) \/ ClaimSkips(n)
                      \/ ReceiveHello(n) \/ ReceiveFrame(n) \/ Timeout(n)
                      \/ Stop(n) \/ Redeliver(n) \/ StrayEnvelope(n)
                      \/ OtherProcessClaims(n)

Spec == Init /\ [][Next]_vars

-----------------------------------------------------------------------------
Channel == INSTANCE OrderedChannel

\* Safety: whatever the clock, the courier, the listing and kills do, a
\* session over files hands over each frame at most once and in the order of
\* sending.  This is the abstract channel's specification.
DeliversInOrder == Channel!Spec

\* Safety: no envelope is lost from a queue.  Whatever was written is still
\* waiting, was accepted by the node it is for, or is kept, as rejected or,
\* after a kill, under the name it was claimed with; the one exception is an
\* envelope that shares its name with another one.  And a frame sent under
\* the session a receiver holds is rejected only as a second copy, or after
\* one of the events that may cost a frame: the sender's clock did not move
\* on between two envelopes, an envelope was overwritten or expired, or a
\* listing missed an older envelope.
EnvelopesAccounted ==
  \A n \in Nodes :
    /\ \A f \in written[n] :
         \/ f \in spool[n] \cup rejected[n] \cup orphaned[n] \cup consumed[n]
         \/ \E g \in written[n] \ {f} : Name(g) = Name(f)
    /\ \A f \in rejected[n] :
         (node[n].pc = "session" /\ f.body.kind = "data" /\ f.body.key = node[n].key)
           => \/ excused
              \/ [chan |-> <<f.from, f.body.key>>, n |-> f.body.nonce] \in ToSet(got)
=============================================================================
