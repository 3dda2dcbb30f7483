# SHPH in TLA+

A specification of SHPH, the Rust workspace under `src/`: what its parts do when
threads, processes, lossy networks, clocks and failing commands interleave. TLC
checks every module on a small instance. TLAPS proves, for every value of the
constants, theorems about the record layer, the handshake, the listener, the dialler,
the set-up of streams, the control plane, the guards of `up`, the files and published
records of a node, and the edge services.

## 1. The system

SHPH is a point-to-point secure tunnel. A session goes through these parts:

1. A *carrier* connects two peers: TCP (directly, through SOCKS5, Tor, an onion
   path or a TLS bridge), an experimental QUIC shim on UDP, standards QUIC, or
   files (offline mesh, data mule). A SNAP profile chooses among carriers; a loop
   reconnects.
2. A TCP *listener* limits connects per address, asks busy addresses for a
   stateless cookie, and runs the responder's handshake in worker threads.
3. The *handshake* (Ed25519 signatures, X25519, ML-KEM-768, pinned peers) yields
   one key per direction.
4. *Record protection* numbers, encrypts and authenticates frames and refuses
   replays, strictly in order or with a sliding window. Around it lie framing and,
   if negotiated, envelopes, cover traffic and traffic morphology.
5. *Bridges* move packets between a TUN device and the session, through threads,
   tasks and bounded queues.
6. The *control plane* puts address, routes, bypass routes and DNS on the host
   and takes them away, keeping a state file between commands. Firewall, NAT, MSS
   and killswitch *guards* do the same for packet filters.
7. Beside them stand the edge relay (capabilities, replay cache, HTTP/2 and HTTP/3
   carriers), the onion relays, identity discovery, keystore, configuration, secret
   sharing and the audit journal.

`PROJECT.json` lists every component with its sources, every definition with the
lines it models, and every hazard at the line where it bites.

## 2. Modules

| module | models | source |
|---|---|---|
| `ReplayWindow` | bitmap window as pure operators | `shph-core/src/crypto.rs` |
| `AntiReplay` | abstract promise of a record channel | (specification) |
| `RecordChannel` | sender, network, receiver in either mode | `shph-core/src/crypto.rs` |
| `TcpAccept` | cookies and limiter as pure operators; listener and workers | `shph-core/src/cookie.rs`, `shph-transport/src/lib.rs` |
| `Handshake` | concurrent runs of the hybrid handshake | `shph-core/src/handshake.rs` |
| `SnapDial` | plan, rounds, attempts, peer policy, reconnect, one-connection commands | `shph-snap/src/lib.rs`, `shph-cli/src/main.rs` |
| `StreamSetup` | resolver threads, underlays, SOCKS5, adapters, TLS bridge | `shph-transport/src/lib.rs`, `snap_adapter.rs` |
| `Connection` | composes records, handshake, dialler and streams | |
| `QuicHandshake` | handshake over UDP datagrams | `shph-transport/src/lib.rs` |
| `Frames` | TCP framing and UDP frames | `shph-transport/src/lib.rs` |
| `PhantomOne` | envelope encoder and decoder, cover allowance | `phantom_one.rs`, `cover.rs` |
| `EnvelopePolicy` | negotiation and the negotiated carriers | `envelope_policy.rs` |
| `PhantomQuic` | Phantom One datagrams and stream on QUIC | `standards_quic.rs` |
| `Morphology` | Shroud 2 batcher, profile and mode controllers, pacer | `shroud2/`, `shroud3.rs`, `pacing.rs` |
| `Wire` | composes what is put on carriers | |
| `OrderedChannel` | abstract promise: at most once, in order | (specification) |
| `FileTransport` | offline mesh and data mule over directories | `shph-transport/src/lib.rs` |
| `BlockingQuic` | worker thread and channels of the blocking adapter | `standards_quic.rs` |
| `NativeBridge`, `StandardsTun` | bridges of `up`, packet checks of the TUN devices | `shph-cli/src/main.rs`, `standards_tun.rs`, `shph-tun/src/` |
| `QuicBridge` | composes adapter, bridges, peer, device, operator | |
| `FrontDoor` | limiter, verification, replay cache | `shph-edge/src/frontdoor.rs`, `capability.rs` |
| `EdgeClient`, `EdgeServe` | client pool and handlers; server connections and relays | `shph-edge/src/carrier.rs` and others |
| `Onion` | walk over relays, circuits, byte quota | `shph-transport/src/onion.rs` |
| `Edge` | composes the relay services | |
| `ControlPlane` | control-plane commands as processes | `shph-cli/src/main.rs` |
| `HostGuards` | the guards of `up`, their unwinding, `down` | `shph-cli/src/main.rs`, `shph-tun/src/` |
| `Stores` | atomic saves; certificate and key; pins | `keystore.rs`, `shph-config`, `shph-cli/src/main.rs` |
| `AuditJournal`, `Shamir` | journal; secret sharing | `shph-core/src/roadmap.rs` |
| `Discovery` | publishing and resolving identity records | `shph-identity/src/lib.rs` |
| `Node` | composes what a node keeps on its host | |
| `SessionProofs` | proofs about `RecordChannel` and `Handshake` | |
| `TcpAcceptProofs` | proofs about `TcpAccept` | |
| `DialProofs` | proofs about `SnapDial` and `StreamSetup` | |
| `ConnectionProofs` | the theorems of `Connection`, from these | |
| `HostProofs` | proofs about `ControlPlane` and `HostGuards` | |
| `NodeProofs` | proofs about `Stores` and `Discovery`; the theorems of `Node` | |
| `EdgeCarrierProofs` | proofs about `EdgeClient` and `EdgeServe` | |
| `EdgeProofs` | proofs about `FrontDoor` and `Onion`; the theorems of `Edge` | |
| `MC*` | instances for TLC; `TcpAccept`, `FileTransport` and `QuicBridge` need none | |

Operators named "a slip" are plausible mistakes, kept beside the definition they
would replace. With the slip in its place, the property it is listed with in
`PROJECT.json` fails. They are not part of any specification.

`Connection`, `Wire`, `Edge` and `Node` join parts that share no state in the
program: the initial state says which part a behaviour follows, and the others
rest. So the state spaces add and do not multiply.

**Record protection.** A window is a record of its newest nonce and a function
from word index to a set of bits; `shift_down` moves words and carries bits as
the code does. `RecordChannel` numbers plaintexts, keeps every frame ever sent
and presents any of them at any time, so loss, delay, duplication and reordering
need no actions of their own. A damaged frame has any nonce and fails
authentication. AEAD is symbolic.

**Listener.** One action per loop stage of
`tcp_accept_and_handshake_with_profile` and per stage of
`TcpHandshakeWorker::run`; a stage ends where the code blocks, takes the mutex or
looks at shared state. `Fail` is any `?` of `run`. Deadlines use a monotonic
clock; cookies use a wall clock that an administrator may step.

**Handshake.** A run's ephemeral key, nonce and ML-KEM key pair are named by the
run, so freshness of randomness is an assumption, as is a collision-free key
derivation. The network delivers any hello ever sent, with any one part altered,
to anyone. `QuicHandshake` adds the datagrams: which are awaited from whom, how
often they are sent, how many useless ones are put up with.

**Dialling.** `SnapDial` follows one command: a plan is a list of candidates; a
round orders them (stable, rotated, shuffled), an attempt may fail with a timeout,
a refusal or a configuration error, in connecting, in the peer policy, in sending
or in the acknowledgement, and time passes by any amount up to the timeout. The
operator changes the pin meanwhile. `send-once` and `connect` over a named
transport, `recv-once` and `listen` are the same machine with one candidate.

**Streams.** `StreamSetup` has callers and resolver threads with bounded queues.
Each call has an answer channel of its own; a caller that gives up leaves its
request behind. Then addresses are tried in turn and a proxy, if any, is asked for
the peer. The other half is the TLS bridge: a setup thread that turns into a relay,
and the drop of the session that shuts the local stream and waits a second.

**Wire.** Bytes are counted, not spelled out, where sizes matter (envelopes, cover
allowance, batches); a TCP stream is a sequence of marked bytes cut anywhere. QUIC
datagrams are lost and reordered, and the largest datagram changes at any time.

**Files.** A scan lists a directory, possibly missing a file, and then claims
candidates one by one by renaming. Kills, copies by a courier, envelopes of other
nodes, other processes and clock steps are actions.

**Bridges.** `BlockingQuic` gives the worker thread, its futures and the four
bounded channels; `NativeBridge` the threads and tasks on top of it, on Linux, on
Windows and without a device; `StandardsTun` the direct path. Handles are counted:
who drops the last one joins the worker.

**Edge.** A step of a handler ends where the code awaits. The limiter's word is
read and exchanged in separate steps. The pool's notification is armed, the pool
looked at, and the wait begun, in separate steps. In `Onion` a relay connects only
to targets it is configured with.

**Control plane and guards.** Each command is a process that adds or removes one
item per step. An item is `absent`, `foreign` (was there before) or `shph`; each
kind of item is added and removed as its command does it on Linux. A save is
atomic, because the code renames a finished file over the old one, but it may
report an error after the rename. In `HostGuards` every step of `handle_up` may
fail; the explicit clean-up and then the destructors follow in the code's order.

**Stores, journal, discovery, shares.** A save goes through write, sync, rename and
directory sync with power loss between any two; two-file updates and the commands
around them are built on it. The journal is a sequence of pieces, so that a torn
line and a newline written by somebody else are visible. `Shamir` computes in the
field of 257 elements as the code does.

## 3. Runs

| run | instance | shows |
|---|---|---|
| `connection` | records: words of 2 bits, window 5 rounded up to 6, limit 11; handshake: 3 runs, 2 nodes and a re-keyed third, timestamps 0 and 1 and a window of 0; dialling: 4 profiles of 3 candidates, 2 pins; streams: 2 callers, 1 resolver with 1 place, 2 calls each, 2 bytes on a bridge | nonces unique, at-most-once, the refinement of `AntiReplay`, agreement and authenticity; payload at most once, plan kept, pin checked; streams go as asked, bridges keep bytes |
| `tcp_accept` | 2 addresses, 2 worker slots, 3 connections, 1 tracked address, 1 clock step | the listener's accounting, rate limit and cookies; the call returns, the workers end |
| `file_transport` | the mule with the hybrid profile, the mesh with the classical one; 3 runs, 2 frames, clock 0..2, 1 fault, 1 seen entry, an outbox that also holds envelopes for others | no envelope unaccounted for; refines `OrderedChannel` |
| `quic_bridge` | all queues of 1, 2 packets and 2 datagrams, 2 sessions | policy before data, no loss by back-pressure, refines `OrderedChannel`, bridges end |
| `wire` | 6 kinds of carrier and 4 of morphology, 5 offers, sequence limit 3, 3 datagrams | ends agree, compliant frames pass, streams and batches keep their contents, modes do not flap |
| `stream_reliable` | Phantom One alone, 3 datagrams, windows of 2 and 3 | violated: see findings |
| `edge` | 2 tasks, 5 valid capabilities and 4 bad ones, caches of 2 and 4, 3 handlers, 1 connection of 1 stream, 3 relays, quota 3 | one use per capability, pool without lost wake-ups, whole relays, quota, complete paths |
| `control_plane` | 2 processes, 4 items, 3 plans (one with bypass routes alone), 1 fault, 1 kill | nothing forgotten, nothing foreign removed |
| `node` | 2 processes of `up`, 3 option sets, 2 faults, 1 kill; 3 saves; 5 events, 3 kept; 2 records and their altered copies, 2 publishers, 2 resolvers; shares up to 3 of 4 with coefficients 1, 129 and 256 | host restored, killswitch held, files sound, journal and chain kept, secrets recovered |
| `reconcile_repeat` | 1 process, 1 fault | violated: see findings |
| `bypass_persist` | 1 process, no faults | violated: see findings |
| `bridge_hang` | queues of 1, fair scheduling | violated: see findings |

Why the bounds are enough for the cases that matter:

- The limit of 11 exceeds the window of 6, so the window moves by part of a word,
  by whole words, by its whole size and beyond, and the limit is reached.
- Three handshake runs give an honest pair and one further run to replay to or
  from. Symmetry over runs is sound because they occur only as names.
- With two slots and three connections the listener finds every slot taken, a
  result waits in the channel, and a slot is used again. With one tracked address
  eviction happens. An epoch ends while challenges are outstanding.
- Three candidates in a chain of fallbacks make one allowed and one forbidden next
  step in each round; two rounds, a limit of 4 and a budget of 4 ticks each end a
  dial in the middle. Two calls of a caller with a queue of one make an answer
  arrive one call late, and a full queue.
- Queues of one are full with one element, so every blocking send blocks. Two
  elements per direction show an order. A second session starts where the first
  left off.
- Five capabilities exceed both caches. Two handlers read the clock on both sides
  of a second. Three handlers for one slot: one holds it, one waits, one comes.
- One fault of the control plane makes an addition, a removal or a save fail, and
  a kill or a second process meets what it left behind; the proof covers any number.
  In `node` two faults let an undo fail and then the destructor's. Two processes
  overlap in every way. Symmetry over processes, publishers and resolvers is sound
  because all are alike.
- Three kept events out of five: appends without a prune, then with one, and two
  writers interleave with both.
- The owner signs any sequence number with any predecessor, also one that does not
  exist. Two records are enough for a chain of two and for a fork; longer chains are
  left to the theorem, which covers every number of records.
- The field of secret sharing has its real size. The random coefficients are
  one, its largest element or one in the middle; for other ones there is
  only the algebra, which is not proved here.

Runs without a deadlock check are those whose modelled calls return or whose
clocks and counters are bounded; `control_plane` and the two findings on it check
for deadlock.

Fairness. `TcpAccept` assumes that threads are scheduled, that time passes, and
that each blocking call ends: the code gives every read, write and wait a timeout
no later than the deadline. `QuicBridge` assumes that each thread and task of the
program takes its steps; a thread that blocks in a device read or in a full channel
is not assumed to move, and neither the peer, the device nor the operator are
assumed to do anything. `RepeatingSpec` of `ControlPlane` is an operator who repeats
a command and lets it finish. No other run assumes fairness.

Preconditions that are part of the statements:

- `RateLimited` leaves out addresses that were evicted from the full table, whose
  count the code forgets by design.
- `EchoVerifies` leaves out challenges during which the wall clock was stepped,
  and `AcceptAssumption` has the pre-authentication deadline not exceed an epoch,
  as the code's constants do.
- `NothingForgotten` leaves out overlapping commands, a kill before the first
  successful save, a state file that cannot be written after a rollback has
  already failed, and an `up` that added bypass routes alone and is killed or cannot
  remove them. The code keeps no lock, writes the file after the changes, and writes
  none for bypass routes alone (section 4).
- `HostRestored` leaves out every behaviour in which a process was killed, two
  commands overlapped, or an undo failed twice. An overlap is excused for good, not
  only while it lasts: two processes that end in the order in which they began put
  IPv4 forwarding back to what each of them found, and the second found it switched
  on by the first;
  `KillswitchHeld` leaves out overlaps on Linux, where all processes share the
  names of their tables.
- `FilesSound` says that two files agree only if commands did not overlap. A save
  that returned is promised to last only for keystore and configuration; the code does
  not sync the directory of other owner-only files. The promise is stated apart from
  the steps of a save, so that a save without the directory sync breaks it.
- `AcceptedChain` lets two resolvers part only if the owner signed two records with
  one sequence number and one predecessor.
  `AuditKept` is about events whose append did not overlap another one.
- `EndsAgree` says nothing of a UDP handshake in which an end took a datagram of an
  earlier run (see section 6). A server whose client's hello came from another address
  may be left with a session the client does not have.
- `NothingVanishes` lets a batch be lost, all of it, when the datagram size has fallen
  or the connection is gone.
- `EnvelopesAccounted` allows a frame to be rejected after a clock that stalled, an
  overwritten or expired envelope, or a listing that missed one.
- `BridgeEnds` leaves out the state described under *bridge_hang*. It says nothing of
  the Windows thread that ends on an error of `send_frame` while the connection is up:
  that thread tells nobody (section 6).
- `CapabilityOnce` allows a full cache to refuse a fresh capability only when a
  handler was held up between reading its window and verifying.
- `Handshake` assumes no node pins its own identity; such a node sorts itself first
  on both ends and its sessions fail closed.

## 4. Findings

- *Reconcile after a partial clean-up.* `docs/CONTROL_PLANE.md:51-52`:
  "`shph reconcile` removes recorded state, then applies the current
  configuration. It is safe to repeat." When one removal fails, the others are
  done and the state file still lists them; each later attempt fails on deleting
  what is gone (`reconcile_repeat`).
- *Bypass routes alone are not recorded by `up`.* `docs/CONTROL_PLANE.md:42-43`:
  "These routes are persisted with the other control-plane state and removed
  during `undo`, `down`, normal shutdown, or failed apply." `handle_up` decides
  whether to save from the address, routes and DNS only (`bypass_persist`).
- *A worker that never stops.* `README.md:68-70`: "Linux `up` uses the Tokio
  `AsyncFd` bridge with bounded packet queues and blocking transport workers;
  shutdown and transport failures propagate without silently falling back." When
  the data plane fails while the receive channel is full and the last handle is
  being dropped, the worker waits to report the error and the drop waits for the
  worker (`standards_quic.rs:594`, `bridge_hang`).
- *A reliable stream that refuses what arrived.* `standards_quic.rs:1061-1063`: "Loss
  remains possible by design; callers needing reliability should use the dedicated
  Phantom One application stream." `standards_quic.rs:1247`: "Receive one bounded,
  reliable Phantom One application-stream record." The stream takes its sequence
  numbers and its replay windows from the datagrams' encoder, decoder and cipher. When
  later datagrams have moved a window past a record of the stream, the record, which
  QUIC delivered intact and in order, is refused (`standards_quic.rs:1254`,
  `stream_reliable`).

## 5. Proofs

The theorems hold for every value of the constants that satisfies the assumptions
named in the modules; TLC evaluates these on the instances of section 3. A safety
property is seldom inductive by itself. Each proof therefore has an invariant that
says what the component's state stands for, shows that it holds initially and is
kept by each action, and derives the property from it.

**Records** (`SessionProofs`): `TypeCorrect`, `NonceUnique`, `NoReplay`,
`FreshPass`, `InOrder`, and `Refinement`, that the channel implements `AntiReplay`.
Assumed: positive word size, sizes and limit in `Nat`, the largest window at least
one word. Nothing in `AtMostOnce` says that the bitmap remembers what was returned.
`IInv` adds:

- `SenderInv`: the counter equals the number of plaintexts, and a frame's nonce
  is its plaintext's number and below the counter;
- `StrictInv`: in strict mode `last` is the newest returned nonce;
- `WindowInv`: in window mode the newest nonce is the newest returned one, and
  for each distance in the window the bit is set exactly when that nonce was
  returned.

The lemmas on word arithmetic supply what `WindowInv` needs: an index has one word
and one bit (`IndexSplit`), `Mark` sets that bit alone (`MarkMarks`), `shift_down`
by a gap moves each mark by the gap although it works word by word with a carry
(`ShiftDownShifts`), and a step of the window keeps the correspondence
(`AdvanceMarks`). `InsertTracks` lifts this to the channel.

**Handshake** (`SessionProofs`, stated in `ConnectionProofs`): `PeerIsAuthentic` and
`KeysArePaired`, for any runs, nodes, pins and timestamp window. `HandshakeInv` says
that each hello on the network was built by one run of a node, with that run's fresh
values, and for each run by its status which hello it sent, whose it verified and
what it encapsulated and derived. A hello that verifies is one that was sent, because
the signature covers every field that could have been altered. Two runs with one
transcript therefore saw the same two hellos; sorted by identity, both ends compute
it alike, which needs that no node pins itself (`HandshakeAssumption`). Perfect
signatures, key encapsulation and key derivation are part of the model.

**Listener** (`TcpAcceptProofs`), for any workers, connections, addresses, limits and
clock steps. `Types` is shared; each theorem has an invariant of its own:

- `WorkersAccounted`: `Accounts` adds to `WorkerAccounting` that the listener is at
  `accept` only with a worker to spare, that each result in the channel is of a worker
  that is done and says how it ended, and that a worker about to set the cancellation
  flag has a session. A worker that sends moves from the first summand of the counter
  to the second, and the listener that takes a result lowers the counter by it.
- `ConnectsAreLimited`: the property counts worker threads, the code counts entries of
  a table that it prunes and from which it evicts. `Connects` ties the two: the connect
  of each worker of an address that was not evicted is in the table, or too old to
  count. So the workers within a window ending now are no more than the entries the
  limiter counts when it admits one more; a window that ended earlier is not changed
  by a new connect. Who is not asked for a cookie is counted in the same way against
  the threshold, and who is asked goes on only with a cookie that verified (`Proven`).
- `EchoesVerify`: `Challenged` says of a challenge that is out, unless the wall clock
  was stepped, when it was issued and that its secret is still one of the two kept as
  long as the epoch is at most one further. That the epoch is at most one further when
  the echo arrives in time follows from the pre-authentication deadline not exceeding
  an epoch (`AcceptAssumption`, `NextEpoch`). Rotation by other workers moves a secret
  to the second place, and drops it only with the second epoch after (`Rotated`).

**Dialling** (`DialProofs`, stated in `ConnectionProofs`), for every profile, key
and bound:

- `PeerIsPinned`: `PinKnown` adds to `PinnedWhenUsed` that between the handshake
  and the peer policy the present pin is among those seen since the handshake. So
  the policy, which reads the pin afresh, always reads one of them.
- `PayloadOnce`: `PayloadKnown` says that a payload in the hands of the peer leaves
  the command in a state from which no other attempt begins, and that what is being
  sent was marked as sent first. This is what makes "sent" final, and is not in
  `PayloadAtMostOnce`.
- `PlanIsKept`: `PlanKnown` says that what is left of a round's queue has no
  candidate twice and none that the round has tried, that no attempt belongs to a
  later round, and that the last attempt's candidate is the one whose fallbacks
  decide. That a round tries no candidate twice rests on the order of a round being
  a permutation. For the stable order the lemma `PlanIsAnOrder` shows it: the sort
  key is a strict total order, and by counting (`EveryPlaceIsTaken`) each place has
  exactly one candidate. A rotation and a shuffle keep it (`RoundsAreOrders`).
  `SnapDialAssumption`: profiles have the fields and adapter names that parsing and
  validation let through, and one of them validates.

**Streams** (`DialProofs`, stated in `ConnectionProofs`), for any callers,
resolver threads, queue places and calls:

- `BridgeHandsOn`: `BridgeKnown` says that the outgoing half is done only after the
  stream was shut with nothing left to relay, that a shut stream is written no more,
  and that a relay that reported "ok" ends only when it is over.
- `StreamIsAsked`: `StreamKnown` follows lookups through queue, thread and answer.
  A request or answer carries a call number no larger than its caller's, and if
  equal, the name that caller is looking up; so a late answer cannot be taken by a
  call that went another way. Addresses still to be tried belong to whom the way
  may reach, and the hops so far fit the state of the call. It needs
  `MAX_RESOLVED_ADDRESSES` to be positive (`StreamSetupAssumption`).

**Control plane** (`HostProofs`): `NothingIsForgotten` and the action property
`ForeignStays`, for any processes, plans, faults and kills. `Inv` has three parts.
`ForeignSafe`: what was on the host before is in no state file and no guard, and no
clean-up has it on its list. `HeldKnown`: unless the run is excused, at most one
process is at work and its guard holds all there is of SHPH; in a clean-up without
errors what is done is gone; the state file lists what the guard of an undo or of a
recorded session holds; and with nobody at work it lists everything. `Shaped` is the
type. `ControlPlaneAssumption`: items are distinct, a configuration has at most one
address and one DNS setting, and DNS is never foreign: it is a setting of the
tunnel's own interface (`resolvectl dns`, `resolvectl revert`), which nobody else is
assumed to change.

**Guards of `up`** (`HostProofs`, stated in `NodeProofs`): `HostIsRestored` and
`KillswitchIsHeld`, for any processes, options, failures and kills. `HostInv` has four
parts. `HostTypes` says which guards a process can hold at each step. `Apart`: a process
that overlapped nobody is alone. `Accounted`: unless there is an excuse, whatever differs
from the host before is held by the one process at work, with the value to put back, and
an unwinding has something on its list for each guard it still holds (`Owes`). The
property says nothing of a process in the middle of its work; this is what makes the
end right whatever step failed. `Guards` follows the killswitch from the empty table
to the rule for the peer, on Windows together with the mutex that keeps others away.

**Files** (`NodeProofs`): `FilesAreSound`, for any processes, saves, faults and power
losses. `SaveInv`: the temporary file of a save that is at its rename has been synced, so
every name the directory ever got is one of synced contents; the names that are durable
include all that were promised. `QuicInv`: while commands do not overlap, a key on disk
has its certificate beside it and servers load pairs. `PinsInv`: a pin in
the keystore is in the configuration with the same value, and so it is with what a
command that is in the middle has read, checked and is about to write.

**Published records** (`NodeProofs`): `RecordsAreChained`, for any publishers, resolvers
and clocks. `Chain` says of each resolver that the record at place `i` has sequence `i`
and names the one before it; `PartByFork`, that two resolvers part only at a fork the
owner signed; `Records` that records keep the hash and the signature they
were issued with, so that a record that verifies is an issued one; `Directory` that a
file in the provider's directory is whole and every receipt has one. Assumed:
`DiscoveryAssumption`, that the bound on records is a number.

`NodeProofs` then combines these: a step of `Node` is a step of one part while the others
rest.

**Edge** (`EdgeCarrierProofs`, `EdgeProofs`):

- `QuotaAlwaysHolds`: the counter equals what both loops have forwarded plus what
  they have been allowed and not yet written (`QuotaInv`). Only so is the quota kept
  while two loops charge it in turn.
- `PathIsComplete`: every hop behind the client has reached the next, a circuit is
  open only at a relay that is connected, the stream is handed on after the last
  (`PathInv`).
- `CapabilityAdmitsOnce`: a nonce that was admitted is in the cache with its expiry,
  or that expiry has passed and no verification succeeds again (`DoorInv`). It needs
  that two sound capabilities with one nonce expire together (`FrontDoorAssumption`).
  This is a condition on whoever issues capabilities, which is not in the repository.
  That there is room for every fresh capability is a matter of counting. Each
  verification that passes the limiter has a place, its window and its number in that
  window. The handler holds it, and then the cache entry; no two hold one place, and
  an entry lives no longer than its window allows (`RoomInv`, `Places`). While no
  handler was late, the live entries and the capability to be entered are therefore
  in different places of `replay_retention_secs` windows, which together have no more
  places than the cache (`RoomIsLeft`). This needs a positive rate, as the
  configuration does.
- `PoolIsSound`: who looks at the pool holds its lock and has room for what it opens;
  leases stay within the slots; tokens left and tokens held add up to the bundle; and
  while somebody waits unnotified somebody else holds a lease or is about to notify
  (`PoolInv`). The last is the absence of lost wake-ups as a safety property.
- `RelaysAreWhole`: bytes taken, queued and delivered add up on every stream, "ok"
  is reported only with nothing left, and a stream that is not finished keeps the
  idle watch from closing its connection (`ServeInv`).

Only model-checked:

- liveness (`ListenerEnds`, `BridgeEnds`), which the prover cannot treat;
- `AnyThresholdRecovers`, `FramesIntact`, `NothingVanishes` and `DeliversInOrder` of the
  files and bridges, which say what a recursive computation or a growing sequence
  amounts to and would need induction over data; `AuditKept`, which is about the
  lines selected from a growing journal (`SelectSeq`), likewise;
- `EnvelopesAccounted`, `PolicyBeforeData`, `BackpressureLosesNothing`, `EndsAgree`,
  `RefusedForTheNetworkOnly` and `ChangesAreDamped`: the file carriers, the bridges, the
  envelope policy and the morphology, for which there are no proofs.

## 6. What the models show besides

Behaviour met in the code while modelling, which no property forbids or which the
properties excuse:

- Bridges. The direct bridge may report a peer's close as a transport error, because
  both loops see it. With the Phantom One envelope an oversized packet ends the direct
  bridge, and so does a malformed one from the device. A Windows bridge whose receive
  ring is full ends. The thread of a Windows bridge that sends ends on an error of
  `send_frame` without setting the flag that would stop the other one; when the
  connection is still up, the bridge goes on in one direction. The listener of `up` ends
  when negotiation or the policy refuses one peer. `read_stdin_line_unix` drops an
  unterminated last line at the end of input but sends it on a hang-up.
- Envelopes. A compliant payload is refused after loss or when the largest datagram
  shrank; a Shroud 2 batch gathered before that is lost. Two ends that both open a
  stream reset each other's.
- UDP handshake. The client's read waits for the whole deadline, so a lost hello is
  not repeated; only useless datagrams use up attempts. The server answers once.
  A late hello or ciphertext of an earlier run is accepted and gives the two ends
  different keys; such a session carries nothing.
- Edge. A capability is spent before the remaining checks of its request. The
  HTTP/3 client loses its token when it cannot connect. A relay error ends an
  HTTP/2 response normally and resets an HTTP/3 one. The accept deadline of HTTP/3
  aborts requests in progress. The replay cache relies on a wall clock that does
  not step back.
- Files. An append between another process's read and rename is lost although it
  was acknowledged. A line torn by a kill makes every later prune fail. A crash of
  `add-peer` between its two saves makes the repeated command refuse; one between
  certificate and key blocks later starts. `write_owner_only_file` does not sync
  the directory. A second split into the same directory that stops half way leaves
  shares of two splits.
- Discovery. A resolver that starts late, or missed a record, accepts nothing more
  of that identity.
- Guards. NAT and forwarding are not undone by `down` after a kill. `down` leaves
  the MSS table when deleting the killswitch fails. An `nft list` that runs
  and fails counts as "no table", for whatever reason it failed, although the comment
  beside it (`shph-cli/src/main.rs:7066-7068`) says that "Other command failures remain
  visible so permission/tooling problems are not mistaken for successful recovery."
  `HostGuards` has this failure; no property is about it.
- SNAP. A candidate's fallbacks restrict the next attempt only within a round.
  Each phase of an attempt gets the full timeout, so the budget can be overrun by
  the last attempt. The reconnect loop retries a refused peer as well, and its
  count is never reset. A shutdown during SOCKS set-up makes `send-once` return
  success with nothing sent. A raw TLS relay gives up outgoing bytes when it cannot
  write incoming ones to a local stream that is shut.

## 7. Not modelled, and why

- Byte encodings, parsers and command-line handling: profiles, configuration,
  tickets, envelopes' bit layout, JA4 fingerprints, obfuscation. They hold no
  protocol state; where a property depends on a size or an order, it is in the
  model.
- Cryptographic primitives, TLS, QUIC and HTTP libraries: symbolic or external.
- `dry_run` of the control plane and the guards, validation of lab profiles beyond
  "may fail", rate and concurrency limits of the onion relay's listener.
- Windows `netsh` and `route`: `ControlPlane` follows Linux, where deleting an
  absent route is an error.
- Statistics of traffic shaping, the terminal UI, metrics, benchmarks, fuzz targets
  and scripts.
- Repeating the liveness argument for the edge client and the onion relays: they end
  by timeouts of the libraries they call, about which the source assumes nothing
  that could be stated as fairness.
