----------------------------- MODULE TcpAccept ------------------------------
(***************************************************************************)
(* tcp_accept_and_handshake_with_profile of shph-transport/src/lib.rs: one *)
(* listener thread accepts connections, rate-limits them and gives each to *)
(* a worker thread; the workers run the responder's handshake and report   *)
(* over a bounded channel; the first reported session is returned.         *)
(*                                                                         *)
(* `now` is the monotonic clock the deadlines use, in ticks.  Cookies use  *)
(* the wall clock, whose epoch is Epoch; the wall clock may be stepped by  *)
(* whole epochs, MaxSteps times.  Connection c is served by worker c.      *)
(***************************************************************************)
EXTENDS Integers, Sequences, FiniteSets

CONSTANTS Ips, Ports,
          MaxWorkers,     \* MAX_CONCURRENT_TCP_HANDSHAKES
          Deadline,       \* tcp_handshake_deadline, in ticks from the call
          PreauthTicks,   \* TCP_PREAUTH_DEADLINE
          EpochTicks,     \* COOKIE_EPOCH_SECS
          PeerRateWindow, \* PEER_RATE_WINDOW, in ticks
          MaxConnects,    \* MAX_CONNECTS_PER_PEER_PER_WINDOW
          CookieThreshold,\* COOKIE_CHALLENGE_THRESHOLD
          MaxTrackedPeers,\* MAX_QUIC_TRACKED_PEERS
          MaxConns,       \* bound: connections given to workers
          MaxSteps        \* bound: steps of the wall clock

ASSUME AcceptAssumption ==
  /\ MaxWorkers \in Nat \ {0}
  /\ Deadline \in Nat /\ PreauthTicks \in Nat /\ MaxConns \in Nat /\ MaxSteps \in Nat
  /\ EpochTicks \in Nat \ {0}
  /\ PreauthTicks <= EpochTicks

ASSUME LimiterAssumption ==
  /\ PeerRateWindow \in Nat \ {0}
  /\ MaxConnects \in Nat \ {0}
  /\ CookieThreshold \in Nat \ {0}
  /\ MaxTrackedPeers \in Nat \ {0}

----------------------------------------------------------------------------
\* The stateless pre-authentication cookies of shph-core/src/cookie.rs.  An
\* authority is a record of its two secrets and the epoch of its last
\* rotation.  Secrets are numbered in the order they are drawn, so a fresh one
\* differs from all before it.  A cookie is the MAC of an address and an epoch
\* under a secret; two MACs are equal only if all three agree.

Authority == [current_secret : Nat, previous_secret : Nat, current_epoch : Nat]

mac(secret, peer, epoch) == [secret |-> secret, peer |-> peer, epoch |-> epoch]

NewAuthority(epoch) ==
  [current_secret |-> 1, previous_secret |-> 0, current_epoch |-> epoch]

\* A slip: the outgoing secret is not kept.
rotate_to_forgetting(authority, epoch) ==
  IF epoch <= authority.current_epoch THEN authority
  ELSE [authority EXCEPT !.current_secret = @ + 1, !.current_epoch = epoch]

\* A clock that stands still or steps back leaves the secrets alone.
rotate_to(authority, epoch) ==
  IF epoch <= authority.current_epoch THEN authority
  ELSE [current_secret  |-> authority.current_secret + 1,
        previous_secret |-> authority.current_secret,
        current_epoch   |-> epoch]

\* The cookie issued at `epoch`.  Issuing first rotates, so the caller goes on
\* with rotate_to(authority, epoch).
issue(authority, peer, epoch) ==
  mac(rotate_to(authority, epoch).current_secret, peer, epoch)

PreviousEpoch(epoch) == IF epoch = 0 THEN 0 ELSE epoch - 1

\* The verdict on `cookie` at `epoch`; the caller goes on with
\* rotate_to(authority, epoch) whatever the verdict.
verify(authority, peer, cookie, epoch) ==
  LET rotated == rotate_to(authority, epoch)
  IN  \E secret \in {rotated.current_secret, rotated.previous_secret},
         candidate_epoch \in {epoch, PreviousEpoch(epoch)} :
        cookie = mac(secret, peer, candidate_epoch)

----------------------------------------------------------------------------
\* The per-address connection limiter, used by this listener and by the
\* experimental QUIC one.  Its state is the map from tracked addresses to their
\* recent connects.  A connect has its time and the number of the connection,
\* which tells apart two connects of one tick; the code's vector is in the
\* order of time, so its first element is the oldest.

EmptyLimiter == [ip \in {} |-> {}]   \* nobody is tracked

Recent(entries, now) == {e \in entries : e.at > now - PeerRateWindow}

\* Drops expired connects, then addresses without any.
Pruned(seen, now) ==
  LET alive == {ip \in DOMAIN seen : Recent(seen[ip], now) # {}}
  IN  [ip \in alive |-> Recent(seen[ip], now)]

\* The addresses min_by_key may pick for eviction: those whose first connect
\* is oldest (a hash map breaks ties in any order).
Oldest(seen) ==
  {ip \in DOMAIN seen :
     \E first \in seen[ip] : \A other \in DOMAIN seen : \A e \in seen[other] : first.at <= e.at}

\* A slip: nothing is evicted from a full table.
VictimsNone(seen, ip) == {{}}

\* The sets of addresses that may be evicted to make room for `ip`.
Victims(seen, ip) ==
  IF ip \notin DOMAIN seen /\ Cardinality(DOMAIN seen) >= MaxTrackedPeers
  THEN {{victim} : victim \in Oldest(seen)}
  ELSE {{}}

Entries(seen, ip) == IF ip \in DOMAIN seen THEN seen[ip] ELSE {}

\* A slip: one connect too many is let through.
WithinLimitOffByOne(seen, ip) == Cardinality(Entries(seen, ip)) <= MaxConnects

\* check_and_record's verdict on a pruned map.
WithinLimit(seen, ip) == Cardinality(Entries(seen, ip)) < MaxConnects

\* The map after check_and_record: the entry exists even when the connect is
\* refused, and connects is {} then.
Recorded(seen, victims, ip, connects) ==
  [a \in (DOMAIN seen \ victims) \cup {ip} |->
     IF a = ip THEN Entries(seen, ip) \cup connects ELSE seen[a]]

\* A slip: the threshold is compared with >.
requires_cookie_late(seen, ip) == Cardinality(Entries(seen, ip)) > CookieThreshold

requires_cookie(seen, ip) == Cardinality(Entries(seen, ip)) >= CookieThreshold

----------------------------------------------------------------------------
\* The listener and its workers.

VARIABLES
  now,             \* monotonic clock
  offset,          \* wall clock epoch minus that of an undisturbed clock
  steps,           \* how often the wall clock was stepped
  listener,        \* program counter of the listener thread
  active_workers,
  cancellation,
  results,         \* the result channel: [conn, ok] in send order
  seen,            \* the rate limiter's map
  authority,       \* the shared cookie authority, behind its mutex
  worker,          \* the worker threads
  session,         \* the connection returned to the caller, 0 if none
  evicted          \* addresses whose limiter entry was ever evicted

listenerVars == <<listener, active_workers, results, seen, session, evicted>>
clockVars    == <<now, offset, steps>>
vars == <<clockVars, listenerVars, cancellation, authority, worker>>

Conns   == 1 .. MaxConns
Addrs   == [ip : Ips, port : Ports]
NoCookie == [secret |-> 0, peer |-> [ip |-> "none", port |-> 0], epoch |-> 0]

\* Epochs start high enough that a step back stays a natural number.
Epoch == MaxSteps + (now \div EpochTicks) + offset

Idle == [pc |-> "idle"]

Running == listener \in {"top", "poll", "accept", "wait"}

Init ==
  /\ now = 0 /\ offset = 0 /\ steps = 0
  /\ listener = "top"
  /\ active_workers = 0
  /\ cancellation = FALSE
  /\ results = << >>
  /\ seen = EmptyLimiter
  /\ authority = NewAuthority(MaxSteps)
  /\ worker = [c \in Conns |-> Idle]
  /\ session = 0
  /\ evicted = {}

-----------------------------------------------------------------------------
(* The listener thread.                                                    *)

\* while Instant::now() < deadline
LoopTop ==
  /\ listener = "top"
  /\ IF now < Deadline
     THEN listener' = "poll" /\ UNCHANGED cancellation
     ELSE listener' = "err" /\ cancellation' = TRUE
  /\ UNCHANGED <<clockVars, active_workers, results, seen, session, evicted, authority, worker>>

\* A slip: the worker that ended is not counted out.
finish_tcp_worker_leaking(result) ==
  /\ active_workers' = IF result.ok THEN active_workers - 1 ELSE active_workers
  /\ results' = Tail(results)
  /\ IF result.ok
     THEN listener' = "ok" /\ session' = result.conn /\ cancellation' = TRUE
     ELSE listener' = "top" /\ UNCHANGED <<session, cancellation>>
  /\ UNCHANGED <<clockVars, seen, evicted, authority, worker>>

\* Takes one result out of the channel: a session is returned to the caller,
\* an error only frees the worker's slot (saturating_sub).
finish_tcp_worker(result) ==
  /\ active_workers' = IF active_workers = 0 THEN 0 ELSE active_workers - 1
  /\ results' = Tail(results)
  /\ IF result.ok
     THEN listener' = "ok" /\ session' = result.conn /\ cancellation' = TRUE
     ELSE listener' = "top" /\ UNCHANGED <<session, cancellation>>
  /\ UNCHANGED <<clockVars, seen, evicted, authority, worker>>

\* try_recv, and the choice between waiting for a slot and accepting.
Poll ==
  /\ listener = "poll"
  /\ \/ results # << >> /\ finish_tcp_worker(Head(results))
     \/ /\ results = << >>
        /\ listener' = IF active_workers >= MaxWorkers THEN "wait" ELSE "accept"
        /\ UNCHANGED <<clockVars, active_workers, results, seen, session, evicted,
                       cancellation, authority, worker>>

\* A slip: recv instead of recv_timeout.
WaitForever ==
  /\ listener = "wait"
  /\ results # << >> /\ finish_tcp_worker(Head(results))

\* recv_timeout of at most ten milliseconds.
Wait ==
  /\ listener = "wait"
  /\ \/ results # << >> /\ finish_tcp_worker(Head(results))
     \/ /\ results = << >>
        /\ listener' = "top"
        /\ UNCHANGED <<clockVars, active_workers, results, seen, session, evicted,
                       cancellation, authority, worker>>

\* accept() has no connection to give.
AcceptWouldBlock ==
  /\ listener = "accept"
  /\ listener' = "wait"
  /\ UNCHANGED <<clockVars, active_workers, results, seen, session, evicted,
                 cancellation, authority, worker>>

\* accept() or set_nonblocking fails: the call returns at once, without
\* telling the workers.
AcceptError ==
  /\ listener = "accept"
  /\ listener' = "err"
  /\ UNCHANGED <<clockVars, active_workers, results, seen, session, evicted,
                 cancellation, authority, worker>>

Spawned(addr, needs_cookie) ==
  [pc |-> "spawned", addr |-> addr, born |-> now, needs_cookie |-> needs_cookie,
   preauth_deadline |-> Deadline, challenge |-> NoCookie, steps_at_issue |-> 0,
   response |-> NoCookie, verified |-> FALSE, ok |-> FALSE]

\* A connection arrives: over the limit it is dropped, otherwise a worker
\* starts, which must ask for a cookie once the address was seen often enough.
AcceptOk(addr) ==
  /\ listener = "accept"
  /\ LET pruned == Pruned(seen, now)
     IN  \E victims \in Victims(pruned, addr.ip) :
           /\ evicted' = evicted \cup victims
           /\ \/ /\ ~WithinLimit(pruned, addr.ip)
                 /\ seen' = Recorded(pruned, victims, addr.ip, {})
                 /\ UNCHANGED <<active_workers, worker>>
              \/ /\ WithinLimit(pruned, addr.ip)
                 /\ \E c \in Conns :
                      /\ worker[c] = Idle /\ \A d \in 1 .. c - 1 : worker[d] # Idle
                      /\ seen' = Recorded(pruned, victims, addr.ip, {[conn |-> c, at |-> now]})
                      /\ worker' = [worker EXCEPT ![c] = Spawned(addr, requires_cookie(seen', addr.ip))]
                 /\ active_workers' = active_workers + 1
  /\ listener' = "top"
  /\ UNCHANGED <<clockVars, results, session, cancellation, authority>>

-----------------------------------------------------------------------------
(* The worker thread of connection c.  A read or a write may fail at any   *)
(* time (the peer closes or sends nonsense) and fails for certain once the *)
(* pre-authentication deadline has passed.                                 *)

\* Leaving run drops its locals; the peer still knows its challenge.
Left(w) == [w EXCEPT !.pc = "send", !.preauth_deadline = Deadline,
                     !.response = NoCookie, !.steps_at_issue = 0]

Goto(c, pc) ==
  worker' = [worker EXCEPT ![c] = IF pc = "send" THEN Left(@) ELSE [@ EXCEPT !.pc = pc]]

InTime(c) == now < worker[c].preauth_deadline

WorkerOnly == UNCHANGED <<clockVars, listenerVars, cancellation, authority>>

\* A slip: a blocking call without a timeout; no error, no end.
FailNever(c) == FALSE

\* Any `?` of run: the error becomes the worker's result.
Fail(c) ==
  /\ worker[c].pc \in {"hello", "issue", "response", "verify", "auth", "kem"}
  /\ Goto(c, "send")
  /\ WorkerOnly

Start(c) ==
  /\ worker[c].pc = "spawned"
  /\ LET deadline == IF now + PreauthTicks < Deadline THEN now + PreauthTicks ELSE Deadline
     IN  \/ (cancellation \/ now >= deadline) /\ Goto(c, "send")
         \/ /\ ~cancellation /\ now < deadline
            /\ worker' = [worker EXCEPT ![c].pc = "hello", ![c].preauth_deadline = deadline]
  /\ WorkerOnly

\* The peer's hello is read; a cancelled worker gives up here.
ReadHello(c) ==
  /\ worker[c].pc = "hello"
  /\ InTime(c)
  /\ Goto(c, IF cancellation THEN "send"
             ELSE IF worker[c].needs_cookie THEN "issue" ELSE "auth")
  /\ WorkerOnly

\* The challenge is issued under the lock and written to the peer.
IssueCookie(c) ==
  /\ worker[c].pc = "issue"
  /\ authority' = rotate_to(authority, Epoch)
  /\ \/ ~InTime(c) /\ Goto(c, "send")
     \/ /\ InTime(c)
        /\ worker' = [worker EXCEPT ![c].challenge = issue(authority, worker[c].addr, Epoch),
                                    ![c].steps_at_issue = steps,
                                    ![c].pc = "response"]
  /\ UNCHANGED <<clockVars, listenerVars, cancellation>>

\* What a peer may answer: the challenge of any connection, or garbage.
Answers == {NoCookie} \cup {worker[d].challenge : d \in {e \in Conns : worker[e] # Idle}}

ReadResponse(c) ==
  /\ worker[c].pc = "response"
  /\ InTime(c)
  /\ \E answer \in Answers :
       worker' = [worker EXCEPT ![c].response = answer, ![c].pc = "verify"]
  /\ WorkerOnly

Valid(c) == verify(authority, worker[c].addr, worker[c].response, Epoch)

VerifyCookie(c) ==
  /\ worker[c].pc = "verify"
  /\ authority' = rotate_to(authority, Epoch)
  /\ \/ ~Valid(c) /\ Goto(c, "send")
     \/ Valid(c) /\ worker' = [worker EXCEPT ![c].verified = TRUE, ![c].pc = "auth"]
  /\ UNCHANGED <<clockVars, listenerVars, cancellation>>

\* The last look at the cancellation flag, then the responder's hello.
Authenticate(c) ==
  /\ worker[c].pc = "auth"
  /\ Goto(c, IF ~cancellation /\ InTime(c) THEN "kem" ELSE "send")
  /\ WorkerOnly

\* The ciphertext was read in time, if the profile has one, and the keys are
\* derived, which looks at no deadline.
DeriveKeys(c) ==
  /\ worker[c].pc = "kem"
  /\ worker' = [worker EXCEPT ![c].pc = "store", ![c].ok = TRUE]
  /\ WorkerOnly

\* A slip: every worker that ends, also in error, cancels the others.
StoreAlways(c) ==
  /\ worker[c].pc \in {"store", "send"}
  /\ cancellation' = TRUE
  /\ Goto(c, "send")
  /\ UNCHANGED <<clockVars, listenerVars, authority>>

\* A worker with a session cancels the others before it reports.
StoreCancellation(c) ==
  /\ worker[c].pc = "store"
  /\ cancellation' = TRUE
  /\ Goto(c, "send")
  /\ UNCHANGED <<clockVars, listenerVars, authority>>

\* send blocks while the channel is full; with the receiver gone it drops
\* the result.
SendResult(c) ==
  /\ worker[c].pc = "send"
  /\ IF Running
     THEN /\ Len(results) < MaxWorkers
          /\ results' = Append(results, [conn |-> c, ok |-> worker[c].ok])
     ELSE UNCHANGED results
  /\ Goto(c, "done")
  /\ UNCHANGED <<clockVars, listener, active_workers, seen, session, evicted,
                 cancellation, authority>>

-----------------------------------------------------------------------------
Tick ==
  /\ now < Deadline
  /\ now' = now + 1
  /\ UNCHANGED <<offset, steps, listenerVars, cancellation, authority, worker>>

StepWallClock ==
  /\ steps < MaxSteps
  /\ steps' = steps + 1
  /\ \E d \in {-1, 1} : offset' = offset + d
  /\ UNCHANGED <<now, listenerVars, cancellation, authority, worker>>

Listen == LoopTop \/ Poll \/ Wait \/ AcceptWouldBlock \/ AcceptError \/ \E addr \in Addrs : AcceptOk(addr)

Work(c) ==
  \/ Start(c) \/ ReadHello(c) \/ IssueCookie(c) \/ ReadResponse(c) \/ VerifyCookie(c)
  \/ Authenticate(c) \/ DeriveKeys(c) \/ StoreCancellation(c) \/ SendResult(c) \/ Fail(c)

Next == Listen \/ (\E c \in Conns : Work(c)) \/ Tick \/ StepWallClock

\* Threads are scheduled, time passes, and every blocking call of the code has
\* a timeout no later than the deadline.
Fairness == WF_vars(Listen) /\ WF_vars(Tick) /\ \A c \in Conns : WF_vars(Work(c))

Spec == Init /\ [][Next]_vars /\ Fairness

-----------------------------------------------------------------------------
Started == {c \in Conns : worker[c] # Idle}

\* Safety: active_workers counts exactly the threads that still owe a result
\* and the results not yet taken, whatever the order in which connections are
\* accepted, refused, cancelled and finished.  Hence the budget of workers is
\* never exceeded nor leaked, and a worker's send finds room in the channel.
\* Handshakes are cancelled only for a session in the channel or about to be
\* sent.
WorkerAccounting ==
  Running =>
    LET owing == {c \in Started : worker[c].pc # "done"}
    IN  /\ active_workers = Cardinality(owing) + Len(results)
        /\ active_workers <= MaxWorkers
        /\ \A c \in owing : worker[c].pc = "send" => Len(results) < MaxWorkers
        /\ cancellation =>
             \E c \in Started :
               /\ worker[c].ok
               /\ \/ worker[c].pc = "send"
                  \/ \E i \in DOMAIN results : results[i].conn = c

\* The connections of one address that started within a window ending at t.
InWindow(ip, t) ==
  {c \in Started : worker[c].addr.ip = ip /\ worker[c].born \in (t - PeerRateWindow + 1) .. t}

\* Safety: in no span of PEER_RATE_WINDOW does one address get more than
\* MAX_CONNECTS_PER_PEER_PER_WINDOW workers, nor do as many as
\* COOKIE_CHALLENGE_THRESHOLD of them get to the responder's key exchange
\* without a cookie that proved the address, however connects and pruning
\* interleave.  Only an eviction resets a count, and it keeps the table
\* within MAX_QUIC_TRACKED_PEERS addresses.
RateLimited ==
  LET unproven(c) == /\ ~worker[c].verified
                     /\ \/ ~worker[c].needs_cookie
                        \/ worker[c].pc \in {"auth", "kem", "store"} \/ worker[c].ok
  IN  /\ Cardinality(DOMAIN seen) <= MaxTrackedPeers
      /\ \A ip \in Ips \ evicted, t \in 0 .. now :
           /\ Cardinality(InWindow(ip, t)) <= MaxConnects
           /\ Cardinality({c \in InWindow(ip, t) : unproven(c)}) < CookieThreshold

\* Safety: a client that echoes its challenge in time passes, although other
\* workers rotate the shared secrets between the two critical sections and an
\* epoch may end in between, unless the wall clock was stepped meanwhile.
EchoVerifies ==
  \A c \in Started :
    (/\ worker[c].pc = "verify"
     /\ worker[c].response = worker[c].challenge
     /\ now <= worker[c].preauth_deadline
     /\ steps = worker[c].steps_at_issue)
    => Valid(c)

\* Liveness: the call returns, at the latest when the deadline has passed,
\* and no worker thread outlives it for ever, also when the call has returned
\* early without setting the cancellation flag.
ListenerEnds == <>(~Running /\ \A c \in Started : worker[c].pc = "done")
=============================================================================
