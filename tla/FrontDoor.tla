------------------------------ MODULE FrontDoor ------------------------------
(***************************************************************************)
(* The front door of the owned-domain edge relay: signed capabilities, the *)
(* lock-free verification limiter, the one-use replay cache and the        *)
(* decision on a request, up to the moment the relay is opened.            *)
(*                                                                         *)
(* A capability is a record of what its verification tells apart: its      *)
(* nonce, its lifetime, whether its signature verifies and whether it is   *)
(* for this edge.  Time runs in half seconds so that the wall clock, which *)
(* dates capabilities, and the monotonic clock, which counts the limiter's *)
(* windows, may be out of phase.                                           *)
(***************************************************************************)
EXTENDS Naturals, FiniteSets

CONSTANTS
  Tasks,          \* request handlers running at once
  Capabilities,   \* the capabilities that clients present
  MaxLifetime,    \* max_capability_lifetime_secs
  ClockSkew,      \* clock_skew_secs
  RateLimit,      \* max_capability_verifications_per_second
  Capacities,     \* the replay capacities an operator may configure
  MaxHalfSeconds  \* bound on time

VARIABLES
  door,           \* "on", "shutdown", or "off" when another part is explored
  half,           \* half seconds since the epoch
  phase,          \* where the monotonic clock started within a second
  capacity,       \* replay_capacity
  limiter,        \* the AtomicU64: its window and its count
  cache,          \* nonce -> when its entry may be forgotten
  task,           \* what each handler is doing
  admitted,       \* nonces of the requests admitted so far, with how often
  noRoom,         \* a capability never seen before was refused for lack of room
  late            \* a capability was verified after the second its window was read in

doorVars == <<door, half, phase, capacity, limiter, cache, task, admitted,
              noRoom, late>>

unix_now == half \div 2

window_now == (half + phase) \div 2

Minus(a, b) == IF a > b THEN a - b ELSE 0

Nonces == {c.nonce : c \in Capabilities}

----------------------------------------------------------------------------
\* Capabilities.

replay_retention_secs == MaxLifetime + 2 * ClockSkew + 1

\* What the configuration accepts as the size of the replay cache.
ValidCapacity(c) == c >= RateLimit * replay_retention_secs

\* What of a capability does not depend on the time.
Sound(c) == c.signed /\ c.audience /\ c.expires > c.issued /\ c.expires - c.issued <= MaxLifetime

\* The checks of a capability.
verify_for_replay(c, now) ==
  /\ Sound(c)
  /\ c.issued <= now + ClockSkew
  /\ c.expires > Minus(now, ClockSkew)

\* The configuration refuses a rate of zero; whoever issues capabilities uses a
\* nonce once.
ASSUME FrontDoorAssumption ==
  /\ MaxLifetime \in Nat /\ ClockSkew \in Nat /\ RateLimit \in Nat \ {0} /\ Capacities \subseteq Nat
  /\ \A c \in Capabilities : c.issued \in Nat /\ c.expires \in Nat
  /\ \A c, d \in Capabilities : Sound(c) /\ Sound(d) /\ c.nonce = d.nonce => c.expires = d.expires

VerifiedCapability(c) ==
  [nonce |-> c.nonce, valid_from |-> Minus(c.issued, ClockSkew),
   replay_expires_at |-> c.expires + ClockSkew]

prune(now) == [n \in {m \in DOMAIN cache : cache[m] > now} |-> cache[n]]

\* A slip: the map is written without asking whether the nonce is in it.
insert_overwriting(nonce, expires_at, now) ==
  LET kept == prune(now)
  IN  IF expires_at <= now \/ Cardinality(DOMAIN kept) >= capacity
      THEN [ok |-> FALSE, full |-> expires_at > now, cache |-> kept]
      ELSE [ok |-> TRUE, full |-> FALSE,
            cache |-> [n \in DOMAIN kept \cup {nonce} |->
                         IF n = nonce THEN expires_at ELSE kept[n]]]

\* Whether the nonce is taken, whether only room was missing, and the cache
\* after the call, which forgets what has ended unless the nonce is live.
insert(nonce, expires_at, now) ==
  LET kept == prune(now)
      live == nonce \in DOMAIN cache /\ cache[nonce] > now
      full == Cardinality(DOMAIN kept) >= capacity
  IN  CASE live -> [ok |-> FALSE, full |-> FALSE, cache |-> cache]
        [] ~live /\ expires_at <= now -> [ok |-> FALSE, full |-> FALSE, cache |-> kept]
        [] ~live /\ expires_at > now /\ full -> [ok |-> FALSE, full |-> TRUE, cache |-> kept]
        [] OTHER -> [ok |-> TRUE, full |-> FALSE,
                     cache |-> [n \in DOMAIN kept \cup {nonce} |->
                                  IF n = nonce THEN expires_at ELSE kept[n]]]

consume(v, now) ==
  IF now < v.valid_from \/ v.replay_expires_at <= now
  THEN [ok |-> FALSE, full |-> FALSE, cache |-> cache]
  ELSE insert(v.nonce, v.replay_expires_at, now)

----------------------------------------------------------------------------
\* Requests.

\* An answer leaves no trace in the server but the end of the handler; the
\* status it carries, normalized or not, is not told apart.
Idle == [pc |-> "idle"]

Answer(t) == task' = [task EXCEPT ![t] = Idle]

\* decide_with_replay and prepare up to the limiter: a request with another
\* path or method, without exactly one capability header, or with one that
\* is too long, is refused without a verification.
prepare(t) ==
  /\ task[t].pc = "idle" /\ door = "on"
  /\ \/ Answer(t)
     \/ task' = [task EXCEPT ![t] =
          [pc |-> "acquire", second |-> unix_now, window |-> window_now,
           observed |-> limiter]]
  /\ UNCHANGED <<door, half, phase, capacity, limiter, cache, admitted, noRoom, late>>

\* What the limiter's word becomes if this window may have one more.
NextCount(window, observed) ==
  IF window > observed.window THEN [window |-> window, count |-> 1]
  ELSE [observed EXCEPT !.count = @ + 1]

Exhausted(window, observed) ==
  window < observed.window \/ (window = observed.window /\ observed.count >= RateLimit)

\* One turn of the compare-and-exchange loop; a spurious failure is no step.
try_acquire_in_window(t) ==
  /\ task[t].pc = "acquire"
  /\ LET seen == task[t].observed
         window == task[t].window
     IN  IF Exhausted(window, seen)
         THEN Answer(t) /\ UNCHANGED limiter
         ELSE \/ /\ seen = limiter
                 /\ limiter' = NextCount(window, seen)
                 /\ task' = [task EXCEPT ![t] =
                      [pc |-> "verify", second |-> @.second]]
              \/ /\ task[t].observed # limiter
                 /\ task' = [task EXCEPT ![t].observed = limiter]
                 /\ UNCHANGED limiter
  /\ UNCHANGED <<door, half, phase, capacity, cache, admitted, noRoom, late>>

\* The capability of the request is verified against the clock as it is now.
verify(t) ==
  /\ task[t].pc = "verify"
  /\ \E c \in Capabilities :
       IF verify_for_replay(c, unix_now)
       THEN task' = [task EXCEPT ![t] = [pc |-> "commit", v |-> VerifiedCapability(c)]]
       ELSE Answer(t)
  /\ late' = (late \/ unix_now > task[t].second)
  /\ UNCHANGED <<door, half, phase, capacity, limiter, cache, admitted, noRoom>>

\* The handler waits for the replay cache, or for the shutdown.  A request
\* that is then refused for its content type or length has spent its
\* capability all the same.
commit_verified(t) ==
  /\ task[t].pc = "commit"
  /\ LET r == consume(task[t].v, unix_now)
         nonce == task[t].v.nonce
     IN  \/ /\ cache' = r.cache
            /\ admitted' = IF r.ok THEN [admitted EXCEPT ![nonce] = @ + 1] ELSE admitted
            /\ noRoom' = (noRoom \/ (r.full /\ admitted[nonce] = 0))
            /\ Answer(t)
         \/ /\ door = "shutdown"
            /\ Answer(t)
            /\ UNCHANGED <<cache, admitted, noRoom>>
  /\ UNCHANGED <<door, half, phase, capacity, limiter, late>>

Tick ==
  /\ door # "off" /\ half < MaxHalfSeconds
  /\ half' = half + 1
  /\ UNCHANGED <<door, phase, capacity, limiter, cache, task, admitted, noRoom, late>>

ShutDownDoor ==
  /\ door = "on"
  /\ door' = "shutdown"
  /\ UNCHANGED <<half, phase, capacity, limiter, cache, task, admitted, noRoom, late>>

DoorInit(on) ==
  /\ door = IF on THEN "on" ELSE "off"
  /\ half = 0
  /\ phase \in IF on THEN {0, 1} ELSE {0}
  /\ capacity \in IF on THEN {c \in Capacities : ValidCapacity(c)} ELSE {0}
  /\ limiter = [window |-> 0, count |-> 0]
  /\ cache = [n \in {} |-> 0]
  /\ task = [t \in Tasks |-> Idle]
  /\ admitted = [n \in Nonces |-> 0]
  /\ noRoom = FALSE /\ late = FALSE

DoorNext ==
  \/ \E t \in Tasks :
       prepare(t) \/ try_acquire_in_window(t) \/ verify(t) \/ commit_verified(t)
  \/ Tick \/ ShutDownDoor

----------------------------------------------------------------------------
\* A capability admits one request: its nonce is remembered for as long as
\* any handler could still find the capability valid, whichever of several
\* handlers verified it first (ReplayCache::insert, consume).
AdmittedOnce == \A n \in Nonces : admitted[n] <= 1

\* And the cache that the configuration accepts holds every nonce the limiter
\* lets through while it is live, so that a capability never presented before
\* is not refused for want of room; only a handler held up between reading its
\* window and verifying can take a place not accounted for
\* (replay_retention_secs against try_acquire_in_window).
CapabilityOnce ==
  /\ AdmittedOnce
  /\ noRoom => late
=============================================================================
