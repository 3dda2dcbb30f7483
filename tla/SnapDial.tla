------------------------------ MODULE SnapDial ------------------------------
(***************************************************************************)
(* Reaching a peer over the candidates of a SNAP profile (shph-snap lib.rs *)
(* and shph-cli main.rs): `send-once` delivers one payload                 *)
(* (send_snap_payload_with_plan), `up` dials a session                     *)
(* (connect_snap_session) and, when it breaks, dials again                 *)
(* (run_with_reconnect).  Both go through the candidates in rounds, within *)
(* a number of attempts and a time budget, and a failed candidate may      *)
(* restrict what may be tried next.  The pin of the peer is read from the  *)
(* keystore before dialling and again after the handshake; the operator    *)
(* may change it at any time.                                              *)
(*                                                                         *)
(* The commands that use one connection and no profile, `send-once` with a *)
(* given transport, `recv-once`, `connect` and `listen`, go through the    *)
(* same checks and are here too.                                           *)
(*                                                                         *)
(* Time is counted in units of SNAP_MIN_CANDIDATE_BUDGET.  The peer that   *)
(* answers a handshake holds the keys it was dialled with: the handshake   *)
(* itself is module Handshake's.                                           *)
(***************************************************************************)
EXTENDS Integers, Sequences, FiniteSets

CONSTANTS
  SnapProfiles,     \* [mode, direct, bridges, adapter_order, order, rounds,
                    \*  max_total_attempts, max_elapsed]
  CandidateTimeout, backoff_base, backoff_max,
  PeerKeys,         \* the keys the peer may be pinned to
  MaxRepins,        \* bound on the operator's changes
  max_attempts      \* of run_with_reconnect

\* The adapter names validate_adapter accepts.
KNOWN_ADAPTERS ==
  {"direct-tcp", "bridge-onion-tcp", "bridge-tls", "bridge-ws", "shroud-tcp", "mesh-dtn-local",
   "mule-usb", "edge-relay", "quic", "quic-standard", "offline-mesh", "data-mule"}

\* What planning looks at in a candidate.
SnapCandidate == [adapter : KNOWN_ADAPTERS, priority : Nat, weight : Nat, allowed : SUBSET KNOWN_ADAPTERS]

\* The fields of a parsed profile: every name in it is a known adapter.
SnapProfile(p) ==
  /\ p.direct \in Seq(SnapCandidate) /\ p.bridges \in Seq(SnapCandidate)
  /\ p.adapter_order \in Seq(KNOWN_ADAPTERS) /\ p.order \in {"stable", "rotate", "shuffle"}
  /\ p.rounds \in Nat /\ p.max_total_attempts \in Nat /\ p.max_elapsed \in Nat

VARIABLES snap,      \* the profile
          dial,      \* the command, see Dialling
          pin,       \* the pin in the keystore
          repins, shutdown,
          received,  \* how often the peer took the payload
          tried,     \* ghost: the attempts, <<round, candidate, elapsed>>
          pinned     \* ghost: the pins in force since the last handshake

dialVars == <<snap, dial, pin, repins, shutdown, received, tried, pinned>>

(* --- the profile and its plan ---------------------------------------------- *)

\* What SnapProfile::plan makes of a profile without direct endpoints.
PeerItself == [adapter |-> "direct-tcp", priority |-> 100, weight |-> 100, allowed |-> {}]

\* validate_fallback_graph: every name leads to another candidate, and no
\* chain of names leads back.  The mode of the profile is not looked at.
validate_fallback_graph(profile) ==
  LET all == profile.direct \o profile.bridges
      edge == {e \in (DOMAIN all) \X (DOMAIN all) :
                 e[1] # e[2] /\ all[e[2]].adapter \in all[e[1]].allowed}
      available == {all[i].adapter : i \in DOMAIN all}
      Closed(S) == \A e \in edge : e[1] \in S => e[2] \in S
      \* the candidates a chain from i leads to
      After(i) == {j \in DOMAIN all :
                     \A S \in SUBSET DOMAIN all :
                       Closed(S) /\ (\A e \in edge : e[1] = i => e[2] \in S) => j \in S}
  IN /\ \A i \in DOMAIN all :
          /\ all[i].allowed \subseteq available
          /\ all[i].allowed # {} => \E e \in edge : e[1] = i
     /\ \A i \in DOMAIN all : i \notin After(i)

DirectEndpoint_validate(e) ==
  e.adapter \in {"direct-tcp", "quic", "quic-standard", "offline-mesh", "data-mule"}

Bridge_validate(b) == b.adapter # "direct-tcp"

RetryPolicy_validate(profile) == profile.rounds >= 1 /\ backoff_max >= backoff_base

\* SnapProfile::validate; what it says of names, addresses and TLS settings
\* is left out with them.
validate(profile) ==
  /\ RetryPolicy_validate(profile)
  /\ profile.mode = "direct-only" => profile.direct # <<>>
  /\ profile.mode \in {"bridges-only", "onion-only"} => profile.bridges # <<>>
  /\ \A i \in DOMAIN profile.bridges : Bridge_validate(profile.bridges[i])
  /\ \A i \in DOMAIN profile.direct : DirectEndpoint_validate(profile.direct[i])
  /\ validate_fallback_graph(profile)

\* A command that dials has a profile that validates.
ASSUME SnapDialAssumption ==
  /\ \A p \in SnapProfiles : SnapProfile(p)
  /\ \E p \in SnapProfiles : validate(p)
  /\ CandidateTimeout \in Nat /\ backoff_base \in Nat /\ backoff_max \in Nat

candidates(profile) ==
  (IF profile.mode \notin {"auto", "direct-only"} THEN <<>>
   ELSE IF profile.direct = <<>> THEN <<PeerItself>> ELSE profile.direct)
  \o (IF profile.mode \in {"auto", "bridges-only", "onion-only"} THEN profile.bridges ELSE <<>>)

adapter_rank(profile, adapter) ==
  LET at == {i \in DOMAIN profile.adapter_order : profile.adapter_order[i] = adapter}
  IN IF at = {} THEN Len(profile.adapter_order) + 1 ELSE CHOOSE i \in at : TRUE

\* SnapProfile::plan: the order of the candidates, by number.
plan(profile) ==
  LET all == candidates(profile)
      Key(i) == <<all[i].priority, adapter_rank(profile, all[i].adapter), -all[i].weight, i>>
      Before(i, j) == \E k \in 1..4 : /\ Key(i)[k] < Key(j)[k]
                                      /\ \A l \in 1..(k - 1) : Key(i)[l] = Key(j)[l]
  IN [k \in DOMAIN all |-> CHOOSE i \in DOMAIN all :
                               Cardinality({j \in DOMAIN all : Before(j, i)}) = k - 1]

attempt_limit(profile) ==
  LET computed == Len(candidates(profile)) * profile.rounds
  IN IF profile.max_total_attempts = 0 \/ computed < profile.max_total_attempts
     THEN computed ELSE profile.max_total_attempts

\* python_seeded_shuffle: the seed is free, so is the order.
python_seeded_shuffle(n) == {s \in [1..n -> 1..n] : \A i, j \in 1..n : s[i] = s[j] => i = j}

\* ordered_round: the orders a round may have.
ordered_round(profile, round) ==
  LET order == plan(profile)
      n == Len(order)
  IN IF n <= 1 \/ profile.order = "stable" THEN {order}
     ELSE IF profile.order = "rotate" THEN {[i \in 1..n |-> order[((i + round - 2) % n) + 1]]}
     ELSE python_seeded_shuffle(n)

\* backoff_after_round with a jitter of at most half of the base.
backoff_after_round(profile, completed) ==
  LET base == IF completed >= profile.rounds THEN 0
              ELSE LET b == backoff_base * (2 ^ (completed - 1)) IN IF b < backoff_max THEN b ELSE backoff_max
  IN {d \in 0..backoff_max : 2 * d >= base /\ 2 * d <= 3 * base}

candidate_allows_fallback(profile, from, to) ==
  LET all == candidates(profile)
  IN all[from].allowed = {} \/ all[to].adapter \in all[from].allowed

(* --- dialling --------------------------------------------------------------- *)

\* One run of a command: it reads the pin it will accept from the keystore.
Dialling(command, runs) ==
  [command |-> command, carrier |-> "planned", pc |-> "round", round |-> 1, queue |-> <<>>, previous |-> 0,
   candidate |-> 0, attempt |-> 0, elapsed |-> 0, policy |-> pin, sent |-> FALSE, runs |-> runs]

\* A command with one connection over the transport the operator names.
OneConnection(command, carrier) ==
  [Dialling(command, 1) EXCEPT !.carrier = carrier, !.pc = "connecting"]

Carriers == {"tcp", "socks5", "quic", "offline-mesh", "data-mule", "quic-standard"}

DialInit(on) ==
  /\ LET valid == {p \in SnapProfiles : validate(p)}
     IN snap \in IF on THEN valid ELSE {CHOOSE p \in valid : TRUE}
  /\ pin \in IF on THEN PeerKeys ELSE {CHOOSE k \in PeerKeys : TRUE}
  /\ dial \in IF on THEN {Dialling(command, 1) : command \in {"send", "session"}}
                          \cup {OneConnection(command, carrier) :
                                  command \in {"once", "connect"}, carrier \in Carriers}
                          \cup {OneConnection(command, carrier) :
                                  command \in {"recv", "listen"}, carrier \in Carriers \ {"socks5"}}
              ELSE {[Dialling("send", 1) EXCEPT !.pc = "off"]}
  /\ repins = 0 /\ shutdown = FALSE /\ received = 0
  /\ tried = <<>> /\ pinned = {}

Session == dial.command = "session"
Planned == dial.carrier = "planned"

\* connect_snap_session also serves send-once, without a QUIC candidate;
\* otherwise the payload is sent within the loop over the candidates.
ConnectLoop == Session \/ \A i \in DOMAIN candidates(snap) : candidates(snap)[i].adapter # "quic-standard"

Budget == snap.max_elapsed
remaining == IF dial.elapsed < Budget THEN Budget - dial.elapsed ELSE 0
Bounded == Budget > 0

\* Elapsed time matters up to the budget only.
Later(d) == IF Bounded /\ dial.elapsed + d > Budget THEN Budget ELSE IF Bounded THEN dial.elapsed + d ELSE 0

Goes(pc) == dial' = [dial EXCEPT !.pc = pc]
KeptWhileDialling == UNCHANGED <<snap, pin, repins, shutdown, received, tried, pinned>>

\* The start of a round: the backoff, when there is time for it, and the
\* order of the candidates.  previous_failed is forgotten.
BeginRound ==
  /\ dial.pc = "round"
  /\ \/ dial.round > snap.rounds /\ Goes("error")
     \/ /\ dial.round <= snap.rounds
        /\ \E d \in IF dial.round = 1 THEN {0} ELSE backoff_after_round(snap, dial.round - 1) :
             \/ /\ dial.round > 1 /\ Bounded
                /\ IF ConnectLoop THEN remaining < d ELSE dial.elapsed + d >= Budget
                /\ Goes("error")
             \/ /\ ~ (dial.round > 1 /\ Bounded
                      /\ IF ConnectLoop THEN remaining < d ELSE dial.elapsed + d >= Budget)
                /\ \E order \in ordered_round(snap, dial.round) :
                     dial' = [dial EXCEPT !.pc = "candidate", !.queue = order, !.previous = 0,
                                          !.elapsed = Later(d)]
  /\ KeptWhileDialling

Denied == dial.previous # 0 /\ ~ candidate_allows_fallback(snap, dial.previous, Head(dial.queue))
Short == Bounded /\ remaining < 1

\* The round is over; connect_snap_session also ends with its limits reached.
EndRound ==
  /\ dial.pc = "candidate"
  /\ \/ dial.queue = <<>>
     \/ dial.attempt >= attempt_limit(snap)
     \/ Short /\ (ConnectLoop \/ ~ Denied)
  /\ IF ConnectLoop /\ (dial.attempt >= attempt_limit(snap) \/ (Bounded /\ remaining = 0))
     THEN Goes("error")
     ELSE dial' = [dial EXCEPT !.pc = "round", !.round = @ + 1]
  /\ KeptWhileDialling

\* The next candidate: passed over, or attempted.
TakeCandidate ==
  /\ dial.pc = "candidate" /\ dial.queue # <<>>
  /\ dial.attempt < attempt_limit(snap)
  /\ \/ /\ Denied /\ ~ (Short /\ ConnectLoop)
        /\ dial' = [dial EXCEPT !.queue = Tail(@)]
        /\ UNCHANGED tried
     \/ /\ ~ Denied /\ ~ Short
        /\ dial' = [dial EXCEPT !.pc = "connecting", !.queue = Tail(@), !.candidate = Head(dial.queue),
                                !.attempt = @ + 1]
        /\ tried' = Append(tried, <<dial.round, Head(dial.queue), dial.elapsed>>)
  /\ UNCHANGED <<snap, pin, repins, shutdown, received, pinned>>

\* snap_candidate_attempt_timeout
snap_candidate_attempt_timeout ==
  IF Bounded /\ remaining < CandidateTimeout THEN remaining ELSE CandidateTimeout

snap_error_is_retryable(error) == error \in {"io", "timeout", "transport", "closed"}

\* A slip: what was sent is not considered.
snap_attempt_retryable_after_sending(error) == snap_error_is_retryable(error)

snap_attempt_error_is_retryable(error) == ~ dial.sent /\ snap_error_is_retryable(error)

\* A slip: the candidate that failed is not remembered.
AttemptFails_forgetting(error, d) ==
  dial' = IF Planned /\ snap_attempt_error_is_retryable(error) /\ (ConnectLoop => dial.pc = "connecting")
          THEN [dial EXCEPT !.pc = "candidate", !.elapsed = Later(d)]
          ELSE [dial EXCEPT !.pc = IF error = "config" THEN "refused" ELSE "error",
                            !.elapsed = Later(d)]

\* The attempt ends with an error after d: the next candidate, or the end.
\* connect_snap_session has returned before the policy is enforced; without
\* a plan there is nothing else to try.
AttemptFails(error, d) ==
  dial' = IF Planned /\ snap_attempt_error_is_retryable(error) /\ (ConnectLoop => dial.pc = "connecting")
          THEN [dial EXCEPT !.pc = "candidate", !.previous = dial.candidate, !.elapsed = Later(d)]
          ELSE [dial EXCEPT !.pc = IF error = "config" THEN "refused" ELSE "error",
                            !.elapsed = Later(d)]

Errors == {"timeout", "auth", "config"}

\* connect_snap_candidate, or standards_quic::connect.
connect_snap_candidate ==
  /\ dial.pc = "connecting" /\ Planned
  /\ \E d \in 0..snap_candidate_attempt_timeout :
       \/ /\ \E error \in Errors : AttemptFails(error, d)
          /\ UNCHANGED pinned
       \/ /\ dial' = [dial EXCEPT !.pc = "shaken", !.elapsed = Later(d)]
          /\ pinned' = {pin}
  /\ UNCHANGED <<snap, pin, repins, shutdown, received, tried>>

\* A slip: the pins read before dialling are asked again.
enforce_remembered_policy == TRUE

\* enforce_peer_policy loads the keystore anew.
enforce_peer_policy == pin = dial.policy

Enforce ==
  /\ dial.pc = "shaken"
  /\ IF enforce_peer_policy THEN Goes("active") ELSE AttemptFails("auth", 0)
  /\ KeptWhileDialling

(* --- send-once --------------------------------------------------------------- *)

\* The envelope policy may have to be negotiated first; the payload counts
\* as possibly delivered from before it is sent.
SendPayload ==
  /\ dial.pc = "active" /\ dial.command \in {"send", "once"}
  /\ \/ /\ \E error \in Errors, d \in 0..CandidateTimeout : AttemptFails(error, d)
        /\ UNCHANGED received
     \/ /\ dial' = [dial EXCEPT !.pc = "sending", !.sent = TRUE]
        /\ UNCHANGED received
  /\ UNCHANGED <<snap, pin, repins, shutdown, tried, pinned>>

Acknowledged ==
  IF Planned THEN candidates(snap)[dial.candidate].adapter = "quic-standard"
  ELSE dial.carrier = "quic-standard"

\* The peer takes the payload, or it is lost, or sending fails.
PayloadArrives ==
  /\ dial.pc = "sending"
  /\ received' \in {received, received + 1}
  /\ \/ Goes(IF Acknowledged THEN "acknowledging" ELSE "ok")
     \/ \E error \in Errors, d \in 0..CandidateTimeout : AttemptFails(error, d)
  /\ UNCHANGED <<snap, pin, repins, shutdown, tried, pinned>>

\* QUIC_PAYLOAD_ACK comes only from a peer that has the payload, and not
\* always.
recv_control ==
  /\ dial.pc = "acknowledging"
  /\ \/ received > 0 /\ Goes("ok")
     \/ \E error \in Errors, d \in 0..CandidateTimeout : AttemptFails(error, d)
  /\ KeptWhileDialling

(* --- commands with one connection ----------------------------------------------- *)

\* One connection of a command without a plan: it fails, or the handshake
\* has a peer.
connect_secure_session ==
  \/ Goes("error") /\ UNCHANGED pinned
  \/ Goes("shaken") /\ pinned' = {pin}

accept_secure_session ==
  \/ Goes("error") /\ UNCHANGED pinned
  \/ Goes("shaken") /\ pinned' = {pin}

\* send-once dials; a shutdown during the setup of a SOCKS stream is no error.
DialOnce ==
  /\ dial.pc = "connecting" /\ dial.command = "once"
  /\ \/ connect_secure_session
     \/ dial.carrier = "socks5" /\ shutdown /\ Goes("ok") /\ UNCHANGED pinned
  /\ UNCHANGED <<snap, pin, repins, shutdown, received, tried>>

\* `connect` is over with the handshake, once the policy is enforced and the
\* event is in the audit journal.
handle_connect ==
  /\ dial.command = "connect"
  /\ \/ dial.pc = "connecting" /\ connect_secure_session
     \/ /\ dial.pc = "connecting" /\ dial.carrier = "socks5" /\ shutdown
        /\ Goes("ok") /\ UNCHANGED pinned
     \/ /\ dial.pc = "active"
        /\ Goes("ok") \/ Goes("error")
        /\ UNCHANGED pinned
  /\ UNCHANGED <<snap, pin, repins, shutdown, received, tried>>

handle_listen ==
  /\ dial.command = "listen"
  /\ \/ dial.pc = "connecting" /\ accept_secure_session
     \/ /\ dial.pc = "active"
        /\ Goes("ok") \/ Goes("error")
        /\ UNCHANGED pinned
  /\ UNCHANGED <<snap, pin, repins, shutdown, received, tried>>

\* recv-once accepts one peer and takes one payload from it.
AcceptOnce ==
  /\ dial.pc = "connecting" /\ dial.command = "recv"
  /\ accept_secure_session
  /\ UNCHANGED <<snap, pin, repins, shutdown, received, tried>>

\* Over standards QUIC the acknowledgement follows the payload; a payload
\* that is no text is an error after it.
TakePayload ==
  /\ dial.command = "recv"
  /\ \/ dial.pc = "active" /\ Goes("error") /\ UNCHANGED received
     \/ dial.pc = "active" /\ Goes("taken") /\ received' = received + 1
     \/ /\ dial.pc = "taken" /\ UNCHANGED received
        /\ \/ Goes("error")
           \/ dial' = [dial EXCEPT !.pc = "ok", !.sent = Acknowledged]
  /\ UNCHANGED <<snap, pin, repins, shutdown, tried, pinned>>

(* --- sessions of `up` and their reconnection ----------------------------------- *)

SessionBreaks ==
  /\ dial.pc = "active" /\ Session
  /\ Goes("ok") \/ Goes("error")
  /\ KeptWhileDialling

\* run_with_reconnect: another run, unless the attempts are used up or the
\* shutdown came before the delay was over.
run_with_reconnect ==
  /\ dial.pc = "error" /\ Session
  /\ dial.runs < max_attempts
  /\ IF shutdown THEN Goes("ok") /\ UNCHANGED tried
     ELSE dial' = Dialling("session", dial.runs + 1) /\ tried' = <<>>
  /\ UNCHANGED <<snap, pin, repins, shutdown, received, pinned>>

RequestShutdown ==
  /\ dial.pc # "off" /\ ~ shutdown /\ (Session \/ dial.carrier = "socks5")
  /\ shutdown' = TRUE
  /\ UNCHANGED <<snap, dial, pin, repins, received, tried, pinned>>

\* The operator pins another key for the peer.
Repin ==
  /\ dial.pc # "off" /\ repins < MaxRepins
  /\ repins' = repins + 1
  /\ \E key \in PeerKeys \ {pin} : pin' = key /\ pinned' = pinned \cup {key}
  /\ UNCHANGED <<snap, dial, shutdown, received, tried>>

DialNext ==
  \/ BeginRound \/ EndRound \/ TakeCandidate \/ connect_snap_candidate \/ Enforce
  \/ SendPayload \/ PayloadArrives \/ recv_control
  \/ DialOnce \/ handle_connect \/ handle_listen \/ AcceptOnce \/ TakePayload
  \/ SessionBreaks \/ run_with_reconnect \/ RequestShutdown \/ Repin

(* --- properties --------------------------------------------------------------- *)

(***************************************************************************)
(* `send-once`, over one connection or any number of candidates and        *)
(* rounds, delivers its payload at most once, and when it succeeds over    *)
(* standards QUIC the peer has it; `recv-once` takes and acknowledges one. *)
(***************************************************************************)
PayloadAtMostOnce ==
  /\ received <= 1
  /\ dial.pc = "ok" /\ dial.command \in {"send", "once", "recv"} /\ Acknowledged => received = 1

(***************************************************************************)
(* Dialling stays within the profile in whatever order the rounds go: at   *)
(* most attempt_limit attempts, none when less than the minimum is left of *)
(* the budget, a candidate once in a round, and after a failed candidate   *)
(* only what that one allows.                                              *)
(***************************************************************************)
DialWithinPlan ==
  /\ Len(tried) <= attempt_limit(snap)
  /\ \A i, j \in DOMAIN tried : i < j /\ tried[i][1] = tried[j][1] => tried[i][2] # tried[j][2]
  /\ \A i \in DOMAIN tried :
       /\ Bounded => tried[i][3] < Budget
       /\ i > 1 /\ tried[i - 1][1] = tried[i][1]
            => candidate_allows_fallback(snap, tried[i - 1][2], tried[i][2])

(***************************************************************************)
(* A payload is sent and a session is used only with a peer whose keys     *)
(* were pinned at some moment after its handshake, even if the operator    *)
(* changes the pin while the candidates are being tried.                   *)
(***************************************************************************)
PinnedWhenUsed == dial.pc \in {"active", "sending", "acknowledging", "taken"} => dial.policy \in pinned
=============================================================================
