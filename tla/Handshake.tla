----------------------------- MODULE Handshake ------------------------------
(***************************************************************************)
(* The authenticated hybrid key exchange of shph-core/src/handshake.rs, as *)
(* the TCP client (tcp_handshake_on_connected_stream) and the TCP server   *)
(* worker (TcpHandshakeWorker::run) drive it.                              *)
(*                                                                         *)
(* Any number of runs of the protocol share one network that loses,        *)
(* duplicates, delays, misdelivers and alters messages.  Cryptography is   *)
(* symbolic.  Run s draws one ephemeral key, one nonce and, in the secure  *)
(* profile, one ML-KEM key pair; the three are named by s itself.  An      *)
(* optional value is a set with at most one element.                       *)
(***************************************************************************)
EXTENDS Integers, FiniteSets

CONSTANTS
  Runs,        \* runs of the protocol, initiators and responders
  Nodes,       \* key material of the participants: [id, sign]
  Pins,        \* Pins[n]: the pins of node n's PeerPolicy, sets of [id, sign]
  TsWindow,    \* the 300 seconds a timestamp may be off
  MaxNow,      \* bound: the wall clock runs from 0 to MaxNow
  Garbled      \* what a ciphertext damaged on the way was made for: no run

\* PeerPolicy::new refuses an empty policy.  A node does not pin its own
\* identity: both ends of such a session would sort themselves first.
ASSUME HandshakeAssumption ==
  /\ TsWindow \in Nat /\ MaxNow \in Nat /\ Garbled \notin Runs
  /\ \A n \in Nodes : n.id \in Nat /\ n.sign \in Nat
  /\ Pins \in [Nodes -> SUBSET [id : Nat, sign : Nat]]
  /\ \A n \in Nodes : Pins[n] # {} /\ \A pin \in Pins[n] : pin.id # n.id

Profiles == {"secure-default", "classical-lab"}
uses_pqc(profile) == profile = "secure-default"

VARIABLES now, run, hellos, cts
handshakeVars == <<now, run, hellos, cts>>

\* The values a signature covers; the verifier rebuilds them from the hello
\* it received and from the profile it expects.
SignedPayload(profile, id, sign, pqc, fresh, ts) ==
  [profile |-> profile, id |-> id, sign |-> sign, pqc |-> pqc, fresh |-> fresh, ts |-> ts]

\* A slip: the ephemeral key and nonce of an earlier hello are used again.
build_hello_reusing(s, node, profile) ==
  LET earlier == {h.fresh : h \in {k \in hellos : k.sign = node.sign}}
      fresh == IF earlier = {} THEN s ELSE CHOOSE f \in earlier : TRUE
      pqc == IF uses_pqc(profile) THEN {fresh} ELSE {}
  IN  [profile |-> profile, id |-> node.id, sign |-> node.sign, pqc |-> pqc,
       ct |-> {}, fresh |-> fresh, ts |-> now,
       sig |-> [key  |-> node.sign,
                over |-> SignedPayload(profile, node.id, node.sign, pqc, fresh, now)]]

\* build_hello_with_profile by run s of `node`.
build_hello(s, node, profile) ==
  LET pqc == IF uses_pqc(profile) THEN {s} ELSE {}
  IN  [profile |-> profile, id |-> node.id, sign |-> node.sign, pqc |-> pqc,
       ct |-> {}, fresh |-> s, ts |-> now,
       sig |-> [key  |-> node.sign,
                over |-> SignedPayload(profile, node.id, node.sign, pqc, s, now)]]

\* A slip: the policy matches the identity key alone.
allows_identity(node, h) == \E pin \in Pins[node] : pin.id = h.id

\* PeerPolicy::allows: one pin matches both keys.
allows(node, h) == \E pin \in Pins[node] : pin.id = h.id /\ pin.sign = h.sign

Skew(t) == IF now > t THEN now - t ELSE t - now

\* verify_hello_signature.  validate_local_material holds of every hello the
\* run built itself.
verify_hello_signature(node, profile, h) ==
  /\ h.profile = profile
  /\ h.ct = {}
  /\ Skew(h.ts) <= TsWindow
  /\ uses_pqc(profile) <=> h.pqc # {}
  /\ h.sig.key = h.sign
  /\ h.sig.over = SignedPayload(profile, h.id, h.sign, h.pqc, h.fresh, h.ts)
  /\ allows(node, h)

\* ML-KEM: run s encapsulates against the key pair of run k; decapsulating
\* with another key pair yields a secret nobody else has.
encapsulate(s, k) == [by |-> s, to |-> k]
Secret(ct, holder) ==
  [by |-> ct.by, to |-> ct.to, rejected |-> IF holder = ct.to THEN {} ELSE {holder}]
decapsulate(s, ct) == Secret(ct, s)

\* A slip: the hellos enter the transcript as (mine, yours).
OrderedLocalFirst(mine, yours) == <<mine, yours>>

\* The two hellos in the order of their identity keys.
Ordered(mine, yours) == IF mine.id <= yours.id THEN <<mine, yours>> ELSE <<yours, mine>>

Side(h) == [id |-> h.id, sign |-> h.sign, pqc |-> h.pqc, fresh |-> h.fresh, ts |-> h.ts]

Transcript(profile, initiator, mine, yours, ct) ==
  [profile |-> profile,
   initiator |-> IF initiator THEN mine.id ELSE yours.id,
   sides |-> Ordered(Side(mine), Side(yours)),
   ct |-> ct]

\* A slip: both directions are keyed alike.
DirectionShared(initiator) == <<"initiator", "initiator">>

\* The labels of the sending and of the receiving key.
Direction(initiator) ==
  IF initiator THEN <<"initiator", "responder">> ELSE <<"responder", "initiator">>

\* The key schedule of verify_and_derive: X25519 and, in the secure profile,
\* the ML-KEM secret feed the key derivation, bound to the transcript.
SessionKeys(profile, initiator, mine, yours, shared, ct) ==
  LET key(direction) ==
        [ecdh |-> {mine.fresh, yours.fresh}, pq |-> shared,
         transcript |-> Transcript(profile, initiator, mine, yours, ct),
         direction |-> direction]
  IN  [send |-> key(Direction(initiator)[1]), recv |-> key(Direction(initiator)[2])]

-----------------------------------------------------------------------------
Unused == [status |-> "unused"]

HandshakeInit ==
  /\ now = 0
  /\ run = [s \in Runs |-> Unused]
  /\ hellos = {}
  /\ cts = {}

\* What may arrive in place of a hello that was sent: the hello, or the hello
\* with a field changed on the way (its signature cannot be remade).
Arriving(h) ==
  {[h EXCEPT !.ts = t] : t \in 0 .. MaxNow}
  \cup {[h EXCEPT !.id = n.id, !.sign = n.sign] : n \in Nodes}
  \cup {[h EXCEPT !.fresh = s] : s \in Runs}
  \cup {[h EXCEPT !.ct = {c}] : c \in cts}
  \cup UNION {{[h EXCEPT !.profile = p, !.pqc = q] : q \in {{}, h.pqc} \cup {{k} : k \in Runs}} :
                p \in Profiles}

Failed(s) == run' = [run EXCEPT ![s] = [status |-> "failed"]]

\* The client connects and sends its hello.
Connect(s) ==
  /\ run[s] = Unused
  /\ \E node \in Nodes, profile \in Profiles :
       LET hello == build_hello(s, node, profile)
       IN  /\ run' = [run EXCEPT ![s] = [status |-> "hello_sent", node |-> node,
                                         profile |-> profile, hello |-> hello]]
           /\ hellos' = hellos \cup {hello}
  /\ UNCHANGED <<now, cts>>

Done(s, initiator, hello, peer_hello, shared, ct) ==
  [status |-> "done", node |-> run[s].node, profile |-> run[s].profile,
   initiator |-> initiator, hello |-> hello, peer_hello |-> peer_hello, ct |-> ct, at |-> now,
   keys |-> SessionKeys(run[s].profile, initiator, hello, peer_hello, shared, ct)]

\* The client reads the server's hello and verifies it; in the secure profile
\* finalize_initiator_pq encapsulates and the ciphertext is written.
ClientHello(s) ==
  /\ run[s].status = "hello_sent"
  /\ \E sent \in hellos : \E h \in Arriving(sent) :
       \/ /\ ~verify_hello_signature(run[s].node, run[s].profile, h)
          /\ Failed(s)
          /\ UNCHANGED cts
       \/ /\ verify_hello_signature(run[s].node, run[s].profile, h)
          /\ LET ct == {encapsulate(s, k) : k \in h.pqc}
             IN  /\ run' = [run EXCEPT ![s] = [status |-> "ct_sent", node |-> @.node,
                              profile |-> @.profile, hello |-> @.hello, peer_hello |-> h, ct |-> ct]]
                 /\ cts' = cts \cup ct
  /\ UNCHANGED <<now, hellos>>

\* verify_and_derive verifies again: writing the ciphertext may have taken
\* so long that the server's hello has gone stale.
ClientDerive(s) ==
  /\ run[s].status = "ct_sent"
  /\ IF verify_hello_signature(run[s].node, run[s].profile, run[s].peer_hello)
     THEN run' = [run EXCEPT ![s] =
                    Done(s, TRUE, run[s].hello, run[s].peer_hello,
                         {Secret(c, c.to) : c \in run[s].ct}, run[s].ct)]
     ELSE Failed(s)
  /\ UNCHANGED <<now, hellos, cts>>

\* A worker of the server has read a client's hello: it builds its own,
\* verifies the client's, and only then answers.
ServerHello(s) ==
  /\ run[s] = Unused
  /\ \E node \in Nodes, profile \in Profiles, sent \in hellos : \E h \in Arriving(sent) :
       LET hello == build_hello(s, node, profile)
           opened == [status |-> "await_ct", node |-> node, profile |-> profile,
                      hello |-> hello, peer_hello |-> h]
       IN  \/ /\ ~verify_hello_signature(node, profile, h)
              /\ Failed(s)
              /\ UNCHANGED hellos
           \/ /\ verify_hello_signature(node, profile, h)
              /\ hellos' = hellos \cup {hello}
              /\ run' = [run EXCEPT ![s] = opened]
  /\ UNCHANGED <<now, cts>>

\* The classical server goes straight to derivation, which verifies again.
ServerDerive(s) ==
  /\ run[s].status = "await_ct"
  /\ ~uses_pqc(run[s].profile)
  /\ IF verify_hello_signature(run[s].node, run[s].profile, run[s].peer_hello)
     THEN run' = [run EXCEPT ![s] = Done(s, FALSE, run[s].hello, run[s].peer_hello, {}, {})]
     ELSE Failed(s)
  /\ UNCHANGED <<now, hellos, cts>>

\* absorb_responder_pq and the derivation, both of which verify again: the
\* hello may have gone stale while the ciphertext was awaited.
ServerCiphertext(s) ==
  /\ run[s].status = "await_ct"
  /\ uses_pqc(run[s].profile)
  /\ \E ct \in cts \cup {encapsulate(Garbled, Garbled)} :
       IF verify_hello_signature(run[s].node, run[s].profile, run[s].peer_hello)
       THEN run' = [run EXCEPT ![s] =
                      Done(s, FALSE, run[s].hello, run[s].peer_hello, {decapsulate(s, ct)}, {ct})]
       ELSE Failed(s)
  /\ UNCHANGED <<now, hellos, cts>>

\* The stream closes, times out or carries something that does not parse.
Abort(s) ==
  /\ run[s].status \in {"hello_sent", "ct_sent", "await_ct"}
  /\ Failed(s)
  /\ UNCHANGED <<now, hellos, cts>>

Tick ==
  /\ now < MaxNow
  /\ now' = now + 1
  /\ UNCHANGED <<run, hellos, cts>>

HandshakeNext ==
  \/ \E s \in Runs : \/ Connect(s) \/ ClientHello(s) \/ ClientDerive(s) \/ ServerHello(s)
                     \/ ServerDerive(s) \/ ServerCiphertext(s) \/ Abort(s)
  \/ Tick

-----------------------------------------------------------------------------
Finished == {s \in Runs : run[s].status = "done"}

\* Safety: an end that completes holds a hello some run really sent, in the
\* same profile, unaltered, by a node whose two keys match one of its pins,
\* and not older or newer than the timestamp window when keys were derived.
PeerAuthentic ==
  \A s \in Finished :
    LET h == run[s].peer_hello
    IN  /\ h \in hellos
        /\ h.profile = run[s].profile
        /\ [id |-> h.id, sign |-> h.sign] \in Pins[run[s].node]
        /\ h.ts \in run[s].at - TsWindow .. run[s].at + TsWindow

\* Two ends that saw the same exchange.
Matched(x, y) ==
  /\ run[x].initiator # run[y].initiator
  /\ run[x].profile = run[y].profile
  /\ run[x].peer_hello = run[y].hello
  /\ run[y].peer_hello = run[x].hello
  /\ run[x].ct = run[y].ct

\* Safety: two ends can talk, that is one sends under the key the other
\* receives under, exactly when they saw the same exchange.  Each computes
\* transcript and direction labels from its own point of view, yet matched
\* ends agree; and messages of other runs, replayed or altered ones, never
\* leave two ends with a common key and different ideas of identities, roles,
\* profile or ciphertext.  No two ends send under one key: record counters
\* start at zero in every session and must not meet.
KeysPairUp ==
  \A x, y \in Finished :
    /\ run[x].keys.send = run[y].keys.recv <=> Matched(x, y)
    /\ x # y => run[x].keys.send # run[y].keys.send
=============================================================================
