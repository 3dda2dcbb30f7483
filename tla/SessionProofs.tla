---------------------------- MODULE SessionProofs ----------------------------
(***************************************************************************)
(* Proofs about a session: the key exchange that begins it (Handshake), for*)
(* any number of runs, nodes and pins and any timestamp window, and the    *)
(* records it carries (RecordChannel), for every word width, window size   *)
(* and nonce limit.                                                        *)
(***************************************************************************)
EXTENDS RecordChannel, Handshake, TLAPS

(* --- the key exchange ------------------------------------------------------ *)

\* What build_hello makes: the hello of run s.
Hello(s, node, profile, ts) ==
  LET pqc == IF uses_pqc(profile) THEN {s} ELSE {}
  IN  [profile |-> profile, id |-> node.id, sign |-> node.sign, pqc |-> pqc,
       ct |-> {}, fresh |-> s, ts |-> ts,
       sig |-> [key  |-> node.sign,
                over |-> SignedPayload(profile, node.id, node.sign, pqc, s, ts)]]

Genuine(h) ==
  \E s \in Runs, node \in Nodes, profile \in Profiles, ts \in Nat : h = Hello(s, node, profile, ts)

\* The signed payload determines every field that was signed.
LEMMA PayloadCovers ==
  ASSUME NEW p, NEW i, NEW k, NEW q, NEW f, NEW t, NEW p2, NEW i2, NEW k2, NEW q2, NEW f2, NEW t2,
         SignedPayload(p, i, k, q, f, t) = SignedPayload(p2, i2, k2, q2, f2, t2)
  PROVE  p = p2 /\ i = i2 /\ k = k2 /\ q = q2 /\ f = f2 /\ t = t2
BY DEF SignedPayload

\* A hello that verifies arrived as it was sent: the signature covers every
\* field that could have been altered.
LEMMA VerifiedIsSent ==
  ASSUME NEW g, Genuine(g), NEW h \in Arriving(g), NEW node, NEW profile,
         verify_hello_signature(node, profile, h)
  PROVE  h = g
<1>1. PICK s \in Runs, n \in Nodes, offered \in Profiles, ts \in Nat : g = Hello(s, n, offered, ts)
  BY DEF Genuine
<1> DEFINE A == {[g EXCEPT !.ts = t] : t \in 0 .. MaxNow}
           B == {[g EXCEPT !.id = m.id, !.sign = m.sign] : m \in Nodes}
           C == {[g EXCEPT !.fresh = k] : k \in Runs}
           D == {[g EXCEPT !.ct = {c}] : c \in cts}
           E(p) == {[g EXCEPT !.profile = p, !.pqc = q] : q \in {{}, g.pqc} \cup {{k} : k \in Runs}}
<1>2. \/ \E t : h = [g EXCEPT !.ts = t]
      \/ \E i, k : h = [g EXCEPT !.id = i, !.sign = k]
      \/ \E k : h = [g EXCEPT !.fresh = k]
      \/ \E c : h = [g EXCEPT !.ct = c]
      \/ \E p, q : h = [g EXCEPT !.profile = p, !.pqc = q]
  <2>1. Arriving(g) = A \cup B \cup C \cup D \cup UNION {E(p) : p \in Profiles}
    BY Zenon DEF Arriving
  <2>2. ASSUME h \in A PROVE \E t : h = [g EXCEPT !.ts = t]
    BY <2>2
  <2>3. ASSUME h \in B PROVE \E i, k : h = [g EXCEPT !.id = i, !.sign = k]
    BY <2>3, Zenon
  <2>4. ASSUME h \in C PROVE \E k : h = [g EXCEPT !.fresh = k]
    BY <2>4
  <2>5. ASSUME h \in D PROVE \E c : h = [g EXCEPT !.ct = c]
    BY <2>5
  <2>6. ASSUME NEW p, h \in E(p) PROVE \E q : h = [g EXCEPT !.profile = p, !.pqc = q]
    BY <2>6, Zenon
  <2> HIDE DEF A, B, C, D, E
  <2>7. h \in A \/ h \in B \/ h \in C \/ h \in D \/ \E p : h \in E(p)
    BY <2>1
  <2>8. QED
    BY <2>2, <2>3, <2>4, <2>5, <2>6, <2>7, Zenon
<1>3. h.sig = g.sig
  BY <1>1, <1>2, Zenon DEF Hello
<1>4. /\ h.sig.over = SignedPayload(h.profile, h.id, h.sign, h.pqc, h.fresh, h.ts) /\ h.ct = {}
      /\ g.sig.over = SignedPayload(g.profile, g.id, g.sign, g.pqc, g.fresh, g.ts) /\ g.ct = {}
  BY <1>1 DEF verify_hello_signature, Hello
<1>5. /\ h.profile = g.profile /\ h.id = g.id /\ h.sign = g.sign /\ h.pqc = g.pqc
      /\ h.fresh = g.fresh /\ h.ts = g.ts /\ h.ct = g.ct
  <2>1. SignedPayload(h.profile, h.id, h.sign, h.pqc, h.fresh, h.ts)
          = SignedPayload(g.profile, g.id, g.sign, g.pqc, g.fresh, g.ts)
    BY <1>3, <1>4
  <2>2. QED
    BY <1>4, <2>1, PayloadCovers
<1>6. QED
  BY <1>1, <1>2, <1>5, Zenon DEF Hello

(* --- what a run knows ------------------------------------------------------ *)

Heard == {"ct_sent", "await_ct", "done"}
Active == Heard \cup {"hello_sent"}

\* The hello of run s itself is among those that were sent.
OwnHello(s, r, said) ==
  /\ r.node \in Nodes /\ r.hello \in said /\ r.hello.fresh = s
  /\ r.hello.id = r.node.id /\ r.hello.profile = r.profile

PeerHello(r, said) ==
  r.peer_hello \in said /\ r.peer_hello.profile = r.profile /\ allows(r.node, r.peer_hello)

\* An initiator encapsulates against the key of the hello it has accepted.
Encapsulated(s, r) == r.ct = {encapsulate(s, k) : k \in r.peer_hello.pqc}

Shared(s, r) == {Secret(c, IF r.initiator THEN c.to ELSE s) : c \in r.ct}

Derived(s, r) ==
  /\ r.initiator \in BOOLEAN /\ (r.initiator => Encapsulated(s, r))
  /\ r.keys = SessionKeys(r.profile, r.initiator, r.hello, r.peer_hello, Shared(s, r), r.ct)
  /\ r.peer_hello.ts \in r.at - TsWindow .. r.at + TsWindow

RunOk(s, r, said) ==
  /\ r.status \in Active => OwnHello(s, r, said)
  /\ r.status \in Heard => PeerHello(r, said)
  /\ r.status = "ct_sent" => Encapsulated(s, r)
  /\ r.status = "done" => Derived(s, r)

\* A hello carries the freshness of its run, which sends no other.
HellosOk ==
  /\ \A h \in hellos : Genuine(h) /\ run[h.fresh].status # "unused"
  /\ \A g, h \in hellos : g.fresh = h.fresh => g = h

HandshakeInv ==
  /\ now \in Nat /\ DOMAIN run = Runs
  /\ HellosOk
  /\ \A s \in Runs : RunOk(s, run[s], hellos)

\* A hello with a valid signature has the fresh values of one run.
LEMMA GenuineIsOfARun ==
  ASSUME NEW h, Genuine(h)
  PROVE  /\ h.fresh \in Runs /\ h.id \in Nat /\ h.ts \in Nat
         /\ h.pqc = IF uses_pqc(h.profile) THEN {h.fresh} ELSE {}
<1>1. PICK s \in Runs, node \in Nodes, profile \in Profiles, ts \in Nat : h = Hello(s, node, profile, ts)
  BY DEF Genuine
<1>2. /\ h.fresh = s /\ h.id = node.id /\ h.profile = profile /\ h.ts = ts
      /\ h.pqc = IF uses_pqc(profile) THEN {s} ELSE {}
  BY <1>1 DEF Hello
<1>3. QED
  BY <1>2, HandshakeAssumption

\* What is known of a run stays known when more hellos are sent.
LEMMA MoreHellos ==
  ASSUME NEW s, NEW r, NEW few, NEW more, few \subseteq more, RunOk(s, r, few)
  PROVE  RunOk(s, r, more)
BY DEF RunOk, OwnHello, PeerHello

\* A step of one run that sends no hello.
LEMMA RunMoves ==
  ASSUME HandshakeInv, NEW s \in Runs, NEW r, run' = [run EXCEPT ![s] = r],
         RunOk(s, r, hellos), r.status # "unused", UNCHANGED <<now, hellos>>
  PROVE  HandshakeInv'
<1>1. DOMAIN run' = Runs /\ run'[s] = r /\ \A t \in Runs \ {s} : run'[t] = run[t]
  BY DEF HandshakeInv
<1>2. HellosOk'
  BY <1>1, GenuineIsOfARun DEF HandshakeInv, HellosOk
<1>3. QED
  BY <1>1, <1>2 DEF HandshakeInv

\* A step of a run that begins with its hello.
LEMMA RunSends ==
  ASSUME HandshakeInv, NEW s \in Runs, NEW r, run' = [run EXCEPT ![s] = r],
         run[s].status = "unused", r.status # "unused",
         NEW h, Genuine(h), h.fresh = s, hellos' = hellos \cup {h},
         RunOk(s, r, hellos \cup {h}), UNCHANGED now
  PROVE  HandshakeInv'
<1>1. DOMAIN run' = Runs /\ run'[s] = r /\ \A t \in Runs \ {s} : run'[t] = run[t]
  BY DEF HandshakeInv
<1>2. \A g \in hellos : g.fresh \in Runs \ {s}
  BY GenuineIsOfARun, Zenon DEF HandshakeInv, HellosOk
<1>3. HellosOk'
  <2>1. \A g \in hellos' : Genuine(g) /\ run'[g.fresh].status # "unused"
    BY <1>1, <1>2 DEF HandshakeInv, HellosOk
  <2>2. \A g, k \in hellos' : g.fresh = k.fresh => g = k
    BY <1>2 DEF HandshakeInv, HellosOk
  <2>3. QED
    BY <2>1, <2>2 DEF HellosOk
<1>4. \A t \in Runs : RunOk(t, run'[t], hellos')
  <2>1. ASSUME NEW t \in Runs \ {s} PROVE RunOk(t, run[t], hellos')
    BY MoreHellos DEF HandshakeInv
  <2>2. QED
    BY <1>1, <2>1
<1>5. QED
  BY <1>1, <1>3, <1>4 DEF HandshakeInv

\* A run that fails keeps nothing.
LEMMA FailureKeeps ==
  ASSUME HandshakeInv, NEW s \in Runs, Failed(s), UNCHANGED <<now, hellos>>
  PROVE  HandshakeInv'
<1>1. PICK r : r = [status |-> "failed"]
  BY Zenon
<1>2. RunOk(s, r, hellos) /\ r.status # "unused"
  BY <1>1 DEF RunOk, Active, Heard
<1>3. QED
  BY <1>1, <1>2, RunMoves, Zenon DEF Failed

\* The hello that run s builds.
LEMMA OwnIsGenuine ==
  ASSUME HandshakeInv, NEW s \in Runs, NEW node \in Nodes, NEW profile \in Profiles,
         NEW h, h = build_hello(s, node, profile)
  PROVE  Genuine(h) /\ h.fresh = s /\ h.id = node.id /\ h.profile = profile
<1>1. h = Hello(s, node, profile, now) /\ now \in Nat
  BY DEF build_hello, Hello, HandshakeInv
<1>2. Genuine(h)
  BY <1>1 DEF Genuine
<1>3. QED
  BY <1>1, <1>2 DEF Hello

\* A run begins.
LEMMA ConnectKeeps ==
  ASSUME HandshakeInv, NEW s \in Runs, Connect(s)
  PROVE  HandshakeInv'
<1>1. PICK node \in Nodes, profile \in Profiles :
         /\ run' = [run EXCEPT ![s] = [status |-> "hello_sent", node |-> node, profile |-> profile,
                                      hello |-> build_hello(s, node, profile)]]
         /\ hellos' = hellos \cup {build_hello(s, node, profile)}
  BY Zenon DEF Connect
<1>2. PICK h, r :
         /\ h = build_hello(s, node, profile)
         /\ r = [status |-> "hello_sent", node |-> node, profile |-> profile, hello |-> h]
         /\ run' = [run EXCEPT ![s] = r] /\ hellos' = hellos \cup {h}
  BY <1>1, Zenon
<1>3. run[s].status = "unused" /\ UNCHANGED now
  BY DEF Connect, Unused
<1>4. Genuine(h) /\ h.fresh = s /\ h.id = node.id /\ h.profile = profile
  BY <1>2, OwnIsGenuine
<1>5. RunOk(s, r, hellos \cup {h}) /\ r.status # "unused"
  BY <1>2, <1>4 DEF RunOk, OwnHello, Heard
<1>6. QED
  BY <1>2, <1>3, <1>4, <1>5, RunSends, Zenon

\* What verifies was sent, in the run's profile, by a pinned node.
LEMMA AcceptedIsSent ==
  ASSUME HandshakeInv, NEW said \in hellos, NEW h \in Arriving(said), NEW node, NEW profile,
         verify_hello_signature(node, profile, h)
  PROVE  h \in hellos /\ h.profile = profile /\ allows(node, h)
<1>1. h = said
  BY VerifiedIsSent DEF HandshakeInv, HellosOk
<1>2. QED
  BY <1>1 DEF verify_hello_signature

\* The initiator sends its hello.
LEMMA ClientHelloKeeps ==
  ASSUME HandshakeInv, NEW s \in Runs, ClientHello(s)
  PROVE  HandshakeInv'
<1>1. run[s].status = "hello_sent" /\ UNCHANGED <<now, hellos>>
  BY DEF ClientHello
<1>2. OwnHello(s, run[s], hellos)
  BY <1>1 DEF HandshakeInv, RunOk, Active
<1>3. CASE Failed(s)
  BY <1>1, <1>3, FailureKeeps
<1>4. ASSUME NEW said \in hellos, NEW h \in Arriving(said),
             verify_hello_signature(run[s].node, run[s].profile, h), NEW r,
             r = [status |-> "ct_sent", node |-> run[s].node, profile |-> run[s].profile,
                  hello |-> run[s].hello, peer_hello |-> h, ct |-> {encapsulate(s, k) : k \in h.pqc}],
             run' = [run EXCEPT ![s] = r]
      PROVE  HandshakeInv'
  <2>1. h \in hellos /\ h.profile = run[s].profile /\ allows(run[s].node, h)
    BY <1>4, AcceptedIsSent
  <2>2. /\ r.status = "ct_sent" /\ r.node = run[s].node /\ r.profile = run[s].profile
        /\ r.hello = run[s].hello /\ r.peer_hello = h /\ r.ct = {encapsulate(s, k) : k \in h.pqc}
    BY <1>4
  <2>3. RunOk(s, r, hellos)
    BY <1>2, <2>1, <2>2 DEF RunOk, OwnHello, PeerHello, Encapsulated
  <2>4. QED
    BY <1>1, <1>4, <2>2, <2>3, RunMoves
<1>5. QED
  BY <1>3, <1>4, Zenon DEF ClientHello

\* The responder takes a hello and answers with its own.
LEMMA ServerHelloKeeps ==
  ASSUME HandshakeInv, NEW s \in Runs, ServerHello(s)
  PROVE  HandshakeInv'
<1>1. run[s].status = "unused" /\ UNCHANGED now
  BY DEF ServerHello, Unused
<1>2. CASE Failed(s) /\ UNCHANGED hellos
  BY <1>1, <1>2, FailureKeeps
<1>3. ASSUME NEW node \in Nodes, NEW profile \in Profiles, NEW said \in hellos, NEW h \in Arriving(said),
             verify_hello_signature(node, profile, h),
             NEW own, own = build_hello(s, node, profile), NEW r,
             r = [status |-> "await_ct", node |-> node, profile |-> profile,
                  hello |-> own, peer_hello |-> h],
             run' = [run EXCEPT ![s] = r], hellos' = hellos \cup {own}
      PROVE  HandshakeInv'
  <2>1. h \in hellos /\ h.profile = profile /\ allows(node, h)
    BY <1>3, AcceptedIsSent
  <2>2. Genuine(own) /\ own.fresh = s /\ own.id = node.id /\ own.profile = profile
    BY <1>3, OwnIsGenuine
  <2>3. RunOk(s, r, hellos \cup {own}) /\ r.status # "unused"
    BY <1>3, <2>1, <2>2 DEF RunOk, OwnHello, PeerHello
  <2>4. QED
    BY <1>1, <1>3, <2>2, <2>3, RunSends, Zenon
<1>4. \/ Failed(s) /\ UNCHANGED hellos
      \/ \E node \in Nodes, profile \in Profiles, said \in hellos : \E h \in Arriving(said) :
           /\ verify_hello_signature(node, profile, h)
           /\ hellos' = hellos \cup {build_hello(s, node, profile)}
           /\ run' = [run EXCEPT ![s] = [status |-> "await_ct", node |-> node, profile |-> profile,
                                        hello |-> build_hello(s, node, profile), peer_hello |-> h]]
  BY Zenon DEF ServerHello
<1>5. \/ Failed(s) /\ UNCHANGED hellos
      \/ \E node \in Nodes, profile \in Profiles, said \in hellos : \E h \in Arriving(said) :
           \E own, r :
             /\ verify_hello_signature(node, profile, h)
             /\ own = build_hello(s, node, profile)
             /\ r = [status |-> "await_ct", node |-> node, profile |-> profile,
                     hello |-> own, peer_hello |-> h]
             /\ run' = [run EXCEPT ![s] = r] /\ hellos' = hellos \cup {own}
  BY <1>4, Zenon
<1>6. QED
  BY <1>2, <1>3, <1>5

\* verify_and_derive checks the peer's hello once more before it derives.
LEMMA SkewInWindow ==
  ASSUME NEW t \in Nat, now \in Nat, Skew(t) <= TsWindow
  PROVE  t \in now - TsWindow .. now + TsWindow
BY HandshakeAssumption DEF Skew

\* The keys an end derives are those of the two hellos it saw.
LEMMA DerivationKeeps ==
  ASSUME HandshakeInv, NEW s \in Runs, run[s].status \in Heard, NEW initiator \in BOOLEAN, NEW ct, NEW shared,
         verify_hello_signature(run[s].node, run[s].profile, run[s].peer_hello),
         shared = {Secret(c, IF initiator THEN c.to ELSE s) : c \in ct},
         initiator => ct = {encapsulate(s, k) : k \in run[s].peer_hello.pqc},
         run' = [run EXCEPT ![s] = Done(s, initiator, run[s].hello, run[s].peer_hello, shared, ct)],
         UNCHANGED <<now, hellos>>
  PROVE  HandshakeInv'
<1>1. OwnHello(s, run[s], hellos) /\ PeerHello(run[s], hellos)
  BY DEF HandshakeInv, RunOk, Active
<1>2. PICK r : r = Done(s, initiator, run[s].hello, run[s].peer_hello, shared, ct)
  BY Zenon
<1>3. /\ r.status = "done" /\ r.node = run[s].node /\ r.profile = run[s].profile
      /\ r.initiator = initiator /\ r.hello = run[s].hello /\ r.peer_hello = run[s].peer_hello
      /\ r.ct = ct /\ r.at = now
      /\ r.keys = SessionKeys(run[s].profile, initiator, run[s].hello, run[s].peer_hello, shared, ct)
  BY <1>2 DEF Done
<1>4. run[s].peer_hello.ts \in now - TsWindow .. now + TsWindow
  <2>1. run[s].peer_hello.ts \in Nat
    BY <1>1, GenuineIsOfARun, Zenon DEF PeerHello, HandshakeInv, HellosOk
  <2>2. Skew(run[s].peer_hello.ts) <= TsWindow
    BY DEF verify_hello_signature
  <2>3. QED
    BY <2>1, <2>2, SkewInWindow DEF HandshakeInv
<1>5. Derived(s, r)
  <2>1. shared = Shared(s, r)
    BY <1>3 DEF Shared
  <2>2. r.initiator => Encapsulated(s, r)
    BY <1>3 DEF Encapsulated
  <2>3. QED
    BY <1>3, <1>4, <2>1, <2>2, Zenon DEF Derived
<1>6. OwnHello(s, r, hellos) /\ PeerHello(r, hellos)
  BY <1>1, <1>3 DEF OwnHello, PeerHello
<1>7. RunOk(s, r, hellos)
  BY <1>3, <1>5, <1>6 DEF RunOk
<1>8. QED
  BY <1>2, <1>3, <1>7, RunMoves

\* The initiator verifies, encapsulates and derives.
LEMMA ClientDeriveKeeps ==
  ASSUME HandshakeInv, NEW s \in Runs, ClientDerive(s)
  PROVE  HandshakeInv'
<1>1. run[s].status \in Heard /\ Encapsulated(s, run[s]) /\ UNCHANGED <<now, hellos>>
  BY DEF ClientDerive, Heard, HandshakeInv, RunOk
<1>2. CASE Failed(s)
  BY <1>1, <1>2, FailureKeeps
<1>3. CASE ~Failed(s)
  <2>1. /\ verify_hello_signature(run[s].node, run[s].profile, run[s].peer_hello)
        /\ run' = [run EXCEPT ![s] = Done(s, TRUE, run[s].hello, run[s].peer_hello,
                                         {Secret(c, c.to) : c \in run[s].ct}, run[s].ct)]
    BY <1>3, Zenon DEF ClientDerive
  <2>2. PICK shared, ct :
          /\ ct = run[s].ct /\ shared = {Secret(c, c.to) : c \in ct}
          /\ run' = [run EXCEPT ![s] = Done(s, TRUE, run[s].hello, run[s].peer_hello, shared, ct)]
    BY <2>1, Zenon
  <2>3. shared = {Secret(c, IF TRUE THEN c.to ELSE s) : c \in ct}
    BY <2>2
  <2>4. QED
    BY <1>1, <2>1, <2>2, <2>3, DerivationKeeps, Zenon DEF Encapsulated
<1>4. QED
  BY <1>2, <1>3

\* The responder derives, with or without a ciphertext.
LEMMA ServerDerivesKeeps ==
  ASSUME HandshakeInv, NEW s \in Runs, ServerDerive(s) \/ ServerCiphertext(s)
  PROVE  HandshakeInv'
<1>1. run[s].status \in Heard /\ UNCHANGED <<now, hellos>>
  BY Zenon DEF ServerDerive, ServerCiphertext, Heard
<1>2. CASE Failed(s)
  BY <1>1, <1>2, FailureKeeps
<1>3. CASE ~Failed(s)
  <2>1. verify_hello_signature(run[s].node, run[s].profile, run[s].peer_hello)
    BY <1>3, Zenon DEF ServerDerive, ServerCiphertext
  <2>2. PICK shared, ct :
          /\ shared = {Secret(c, s) : c \in ct}
          /\ run' = [run EXCEPT ![s] = Done(s, FALSE, run[s].hello, run[s].peer_hello, shared, ct)]
    <3>1. CASE ServerDerive(s)
      <4>1. run' = [run EXCEPT ![s] = Done(s, FALSE, run[s].hello, run[s].peer_hello, {}, {})]
        BY <1>3, <3>1, Zenon DEF ServerDerive
      <4>2. {} = {Secret(c, s) : c \in {}}
        OBVIOUS
      <4>3. QED
        BY <4>1, <4>2, Zenon
    <3>2. CASE ServerCiphertext(s)
      <4>1. PICK ct : run' = [run EXCEPT ![s] =
                       Done(s, FALSE, run[s].hello, run[s].peer_hello, {decapsulate(s, ct)}, {ct})]
        BY <1>3, <3>2, Zenon DEF ServerCiphertext
      <4>2. {decapsulate(s, ct)} = {Secret(c, s) : c \in {ct}}
        BY DEF decapsulate
      <4>3. QED
        BY <4>1, <4>2, Zenon
    <3>3. QED
      BY <3>1, <3>2, Zenon
  <2>3. shared = {Secret(c, IF FALSE THEN c.to ELSE s) : c \in ct}
    BY <2>2
  <2>4. QED
    BY <1>1, <2>1, <2>2, <2>3, DerivationKeeps, Zenon
<1>4. QED
  BY <1>2, <1>3

\* HandshakeInv holds initially.
LEMMA HandshakeStarts ==
  ASSUME HandshakeInit PROVE HandshakeInv
<1>1. \A s \in Runs : run[s].status = "unused"
  BY DEF HandshakeInit, Unused
<1>2. QED
  BY <1>1 DEF HandshakeInit, HandshakeInv, HellosOk, RunOk, Active, Heard

\* HandshakeInv is kept by every step.
LEMMA HandshakeKeeps ==
  ASSUME HandshakeInv, [HandshakeNext]_handshakeVars PROVE HandshakeInv'
<1>1. CASE UNCHANGED handshakeVars
  BY <1>1 DEF handshakeVars, HandshakeInv, HellosOk
<1>2. CASE Tick
  BY <1>2 DEF Tick, HandshakeInv, HellosOk
<1>3. ASSUME NEW s \in Runs, Abort(s) PROVE HandshakeInv'
  BY <1>3, FailureKeeps DEF Abort
<1>4. QED
  BY <1>1, <1>2, <1>3, ConnectKeeps, ClientHelloKeeps, ClientDeriveKeeps, ServerHelloKeeps,
     ServerDerivesKeeps DEF HandshakeNext

(* --- what follows ---------------------------------------------------------- *)

\* What the invariant says of a run that has its keys.
LEMMA FinishedKnows ==
  ASSUME HandshakeInv, NEW s \in Finished
  PROVE  /\ s \in Runs
         /\ OwnHello(s, run[s], hellos) /\ PeerHello(run[s], hellos) /\ Derived(s, run[s])
BY DEF HandshakeInv, Finished, RunOk, Active, Heard

\* Pins are pairs of keys.
LEMMA AllowedIsPinned ==
  ASSUME NEW node \in Nodes, NEW h, allows(node, h)
  PROVE  [id |-> h.id, sign |-> h.sign] \in Pins[node] /\ h.id # node.id
<1>1. PICK pin \in Pins[node] : pin.id = h.id /\ pin.sign = h.sign
  BY DEF allows
<1>2. pin \in [id : Nat, sign : Nat] /\ pin.id # node.id
  BY <1>1, HandshakeAssumption
<1>3. pin = [id |-> h.id, sign |-> h.sign]
  BY <1>1, <1>2
<1>4. QED
  BY <1>1, <1>2, <1>3

\* HandshakeInv gives that peers are authentic.
LEMMA PeersAreAuthentic ==
  ASSUME HandshakeInv PROVE PeerAuthentic
BY FinishedKnows, AllowedIsPinned DEF PeerAuthentic, OwnHello, PeerHello, Derived

\* The transcript does not depend on whose point of view it is taken from.
LEMMA OrderedSides ==
  ASSUME NEW a, NEW b, NEW c, NEW d, a.id \in Nat, b.id \in Nat, c.id \in Nat, d.id \in Nat,
         a.id # b.id, c.id # d.id
  PROVE  Ordered(a, b) = Ordered(c, d) <=> (a = c /\ b = d) \/ (a = d /\ b = c)
BY DEF Ordered

\* One side of a transcript names its node and its fresh values.
LEMMA SideFields ==
  ASSUME NEW h
  PROVE  Side(h).id = h.id /\ Side(h).fresh = h.fresh
BY DEF Side

\* The key of a run for a direction.
RunKey(s, direction) ==
  [ecdh |-> {run[s].hello.fresh, run[s].peer_hello.fresh}, pq |-> Shared(s, run[s]),
   transcript |-> Transcript(run[s].profile, run[s].initiator, run[s].hello, run[s].peer_hello, run[s].ct),
   direction |-> direction]

Label(initiator) == IF initiator THEN "initiator" ELSE "responder"

\* The keys of a run are those of its transcript, by direction.
LEMMA KeysOfARun ==
  ASSUME HandshakeInv, NEW s \in Finished
  PROVE  /\ run[s].initiator \in BOOLEAN
         /\ run[s].keys.send = RunKey(s, Label(run[s].initiator))
         /\ run[s].keys.recv = RunKey(s, Label(~run[s].initiator))
<1>1. Derived(s, run[s])
  BY FinishedKnows
<1>2. /\ Direction(run[s].initiator)[1] = Label(run[s].initiator)
      /\ Direction(run[s].initiator)[2] = Label(~run[s].initiator)
      /\ run[s].initiator \in BOOLEAN
  BY <1>1 DEF Derived, Direction, Label
<1>3. run[s].keys = [send |-> RunKey(s, Direction(run[s].initiator)[1]),
                     recv |-> RunKey(s, Direction(run[s].initiator)[2])]
  BY <1>1 DEF Derived, SessionKeys, RunKey
<1>4. QED
  BY <1>2, <1>3

\* The two ends of a run are two nodes: nobody pins its own identity.
LEMMA EndsDiffer ==
  ASSUME HandshakeInv, NEW s \in Finished
  PROVE  /\ run[s].hello.id \in Nat /\ run[s].peer_hello.id \in Nat
         /\ run[s].hello.id # run[s].peer_hello.id
         /\ run[s].hello \in hellos /\ run[s].peer_hello \in hellos
         /\ run[s].hello.fresh = s
<1>1. OwnHello(s, run[s], hellos) /\ PeerHello(run[s], hellos)
  BY FinishedKnows
<1>2. run[s].peer_hello.id # run[s].node.id
  BY <1>1, AllowedIsPinned, Zenon DEF OwnHello, PeerHello
<1>3. run[s].hello.id \in Nat /\ run[s].peer_hello.id \in Nat
  BY <1>1, GenuineIsOfARun, Zenon DEF OwnHello, PeerHello, HandshakeInv, HellosOk
<1>4. QED
  BY <1>1, <1>2, <1>3 DEF OwnHello, PeerHello

\* What one transcript says of the two runs that computed it.
LEMMA SameTranscript ==
  ASSUME HandshakeInv, NEW x \in Finished, NEW y \in Finished,
         NEW d, NEW e, RunKey(x, d) = RunKey(y, e)
  PROVE  /\ d = e /\ run[x].profile = run[y].profile /\ run[x].ct = run[y].ct
         /\ run[x].initiator # run[y].initiator =>
              run[x].hello = run[y].peer_hello /\ run[x].peer_hello = run[y].hello
         /\ run[x].initiator = run[y].initiator => x = y
<1> DEFINE mx == run[x].hello
           px == run[x].peer_hello
           my == run[y].hello
           py == run[y].peer_hello
<1>1. /\ d = e
      /\ Transcript(run[x].profile, run[x].initiator, mx, px, run[x].ct)
           = Transcript(run[y].profile, run[y].initiator, my, py, run[y].ct)
  BY DEF RunKey
<1>2. /\ run[x].profile = run[y].profile /\ run[x].ct = run[y].ct
      /\ (IF run[x].initiator THEN mx.id ELSE px.id) = (IF run[y].initiator THEN my.id ELSE py.id)
      /\ Ordered(Side(mx), Side(px)) = Ordered(Side(my), Side(py))
  BY <1>1 DEF Transcript
<1>3. /\ mx.id \in Nat /\ px.id \in Nat /\ mx.id # px.id /\ mx \in hellos /\ px \in hellos /\ mx.fresh = x
      /\ my.id \in Nat /\ py.id \in Nat /\ my.id # py.id /\ my \in hellos /\ py \in hellos /\ my.fresh = y
  BY EndsDiffer
<1>4. run[x].initiator \in BOOLEAN /\ run[y].initiator \in BOOLEAN
  BY KeysOfARun
<1> HIDE DEF mx, px, my, py
<1>5. \A h \in {mx, px, my, py} : Side(h).id = h.id /\ Side(h).fresh = h.fresh
  BY SideFields
<1>6. \/ Side(mx) = Side(my) /\ Side(px) = Side(py)
      \/ Side(mx) = Side(py) /\ Side(px) = Side(my)
  <2>1. PICK a, b, m, n : a = Side(mx) /\ b = Side(px) /\ m = Side(my) /\ n = Side(py)
    OBVIOUS
  <2>2. /\ a.id \in Nat /\ b.id \in Nat /\ a.id # b.id
        /\ m.id \in Nat /\ n.id \in Nat /\ m.id # n.id
    BY <1>3, <1>5, <2>1
  <2>3. Ordered(a, b) = Ordered(m, n)
    BY <1>2, <2>1
  <2>4. QED
    BY <2>1, <2>2, <2>3, OrderedSides
<1>7. CASE run[x].initiator = run[y].initiator
  <2>1. Side(mx) = Side(my)
    BY <1>2, <1>3, <1>4, <1>5, <1>6, <1>7
  <2>2. x = y
    BY <1>3, <1>5, <2>1
  <2>3. QED
    BY <1>1, <1>2, <1>7, <2>2
<1>8. CASE run[x].initiator # run[y].initiator
  <2>1. Side(mx) = Side(py) /\ Side(px) = Side(my)
    BY <1>2, <1>3, <1>4, <1>5, <1>6, <1>8
  <2>2. mx.fresh = py.fresh /\ px.fresh = my.fresh
    BY <1>5, <2>1
  <2>3. mx = py /\ px = my
    BY <1>3, <2>2 DEF HandshakeInv, HellosOk
  <2>4. QED
    BY <1>1, <1>2, <1>8, <2>3 DEF mx, px, my, py
<1>9. QED
  BY <1>7, <1>8

\* The encapsulated secret is the one the other end decapsulates.
LEMMA MatchedShare ==
  ASSUME HandshakeInv, NEW x \in Finished, NEW y \in Finished, Matched(x, y), run[x].initiator
  PROVE  Shared(x, run[x]) = Shared(y, run[y])
<1>1. /\ run[x].initiator \in BOOLEAN /\ run[y].initiator \in BOOLEAN /\ run[x].initiator # run[y].initiator
      /\ run[x].ct = run[y].ct /\ run[x].peer_hello = run[y].hello
  BY KeysOfARun, Zenon DEF Matched
<1>2. run[y].hello.pqc \subseteq {y}
  <2>1. run[y].hello \in hellos /\ run[y].hello.fresh = y
    BY EndsDiffer
  <2>2. QED
    BY <2>1, GenuineIsOfARun, Zenon DEF HandshakeInv, HellosOk
<1>3. run[x].ct = {encapsulate(x, k) : k \in run[y].hello.pqc}
  BY <1>1, FinishedKnows DEF Derived, Encapsulated
<1>4. \A c \in run[x].ct : c.to = y
  BY <1>2, <1>3 DEF encapsulate
<1>5. /\ Shared(x, run[x]) = {Secret(c, c.to) : c \in run[x].ct}
      /\ Shared(y, run[y]) = {Secret(c, y) : c \in run[x].ct}
  BY <1>1, Zenon DEF Shared
<1>6. \A c \in run[x].ct : Secret(c, c.to) = Secret(c, y)
  BY <1>4
<1>7. QED
  BY <1>5, <1>6

\* Having seen the same exchange is symmetric.
LEMMA MatchedIsSymmetric ==
  ASSUME NEW x, NEW y, Matched(x, y) PROVE Matched(y, x)
BY DEF Matched

\* Two runs of one exchange compute the same keys.
LEMMA MatchedAgree ==
  ASSUME HandshakeInv, NEW x \in Finished, NEW y \in Finished, Matched(x, y), NEW d
  PROVE  RunKey(x, d) = RunKey(y, d)
<1>1. /\ run[x].initiator \in BOOLEAN /\ run[y].initiator \in BOOLEAN /\ run[x].initiator # run[y].initiator
      /\ run[x].profile = run[y].profile /\ run[x].ct = run[y].ct
      /\ run[x].peer_hello = run[y].hello /\ run[y].peer_hello = run[x].hello
  BY KeysOfARun DEF Matched
<1>2. Shared(x, run[x]) = Shared(y, run[y])
  BY <1>1, MatchedShare, MatchedIsSymmetric
<1>3. Ordered(Side(run[x].hello), Side(run[y].hello)) = Ordered(Side(run[y].hello), Side(run[x].hello))
  <2>1. /\ run[x].hello.id \in Nat /\ run[y].hello.id \in Nat /\ run[x].hello.id # run[y].hello.id
    BY <1>1, EndsDiffer
  <2>2. Side(run[x].hello).id = run[x].hello.id /\ Side(run[y].hello).id = run[y].hello.id
    BY SideFields
  <2>3. QED
    BY <2>1, <2>2, OrderedSides
<1>4. Transcript(run[x].profile, run[x].initiator, run[x].hello, run[x].peer_hello, run[x].ct)
        = Transcript(run[y].profile, run[y].initiator, run[y].hello, run[y].peer_hello, run[y].ct)
  <2>1. CASE run[x].initiator
    BY <1>1, <1>3, <2>1, Zenon DEF Transcript
  <2>2. CASE ~ run[x].initiator
    BY <1>1, <1>3, <2>2 DEF Transcript
  <2>3. QED
    BY <2>1, <2>2
<1>5. QED
  BY <1>1, <1>2, <1>4 DEF RunKey

\* HandshakeInv gives that keys pair up.
LEMMA KeysDoPairUp ==
  ASSUME HandshakeInv PROVE KeysPairUp
<1> SUFFICES ASSUME NEW x \in Finished, NEW y \in Finished
             PROVE  /\ run[x].keys.send = run[y].keys.recv <=> Matched(x, y)
                    /\ x # y => run[x].keys.send # run[y].keys.send
  BY DEF KeysPairUp
<1>1. /\ run[x].initiator \in BOOLEAN /\ run[y].initiator \in BOOLEAN
      /\ run[x].keys.send = RunKey(x, Label(run[x].initiator))
      /\ run[y].keys.send = RunKey(y, Label(run[y].initiator))
      /\ run[y].keys.recv = RunKey(y, Label(~run[y].initiator))
  BY KeysOfARun
<1>2. ASSUME run[x].keys.send = run[y].keys.recv PROVE Matched(x, y)
  <2>1. PICK d, e : /\ d = Label(run[x].initiator) /\ e = Label(~run[y].initiator)
                    /\ RunKey(x, d) = RunKey(y, e)
    BY <1>1, <1>2, Zenon
  <2>2. run[x].initiator # run[y].initiator
    BY <1>1, <2>1, SameTranscript DEF Label
  <2>3. QED
    BY <2>1, <2>2, SameTranscript DEF Matched
<1>3. ASSUME Matched(x, y) PROVE run[x].keys.send = run[y].keys.recv
  <2>1. Label(run[x].initiator) = Label(~run[y].initiator)
    BY <1>1, <1>3 DEF Matched, Label
  <2>2. QED
    BY <1>1, <1>3, <2>1, MatchedAgree
<1>4. ASSUME run[x].keys.send = run[y].keys.send PROVE x = y
  <2>1. PICK d, e : /\ d = Label(run[x].initiator) /\ e = Label(run[y].initiator)
                    /\ RunKey(x, d) = RunKey(y, e)
    BY <1>1, <1>4, Zenon
  <2>2. run[x].initiator = run[y].initiator
    BY <1>1, <2>1, SameTranscript DEF Label
  <2>3. QED
    BY <2>1, <2>2, SameTranscript
<1>5. QED
  BY <1>2, <1>3, <1>4

(***************************************************************************)
(* The records.  The inductive invariant says what the receiver's small    *)
(* state stands for: `last`, or `highest`, is the greatest accepted nonce, *)
(* and bit i of the bitmap is set exactly if nonce highest - 1 - i was     *)
(* accepted.                                                               *)
(***************************************************************************)

(* --- the window's word arithmetic --------------------------------------- *)
(* For every word width and every window size the array of machine words   *)
(* behaves as one bitmap.                                                  *)

(* Quotient and remainder are determined by their defining equation.       *)
LEMMA DivModUnique ==
  ASSUME NEW d \in Nat \ {0}, NEW q \in Int, NEW r \in 0 .. d - 1,
         NEW x \in Int, x = q * d + r
  PROVE  x \div d = q /\ x % d = r
<1> DEFINE Q == x \div d
           R == x % d
<1>1. Q \in Int /\ R \in 0 .. d - 1 /\ x = Q * d + R
  BY SMT
<1> HIDE DEF Q, R
<1>2. ASSUME Q < q PROVE FALSE
  <2>1. (q - Q - 1) * d >= 0 BY <1>1, <1>2
  <2> QED BY <2>1, <1>1
<1>3. ASSUME Q > q PROVE FALSE
  <2>1. (Q - q - 1) * d >= 0 BY <1>1, <1>3
  <2> QED BY <2>1, <1>1
<1>4. Q = q BY <1>1, <1>2, <1>3
<1>5. R = r BY <1>1, <1>4
<1> QED BY <1>4, <1>5 DEF Q, R

(* The same fact in the terms of the window: a split found by hand is the  *)
(* one the code computes.                                                  *)
LEMMA SplitUnique ==
  ASSUME NEW x \in Int, NEW q \in Int, NEW r \in 0 .. WordBits - 1,
         x = q * WordBits + r
  PROVE  WordOf(x) = q /\ BitOf(x) = r
BY DivModUnique, WindowAssumption DEF WordOf, BitOf

(* ReplayWindow::new always allocates at least one word.                   *)
LEMMA WordsPositive == Words \in Nat \ {0} /\ Size \in Nat \ {0}
<1>1. ClampedSize \in Nat /\ ClampedSize >= WordBits
  BY WindowAssumption DEF ClampedSize
<1> DEFINE n == ClampedSize + WordBits - 1
<1>2. n \in Nat /\ n >= WordBits
  BY <1>1, WindowAssumption
<1> HIDE DEF n
<1>3. n \div WordBits \in Int /\ n = (n \div WordBits) * WordBits + (n % WordBits)
      /\ n % WordBits \in 0 .. WordBits - 1
  BY <1>2, WindowAssumption, SMT
<1>4. Words \in Int /\ n = Words * WordBits + (n % WordBits)
  BY <1>3 DEF Words, n
<1>5. ASSUME Words <= 0 PROVE FALSE
  <2>1. (0 - Words) * WordBits >= 0 BY <1>4, <1>5, WindowAssumption
  <2> QED BY <2>1, <1>2, <1>3, <1>4, WindowAssumption
<1>6. Words >= 1 BY <1>4, <1>5
<1>7. (Words - 1) * WordBits >= 0 BY <1>4, <1>6, WindowAssumption
<1> QED BY <1>4, <1>6, <1>7, WindowAssumption DEF Size

(* Every index below Size falls into a word of the array, at a position of *)
(* that word, and is determined by the two.                                *)
LEMMA IndexSplit ==
  ASSUME NEW i \in 0 .. Size - 1
  PROVE  /\ WordOf(i) \in 0 .. Words - 1
         /\ BitOf(i) \in 0 .. WordBits - 1
         /\ i = WordOf(i) * WordBits + BitOf(i)
<1>1. WordOf(i) \in Int /\ BitOf(i) \in 0 .. WordBits - 1
      /\ i = WordOf(i) * WordBits + BitOf(i)
  BY WordsPositive, WindowAssumption, SMT DEF WordOf, BitOf
<1>2. ASSUME WordOf(i) < 0 PROVE FALSE
  <2>1. (0 - WordOf(i) - 1) * WordBits >= 0 BY <1>1, <1>2, WindowAssumption
  <2> QED BY <2>1, <1>1, WordsPositive, WindowAssumption
<1>3. ASSUME WordOf(i) >= Words PROVE FALSE
  <2>1. (WordOf(i) - Words) * WordBits >= 0 BY <1>1, <1>3, WordsPositive, WindowAssumption
  <2> QED BY <2>1, <1>1, WordsPositive, WindowAssumption DEF Size
<1> QED BY <1>1, <1>2, <1>3, WordsPositive

(* Setting a bit sets that bit and no other.                               *)
LEMMA MarkMarks ==
  ASSUME NEW bits \in Bitmap, NEW j \in 0 .. Size - 1, NEW i \in 0 .. Size - 1
  PROVE  /\ Mark(bits, j) \in Bitmap
         /\ Marked(Mark(bits, j), i) <=> i = j \/ Marked(bits, i)
<1>1. WordOf(i) \in 0 .. Words - 1 /\ BitOf(i) \in 0 .. WordBits - 1
      /\ i = WordOf(i) * WordBits + BitOf(i)
  BY IndexSplit
<1>2. WordOf(j) \in 0 .. Words - 1 /\ BitOf(j) \in 0 .. WordBits - 1
      /\ j = WordOf(j) * WordBits + BitOf(j)
  BY IndexSplit
<1>3. WordOf(i) = WordOf(j) /\ BitOf(i) = BitOf(j) => i = j
  BY <1>1, <1>2
<1>4. bits[WordOf(j)] \cup {BitOf(j)} \in Word
  BY <1>2 DEF Bitmap, Word
<1>5. Mark(bits, j) \in Bitmap
  BY <1>2, <1>4 DEF Mark, Bitmap
<1>6. Marked(Mark(bits, j), i) <=> i = j \/ Marked(bits, i)
  BY <1>1, <1>2, <1>3 DEF Mark, Marked, Bitmap
<1> QED BY <1>5, <1>6

(* The word-by-word shift with its carry is a shift of the whole bitmap.   *)
LEMMA ShiftDownShifts ==
  ASSUME NEW bits \in Bitmap, NEW gap \in 1 .. Size - 1, NEW i \in 0 .. Size - 1
  PROVE  /\ shift_down(bits, gap) \in Bitmap
         /\ Marked(shift_down(bits, gap), i) <=> i >= gap /\ Marked(bits, i - gap)
<1> DEFINE out == shift_down(bits, gap)
           qi == WordOf(i)
           ri == BitOf(i)
           qg == WordOf(gap)
           rg == BitOf(gap)
<1>1. qi \in 0 .. Words - 1 /\ ri \in 0 .. WordBits - 1 /\ i = qi * WordBits + ri
  BY IndexSplit
<1>2. qg \in 0 .. Words - 1 /\ rg \in 0 .. WordBits - 1 /\ gap = qg * WordBits + rg
  BY IndexSplit, WordsPositive
<1>3. out \in Bitmap
  BY DEF shift_down, Bitmap, Word, ShiftLeft, ShiftRight
<1>4. out[qi] = (IF qi >= qg THEN ShiftLeft(bits[qi - qg], rg) ELSE {})
                \cup (IF rg # 0 /\ qi >= qg + 1
                      THEN ShiftRight(bits[qi - qg - 1], WordBits - rg) ELSE {})
  BY <1>1 DEF shift_down
<1>5. \A w \in 0 .. Words - 1 : bits[w] \subseteq 0 .. WordBits - 1
  BY DEF Bitmap, Word
<1> HIDE DEF qi, ri, qg, rg, out
<1>6. CASE ri >= rg
  <2>1. i - gap = (qi - qg) * WordBits + (ri - rg)
    BY <1>1, <1>2, WindowAssumption, WordsPositive
  <2>2. i - gap \in Int /\ qi - qg \in Int /\ ri - rg \in 0 .. WordBits - 1
    BY <1>1, <1>2, <1>6, WindowAssumption, WordsPositive
  <2>3. WordOf(i - gap) = qi - qg /\ BitOf(i - gap) = ri - rg
    BY <2>1, <2>2, SplitUnique, Zenon
  <2>4. i >= gap <=> qi >= qg
    <3>1. ASSUME qi >= qg PROVE i >= gap
      <4>1. (qi - qg) * WordBits >= 0
        BY <3>1, <1>1, <1>2, WindowAssumption, WordsPositive
      <4> QED BY <4>1, <2>1, <2>2, WindowAssumption, WordsPositive, <1>1, <1>2
    <3>2. ASSUME qi < qg PROVE i < gap
      <4>1. (qg - qi - 1) * WordBits >= 0
        BY <3>2, <1>1, <1>2, WindowAssumption, WordsPositive
      <4> QED BY <4>1, <2>1, <2>2, WindowAssumption, WordsPositive, <1>1, <1>2
    <3> QED BY <3>1, <3>2, <1>1, <1>2, WordsPositive
  <2>5. ri \in out[qi] <=> qi >= qg /\ ri - rg \in bits[qi - qg]
    <3>1. ASSUME rg # 0, qi >= qg + 1
          PROVE ri \notin ShiftRight(bits[qi - qg - 1], WordBits - rg)
      <4>1. qi - qg - 1 \in 0 .. Words - 1
        BY <3>1, <1>1, <1>2, WordsPositive
      <4>2. ri + (WordBits - rg) \notin 0 .. WordBits - 1
        BY <1>1, <1>2, <1>6, WindowAssumption
      <4> QED BY <4>1, <4>2, <1>5 DEF ShiftRight
    <3> QED BY <3>1, <1>1, <1>4 DEF ShiftLeft
  <2> QED BY <1>3, <2>3, <2>4, <2>5 DEF Marked, out, qi, ri
<1>7. CASE ri < rg
  <2>1. i - gap = (qi - qg - 1) * WordBits + (ri - rg + WordBits)
    BY <1>1, <1>2, WindowAssumption, WordsPositive
  <2>2. i - gap \in Int /\ qi - qg - 1 \in Int /\ ri - rg + WordBits \in 0 .. WordBits - 1
    BY <1>1, <1>2, <1>7, WindowAssumption, WordsPositive
  <2>3. WordOf(i - gap) = qi - qg - 1 /\ BitOf(i - gap) = ri - rg + WordBits
    BY <2>1, <2>2, SplitUnique, Zenon
  <2>4. i >= gap <=> qi >= qg + 1
    <3>1. ASSUME qi >= qg + 1 PROVE i >= gap
      <4>1. (qi - qg - 1) * WordBits >= 0
        BY <3>1, <1>1, <1>2, WindowAssumption, WordsPositive
      <4> QED BY <4>1, <2>1, <2>2, WindowAssumption, WordsPositive, <1>1, <1>2
    <3>2. ASSUME qi < qg + 1 PROVE i < gap
      <4>1. (qg - qi) * WordBits >= 0
        BY <3>2, <1>1, <1>2, WindowAssumption, WordsPositive
      <4> QED BY <4>1, <2>1, <2>2, WindowAssumption, WordsPositive, <1>1, <1>2, <1>7
    <3> QED BY <3>1, <3>2, <1>1, <1>2, WordsPositive
  <2>5. ri \in out[qi] <=> qi >= qg + 1 /\ ri - rg + WordBits \in bits[qi - qg - 1]
    <3>1. ASSUME qi >= qg
          PROVE ri \notin ShiftLeft(bits[qi - qg], rg)
      <4>1. qi - qg \in 0 .. Words - 1
        BY <3>1, <1>1, <1>2, WordsPositive
      <4>2. ri - rg \notin 0 .. WordBits - 1
        BY <1>1, <1>2, <1>7, WindowAssumption
      <4> QED BY <4>1, <4>2, <1>5 DEF ShiftLeft
    <3>2. ri + (WordBits - rg) = ri - rg + WordBits /\ rg # 0
      BY <1>1, <1>2, <1>7, WindowAssumption
    <3> QED BY <3>1, <3>2, <1>1, <1>4 DEF ShiftRight
  <2> QED BY <1>3, <2>3, <2>4, <2>5 DEF Marked, out, qi, ri
<1> QED BY <1>1, <1>2, <1>6, <1>7, WindowAssumption

(* When the highest nonce grows by gap, bit i of the new bitmap is set     *)
(* exactly if it stands for the old highest nonce or for a nonce whose bit *)
(* was set before.  This covers a jump of exactly the window and beyond.   *)
LEMMA AdvanceMarks ==
  ASSUME NEW bits \in Bitmap, NEW gap \in Nat \ {0}, NEW i \in 0 .. Size - 1
  PROVE  /\ Advance(bits, gap) \in Bitmap
         /\ Marked(Advance(bits, gap), i)
              <=> i = gap - 1 \/ (i >= gap /\ Marked(bits, i - gap))
<1>1. ZeroBits \in Bitmap /\ ~Marked(ZeroBits, i)
  BY IndexSplit DEF ZeroBits, Bitmap, Word, Marked
<1>2. CASE gap > Size
  BY <1>1, <1>2, WordsPositive DEF Advance
<1>3. CASE gap = Size
  <2>1. Size - 1 = (Words - 1) * WordBits + (WordBits - 1)
    BY WindowAssumption, WordsPositive DEF Size
  <2>2. WordOf(Size - 1) = Words - 1 /\ BitOf(Size - 1) = WordBits - 1
    <3>1. Size - 1 \in Int /\ Words - 1 \in Int /\ WordBits - 1 \in 0 .. WordBits - 1
      BY WindowAssumption, WordsPositive
    <3> QED BY <2>1, <3>1, SplitUnique, Zenon
  <2>3. Advance(bits, gap) = Mark(ZeroBits, Size - 1)
    <3>1. Advance(bits, gap) = [ZeroBits EXCEPT ![Words - 1] = @ \cup {WordBits - 1}]
      BY <1>3, WordsPositive DEF Advance
    <3> QED BY <2>2, <3>1, Zenon DEF Mark
  <2>4. Size - 1 \in 0 .. Size - 1
    BY WordsPositive
  <2> QED BY <1>1, <1>3, <2>3, <2>4, MarkMarks, WordsPositive
<1>4. CASE gap < Size
  <2>1. gap \in 1 .. Size - 1 /\ gap - 1 \in 0 .. Size - 1
    BY <1>4, WordsPositive
  <2>2. Advance(bits, gap) = Mark(shift_down(bits, gap), gap - 1)
    BY <1>4, WordsPositive DEF Advance
  <2> QED BY <2>1, <2>2, MarkMarks, ShiftDownShifts
<1> QED BY <1>2, <1>3, <1>4, WordsPositive

(* --- the channel ---------------------------------------------------------- *)

Taken(acc, n) == n \in Nonces /\ acc[n] > 0

SenderInv ==
  /\ nonce = written
  /\ \A f \in sent : f.nonce = f.text /\ f.nonce < nonce

StrictInv ==
  /\ \A n \in Nonces : accepted[n] > 0 => n <= last
  /\ last # NoNonce => Taken(accepted, last)

WindowInv ==
  /\ \A n \in Nonces : accepted[n] > 0 => n <= window.highest
  /\ window.highest # NoNonce => Taken(accepted, window.highest)
  /\ \A i \in 0 .. Size - 1 : Marked(window.bits, i) <=> Taken(accepted, window.highest - 1 - i)

IInv ==
  /\ TypeOK
  /\ SenderInv
  /\ AtMostOnce
  /\ mode = "strict" => StrictInv
  /\ mode = "window" => WindowInv

-----------------------------------------------------------------------------
\* IInv holds initially.
LEMMA InitInv == Init => IInv
<1> SUFFICES ASSUME Init PROVE IInv
  OBVIOUS
<1>1. ZeroBits \in Bitmap /\ \A i \in 0 .. Size - 1 : ~Marked(ZeroBits, i)
  BY IndexSplit DEF ZeroBits, Bitmap, Word, Marked
<1>2. TypeOK
  BY <1>1, LimitAssumption DEF Init, TypeOK, NewWindow, Window, NoNonce
<1>3. \A i \in Int : ~Taken(accepted, i)
  BY DEF Init, Taken
<1>4. WindowInv
  BY <1>1, <1>3, WordsPositive DEF Init, WindowInv, NewWindow, NoNonce
<1> QED BY <1>2, <1>4 DEF IInv, Init, SenderInv, AtMostOnce, StrictInv, NoNonce

(* What Insert does to the window, in terms of nonces: the inserted nonce  *)
(* becomes tracked and no tracked nonce is lost.                           *)
LEMMA InsertTracks ==
  ASSUME NEW win \in Window, NEW n \in Nat, Fresh(win, n),
         NEW i \in 0 .. Size - 1,
         win.highest = NoNonce => \A j \in 0 .. Size - 1 : ~Marked(win.bits, j)
  PROVE  /\ Insert(win, n) \in Window
         /\ Insert(win, n).highest = IF n > win.highest THEN n ELSE win.highest
         /\ LET top == Insert(win, n).highest
                k   == top - 1 - i
            IN  Marked(Insert(win, n).bits, i)
                  <=> \/ k = n
                      \/ k = win.highest /\ win.highest # NoNonce
                      \/ k < win.highest /\ win.highest - 1 - k \in 0 .. Size - 1
                           /\ Marked(win.bits, win.highest - 1 - k)
<1>0. win.bits \in Bitmap /\ win.highest \in Nat \cup {-1}
  BY DEF Window, NoNonce
<1>1. CASE win.highest = NoNonce
  <2>1. Insert(win, n) = [highest |-> n, bits |-> win.bits]
    BY <1>1 DEF Insert, Window
  <2> QED BY <2>1, <1>0, <1>1, WordsPositive DEF Window, NoNonce
<1>2. CASE win.highest # NoNonce /\ n > win.highest
  <2> DEFINE gap == n - win.highest
  <2>1. gap \in Nat \ {0} /\ win.highest \in Nat
    BY <1>0, <1>2 DEF NoNonce
  <2>2. Insert(win, n) = [highest |-> n, bits |-> Advance(win.bits, gap)]
    BY <1>2 DEF Insert
  <2>3. /\ Advance(win.bits, gap) \in Bitmap
        /\ Marked(Advance(win.bits, gap), i)
             <=> i = gap - 1 \/ (i >= gap /\ Marked(win.bits, i - gap))
    BY <2>1, <1>0, AdvanceMarks
  <2>4. Insert(win, n) \in Window
    BY <2>2, <2>3 DEF Window
  <2>5. i - gap = win.highest - 1 - (n - 1 - i)
    BY <2>1, WordsPositive
  <2> QED BY <2>1, <2>2, <2>3, <2>4, <2>5, <1>2, WordsPositive
<1>3. CASE win.highest # NoNonce /\ ~(n > win.highest)
  <2> DEFINE off == win.highest - n
  <2>1. off \in 1 .. Size /\ win.highest \in Nat
    BY <1>0, <1>3, WordsPositive DEF Fresh, NoNonce
  <2>2. Insert(win, n) = [highest |-> win.highest, bits |-> Mark(win.bits, off - 1)]
    BY <1>3 DEF Insert, Window
  <2>3. off - 1 \in 0 .. Size - 1
    BY <2>1, WordsPositive
  <2>4. /\ Mark(win.bits, off - 1) \in Bitmap
        /\ Marked(Mark(win.bits, off - 1), i) <=> i = off - 1 \/ Marked(win.bits, i)
    BY <2>3, <1>0, MarkMarks
  <2>5. Insert(win, n) \in Window
    BY <2>1, <2>2, <2>4 DEF Window
  <2>6. win.highest - 1 - (win.highest - 1 - i) = i
    BY <2>1, WordsPositive
  <2> QED BY <2>1, <2>2, <2>4, <2>5, <2>6, <1>3, WordsPositive
<1> QED BY <1>1, <1>2, <1>3

(* A frame the receiver lets pass was not accepted before: the test agrees *)
(* with the whole history although it sees only the window.                *)
LEMMA PassedIsNew ==
  ASSUME IInv, NEW n \in Nonces, NotReplayed(n)
  PROVE  accepted[n] = 0
<1> USE DEF IInv
<1>0. accepted[n] \in Nat /\ n \in Nat
  BY DEF TypeOK, Nonces
<1>1. CASE mode = "strict"
  BY <1>0, <1>1 DEF NotReplayed, StrictInv, NoNonce, TypeOK, Nonces
<1>2. CASE mode = "window"
  <2>1. Fresh(window, n) /\ WindowInv /\ window.highest \in Nat \cup {-1}
    BY <1>2 DEF NotReplayed, TypeOK, Window, NoNonce
  <2>2. CASE window.highest = NoNonce \/ n > window.highest
    BY <2>1, <2>2, <1>0 DEF WindowInv, NoNonce
  <2>3. CASE window.highest # NoNonce /\ ~(n > window.highest)
    <3>1. window.highest - n - 1 \in 0 .. Size - 1
          /\ ~Marked(window.bits, window.highest - n - 1)
      BY <2>1, <2>3, <1>0, WordsPositive DEF Fresh, NoNonce
    <3>2. window.highest - 1 - (window.highest - n - 1) = n
      BY <2>1, <1>0
    <3> QED BY <3>1, <3>2, <2>1, <1>0 DEF WindowInv, Taken
  <2> QED BY <2>2, <2>3
<1> QED BY <1>1, <1>2 DEF TypeOK

(* Every step keeps the invariant; only DecryptOk moves the receiver.      *)
LEMMA NextInv == IInv /\ [Next]_vars => IInv'
<1> SUFFICES ASSUME IInv, [Next]_vars PROVE IInv'
  OBVIOUS
<1>1. CASE Encrypt
  <2>1. TypeOK'
    BY <1>1, LimitAssumption DEF Encrypt, IInv, TypeOK, Frame, Nonces, SenderInv
  <2>2. SenderInv'
    BY <1>1 DEF Encrypt, IInv, SenderInv, TypeOK, Frame, Nonces
  <2>3. UNCHANGED <<mode, last, window, accepted>>
    BY <1>1 DEF Encrypt
  <2> QED
    BY <2>1, <2>2, <2>3 DEF IInv, AtMostOnce, StrictInv, WindowInv, Taken
<1>2. ASSUME NEW frame \in sent, DecryptOk(frame) PROVE IInv'
  <2> DEFINE n == frame.nonce
  <2>1. n \in Nonces /\ n \in Nat
    BY DEF IInv, TypeOK, Frame, Nonces
  <2>2. NotReplayed(n) /\ Commit(n) /\ accepted' = [accepted EXCEPT ![n] = @ + 1]
        /\ UNCHANGED <<nonce, written, sent, mode>>
    BY <1>2 DEF DecryptOk
  <2> HIDE DEF n
  <2>3. accepted[n] = 0
    BY <2>1, <2>2, PassedIsNew
  <2>4. accepted' \in [Nonces -> Nat] /\ AtMostOnce' /\ SenderInv'
    BY <2>1, <2>2, <2>3 DEF IInv, TypeOK, AtMostOnce, SenderInv
  <2>5. \A m \in Int : Taken(accepted', m) <=> m = n \/ Taken(accepted, m)
    BY <2>1, <2>2, <2>3 DEF Taken, IInv, TypeOK
  <2>6. CASE mode = "strict"
    <3>1. last' = n /\ window' = window
      BY <2>2, <2>6 DEF Commit
    <3>2. TypeOK'
      BY <3>1, <2>1, <2>2, <2>4 DEF IInv, TypeOK
    <3>3. \A m \in Nonces : accepted'[m] > 0 => m <= n
      <4> TAKE m \in Nonces
      <4> SUFFICES ASSUME accepted'[m] > 0 PROVE m <= n
        OBVIOUS
      <4>1. m = n \/ accepted[m] > 0
        BY <2>1, <2>2 DEF IInv, TypeOK
      <4> QED BY <4>1, <2>1, <2>2, <2>6 DEF NotReplayed, IInv, StrictInv, TypeOK, NoNonce, Nonces
    <3>4. Taken(accepted', n)
      BY <2>1, <2>5
    <3> QED BY <2>2, <2>4, <2>6, <3>1, <3>2, <3>3, <3>4 DEF IInv, StrictInv
  <2>7. CASE mode = "window"
    <3>1. last' = last /\ window' = Insert(window, n) /\ Fresh(window, n)
      BY <2>2, <2>7 DEF Commit, NotReplayed
    <3>2. window \in Window /\ WindowInv /\ window.highest \in Nat \cup {-1}
      BY <2>7 DEF IInv, TypeOK, Window, NoNonce
    <3>3. window.highest = NoNonce => \A j \in 0 .. Size - 1 : ~Marked(window.bits, j)
      BY <3>2, WordsPositive DEF WindowInv, NoNonce, Taken, Nonces
    <3>4. 0 \in 0 .. Size - 1
      BY WordsPositive
    <3>5. Insert(window, n) \in Window
          /\ Insert(window, n).highest = IF n > window.highest THEN n ELSE window.highest
      BY <2>1, <3>1, <3>2, <3>3, <3>4, InsertTracks
    <3>6. TypeOK'
      BY <2>2, <2>4, <3>1, <3>5 DEF IInv, TypeOK
    <3>7. \A m \in Nonces : accepted'[m] > 0 => m <= window'.highest
      <4> TAKE m \in Nonces
      <4> SUFFICES ASSUME accepted'[m] > 0 PROVE m <= window'.highest
        OBVIOUS
      <4>1. m = n \/ accepted[m] > 0
        BY <2>1, <2>2 DEF IInv, TypeOK
      <4> QED BY <4>1, <2>1, <3>1, <3>2, <3>5 DEF WindowInv, Nonces
    <3>8. window'.highest # NoNonce => Taken(accepted', window'.highest)
      BY <2>1, <2>5, <3>1, <3>2, <3>5 DEF WindowInv, NoNonce
    <3>9. ASSUME NEW i \in 0 .. Size - 1
          PROVE  Marked(window'.bits, i) <=> Taken(accepted', window'.highest - 1 - i)
      <4> DEFINE k == window'.highest - 1 - i
      <4>1. Marked(window'.bits, i)
              <=> \/ k = n
                  \/ k = window.highest /\ window.highest # NoNonce
                  \/ k < window.highest /\ window.highest - 1 - k \in 0 .. Size - 1
                       /\ Marked(window.bits, window.highest - 1 - k)
        BY <2>1, <3>1, <3>2, <3>3, InsertTracks
      <4>2. k \in Int /\ window'.highest >= window.highest
        BY <2>1, <3>1, <3>2, <3>5, WordsPositive
      <4>3. k < window.highest =>
              window.highest - 1 - k \in 0 .. Size - 1
              /\ window.highest - 1 - (window.highest - 1 - k) = k
        BY <4>2, <3>2, <2>1, <3>1, <3>5, WordsPositive
      <4> HIDE DEF k
      <4>4. k < window.highest =>
              (Marked(window.bits, window.highest - 1 - k) <=> Taken(accepted, k))
        BY <4>3, <3>2 DEF WindowInv
      <4>5. window.highest # NoNonce => Taken(accepted, window.highest)
        BY <3>2 DEF WindowInv
      <4>6. Taken(accepted, k) => k <= window.highest /\ k \in Nat
        BY <3>2, LimitAssumption DEF WindowInv, Taken, Nonces
      <4>7. Marked(window'.bits, i) <=> k = n \/ Taken(accepted, k)
        BY <4>1, <4>2, <4>3, <4>4, <4>5, <4>6, <3>2 DEF NoNonce
      <4>8. Taken(accepted', k) <=> k = n \/ Taken(accepted, k)
        BY <2>5, <4>2
      <4>9. Taken(accepted', window'.highest - 1 - i) <=> Taken(accepted', k)
        BY DEF k, Taken
      <4> QED BY <4>7, <4>8, <4>9
    <3> QED BY <2>2, <2>4, <2>7, <3>6, <3>7, <3>8, <3>9, Zenon DEF IInv, WindowInv
  <2> QED BY <2>6, <2>7 DEF IInv, TypeOK
<1>3. CASE UNCHANGED vars
  BY <1>3 DEF vars, IInv, TypeOK, SenderInv, AtMostOnce, StrictInv, WindowInv, Taken
<1> QED
  BY <1>1, <1>2, <1>3 DEF Next, DecryptReplayed, DecryptDamaged

\* IInv holds in every behaviour.
LEMMA InvHolds == Spec => []IInv
BY InitInv, NextInv, PTL DEF Spec

-----------------------------------------------------------------------------
(* TypeOK holds of every state: counters stay within the nonce limit and   *)
(* the window keeps its shape through every shift.                         *)
THEOREM TypeCorrect == Spec => []TypeOK
<1>1. IInv => TypeOK
  BY DEF IInv
<1> QED BY <1>1, InvHolds, PTL

(* A nonce protects one plaintext only: SendCipher::encrypt refuses rather *)
(* than reuse a counter value.                                             *)
THEOREM NonceUnique == Spec => []NonceNeverReused
<1>1. IInv => NonceNeverReused
  BY DEF IInv, SenderInv, NonceNeverReused
<1> QED BY <1>1, InvHolds, PTL

(* No frame is returned twice, in either mode of the receiver.             *)
THEOREM NoReplay == Spec => []AtMostOnce
<1>1. IInv => AtMostOnce
  BY DEF IInv
<1> QED BY <1>1, InvHolds, PTL

(* The anti-replay test never refuses a frame that is new and, in window   *)
(* mode, at most Size behind the newest accepted one.                      *)
THEOREM FreshPass == Spec => []FreshNotRefused
<1>1. ASSUME IInv, NEW f \in sent, accepted[f.nonce] = 0,
             \A n \in Nonces : accepted[n] > 0 =>
               n < f.nonce + (IF mode = "window" THEN Size + 1 ELSE 0)
      PROVE  NotReplayed(f.nonce)
  <2> DEFINE c == f.nonce
  <2>1. c \in Nonces /\ c \in Nat
    BY <1>1 DEF IInv, TypeOK, Frame, Nonces
  <2> HIDE DEF c
  <2>2. accepted[c] = 0
    BY <1>1 DEF c
  <2>3. CASE mode = "strict"
    <3>1. last # NoNonce => last \in Nonces /\ accepted[last] > 0
      BY <1>1, <2>3 DEF IInv, StrictInv, Taken
    <3>2. last # NoNonce => last < c
      BY <3>1, <1>1, <2>1, <2>3 DEF c
    <3> QED BY <3>2, <2>1, <2>3, <1>1 DEF NotReplayed, c, IInv, TypeOK
  <2>4. CASE mode = "window"
    <3>1. WindowInv /\ window.highest \in Nat \cup {-1}
      BY <1>1, <2>4 DEF IInv, TypeOK, Window, NoNonce
    <3>2. CASE window.highest = NoNonce \/ c > window.highest
      BY <3>2, <2>4 DEF NotReplayed, Fresh, c
    <3>3. CASE window.highest # NoNonce /\ ~(c > window.highest)
      <4>1. window.highest \in Nonces /\ accepted[window.highest] > 0
        BY <3>1, <3>3 DEF WindowInv, Taken
      <4>2. window.highest < c + (Size + 1)
        BY <4>1, <1>1, <2>4 DEF c
      <4>3. window.highest # c
        BY <4>1, <2>2
      <4>4. window.highest - c - 1 \in 0 .. Size - 1
        BY <4>2, <4>3, <3>1, <3>3, <2>1, WordsPositive DEF NoNonce
      <4>5. window.highest - 1 - (window.highest - c - 1) = c
        BY <3>1, <2>1
      <4>6. ~Marked(window.bits, window.highest - c - 1)
        BY <4>4, <4>5, <3>1, <2>2 DEF WindowInv, Taken
      <4>7. Fresh(window, c)
        BY <4>4, <4>6, <3>1, <2>1, WordsPositive DEF Fresh
      <4> QED BY <4>7, <2>4 DEF NotReplayed, c
    <3> QED BY <3>2, <3>3
  <2> QED BY <2>3, <2>4, <1>1 DEF IInv, TypeOK
<1>2. IInv => FreshNotRefused
  BY <1>1 DEF FreshNotRefused
<1> QED BY <1>2, InvHolds, PTL

(* A strict receiver never returns a frame older than one it returned.     *)
THEOREM InOrder == Spec => StrictInOrder
<1>1. ASSUME IInv, [Next]_vars
      PROVE  [mode = "strict" =>
                \A n, m \in Nonces :
                  accepted'[n] > accepted[n] /\ accepted[m] > 0 => m < n]_vars
  <2> SUFFICES ASSUME mode = "strict", NEW n \in Nonces, NEW m \in Nonces,
                      accepted'[n] > accepted[n], accepted[m] > 0
               PROVE  m < n
    OBVIOUS
  <2>1. accepted[n] \in Nat
    BY <1>1 DEF IInv, TypeOK
  <2>2. accepted' # accepted
    BY <2>1
  <2>3. PICK frame \in sent : DecryptOk(frame)
    BY <1>1, <2>2 DEF Next, Encrypt, DecryptReplayed, DecryptDamaged, vars
  <2>4. frame.nonce = n
    BY <2>1, <2>3, <1>1 DEF DecryptOk, IInv, TypeOK
  <2> QED BY <2>3, <2>4, <1>1 DEF DecryptOk, NotReplayed, IInv, StrictInv, TypeOK, NoNonce, Nonces
<1> QED BY <1>1, InvHolds, PTL DEF Spec, StrictInOrder

(* The detailed channel implements the abstract one: a write is a write, a *)
(* successful decrypt is a Take, everything else stutters.                 *)
THEOREM Refinement == Spec => ImplementsAntiReplay
<1> DEFINE tk == {n \in Nonces : accepted[n] > 0}
           rc == IF mode = "window" THEN Size ELSE 0
<1>1. Init => Promise!Init
  BY WordsPositive DEF Init, Promise!Init
<1>2. ASSUME IInv, [Next]_vars
      PROVE  [Promise!Next]_<<written, tk, rc>>
  <2>1. CASE Encrypt
    BY <1>2, <2>1 DEF Encrypt, Promise!Next, Promise!Write, IInv, SenderInv
  <2>2. ASSUME NEW frame \in sent, DecryptOk(frame)
        PROVE  Promise!Next
    <3> DEFINE n == frame.nonce
    <3>1. n \in Nonces /\ n \in Nat /\ n \in 0 .. written - 1
      BY <1>2 DEF IInv, TypeOK, Frame, Nonces, SenderInv
    <3>2. NotReplayed(n) /\ accepted' = [accepted EXCEPT ![n] = @ + 1]
          /\ written' = written /\ mode' = mode
      BY <2>2 DEF DecryptOk
    <3> HIDE DEF n
    <3>3. accepted[n] = 0
      BY <1>2, <3>1, <3>2, PassedIsNew
    <3>4. n \notin tk /\ tk' = tk \cup {n} /\ rc' = rc
      BY <1>2, <3>1, <3>2, <3>3 DEF IInv, TypeOK
    <3>5. ASSUME NEW m \in tk PROVE m <= n + rc
      <4>1. CASE mode = "strict"
        BY <1>2, <3>1, <3>2, <3>5, <4>1
           DEF NotReplayed, IInv, StrictInv, TypeOK, NoNonce, Nonces
      <4>2. CASE mode = "window"
        <5>1. m \in Nat /\ m <= window.highest /\ window.highest \in Nat
          BY <1>2, <3>5, <4>2 DEF IInv, WindowInv, TypeOK, Window, NoNonce, Nonces
        <5>2. window.highest <= n + Size
          BY <3>1, <3>2, <4>2, <5>1, WordsPositive DEF NotReplayed, Fresh, NoNonce
        <5> QED BY <3>1, <4>2, <5>1, <5>2, WordsPositive
      <4> QED BY <1>2, <4>1, <4>2 DEF IInv, TypeOK
    <3>6. Promise!Take(n)
      BY <3>2, <3>4, <3>5 DEF Promise!Take
    <3> QED BY <3>1, <3>6 DEF Promise!Next
  <2>3. CASE UNCHANGED vars
    BY <2>3 DEF vars
  <2> QED BY <1>2, <2>1, <2>2, <2>3 DEF Next, DecryptReplayed, DecryptDamaged
<1> QED BY <1>1, <1>2, InvHolds, PTL DEF Spec, ImplementsAntiReplay, Promise!Spec
=============================================================================
