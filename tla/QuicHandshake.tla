---------------------------- MODULE QuicHandshake ----------------------------
(***************************************************************************)
(* The handshake of the experimental QUIC carrier (shph-transport lib.rs,  *)
(* quic_handshake_client_with_profile_timeout and                          *)
(* quic_handshake_server_on_socket_with_profile): two hellos and a         *)
(* ciphertext in single UDP datagrams, which are lost, duplicated, delayed *)
(* and mixed with others.  The client repeats its hello when what it heard *)
(* was of no use; the server answers the first good hello once.            *)
(*                                                                         *)
(* What verify_hello_signature looks at is module Handshake's; here a      *)
(* hello is good when it is of the pinned peer, of this run (1) or of an   *)
(* earlier one (0) that is still fresh.  Datagrams stay in `air` for ever: *)
(* each is taken any number of times, or never.  A datagram the server's   *)
(* rate limiter drops is like one that was lost.                           *)
(***************************************************************************)
EXTENDS Naturals

CONSTANTS QUIC_HANDSHAKE_ATTEMPTS,
          MAX_QUIC_INVALID_DATAGRAMS   \* MAX_QUIC_INVALID_DATAGRAMS_PER_RECV

VARIABLES
  initiator,   \* the client's call, see FreshInitiator
  responder,   \* the server's call, see FreshResponder
  air          \* the datagrams

helloVars == <<initiator, responder, air>>

Hello(who, run) == [kind |-> "hello", who |-> who, run |-> run]
Ciphertext(run, for) == [kind |-> "ciphertext", run |-> run, for |-> for]
Nothing == [kind |-> "nothing"]
Garbage == [kind |-> "garbage"]

Datagram(from, to, body) == [from |-> from, to |-> to, body |-> body]

\* What else may be about: another peer's and a damaged datagram, and what
\* is left of an earlier run of either end.
Strays ==
  {Datagram("elsewhere", "client", Garbage),
   Datagram("server", "client", Garbage),
   Datagram("server", "client", Hello("other", 1)),
   Datagram("elsewhere", "server", Hello("other", 1)),
   Datagram("elsewhere", "server", Ciphertext(1, Hello("other", 1))),
   Datagram("client", "server", Hello("client", 0)),
   Datagram("client", "server", Ciphertext(0, Hello("server", 0))),
   Datagram("server", "client", Hello("server", 0))}

FreshInitiator(pqc) == [pc |-> "send", pqc |-> pqc, tries |-> 0, peer |-> Nothing, sent |-> Nothing]
FreshResponder(pqc) ==
  [pc |-> "listen", pqc |-> pqc, peer |-> Nothing, addr |-> "none", invalid |-> 0, got |-> Nothing]

QuicHandshakeInit(on) ==
  /\ \E pqc \in IF on THEN BOOLEAN ELSE {FALSE} :
       /\ initiator = [FreshInitiator(pqc) EXCEPT !.pc = IF on THEN @ ELSE "off"]
       /\ responder = [FreshResponder(pqc) EXCEPT !.pc = IF on THEN @ ELSE "off"]
  /\ air \in IF on THEN SUBSET Strays ELSE {{}}

To(end) == {d \in air : d.to = end}

(* --- the client -------------------------------------------------------------- *)

\* write_and_wait_quic_hello sends; after the last attempt, or past the
\* deadline, the call fails.
SendHello ==
  /\ initiator.pc = "send"
  /\ \/ /\ initiator.tries < QUIC_HANDSHAKE_ATTEMPTS
        /\ initiator' = [initiator EXCEPT !.pc = "wait", !.tries = @ + 1]
        /\ air' = air \cup {Datagram("client", "server", Hello("client", 1))}
     \/ initiator' = [initiator EXCEPT !.pc = "failed"] /\ UNCHANGED air
  /\ UNCHANGED responder

\* ... and takes one datagram, whatever it is.  A hello from the server's
\* address that does not verify ends the call; the rest costs an attempt.
HearHello ==
  /\ initiator.pc = "wait"
  /\ \E d \in To("client") :
       LET useless == d.from # "server" \/ d.body.kind # "hello"
           ct == Ciphertext(1, d.body)
       IN CASE useless ->
                 initiator' = [initiator EXCEPT !.pc = "send"] /\ UNCHANGED air
            [] ~useless /\ d.body.who # "server" ->
                 initiator' = [initiator EXCEPT !.pc = "failed"] /\ UNCHANGED air
            [] OTHER ->
                 /\ initiator' = [initiator EXCEPT !.pc = "session", !.peer = d.body,
                                                   !.sent = IF initiator.pqc THEN ct ELSE Nothing]
                 /\ air' = IF initiator.pqc THEN air \cup {Datagram("client", "server", ct)} ELSE air
  /\ UNCHANGED responder

\* The deadline passes in recv_from: there is no time left to try again.
ClientTimesOut ==
  /\ initiator.pc = "wait"
  /\ initiator' = [initiator EXCEPT !.pc = "failed"]
  /\ UNCHANGED <<responder, air>>

(* --- the server -------------------------------------------------------------- *)

\* The loop over read_quic_datagram ends with the first good hello.
AcceptHello ==
  /\ responder.pc = "listen"
  /\ \E d \in To("server") :
       /\ d.body.kind = "hello" /\ d.body.who = "client"
       /\ responder' = [responder EXCEPT !.pc = "reply", !.peer = d.body, !.addr = d.from]
  /\ UNCHANGED <<initiator, air>>

ReplyHello ==
  /\ responder.pc = "reply"
  /\ responder' = [responder EXCEPT !.pc = IF responder.pqc THEN "ciphertext" ELSE "session"]
  /\ air' = air \cup {Datagram("server", responder.addr, Hello("server", 1))}
  /\ UNCHANGED initiator

\* A slip: the sender of the ciphertext is not looked at.
Expected_from_anyone(d) == d.body.kind = "ciphertext"

\* Only a ciphertext has a ciphertext's length.
Expected(d) == d.from = responder.addr /\ d.body.kind = "ciphertext"

read_quic_pq_ct ==
  /\ responder.pc = "ciphertext"
  /\ \E d \in To("server") :
       responder' =
         IF Expected(d) THEN [responder EXCEPT !.pc = "session", !.got = d.body]
         ELSE [responder EXCEPT !.invalid = @ + 1,
                                !.pc = IF responder.invalid + 1 >= MAX_QUIC_INVALID_DATAGRAMS
                                       THEN "failed" ELSE "ciphertext"]
  /\ UNCHANGED <<initiator, air>>

ServerTimesOut ==
  /\ responder.pc \in {"listen", "reply", "ciphertext"}
  /\ responder' = [responder EXCEPT !.pc = "failed"]
  /\ UNCHANGED <<initiator, air>>

\* The network: what the client sends reaches the server from another address
\* as well, which its sender was moved to.
Readdressed ==
  /\ \E d \in To("server") :
       d.from = "client" /\ air' = air \cup {[d EXCEPT !.from = "elsewhere"]}
  /\ initiator.pc # "off"
  /\ UNCHANGED <<initiator, responder>>

QuicHandshakeNext ==
  \/ SendHello \/ HearHello \/ ClientTimesOut
  \/ AcceptHello \/ ReplyHello \/ read_quic_pq_ct \/ ServerTimesOut
  \/ Readdressed

(***************************************************************************)
(* Unless an end has taken a datagram of an earlier run, two ends that     *)
(* hold a session hold it with each other: the server heard the client at  *)
(* the client's address, and both derive their keys from the same hellos   *)
(* and the same ciphertext, whatever was lost, repeated, readdressed or    *)
(* mixed in.  A server that heard the client at its address and has a      *)
(* ciphertext is never alone with its session; one that heard it from      *)
(* another address may be, as it takes that address on trust.              *)
(***************************************************************************)
HandshakeAgrees ==
  LET late == \E body \in {initiator.peer, responder.peer, responder.got} :
                body.kind \in {"hello", "ciphertext"} /\ body.run = 0
  IN responder.pc = "session" /\ ~late =>
       /\ responder.peer = Hello("client", 1)
       /\ responder.pqc /\ responder.addr = "client" => initiator.pc = "session"
       /\ initiator.pc = "session" => /\ responder.addr = "client"
                                     /\ initiator.peer = Hello("server", 1)
                                     /\ responder.got = initiator.sent
=============================================================================
