---------------------------- MODULE BlockingQuic ----------------------------
(***************************************************************************)
(* The blocking adapter over a standards-QUIC connection                   *)
(* (BlockingStandardsQuicSession, shph-transport/src/standards_quic.rs).   *)
(* A private worker thread sets the connection up, waits to be activated,  *)
(* and then runs two futures, one that takes send commands and one that    *)
(* reads datagrams; the caller's threads talk to it over four bounded      *)
(* channels.  A sender and a receiver handle share the worker: whoever     *)
(* drops the last one stops it and joins it.                               *)
(*                                                                         *)
(* The module gives the state, the worker's steps and what the caller's    *)
(* threads do to the adapter; the modules that use it supply the threads.  *)
(* Packets and datagrams are numbered by direction: "tx" in the order they *)
(* were read from the TUN device, "rx" in the order the connection yielded *)
(* them.                                                                   *)
(***************************************************************************)
EXTENDS Naturals, Sequences, FiniteSets

CONSTANTS
  CommandCapacity,  \* BLOCKING_QUIC_COMMAND_CAPACITY
  ReceiveCapacity,  \* BLOCKING_QUIC_RECEIVE_CAPACITY
  MaxDatagrams      \* bound: datagrams the connection yields

ASSUME BlockingAssumption ==
  /\ CommandCapacity \in Nat \ {0}
  /\ ReceiveCapacity \in Nat \ {0}
  /\ MaxDatagrams \in Nat

VARIABLES
  conn,        \* the QUIC connection: "none", "open" or "lost"
  worker,      \* the worker thread
  startup,     \* the startup channel: "empty", "ok" or "err"
  activation,  \* the activation sender: "held", "sent" or "dropped"
  stop,        \* the watch channel shutdown_tx
  commands,    \* command_tx .. command_rx
  sending,     \* the command send_datagram_wait is working on, as a sequence
  reply,       \* the reply channel of the one send_frame call in progress
  incoming,    \* incoming_tx .. incoming_rx
  pending,     \* the receiver future's `pending`, as a sequence
  receiving,   \* incoming_rx has not been dropped
  handles,     \* the handles that hold the Arc
  sent, got,   \* history: packets offered and packets delivered, as messages
  refused      \* history: packets an end refused and the bridge went on without

connection == <<conn, sent, got, refused>>
setup      == <<startup, activation>>
outbound   == <<commands, sending, reply>>
inbound    == <<incoming, pending>>
shared     == <<stop, receiving, handles>>
adapter    == <<conn, worker, setup, outbound, inbound, shared, sent, got, refused>>

Message(chan, n) == [chan |-> chan, n |-> n]
Handed(chan)     == {m \in sent : m.chan = chan}

\* What the receiver yields in place of a datagram: the error of the read, or
\* ConnectionClosed.
Failure(how) == Message(how, 0)
Failures     == {Failure("transport"), Failure("closed")}

AdapterInit ==
  /\ conn = "none"
  /\ worker = "none"
  /\ startup = "empty"
  /\ activation = "held"
  /\ stop = FALSE
  /\ commands = <<>>
  /\ sending = <<>>
  /\ reply = "none"
  /\ incoming = <<>>
  /\ pending = <<>>
  /\ receiving = TRUE
  /\ handles = {}
  /\ sent = {}
  /\ got = <<>>
  /\ refused = {}

-----------------------------------------------------------------------------
(* The connection, as the code sees Quinn *)

\* The peer closes, the path dies or the idle timer fires.
ConnectionLost ==
  /\ conn = "open"
  /\ conn' = "lost"
  /\ UNCHANGED <<worker, setup, outbound, inbound, shared, sent, got, refused>>

-----------------------------------------------------------------------------
(* Setting up *)

\* connect, up to the wait for the worker.
connect ==
  /\ worker = "none"
  /\ worker' = "setup"
  /\ UNCHANGED <<connection, setup, outbound, inbound, shared>>

\* connect_inner under its timeout: the QUIC connection and then the SHPH
\* handshake on its first stream, and the worker's report of them.
connect_inner ==
  /\ worker = "setup"
  /\ \/ conn' = "open" /\ startup' = "ok" /\ worker' = "ready"
     \/ UNCHANGED conn /\ startup' = "err" /\ worker' = "exited"
  /\ UNCHANGED <<activation, outbound, inbound, shared, sent, got, refused>>

\* The two handles and the activation sender, once connect has returned.
SessionEstablished ==
  /\ startup = "ok"
  /\ handles' = {"sender", "receiver"}
  /\ UNCHANGED <<worker, connection, setup, outbound, inbound, stop, receiving>>

\* A slip: the worker is told to stop while the activation sender is kept.
StartupTimeoutHolds ==
  /\ startup = "empty"
  /\ stop' = TRUE
  /\ UNCHANGED <<worker, connection, setup, outbound, inbound, receiving, handles>>

\* The startup wait ran out: the worker is told to stop and the activation
\* sender is dropped, so that the worker gets past both of its waits.
StartupTimeout ==
  /\ startup = "empty"
  /\ stop' = TRUE
  /\ activation' = "dropped"
  /\ UNCHANGED <<worker, connection, startup, outbound, inbound, receiving, handles>>

\* activate, which can be called once.
activate ==
  /\ activation = "held"
  /\ activation' = "sent"
  /\ UNCHANGED <<worker, connection, startup, outbound, inbound, shared>>

\* A slip: the worker does not wait to be released.
WorkerNotHeld ==
  /\ worker = "ready"
  /\ worker' = "data"
  /\ UNCHANGED <<connection, setup, outbound, inbound, shared>>

\* activation_rx.recv: the data plane starts, or the endpoint is closed.
WorkerReleased ==
  /\ worker = "ready"
  /\ activation # "held"
  /\ worker' = IF activation = "sent" THEN "data" ELSE "exited"
  /\ conn' = IF activation = "sent" THEN conn ELSE "lost"
  /\ UNCHANGED <<sent, got, refused, setup, outbound, inbound, shared>>

-----------------------------------------------------------------------------
(* The data plane: the two futures of run_blocking_quic_data_plane *)

\* A reply goes to the call that waits for it; a call that timed out has
\* dropped its end.
Answer(result) == IF reply = "wait" THEN result ELSE reply

\* select! took the branch of one future: the other is dropped with it, and
\* so are command_rx with the queued commands and the datagram in `pending`.
\* An error is still to be reported.
EndDataPlane(failed) ==
  /\ worker' = IF failed THEN "report" ELSE "close"
  /\ commands' = <<>>
  /\ sending' = <<>>
  /\ pending' = <<>>

\* run_blocking_quic_sender takes a command.
SenderTakes ==
  /\ worker = "data" /\ ~stop
  /\ sending = <<>> /\ commands # <<>>
  /\ sending' = <<Head(commands)>>
  /\ commands' = Tail(commands)
  /\ UNCHANGED <<worker, connection, setup, reply, inbound, shared>>

\* send_datagram_wait completes: the datagram is on the connection, or it is
\* too large for the peer's current maximum, which only the caller hears of.
SenderCompletes ==
  /\ worker = "data" /\ sending # <<>> /\ conn = "open"
  /\ \/ reply' = Answer("ok") /\ got' = Append(got, Head(sending)) /\ UNCHANGED refused
     \/ reply' = Answer("protocol") /\ refused' = refused \cup {Head(sending)} /\ UNCHANGED got
  /\ sending' = <<>>
  /\ UNCHANGED <<worker, conn, sent, setup, commands, inbound, shared>>

\* send_datagram_wait fails: the caller and then the session hear of it.
SenderFails ==
  /\ worker = "data" /\ sending # <<>> /\ conn = "lost"
  /\ reply' = Answer("transport")
  /\ EndDataPlane(TRUE)
  /\ UNCHANGED <<connection, setup, incoming, shared>>

\* Either future sees the watch channel set.
DataPlaneStops ==
  /\ worker = "data" /\ stop
  /\ reply' = Answer("closed")
  /\ EndDataPlane(FALSE)
  /\ UNCHANGED <<connection, setup, incoming, shared>>

\* run_blocking_quic_receiver has nothing pending and reads a datagram, or
\* learns that there will be none.
ReceiverReads ==
  /\ worker = "data" /\ ~stop /\ pending = <<>>
  /\ \/ /\ conn = "open" /\ Cardinality(Handed("rx")) < MaxDatagrams
        /\ LET m == Message("rx", Cardinality(Handed("rx")))
           IN  pending' = <<m>> /\ sent' = sent \cup {m}
     \/ /\ conn = "lost"
        /\ pending' = <<Failure("transport")>> /\ UNCHANGED sent
  /\ UNCHANGED <<worker, conn, got, refused, setup, outbound, incoming, shared>>

\* A slip: a datagram that finds the channel full is dropped.
ReceiverPushesOrDrops ==
  /\ worker = "data" /\ ~stop /\ pending # <<>> /\ receiving
  /\ incoming' = IF Len(incoming) < ReceiveCapacity THEN incoming \o pending ELSE incoming
  /\ pending' = <<>>
  /\ UNCHANGED <<worker, connection, setup, outbound, shared>>

\* A slip: what was handed over stays pending.
ReceiverKeepsPending ==
  /\ worker = "data" /\ ~stop /\ pending # <<>>
  /\ receiving /\ Len(incoming) < ReceiveCapacity
  /\ incoming' = incoming \o pending
  /\ UNCHANGED <<worker, connection, setup, outbound, pending, shared>>

\* try_send of what is pending: a full channel leaves it pending, a failure
\* that was handed over or a dropped receiver ends the data plane.
ReceiverPushes ==
  /\ worker = "data" /\ ~stop /\ pending # <<>>
  /\ receiving => Len(incoming) < ReceiveCapacity
  /\ IF receiving /\ Head(pending) \notin Failures
     THEN /\ incoming' = incoming \o pending
          /\ pending' = <<>>
          /\ UNCHANGED <<worker, outbound>>
     ELSE /\ incoming' = IF receiving THEN incoming \o pending ELSE incoming
          /\ EndDataPlane(FALSE)
          /\ reply' = Answer("closed")
  /\ UNCHANGED <<connection, setup, shared>>

\* receive_error_tx.send, which blocks while the channel is full.
WorkerReports ==
  /\ worker = "report"
  /\ receiving => Len(incoming) < ReceiveCapacity
  /\ incoming' = IF receiving THEN Append(incoming, Failure("closed")) ELSE incoming
  /\ worker' = "close"
  /\ UNCHANGED <<connection, setup, outbound, pending, shared>>

\* endpoint.close and at most a second of wait_idle.
WorkerCloses ==
  /\ worker = "close"
  /\ worker' = "exited"
  /\ conn' = "lost"
  /\ UNCHANGED <<sent, got, refused, setup, outbound, inbound, shared>>

WorkerStep ==
  \/ connect_inner \/ WorkerReleased
  \/ SenderTakes \/ SenderCompletes \/ SenderFails \/ DataPlaneStops
  \/ ReceiverReads \/ ReceiverPushes
  \/ WorkerReports \/ WorkerCloses

-----------------------------------------------------------------------------
(* What the caller's threads do *)

\* command_rx is dropped when the data plane ends.
CommandsClosed == worker \in {"report", "close", "exited"}

\* send_frame queues its command; the channel blocks while it is full.
QueueCommand(p) ==
  /\ reply = "none"
  /\ ~CommandsClosed /\ Len(commands) < CommandCapacity
  /\ commands' = Append(commands, p)
  /\ reply' = "wait"
  /\ UNCHANGED sending

\* The result of the call in progress is taken, or the wait for it runs out.
SendReturns(result) ==
  /\ reply # "none"
  /\ result = IF reply = "wait" THEN "timeout" ELSE reply
  /\ reply' = "none"
  /\ UNCHANGED <<commands, sending>>

\* recv_frame: the next datagram or failure; the channel is closed once the
\* worker is gone and nothing is left in it.
recv_frame(item) ==
  \/ /\ incoming # <<>>
     /\ item = Head(incoming)
     /\ incoming' = Tail(incoming)
  \/ /\ incoming = <<>> /\ worker = "exited"
     /\ item = Failure("closed")
     /\ UNCHANGED incoming

\* A handle is dropped, with the receiver's end of `incoming` after its share
\* of the Arc.  BlockingQuicShared::drop runs in the thread that drops the
\* last share: that thread now has to wait for the worker.
DropHandle(h) ==
  /\ handles' = handles \ {h}
  /\ stop' = (stop \/ handles = {h})
  /\ receiving' = (receiving /\ (h # "receiver" \/ handles = {h}))

\* The whole session is dropped by one thread: the activation sender first,
\* then the sender, then the receiver with the last share.
DropSession ==
  /\ activation' = IF activation = "held" THEN "dropped" ELSE activation
  /\ handles' = {}
  /\ stop' = TRUE
  /\ UNCHANGED receiving

\* The join in BlockingQuicShared::drop returns; `incoming` can go now.
WorkerJoined == worker = "exited" /\ receiving' = FALSE
=============================================================================
