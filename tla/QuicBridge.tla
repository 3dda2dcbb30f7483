----------------------------- MODULE QuicBridge -----------------------------
(***************************************************************************)
(* The standards-QUIC data paths of `shph up` together with their          *)
(* environment: the peer, the TUN device and the operator.                 *)
(***************************************************************************)
EXTENDS StandardsTun

vars == <<adapter, bridge, direct>>

Init == AdapterInit /\ BridgeInit /\ DirectInit

Adapter(step) == mode \in Adapted /\ step /\ UNCHANGED direct

Next ==
  \/ Adapter(MainStep) \/ Adapter(LinesStep)
  \/ Adapter(TunReaderStep) \/ Adapter(TunWriterStep)
  \/ Adapter(SenderStep) \/ Adapter(ReceiverStep) \/ Adapter(ThreadJoined)
  \/ Adapter(Worker)
  \/ DirectMain \/ DirectReader \/ DirectWriter \/ DirectClosed
  \/ (Lost /\ UNCHANGED direct) \/ (Request /\ UNCHANGED direct)

\* Threads and futures are scheduled, the writer's device takes packets and
\* the timers that bound send_frame and connect fire.  Nothing is assumed of
\* the operator, of input, of the peer, or of packets to read.
Fairness ==
  /\ WF_vars(Adapter(MainStep))
  /\ WF_vars(Adapter(TunWriterStep))
  /\ WF_vars(Adapter(SenderStep) /\ sender \in {"run", "call"} /\ (sender = "call" \/ mode = "linux" \/ Stopping))
  /\ WF_vars(Adapter(ReceiverStep))
  /\ WF_vars(Adapter(ThreadJoined))
  /\ WF_vars(Adapter(Worker))
  /\ WF_vars(main = "lines" /\ requested /\ Adapter(LinesEnd))
  /\ WF_vars(DirectMain /\ main # "accepting")
  /\ WF_vars(ListenerStops)
  /\ WF_vars(DirectClosed)

Spec == Init /\ [][Next]_vars /\ Fairness

-----------------------------------------------------------------------------
(* Properties *)

Channel == INSTANCE OrderedChannel

\* Whatever the queues, refusals, timeouts and failures on the way, each
\* direction hands packets over at most once and in order: from the TUN
\* device to the connection, and from the connection to the TUN device.
DeliversInOrder == Channel!Spec

\* "The session remains gated until `activate` is called, allowing the caller
\* to enforce its local SHPH peer policy before the data plane starts": nothing
\* is read from or put on the connection before enforce_peer_policy has passed.
PolicyBeforeData ==
  main \in {"start", "connecting", "policy", "accepting", "negotiating"} /\ sessions = 0
    => sent = {} /\ got = <<>> /\ worker # "data"

\* Backpressure, not loss: while the adapter's data plane runs and the bridge
\* has not begun to stop, a packet taken from either end is delivered, was
\* refused by the other end, or waits in a bounded queue in between.
Contents(q) == {q[i] : i \in DOMAIN q}
InFlight == Contents(toTransport) \cup Contents(commands) \cup Contents(sending)
            \cup Contents(pending) \cup Contents(incoming) \cup Contents(toTun)
BackpressureLosesNothing ==
  mode \in Adapted /\ worker = "data" /\ ~stop /\ main \in {"bridge", "lines", "line_call"}
  /\ {tunReader, tunWriter} \subseteq {"run", "off"} /\ {sender, receiver} \cap {"joining", "done"} = {}
    => sent = (InFlight \ Failures) \cup Contents(got) \cup refused

\* The worker waits to report an error into a full channel whose receiver is
\* being dropped, by the thread that waits for the worker.
Parked == worker = "report" /\ receiving /\ Len(incoming) >= ReceiveCapacity /\ handles = {}

\* The loop comes to an end after a shutdown request; a bridge ends too when
\* its connection is gone, when one of its threads or tasks has stopped or
\* when the flag they share is set, unless the session's teardown is parked.
\* Not in the list is windows_tun_to_transport_loop, which an error of
\* send_frame ends without a word to the other thread.
Stopped == flag \/ {tunReader, tunWriter} \cap {"ok", "closed", "error"} # {}
           \/ receiver = "done" \/ (mode = "linux" /\ sender = "done")
Doomed == requested \/ (main = "bridge" /\ (conn = "lost" \/ Stopped))
BridgeEnds == Doomed ~> (main \in {"ended", "accepting"} \/ Parked)

\* README.md of the repository says of this bridge that "shutdown and
\* transport failures propagate": once the operator asks, the worker thread of
\* the session comes to an end.
WorkerStopsAfterShutdown == requested ~> worker \in {"none", "exited"}
=============================================================================
