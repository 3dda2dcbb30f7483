-------------------------- MODULE ConnectionProofs --------------------------
(***************************************************************************)
(* What holds of module Connection.  The modules it extends state, for the *)
(* command that dials, the stream it gets and the key exchange, an         *)
(* inductive invariant and that the steps of their own component keep it;  *)
(* here each is carried over to the steps of the whole.                    *)
(***************************************************************************)
EXTENDS Connection, DialProofs, SessionProofs

(* --- the command that dials ------------------------------------------------ *)

\* A step of the whole is a step of the dialler, or the dialler rests.
LEMMA ConnectionDials ==
  ASSUME [ConnectionNext]_connectionVars
  PROVE  [DialNext]_dialVars
BY DEF ConnectionNext, connectionVars

(***************************************************************************)
(* A payload is sent, taken or acknowledged, and a session is used, only   *)
(* with a peer that was pinned at some moment after its handshake, for     *)
(* every profile, number of candidates and change of the pin               *)
(* (enforce_peer_policy).                                                  *)
(***************************************************************************)
THEOREM PeerIsPinned == ConnectionSpec => []PinnedWhenUsed
<1>1. ConnectionInit => PinKnown
  BY DialBegins DEF ConnectionInit
<1>2. PinKnown /\ [ConnectionNext]_connectionVars => PinKnown'
  BY PinKept, ConnectionDials
<1>3. PinKnown => PinnedWhenUsed
  BY DEF PinKnown, PinnedWhenUsed
<1>4. QED
  BY <1>1, <1>2, <1>3, PTL DEF ConnectionSpec

(***************************************************************************)
(* A payload is delivered at most once however many candidates and rounds  *)
(* are tried, and a success over standards QUIC means that it was          *)
(* (send_snap_payload_with_plan, snap_attempt_error_is_retryable).         *)
(***************************************************************************)
THEOREM PayloadOnce == ConnectionSpec => []PayloadAtMostOnce
<1>1. ConnectionInit => PayloadKnown
  BY DialBegins DEF ConnectionInit
<1>2. PayloadKnown /\ [ConnectionNext]_connectionVars => PayloadKnown'
  BY PayloadKept, ConnectionDials
<1>3. PayloadKnown => PayloadAtMostOnce
  BY DEF PayloadKnown, PayloadAtMostOnce
<1>4. QED
  BY <1>1, <1>2, <1>3, PTL DEF ConnectionSpec

(***************************************************************************)
(* Dialling makes no more attempts than the profile allows and none beyond *)
(* its budget, tries no candidate twice in a round and after a failed one  *)
(* only what that one allows, for every profile, number of candidates and  *)
(* order of the rounds (stable_plan, ordered_round, attempt_limit, the     *)
(* loop of send_snap_payload_with_plan).                                   *)
(***************************************************************************)
THEOREM PlanIsKept == ConnectionSpec => []DialWithinPlan
<1>1. ConnectionInit => PlanKnown
  BY DialStartsPlanned DEF ConnectionInit
<1>2. PlanKnown /\ [ConnectionNext]_connectionVars => PlanKnown'
  BY DialPlans, ConnectionDials
<1>3. PlanKnown => DialWithinPlan
  BY DEF PlanKnown
<1>4. QED
  BY <1>1, <1>2, <1>3, PTL DEF ConnectionSpec

(* --- the stream and the bridge -------------------------------------------- *)

\* The same for the set-up of streams.
LEMMA ConnectionSetsUp ==
  ASSUME [ConnectionNext]_connectionVars
  PROVE  [SetupNext]_setupVars
BY DEF ConnectionNext, connectionVars

(***************************************************************************)
(* What the session wrote to a TLS bridge before dropping it was handed on *)
(* when the relay has ended without an error, for any number of bytes      *)
(* (connect_tls_bridge, SnapBridgeLifecycle::drop).                        *)
(***************************************************************************)
THEOREM BridgeHandsOn == ConnectionSpec => []BridgeKeepsBytes
<1>1. ConnectionInit => BridgeKnown
  BY BridgeBegins DEF ConnectionInit
<1>2. BridgeKnown /\ [ConnectionNext]_connectionVars => BridgeKnown'
  BY BridgeKept, ConnectionSetsUp
<1>3. BridgeKnown => BridgeKeepsBytes
  BY DEF BridgeKnown, BridgeKeepsBytes, RelayOver
<1>4. QED
  BY <1>1, <1>2, <1>3, PTL DEF ConnectionSpec

(***************************************************************************)
(* A stream leads to the peer by the way that was asked for, and a call    *)
(* behind a proxy or relay neither looks the peer up nor connects to it,   *)
(* for any number of callers, resolver threads, queue places, addresses    *)
(* and calls, and whichever lookups of earlier calls are answered late     *)
(* (connect_tcp_via_underlay_inner, resolve_socket_addrs_with_deadline).   *)
(***************************************************************************)
THEOREM StreamIsAsked == ConnectionSpec => []StreamAsAsked
<1>1. ConnectionInit => StreamKnown
  BY StreamBegins DEF ConnectionInit
<1>2. StreamKnown /\ [ConnectionNext]_connectionVars => StreamKnown'
  BY StreamKept, ConnectionSetsUp
<1>3. StreamKnown => StreamAsAsked
  BY StreamFollows
<1>4. QED
  BY <1>1, <1>2, <1>3, PTL DEF ConnectionSpec

(* --- the key exchange ------------------------------------------------------ *)

\* The same for the key exchange.
LEMMA ConnectionShakesHands ==
  ASSUME [ConnectionNext]_connectionVars
  PROVE  [HandshakeNext]_handshakeVars
BY DEF ConnectionNext, connectionVars

\* The invariant of the key exchange holds in every behaviour.
LEMMA HandshakeIsSound == ConnectionSpec => []HandshakeInv
<1>1. ConnectionInit => HandshakeInv
  BY HandshakeStarts DEF ConnectionInit
<1>2. HandshakeInv /\ [ConnectionNext]_connectionVars => HandshakeInv'
  BY HandshakeKeeps, ConnectionShakesHands
<1>3. QED
  BY <1>1, <1>2, PTL DEF ConnectionSpec

(***************************************************************************)
(* An end that completes the key exchange holds a hello that a run of a    *)
(* pinned node sent, unaltered and in its own profile, and fresh when the  *)
(* keys were derived, for any number of runs, nodes and pins, whatever the *)
(* network loses, repeats, misdelivers or alters (verify_hello_signature,  *)
(* PeerPolicy::allows).                                                    *)
(***************************************************************************)
THEOREM PeerIsAuthentic == ConnectionSpec => []PeerAuthentic
<1>1. HandshakeInv => PeerAuthentic
  BY PeersAreAuthentic
<1>2. QED
  BY <1>1, HandshakeIsSound, PTL

(***************************************************************************)
(* One end sends under the key another receives under exactly when the two *)
(* saw the same exchange, and no two ends send under one key, for any      *)
(* number of runs that share the network (verify_and_derive,               *)
(* finalize_initiator_pq, absorb_responder_pq).                            *)
(***************************************************************************)
THEOREM KeysArePaired == ConnectionSpec => []KeysPairUp
<1>1. HandshakeInv => KeysPairUp
  BY KeysDoPairUp
<1>2. QED
  BY <1>1, HandshakeIsSound, PTL
=============================================================================
