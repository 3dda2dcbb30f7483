--------------------------------- MODULE Wire ---------------------------------
(***************************************************************************)
(* What SHPH puts on its carriers: the datagrams of the experimental QUIC  *)
(* handshake and, once a session is authenticated, frames, the negotiated  *)
(* Phantom One envelopes, Phantom One on standards QUIC and traffic        *)
(* morphology.  A behaviour is about one of them; the initial state says   *)
(* which, so that the parts add to the state space and do not multiply it. *)
(***************************************************************************)
EXTENDS PhantomQuic, Frames, Morphology, QuicHandshake

CONSTANTS
  Modes,
  OfferPairs    \* mode -> the pairs of offers the two ends may make

wireVars == <<envVars, phantomVars, frameVars, morphVars, helloVars>>

EnvelopeInit(m) ==
  /\ mode = m
  /\ \E pair \in (IF m \in DOMAIN OfferPairs THEN OfferPairs[m] ELSE {<<0, 0>>}) :
       offer = [e \in Ends |-> IF e = "sender" THEN pair[1] ELSE pair[2]]
  /\ phase = [e \in Ends |-> "start"]
  /\ why = [e \in Ends |-> ""]
  /\ ctrl = [e \in Ends |-> <<>>]
  /\ limit \in IF m = "quic" THEN [Ends -> CarrierLimits]
               ELSE {[e \in Ends |-> Max(CarrierLimits)]}
  /\ policy = [e \in Ends |-> None]
  /\ enc = [next |-> None] /\ dec = [highest |-> None]
  /\ nonce = 0 /\ taken = {} /\ net = <<>>
  /\ sentUse = NoUse /\ gotUse = NoUse
  /\ sched = NewScheduler(None)
  /\ gotCover = 0 /\ covers = 0 /\ now = 0
  /\ refused = {} /\ hurt = {}
  /\ claimed = [e \in Ends |-> "none"]
  /\ stream = NoStream /\ armed = None /\ streamRefused = {}

Init ==
  \E m \in Modes :
    /\ EnvelopeInit(m)
    /\ FramesInit(IF m \in {"tcpframes", "udpframes"}
                  THEN IF m = "tcpframes" THEN "tcp" ELSE "udp" ELSE "off")
    /\ MorphologyInit(IF m \in MorphologyParts THEN m ELSE "off")
    /\ QuicHandshakeInit(m = "udphello")

Next ==
  \/ EnvelopeNext /\ UNCHANGED <<phantomVars, frameVars, morphVars, helloVars>>
  \/ PhantomNext /\ UNCHANGED <<frameVars, morphVars, helloVars>>
  \/ FramesNext /\ UNCHANGED <<envVars, phantomVars, morphVars, helloVars>>
  \/ MorphologyNext /\ UNCHANGED <<envVars, phantomVars, frameVars, helloVars>>
  \/ QuicHandshakeNext /\ UNCHANGED <<envVars, phantomVars, frameVars, morphVars>>

Spec == Init /\ [][Next]_wireVars

\* Two ends that follow the code never come to different conclusions, about
\* the envelope policy or the Phantom One profile they negotiate nor about
\* the hellos and the ciphertext a session's keys are derived from: see
\* PoliciesAgree and HandshakeAgrees.
EndsAgree == PoliciesAgree /\ HandshakeAgrees
=============================================================================
