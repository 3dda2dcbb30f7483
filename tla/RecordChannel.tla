---------------------------- MODULE RecordChannel ---------------------------
(***************************************************************************)
(* One direction of an established session: the SendCipher of one side,    *)
(* the network, and the ReceiveCipher of the other (crypto.rs).            *)
(*                                                                         *)
(* The network may lose, duplicate, delay and reorder frames: `sent` only  *)
(* grows and any frame in it may be presented to the receiver any number   *)
(* of times, or never.  It may also present a damaged frame, whose nonce   *)
(* field is arbitrary and which fails AEAD authentication.                 *)
(*                                                                         *)
(* The receiver is in one of the code's two modes: "strict" (TCP, offline  *)
(* mesh, data mule) keeps only the last nonce, "window" (the experimental  *)
(* QUIC carrier) a ReplayWindow.                                           *)
(***************************************************************************)
EXTENDS ReplayWindow

CONSTANT NonceLimit   \* AEAD_NONCE_LIMIT

ASSUME LimitAssumption == NonceLimit \in Nat

VARIABLES
  nonce,      \* SendCipher.nonce
  written,    \* number of plaintexts encrypted; plaintext k is the k-th one
  sent,       \* every frame put on the network: [nonce, text]
  mode,       \* the ReplayState variant of the receiver
  last,       \* the payload of ReplayState::Strict
  window,     \* the payload of ReplayState::Window
  accepted    \* how often the receiver returned the plaintext of each nonce

vars == <<nonce, written, sent, mode, last, window, accepted>>

Nonces == 0 .. NonceLimit - 1
Frame  == [nonce : Nonces, text : Nat]

\* The types; in particular the counter never passes the limit, so no frame
\* carries a nonce outside Nonces.
TypeOK ==
  /\ nonce \in 0 .. NonceLimit
  /\ written \in Nat
  /\ sent \in SUBSET Frame
  /\ mode \in {"strict", "window"}
  /\ last \in Nat \cup {NoNonce}
  /\ window \in Window
  /\ accepted \in [Nonces -> Nat]

Init ==
  /\ nonce = 0
  /\ written = 0
  /\ sent = {}
  /\ mode \in {"strict", "window"}
  /\ last = NoNonce
  /\ window = NewWindow
  /\ accepted = [n \in Nonces |-> 0]

-----------------------------------------------------------------------------
\* A slip: the counter wraps around instead of the call being refused.
EncryptWrapping ==
  /\ sent' = sent \cup {[nonce |-> nonce % NonceLimit, text |-> written]}
  /\ nonce' = (nonce + 1) % NonceLimit
  /\ written' = written + 1
  /\ UNCHANGED <<mode, last, window, accepted>>

\* SendCipher::encrypt below the limit: the frame carries the counter, which
\* then moves on.  At the limit the call returns an error and nothing changes.
Encrypt ==
  /\ nonce < NonceLimit
  /\ sent' = sent \cup {[nonce |-> nonce, text |-> written]}
  /\ nonce' = nonce + 1
  /\ written' = written + 1
  /\ UNCHANGED <<mode, last, window, accepted>>

\* A slip: the strict receiver lets the last nonce through once more.
NotReplayedAllowingLast(counter) ==
  \/ mode = "strict" /\ (last = NoNonce \/ counter >= last)
  \/ mode = "window" /\ Fresh(window, counter)

\* A slip: the strict receiver only refuses the very last nonce.
NotReplayedNotEqual(counter) ==
  \/ mode = "strict" /\ counter # last
  \/ mode = "window" /\ Fresh(window, counter)

\* The anti-replay test decrypt makes before it authenticates the frame.
NotReplayed(counter) ==
  \/ mode = "strict" /\ (last = NoNonce \/ counter > last)
  \/ mode = "window" /\ Fresh(window, counter)

\* decrypt's commit: only the state of the receiver's own mode moves.
Commit(counter) ==
  \/ /\ mode = "strict"
     /\ last' = counter
     /\ UNCHANGED window
  \/ /\ mode = "window"
     /\ window' = Insert(window, counter)
     /\ UNCHANGED last

\* A frame of the sender that passes the anti-replay test is returned.
DecryptOk(frame) ==
  /\ NotReplayed(frame.nonce)
  /\ Commit(frame.nonce)
  /\ accepted' = [accepted EXCEPT ![frame.nonce] = @ + 1]
  /\ UNCHANGED <<nonce, written, sent, mode>>

\* decrypt refuses a replayed or stale frame before touching its state.
DecryptReplayed(frame) ==
  /\ ~NotReplayed(frame.nonce)
  /\ UNCHANGED vars

\* A slip: the candidate window is committed before authentication.
DecryptDamagedCommitting(counter) ==
  /\ NotReplayed(counter)
  /\ Commit(counter)
  /\ UNCHANGED <<nonce, written, sent, mode, accepted>>

\* A damaged frame passes or fails the anti-replay test; either way AEAD
\* authentication fails and the candidate state is dropped.
DecryptDamaged(counter) == UNCHANGED vars

Next ==
  \/ Encrypt
  \/ \E frame \in sent : DecryptOk(frame) \/ DecryptReplayed(frame)
  \/ \E counter \in 0 .. NonceLimit + Size : DecryptDamaged(counter)

Spec == Init /\ [][Next]_vars

-----------------------------------------------------------------------------
\* Safety: one nonce never protects two plaintexts under a session key.
\* SendCipher::encrypt stops at AEAD_NONCE_LIMIT instead of wrapping.
NonceNeverReused ==
  \A f, g \in sent : f.nonce = g.nonce => f.text = g.text

\* Safety: however the network duplicates and reorders frames, the receiver
\* returns each plaintext at most once, across every move of the window.
AtMostOnce == \A n \in Nonces : accepted[n] <= 1

\* Safety: nothing is refused without need.  A frame not yet returned passes
\* the test if it is newer than all returned ones or, in window mode, lies at
\* most Size behind the newest returned one.  Replays, jumps of the window
\* and damaged frames with large nonces never make the receiver deaf to it.
FreshNotRefused ==
  \A f \in sent :
    (/\ accepted[f.nonce] = 0
     /\ \A n \in Nonces : accepted[n] > 0 =>
          n < f.nonce + (IF mode = "window" THEN Size + 1 ELSE 0))
    => NotReplayed(f.nonce)

\* Action property: a strict receiver returns plaintexts in the order they
\* were written, possibly with gaps.
StrictInOrder ==
  [][mode = "strict" =>
       \A n, m \in Nonces :
         accepted'[n] > accepted[n] /\ accepted[m] > 0 => m < n]_vars

\* Refinement: the bitmap and its word arithmetic implement the abstract
\* at-most-once channel, whose receiver remembers all it ever took.
Promise == INSTANCE AntiReplay WITH
             Limit   <- NonceLimit,
             taken   <- {n \in Nonces : accepted[n] > 0},
             reach   <- IF mode = "window" THEN Size ELSE 0
ImplementsAntiReplay == Promise!Spec
=============================================================================
