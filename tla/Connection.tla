----------------------------- MODULE Connection -----------------------------
(***************************************************************************)
(* A connection from the dialler's side, part by part: the stream, the     *)
(* choice of a candidate, the key exchange and the records.  The parts do  *)
(* not share state in the program, so each behaviour follows one of them.  *)
(***************************************************************************)
EXTENDS RecordChannel, Handshake, SnapDial, StreamSetup

VARIABLE part

connectionVars == <<part, vars, handshakeVars, dialVars, setupVars>>

ConnectionInit ==
  /\ part \in {"records", "handshake", "dial", "stream"}
  /\ Init /\ (part # "records" => mode = "strict")
  /\ HandshakeInit
  /\ DialInit(part = "dial")
  /\ SetupInit(part = "stream")

ConnectionNext ==
  /\ \/ /\ part = "records" /\ Next
        /\ UNCHANGED <<handshakeVars, dialVars, setupVars>>
     \/ /\ part = "handshake" /\ HandshakeNext
        /\ UNCHANGED <<vars, dialVars, setupVars>>
     \/ DialNext /\ UNCHANGED <<vars, handshakeVars, setupVars>>
     \/ SetupNext /\ UNCHANGED <<vars, handshakeVars, dialVars>>
  /\ UNCHANGED part

ConnectionSpec == ConnectionInit /\ [][ConnectionNext]_connectionVars
=============================================================================
