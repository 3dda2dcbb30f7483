------------------------------ MODULE Discovery ------------------------------
(***************************************************************************)
(* Identity discovery (shph-identity): the owner of an identity signs      *)
(* records, each continuing the one before; publishers put them in a       *)
(* directory; resolvers collect the records of several providers and       *)
(* accept one.  The first provider of a resolver is the directory, the     *)
(* second a plugin that returns whatever it likes or fails.                *)
(*                                                                         *)
(* The caller of from_current_identity_with_previous gives the sequence    *)
(* number and the record the new one continues, each by itself, so an      *)
(* owner who has lost track (two devices with the same key) signs two      *)
(* records that continue the same one, a fork, or a record whose number    *)
(* and predecessor do not belong together.                                 *)
(*                                                                         *)
(* record_hash is injective; the hash of the i-th record signed is i, and  *)
(* an altered copy of it, which no signature verifies, has hash -i.  A     *)
(* hash that is no record's is MaxIssued + 1.                              *)
(***************************************************************************)
EXTENDS Integers, Sequences, FiniteSets

CONSTANTS Publishers, Resolvers,
          Lifetime,           \* of a record, in ticks
          clock_skew_secs,
          MaxClock,
          MaxIssued,          \* bound on the records signed
          MAX_PROVIDER_ENTRIES,
          MAX_PROVIDER_RECORDS,
          MaxAborts           \* bound on publishers that stop half way

ASSUME DiscoveryAssumption == MaxIssued \in Nat

VARIABLES issued,    \* the records signed so far
          publisher, \* p -> [pc, hash]
          files,     \* hash -> "none" or what the file under its name holds
          temps,     \* temporary files left in the directory
          receipts,  \* hashes whose publication returned a receipt
          accepted,  \* v -> the hashes accepted, in order (the code keeps the last)
          clock, aborts

discoveryVars == <<issued, publisher, files, temps, receipts, accepted, clock,
                   aborts>>

NoRecord == 0
Hashes == ((-MaxIssued)..MaxIssued) \ {NoRecord}
AtEase == [pc |-> "idle", hash |-> NoRecord]

DiscoveryInit(on) ==
  /\ issued = <<>>
  /\ publisher = [p \in Publishers |-> AtEase]
  /\ files = [h \in Hashes |-> "none"]
  /\ temps = 0
  /\ receipts = {}
  /\ accepted = [v \in Resolvers |-> <<>>]
  /\ clock = IF on THEN 0 ELSE MaxClock + 1
  /\ aborts = 0

Running == clock <= MaxClock

SequenceOf(h) == IF h = NoRecord THEN 0 ELSE issued[h].sequence

(* --- the owner ------------------------------------------------------------ *)

\* What a record needs besides its signatures.
validate_structure(r) ==
  /\ r.sequence > 0
  /\ (r.sequence = 1) = (r.previous_record = NoRecord)
  /\ r.expires_at > r.issued_at

\* from_current_identity_with_previous and sign_with_identity, which refuses
\* to sign what lacks the structure (canonical_payload).
from_current_identity_with_previous(sequence, previous) ==
  /\ Running /\ Len(issued) < MaxIssued
  /\ LET r == [hash |-> Len(issued) + 1, sequence |-> sequence, previous_record |-> previous,
               issued_at |-> clock, expires_at |-> clock + Lifetime, signed |-> TRUE]
     IN validate_structure(r) /\ issued' = Append(issued, r)
  /\ UNCHANGED <<publisher, files, temps, receipts, accepted, clock, aborts>>

\* An altered copy claims to continue the record it was made from.
Altered(h) == [issued[h] EXCEPT !.hash = -h, !.sequence = @ + 1, !.previous_record = h,
                                !.signed = FALSE]

Signed == {issued[h] : h \in 1..Len(issued)}
AlteredCopies == {Altered(h) : h \in 1..Len(issued)}

RecordOf(h) == IF h > 0 THEN issued[h] ELSE Altered(-h)

(* --- LocalDirectoryProvider ----------------------------------------------- *)

\* publish as far as the temporary file, written and synced.  Only the
\* structure is looked at, so an altered copy is taken as well.
publish(p, h) ==
  /\ Running /\ publisher[p].pc = "idle" /\ validate_structure(RecordOf(h))
  /\ publisher' = [publisher EXCEPT ![p] = [pc |-> "link", hash |-> h]]
  /\ temps' = temps + 1
  /\ UNCHANGED <<issued, files, receipts, accepted, clock, aborts>>

\* A slip: the record is written under its own name, a part at a time.
hard_link_writing_in_place(p) ==
  LET h == publisher[p].hash
  IN IF files[h] = "none" THEN files' = [files EXCEPT ![h] = "part"] /\ UNCHANGED receipts
     ELSE /\ files' = [files EXCEPT ![h] = "whole"]
          /\ receipts' = receipts \cup {h}

\* hard_link: the name is taken at most once, and with all of the contents.
\* If it was taken, the contents are compared.
hard_link(p) ==
  LET h == publisher[p].hash
  IN IF files[h] = "none"
     THEN files' = [files EXCEPT ![h] = "whole"] /\ receipts' = receipts \cup {h}
     ELSE /\ UNCHANGED files
          /\ receipts' = IF files[h] = "whole" THEN receipts \cup {h} ELSE receipts

LinkRecord(p) ==
  /\ Running /\ publisher[p].pc = "link"
  /\ hard_link(p)
  /\ temps' = temps - 1
  /\ publisher' = [publisher EXCEPT ![p] = AtEase]
  /\ UNCHANGED <<issued, accepted, clock, aborts>>

\* An error removes the temporary file, a kill leaves it.
PublishStops(p) ==
  /\ Running /\ publisher[p].pc = "link" /\ aborts < MaxAborts
  /\ aborts' = aborts + 1
  /\ temps' \in {temps, temps - 1}
  /\ publisher' = [publisher EXCEPT ![p] = AtEase]
  /\ UNCHANGED <<issued, files, receipts, accepted, clock>>

Published == {h \in Hashes : files[h] # "none"}

\* fetch: temporary names and contents that do not parse are passed over.
FetchFails == \/ Cardinality(Published) + temps > MAX_PROVIDER_ENTRIES
              \/ Cardinality(Published) > MAX_PROVIDER_RECORDS

fetch == IF FetchFails THEN {}
         ELSE {RecordOf(h) : h \in {h \in Published : files[h] = "whole"}}

(* --- DiscoveryResolver ---------------------------------------------------- *)

\* A plugin returns up to two records, the owner's or altered ones.
PluginRecords == Signed \cup AlteredCopies

verify(r) ==
  /\ validate_structure(r)
  /\ r.issued_at <= clock + clock_skew_secs
  /\ r.expires_at + clock_skew_secs >= clock
  /\ r.signed

\* A slip: only the sequence number is compared with the last record's.
continues_by_number(last, r) ==
  IF last = NoRecord THEN r.sequence = 1 ELSE r.sequence = SequenceOf(last) + 1

\* A slip: only the predecessor is compared with the last record.
continues_by_link(last, r) ==
  IF last = NoRecord THEN r.sequence = 1
  ELSE r.sequence > SequenceOf(last) /\ r.previous_record = last

\* The record may follow the last one accepted.
continues(last, r) ==
  IF last = NoRecord THEN r.sequence = 1
  ELSE r.sequence = SequenceOf(last) + 1 /\ r.previous_record = last

LastAccepted(v) == IF accepted[v] = <<>> THEN NoRecord ELSE accepted[v][Len(accepted[v])]

\* The directory answers with what is in it, or an error, and then the
\* plugin.  The highest sequence among the records that verify decides
\* alone; two records of it are a conflict.
Elected(r) ==
  /\ verify(r)
  /\ \E listed \in {fetch, {}} : \E p, q \in PluginRecords : \E answer \in {{}, {p, q}} :
       LET valid == {c \in listed \cup answer : verify(c)}
       IN {c \in valid : \A d \in valid : d.sequence <= c.sequence} = {r}

\* resolve, when it accepts a record.  An older or a disconnected one is a
\* replay; the one accepted last is returned and nothing changes.
resolve(v) ==
  /\ Running
  /\ \E r \in {r \in PluginRecords : continues(LastAccepted(v), r) /\ Elected(r)} :
       accepted' = [accepted EXCEPT ![v] = Append(@, r.hash)]
  /\ UNCHANGED <<issued, publisher, files, temps, receipts, clock, aborts>>

Tick ==
  /\ Running /\ clock < MaxClock
  /\ clock' = clock + 1
  /\ UNCHANGED <<issued, publisher, files, temps, receipts, accepted, aborts>>

DiscoveryNext ==
  \/ \E sequence \in 0..(MaxIssued + 1), previous \in 0..Len(issued) \cup {MaxIssued + 1} :
       from_current_identity_with_previous(sequence, previous)
  \/ \E p \in Publishers :
       \/ \E h \in 1..Len(issued) : publish(p, h) \/ publish(p, -h)
       \/ LinkRecord(p) \/ PublishStops(p)
  \/ \E v \in Resolvers : resolve(v)
  \/ Tick

(* --- properties ----------------------------------------------------------- *)

\* The owner signed two records that continue the same one.
Forked == \E g, h \in 1..Len(issued) :
            /\ g # h
            /\ issued[g].sequence = issued[h].sequence
            /\ issued[g].previous_record = issued[h].previous_record

(***************************************************************************)
(* What a resolver accepts over time, whatever the owner signs, whatever   *)
(* is published or returned by plugins, and however publications, expiry   *)
(* and resolutions interleave, is one unbroken chain of signed records:    *)
(* the i-th has sequence i and names the one before it.  Two resolvers     *)
(* follow the same chain as far as both go, unless the owner signed two    *)
(* records that continue the same one.  In the directory provider a        *)
(* reader never meets a part of a record, and a record whose publication   *)
(* returned a receipt is there for good, whoever else publishes it or      *)
(* stops half way.                                                         *)
(***************************************************************************)
AcceptedChain ==
  /\ \A v \in Resolvers : \A i \in 1..Len(accepted[v]) :
       /\ accepted[v][i] \in 1..Len(issued)
       /\ issued[accepted[v][i]].sequence = i
       /\ issued[accepted[v][i]].previous_record = IF i = 1 THEN NoRecord ELSE accepted[v][i - 1]
  /\ \A v, w \in Resolvers : \A i \in 1..Len(accepted[v]) :
       i <= Len(accepted[w]) /\ accepted[v][i] # accepted[w][i] => Forked
  /\ \A h \in Hashes : files[h] # "part"
  /\ \A h \in receipts : files[h] = "whole"
=============================================================================
