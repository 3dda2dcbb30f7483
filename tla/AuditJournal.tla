---------------------------- MODULE AuditJournal ----------------------------
(***************************************************************************)
(* The ratchet audit journal (shph-core roadmap.rs): a file of one JSON    *)
(* record per line that every successful handshake of every process on the *)
(* node appends to.  An append opens the file, writes the text of the      *)
(* record and then its newline, and prunes: it reads the whole file and    *)
(* replaces it by its last Keep records through a temporary file and a     *)
(* rename.  Nothing locks the journal, so the steps of several processes   *)
(* interleave, and a process may be killed between any two of them.        *)
(*                                                                         *)
(* The journal is a sequence of pieces: the text of record r is r > 0, a   *)
(* newline is NL, the beginning of a record's text is Torn.                *)
(***************************************************************************)
EXTENDS Integers, Sequences, FiniteSets

CONSTANTS Writers,           \* processes
          Keep,              \* max_entries.clamp(1, MAX_AUDIT_ENTRIES)
          MaxEvents,         \* bound on the events recorded
          MaxAuditFaults     \* bound on I/O errors and on kills together

VARIABLES journal,   \* the file under journal_path
          writer,    \* w -> [pc, event, stale, records]
          events,    \* the number of events so far
          written,   \* ghost: the events in the order their text was written
          recorded,  \* ghost: events whose append returned Ok
          alone,     \* ghost: events whose append overlapped no other append
          auditFaults

auditVars == <<journal, writer, events, written, recorded, alone, auditFaults>>

NL == 0
Torn == -1
NoAppend == [pc |-> "idle", event |-> 0, stale |-> FALSE, records |-> <<>>]

AuditInit(on) ==
  /\ journal = <<>>
  /\ writer = [w \in Writers |-> NoAppend]
  /\ events = IF on THEN 0 ELSE MaxEvents
  /\ written = <<>>
  /\ recorded = {}
  /\ alone = {}
  /\ auditFaults = 0

Busy == {w \in Writers : writer[w].pc # "idle"}

\* Bytes written to a descriptor opened before a rename go to the old file.
Write(w, piece) == journal' = IF writer[w].stale THEN journal ELSE Append(journal, piece)

Finish(w) == writer' = [writer EXCEPT ![w] = NoAppend]

(* --- append_ratchet_audit_event ----------------------------------------- *)

\* write_jsonl_line up to open_audit_append.
open_audit_append(w) ==
  /\ writer[w].pc = "idle" /\ events < MaxEvents
  /\ events' = events + 1
  /\ writer' = [writer EXCEPT ![w] = [NoAppend EXCEPT !.pc = "text", !.event = events + 1]]
  /\ alone' = IF Busy = {} THEN alone \cup {events + 1}
              ELSE alone \ {writer[v].event : v \in Busy}
  /\ UNCHANGED <<journal, written, recorded, auditFaults>>

\* The two writes of writeln!.
WriteText(w) ==
  /\ writer[w].pc = "text"
  /\ Write(w, writer[w].event)
  /\ written' = Append(written, writer[w].event)
  /\ writer' = [writer EXCEPT ![w].pc = "newline"]
  /\ UNCHANGED <<events, recorded, alone, auditFaults>>

WriteNewline(w) ==
  /\ writer[w].pc = "newline"
  /\ Write(w, NL)
  /\ writer' = [writer EXCEPT ![w].pc = "read"]
  /\ UNCHANGED <<events, written, recorded, alone, auditFaults>>

\* read_bounded_line: the lines of the journal, an unterminated last one
\* included, and blank lines left out.
lines ==
  LET ends == {i \in 1..Len(journal) : journal[i] = NL} \cup {Len(journal) + 1}
      LineEndingAt(e) ==
        LET before == {i \in ends \cup {0} : i < e}
        IN SubSeq(journal, (CHOOSE b \in before : \A c \in before : c <= b) + 1, e - 1)
      all == [i \in 1..Cardinality(ends) |->
                LineEndingAt(CHOOSE e \in ends : Cardinality({d \in ends : d <= e}) = i)]
  IN SelectSeq(all, LAMBDA l : l # <<>>)

Parses(line) == Len(line) = 1 /\ line[1] # Torn

\* The records prune_jsonl keeps, oldest first.
kept(records) == SubSeq(records, IF Len(records) > Keep THEN Len(records) - Keep + 1 ELSE 1, Len(records))

\* prune_jsonl up to its early return; a line that does not parse is an error.
ReadForPrune(w) ==
  /\ writer[w].pc = "read"
  /\ LET records == kept([i \in 1..Len(lines) |-> lines[i][1]])
     IN IF \E i \in 1..Len(lines) : ~ Parses(lines[i])
        THEN Finish(w) /\ UNCHANGED recorded
        ELSE IF Len(records) < Keep
        THEN Finish(w) /\ recorded' = recorded \cup {writer[w].event}
        ELSE /\ writer' = [writer EXCEPT ![w].pc = "replace", ![w].records = records]
             /\ UNCHANGED recorded
  /\ UNCHANGED <<journal, events, written, alone, auditFaults>>

\* A slip: the kept records are written back without a newline after each.
persist_audit_over_joined(w) ==
  /\ writer[w].pc = "replace"
  /\ journal' = Append(writer[w].records, NL)
  /\ Finish(w)
  /\ recorded' = recorded \cup {writer[w].event}
  /\ UNCHANGED <<events, written, alone, auditFaults>>

\* prune_jsonl from the temporary file to persist_audit_over and the
\* directory sync, which may fail after the rename.  Writers that hold the
\* file open keep the replaced one.
persist_audit_over(w) ==
  /\ writer[w].pc = "replace"
  /\ journal' = [i \in 1..2 * Len(writer[w].records) |->
                   IF i % 2 = 1 THEN writer[w].records[(i + 1) \div 2] ELSE NL]
  /\ writer' = [v \in Writers |->
       IF v = w THEN NoAppend
       ELSE IF writer[v].pc \in {"text", "newline"} THEN [writer[v] EXCEPT !.stale = TRUE]
       ELSE writer[v]]
  /\ \/ recorded' = recorded \cup {writer[w].event} /\ UNCHANGED auditFaults
     \/ /\ auditFaults < MaxAuditFaults
        /\ auditFaults' = auditFaults + 1
        /\ UNCHANGED recorded
  /\ UNCHANGED <<events, written, alone>>

\* An I/O error is returned and a kill just ends the process; either may
\* leave the first part of a text behind, and neither takes the newline or
\* the rename back.
StopEarly(w) ==
  /\ writer[w].pc # "idle" /\ auditFaults < MaxAuditFaults
  /\ auditFaults' = auditFaults + 1
  /\ \/ UNCHANGED <<journal, written>>
     \/ /\ writer[w].pc = "text"
        /\ Write(w, Torn)
        /\ UNCHANGED written
  /\ Finish(w)
  /\ UNCHANGED <<events, recorded, alone>>

AuditNext ==
  \E w \in Writers :
    \/ open_audit_append(w)
    \/ WriteText(w)
    \/ WriteNewline(w)
    \/ ReadForPrune(w)
    \/ persist_audit_over(w)
    \/ StopEarly(w)

(* --- properties --------------------------------------------------------- *)

\* The journal has e on a line of its own.  read_ratchet_audit_events returns
\* it unless another line is torn or run together: then the code returns an
\* error for the whole journal.
OnRecord(e) == \E i \in 1..Len(lines) : lines[i] = <<e>>

WrittenAfter(e) == {written[j] : j \in {j \in 1..Len(written) :
                      \E i \in 1..j - 1 : written[i] = e}}

(***************************************************************************)
(* An event whose append returned Ok, and overlapped no other append,      *)
(* stays on a line of its own until Keep later events have been written:   *)
(* not the pruning of a later append, an overlap of later ones, an I/O     *)
(* error or a process killed half way through a line takes it away.        *)
(***************************************************************************)
AuditKept ==
  \A e \in recorded \cap alone : OnRecord(e) \/ Cardinality(WrittenAfter(e)) >= Keep
=============================================================================
