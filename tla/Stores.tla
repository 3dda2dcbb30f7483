------------------------------- MODULE Stores -------------------------------
(***************************************************************************)
(* The files of a node and the commands that change them, in three parts   *)
(* explored one at a time:                                                 *)
(*   "save"   one save of a file, step by step, through a temporary file   *)
(*            and a rename, under kills and power loss (keystore.rs,       *)
(*            shph-config, write_owner_only_file);                         *)
(*   "quic"   the certificate and the private key of the QUIC server, two  *)
(*            files written one after the other by the first start;        *)
(*   "pins"   the pins of peers, kept both in the configuration and in the *)
(*            keystore by init, host, join and add-peer (shph-cli main.rs).*)
(* In the last two a save is one step, which the first one justifies.      *)
(***************************************************************************)
EXTENDS Naturals, Sequences, FiniteSets

CONSTANTS Processes,
          MaxSaves,      \* bound on the saves of the file
          MaxStarts,     \* bound on the starts of commands and servers
          Aliases,       \* of peers
          PinValues,     \* keys and endpoint a peer may be pinned to, > 0
          MaxStops       \* bound on I/O errors, refusals and kills together

VARIABLES part,
          store,     \* save: which save function is explored
          saver,     \* save: p -> [pc, data, name]
          renames,   \* save: the state of the contents each rename installed
          named,     \* save: the rename whose contents the name shows
          synced,    \* save: the last rename a directory sync has written
          promised,  \* save, ghost: the last rename whose save returned Ok
          disk,      \* quic, pins: [cert, key, config, keystore]
          process,   \* quic, pins: what each process holds in memory
          served,    \* quic: the pairs servers were started with
          starts, stops,
          overlapped \* ghost: two commands or starts ran at the same time

storeVars == <<part, store, saver, renames, named, synced, promised, disk,
               process, served, starts, stops, overlapped>>
saveVars == <<saver, renames, named, synced, promised>>

Absent == 0
NoPins == [a \in Aliases |-> Absent]
NoFiles == [cert |-> Absent, key |-> Absent, config |-> {}, keystore |-> {}]
AtRest == [pc |-> "idle", cert |-> Absent, key |-> Absent, config |-> {}, keystore |-> {},
           alias |-> CHOOSE a \in Aliases : TRUE, pin |-> Absent, command |-> "", serial |-> 0]
NotSaving == [pc |-> 0, data |-> "none", name |-> 0]

(* --- one save ------------------------------------------------------------ *)

\* A slip: the contents are not synced before they are given the name.
atomic_secret_write_unsynced == <<"create", "perms", "write", "check", "rename", "syncdir">>

\* A slip: the new name is not synced.
Config_save_without_directory == <<"create", "perms", "write", "sync", "check", "rename">>

\* The steps of the three functions that save a file.
atomic_secret_write == <<"create", "perms", "write", "sync", "check", "rename", "syncdir">>
Config_save == <<"create", "perms", "write", "sync", "check", "rename", "syncdir">>
write_owner_only_file == <<"create", "perms", "write", "sync", "check", "rename">>

StepsOf(s) == CASE s = "keystore" -> atomic_secret_write
                [] s = "config" -> Config_save
                [] s = "owner-only" -> write_owner_only_file

StoreInit(p) ==
  /\ part = p
  /\ store \in IF p = "save" THEN {"keystore", "config", "owner-only"} ELSE {"keystore"}
  /\ saver = [q \in Processes |-> NotSaving]
  /\ renames = <<>> /\ named = 0 /\ synced = 0 /\ promised = 0
  /\ disk = NoFiles
  /\ process = [q \in Processes |-> AtRest]
  /\ served = {}
  /\ starts = 0 /\ stops = 0
  /\ overlapped = FALSE

NextStep(p) == StepsOf(store)[saver[p].pc + 1]

To(p, data, name) == saver' = [saver EXCEPT ![p] = [pc |-> @.pc + 1, data |-> data, name |-> name]]

StepDone(p) == saver[p].pc = Len(StepsOf(store))

\* The temporary file has a name no other save uses.
create_temp_file(p) ==
  /\ saver[p].pc = 0 /\ starts < MaxSaves
  /\ starts' = starts + 1
  /\ To(p, "torn", 0)
  /\ UNCHANGED <<renames, named, synced, promised, stops>>

\* Neither changes what the file holds; either may fail (SaveStops).
restrict_secret_perms(p) ==
  /\ saver[p].pc > 0 /\ ~ StepDone(p) /\ NextStep(p) = "perms"
  /\ To(p, saver[p].data, 0)
  /\ UNCHANGED <<renames, named, synced, promised, starts, stops>>

ensure_no_reparse_components(p) ==
  /\ saver[p].pc > 0 /\ ~ StepDone(p) /\ NextStep(p) = "check"
  /\ To(p, saver[p].data, 0)
  /\ UNCHANGED <<renames, named, synced, promised, starts, stops>>

write_all(p) ==
  /\ saver[p].pc > 0 /\ ~ StepDone(p) /\ NextStep(p) = "write"
  /\ To(p, "cached", 0)
  /\ UNCHANGED <<renames, named, synced, promised, starts, stops>>

sync_all(p) ==
  /\ saver[p].pc > 0 /\ ~ StepDone(p) /\ NextStep(p) = "sync"
  /\ To(p, "synced", 0)
  /\ UNCHANGED <<renames, named, synced, promised, starts, stops>>

persist_over(p) ==
  /\ saver[p].pc > 0 /\ ~ StepDone(p) /\ NextStep(p) = "rename"
  /\ renames' = Append(renames, saver[p].data)
  /\ named' = Len(renames) + 1
  /\ To(p, saver[p].data, Len(renames) + 1)
  /\ UNCHANGED <<synced, promised, starts, stops>>

sync_parent_dir(p) ==
  /\ saver[p].pc > 0 /\ ~ StepDone(p) /\ NextStep(p) = "syncdir"
  /\ synced' = Len(renames)
  /\ To(p, saver[p].data, saver[p].name)
  /\ UNCHANGED <<renames, named, promised, starts, stops>>

\* The save returns Ok; a save of the keystore or of the configuration is
\* taken as a promise that it lasts.  The directory was there before: one
\* that the save creates is not synced in its own parent.
SaveReturns(p) ==
  /\ StepDone(p)
  /\ promised' = IF store # "owner-only" /\ saver[p].name > promised
                 THEN saver[p].name ELSE promised
  /\ saver' = [saver EXCEPT ![p] = NotSaving]
  /\ UNCHANGED <<renames, named, synced, starts, stops>>

\* An error removes the temporary file (after the rename there is none) and
\* is returned; a kill leaves it behind, where nothing looks for it.
SaveStops(p) ==
  /\ saver[p].pc > 0 /\ stops < MaxStops
  /\ stops' = stops + 1
  /\ saver' = [saver EXCEPT ![p] = NotSaving]
  /\ UNCHANGED <<renames, named, synced, promised, starts>>

\* The name falls back to some rename since the last directory sync, and
\* contents that were not synced are cut short.
PowerLoss ==
  /\ stops < MaxStops
  /\ stops' = stops + 1
  /\ saver' = [p \in Processes |-> NotSaving]
  /\ \E i \in synced..Len(renames) :
       /\ named' = i /\ synced' = i
       /\ renames' = [j \in 1..i |-> IF renames[j] = "cached" THEN "torn" ELSE renames[j]]
  /\ UNCHANGED <<promised, starts>>

SaveNext ==
  /\ part = "save"
  /\ \/ \E p \in Processes :
          \/ create_temp_file(p) \/ restrict_secret_perms(p) \/ ensure_no_reparse_components(p)
          \/ write_all(p) \/ sync_all(p)
          \/ persist_over(p) \/ sync_parent_dir(p) \/ SaveReturns(p) \/ SaveStops(p)
     \/ PowerLoss
  /\ UNCHANGED <<part, store, disk, process, served, overlapped>>

(* --- commands of several saves ------------------------------------------- *)

Move(p, rec) == process' = [process EXCEPT ![p] = rec]
At(p, pc) == process[p].pc = pc
Goto(p, pc) == Move(p, [process[p] EXCEPT !.pc = pc])
End(p) == Move(p, AtRest)

StartProcess(p, rec) ==
  /\ At(p, "idle") /\ starts < MaxStarts
  /\ starts' = starts + 1
  /\ overlapped' = (overlapped \/ \E q \in Processes : process[q].pc # "idle")
  /\ Move(p, [rec EXCEPT !.serial = starts + 1])
  /\ UNCHANGED <<disk, served, stops>>

\* A refusal, an I/O error or a kill ends the command where it is.
Stop(p) ==
  /\ ~ At(p, "idle") /\ stops < MaxStops
  /\ stops' = stops + 1
  /\ End(p)
  /\ UNCHANGED <<disk, served, starts, overlapped>>

(* --- quic: load_or_create_quic_server ------------------------------------ *)

StartServer(p) == StartProcess(p, [AtRest EXCEPT !.pc = "stat cert"])

\* path_exists_without_following for the certificate, then for the key.
StatCertificate(p) ==
  /\ At(p, "stat cert")
  /\ Move(p, [process[p] EXCEPT !.pc = "stat key", !.cert = disk.cert])
  /\ UNCHANGED <<disk, served, starts, stops, overlapped>>

\* A slip: a missing file of the pair is written from new material.
DecideFillingIn(cert, key) ==
  IF cert # Absent /\ key # Absent THEN "read cert"
  ELSE IF cert = Absent THEN "write cert" ELSE "write key"

\* generate_server_material makes the pair that has the start's number.
Decide(cert, key) ==
  CASE cert # Absent /\ key # Absent -> "read cert"
    [] cert = Absent /\ key = Absent -> "write cert"
    [] OTHER -> "idle"

StatPrivateKey(p) ==
  /\ At(p, "stat key")
  /\ LET next == Decide(process[p].cert, disk.key)
     IN IF next = "idle" THEN End(p)
        ELSE Move(p, [process[p] EXCEPT !.pc = next, !.cert = process[p].serial,
                                        !.key = process[p].serial])
  /\ UNCHANGED <<disk, served, starts, stops, overlapped>>

read_quic_certificate(p) ==
  /\ At(p, "read cert")
  /\ IF disk.cert = Absent THEN End(p)
     ELSE Move(p, [process[p] EXCEPT !.pc = "read key", !.cert = disk.cert])
  /\ UNCHANGED <<disk, served, starts, stops, overlapped>>

read_quic_private_key(p) ==
  /\ At(p, "read key")
  /\ served' = IF disk.key = Absent THEN served
               ELSE served \cup {<<process[p].cert, disk.key>>}
  /\ End(p)
  /\ UNCHANGED <<disk, starts, stops, overlapped>>

write_quic_certificate(p) ==
  /\ At(p, "write cert")
  /\ disk' = [disk EXCEPT !.cert = process[p].cert]
  /\ Goto(p, "write key")
  /\ UNCHANGED <<served, starts, stops, overlapped>>

\* A key that cannot be written takes the certificate back.
write_quic_private_key(p) ==
  /\ At(p, "write key")
  /\ \/ /\ disk' = [disk EXCEPT !.key = process[p].key]
        /\ served' = served \cup {<<process[p].cert, process[p].key>>}
        /\ UNCHANGED stops
     \/ /\ stops < MaxStops /\ stops' = stops + 1
        /\ disk' = [disk EXCEPT !.cert = Absent]
        /\ UNCHANGED served
  /\ End(p)
  /\ UNCHANGED <<starts, overlapped>>

QuicNext ==
  /\ part = "quic"
  /\ \E p \in Processes :
       \/ StartServer(p) \/ StatCertificate(p) \/ StatPrivateKey(p)
       \/ read_quic_certificate(p) \/ read_quic_private_key(p)
       \/ write_quic_certificate(p) \/ write_quic_private_key(p) \/ Stop(p)
  /\ UNCHANGED <<part, store, saveVars>>

(* --- pins: init, host, join, add-peer ------------------------------------ *)

Run(p, command, pc, a, v) ==
  StartProcess(p, [AtRest EXCEPT !.command = command, !.pc = pc, !.alias = a, !.pin = v])

AnyAlias == CHOOSE a \in Aliases : TRUE

handle_init(p, force_new) ==
  /\ force_new \/ (disk.config = {} /\ disk.keystore = {})
  /\ Run(p, "init", "save keystore", AnyAlias, Absent)

handle_host(p) == Run(p, "host", "ensure keystore", AnyAlias, Absent)
handle_join(p, a, v) == Run(p, "join", "ensure keystore", a, v)
handle_add_peer(p, a, v) == Run(p, "add", "add config", a, v)

\* What a file is read as; a new one when there is none.  One that cannot be
\* read, parsed or decrypted ends the command (Stop).
KeyStore_load == IF disk.keystore = {} THEN {NoPins} ELSE disk.keystore
Config_load(new) == IF disk.config = {} THEN new ELSE disk.config

\* ensure_workspace: the keystore is loaded or created and saved, then the
\* configuration, which a new one takes its peers from the keystore.
EnsureKeystore(p) ==
  /\ At(p, "ensure keystore")
  /\ LET keystore == KeyStore_load
     IN /\ disk' = [disk EXCEPT !.keystore = keystore]
        /\ Move(p, [process[p] EXCEPT !.pc = "ensure config", !.keystore = keystore])
  /\ UNCHANGED <<served, starts, stops, overlapped>>

EnsureConfig(p) ==
  /\ At(p, "ensure config")
  /\ LET config == Config_load(process[p].keystore)
     IN /\ disk' = [disk EXCEPT !.config = config]
        /\ IF process[p].command = "host" /\ process[p].keystore = {NoPins}
           THEN End(p)     \* a host without a pinned peer is refused
           ELSE Move(p, [process[p] EXCEPT !.config = config,
                  !.pc = IF process[p].command = "join" THEN "pin" ELSE "save config"])
  /\ UNCHANGED <<served, starts, stops, overlapped>>

PinIn(file, a) == (CHOOSE f \in file : TRUE)[a]
WithPin(file, a, v) == {[(CHOOSE f \in file : TRUE) EXCEPT ![a] = v]}
Refuses(file, a, v) == PinIn(file, a) \notin {Absent, v}

\* A slip: the pin in the configuration is not compared.
refuses_pin_keystore_only(r) == Refuses(r.keystore, r.alias, r.pin)

refuses_pin(r) == Refuses(r.keystore, r.alias, r.pin) \/ Refuses(r.config, r.alias, r.pin)

\* Each side that lacks the pin gets it; one that has another is kept.
ensure_peer_pin(p) ==
  /\ At(p, "pin")
  /\ LET r == process[p]
         Pinned(file) == IF PinIn(file, r.alias) = Absent THEN WithPin(file, r.alias, r.pin)
                         ELSE file
     IN IF refuses_pin(r) THEN End(p)
        ELSE Move(p, [r EXCEPT !.pc = "save config", !.config = Pinned(r.config),
                               !.keystore = Pinned(r.keystore)])
  /\ UNCHANGED <<disk, served, starts, stops, overlapped>>

\* handle_add_peer: the alias must be new to the configuration ...
AddToConfig(p) ==
  /\ At(p, "add config")
  /\ LET config == Config_load({NoPins})
     IN IF PinIn(config, process[p].alias) # Absent THEN End(p)
        ELSE Move(p, [process[p] EXCEPT !.pc = "save config",
                        !.config = WithPin(config, process[p].alias, process[p].pin)])
  /\ UNCHANGED <<disk, served, starts, stops, overlapped>>

\* ... and the contact of the keystore is set, whatever it was.
AddToKeystore(p) ==
  /\ At(p, "add keystore")
  /\ LET keystore == KeyStore_load
     IN Move(p, [process[p] EXCEPT !.pc = "save keystore",
                   !.keystore = WithPin(keystore, process[p].alias, process[p].pin)])
  /\ UNCHANGED <<disk, served, starts, stops, overlapped>>

\* init saves the keystore before the configuration, the others after it.
SaveKeystore(p) ==
  /\ At(p, "save keystore")
  /\ IF process[p].command = "init"
     THEN /\ disk' = [disk EXCEPT !.keystore = {NoPins}]
          /\ Move(p, [process[p] EXCEPT !.pc = "save config", !.config = {NoPins}])
     ELSE /\ disk' = [disk EXCEPT !.keystore = process[p].keystore]
          /\ End(p)
  /\ UNCHANGED <<served, starts, stops, overlapped>>

SaveConfig(p) ==
  /\ At(p, "save config")
  /\ disk' = [disk EXCEPT !.config = process[p].config]
  /\ CASE process[p].command = "join" -> Goto(p, "save keystore")
       [] process[p].command = "add" -> Goto(p, "add keystore")
       [] OTHER -> End(p)
  /\ UNCHANGED <<served, starts, stops, overlapped>>

PinsNext ==
  /\ part = "pins"
  /\ \E p \in Processes :
       \/ \E force_new \in BOOLEAN : handle_init(p, force_new)
       \/ handle_host(p)
       \/ \E a \in Aliases, v \in PinValues : handle_join(p, a, v) \/ handle_add_peer(p, a, v)
       \/ EnsureKeystore(p) \/ EnsureConfig(p) \/ ensure_peer_pin(p)
       \/ AddToConfig(p) \/ AddToKeystore(p) \/ SaveKeystore(p) \/ SaveConfig(p)
       \/ Stop(p)
  /\ UNCHANGED <<part, store, saveVars>>

StoreNext == SaveNext \/ QuicNext \/ PinsNext

(* --- properties ---------------------------------------------------------- *)

(***************************************************************************)
(* Whenever it is read, also after a power loss in the middle of one or of *)
(* two overlapping saves, a file holds all of the contents of one save,    *)
(* and a keystore or configuration save that returned Ok is not undone.    *)
(* What is kept in two files agrees, although each is saved by itself and  *)
(* a command may end between the two: a server is started with, and the    *)
(* disk holds, a certificate and a key made together; and no peer is       *)
(* pinned to one set of keys in the configuration and to another in the    *)
(* keystore.  For the agreement, commands that overlap are outside the     *)
(* claim: nothing locks the files.                                         *)
(***************************************************************************)
FilesSound ==
  /\ named > 0 => renames[named] # "torn"
  /\ promised <= named
  /\ ~ overlapped =>
       /\ \A s \in served : s[1] = s[2]
       /\ disk.cert # Absent /\ disk.key # Absent => disk.cert = disk.key
       /\ \A c \in disk.config, k \in disk.keystore, a \in Aliases :
            c[a] # Absent /\ k[a] # Absent => c[a] = k[a]
=============================================================================
