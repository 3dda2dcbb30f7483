----------------------------- MODULE NodeProofs -----------------------------
(***************************************************************************)
(* What holds of a node's host, for any number of processes, publishers    *)
(* and resolvers, failures, kills and power losses.  The files (Stores)    *)
(* and the published records (Discovery) have their inductive invariants   *)
(* here, the guards of `up` (HostGuards) in HostProofs; every part of Node *)
(* keeps its own.                                                          *)
(***************************************************************************)
EXTENDS Node, HostProofs

(* --- Stores: the files of a node ------------------------------------------ *)

\* Where a save is: the contents are synced from the fourth step on, and the
\* seventh, which two of the functions have, syncs the rename.
SavePc(r) ==
  /\ DOMAIN r = {"pc", "data", "name"}
  /\ r.pc \in 0..Len(StepsOf(store)) /\ r.name \in Nat /\ r.name <= Len(renames)
  /\ r.pc >= 4 => r.data = "synced"
  /\ r.pc = 7 => r.name <= synced

SaveInv ==
  /\ store \in {"keystore", "config", "owner-only"}
  /\ DOMAIN saver = Processes
  /\ \A p \in Processes : SavePc(saver[p])
  /\ renames \in Seq({"synced"})
  /\ named = Len(renames)
  /\ promised \in Nat /\ synced \in Nat
  /\ promised <= synced /\ synced <= named

ProcessFields == {"pc", "cert", "key", "config", "keystore", "alias", "pin", "command", "serial"}
DiskFields == {"cert", "key", "config", "keystore"}

\* What the variables of the commands hold.
Kept ==
  /\ DOMAIN disk = DiskFields
  /\ DOMAIN process = Processes /\ \A p \in Processes : DOMAIN process[p] = ProcessFields

\* No two commands run at the same time.
OneAtATime == \A p, q \in Processes : process[p].pc # "idle" /\ process[q].pc # "idle" => p = q

\* What a starting server knows of the two files.
ServerAt(r) ==
  /\ r.pc \in {"stat key", "read key"} => r.cert = disk.cert
  /\ r.pc \in {"write cert", "write key"} => r.cert = r.key /\ disk.key = Absent
  /\ r.pc = "write key" => r.cert = disk.cert

QuicInv ==
  /\ OneAtATime
  /\ \A p \in Processes : ServerAt(process[p])
  /\ \A s \in served : s[1] = s[2]
  /\ disk.key # Absent => disk.cert = disk.key

\* The pins of all peers, as a file holds them.
Pins == [Aliases -> PinValues \cup {Absent}]
Files == {{f} : f \in Pins}

\* Whom the keystore pins, the configuration pins to the same.
Agree(config, keystore) ==
  \A k \in keystore, a \in Aliases : k[a] # Absent => config # {} /\ \A c \in config : c[a] = k[a]

\* What a command holds of the two files.
CommandAt(r) ==
  /\ r.pc \in {"ensure keystore", "ensure config"} => r.command \in {"host", "join"}
  /\ r.pc = "pin" => r.command = "join"
  /\ r.pc \in {"add config", "add keystore"} => r.command = "add"
  /\ r.command \in {"join", "add"} => r.alias \in Aliases /\ r.pin \in PinValues
  /\ r.pc \in {"ensure config", "pin"} => r.keystore \in Files /\ r.keystore = disk.keystore
  /\ r.pc = "pin" => r.config \in Files /\ r.config = disk.config
  /\ r.pc = "save config" =>
       /\ r.config \in Files /\ Agree(r.config, disk.keystore)
       /\ r.command = "join" => r.keystore \in Files /\ Agree(r.config, r.keystore)
       /\ r.command = "add" => \A c \in r.config : c[r.alias] = r.pin
  /\ r.pc = "add keystore" => disk.config # {} /\ \A c \in disk.config : c[r.alias] = r.pin
  /\ r.pc = "save keystore" /\ r.command # "init" =>
       r.keystore \in Files /\ Agree(disk.config, r.keystore)

PinsInv ==
  /\ OneAtATime
  /\ \A p \in Processes : CommandAt(process[p])
  /\ disk.config \in Files \cup {{}} /\ disk.keystore \in Files \cup {{}}
  /\ Agree(disk.config, disk.keystore)

StoreInv ==
  /\ SaveInv /\ Kept
  /\ part # "quic" => served = {} /\ disk.cert = Absent /\ disk.key = Absent
  /\ part # "pins" => disk.config = {} /\ disk.keystore = {}
  /\ part = "quic" /\ ~ overlapped => QuicInv
  /\ part = "pins" /\ ~ overlapped => PinsInv

\* The steps of a save by their numbers.
LEMMA Steps ==
  ASSUME NEW s \in {"keystore", "config", "owner-only"}
  PROVE  /\ Len(StepsOf(s)) = IF s = "owner-only" THEN 6 ELSE 7
         /\ StepsOf(s)[1] = "create" /\ StepsOf(s)[2] = "perms" /\ StepsOf(s)[3] = "write"
         /\ StepsOf(s)[4] = "sync" /\ StepsOf(s)[5] = "check" /\ StepsOf(s)[6] = "rename"
         /\ s # "owner-only" => StepsOf(s)[7] = "syncdir"
<1>1. CASE s = "keystore" BY <1>1, Zenon DEF StepsOf, atomic_secret_write
<1>2. CASE s = "config" BY <1>2, Zenon DEF StepsOf, Config_save
<1>3. CASE s = "owner-only"
  <2>1. StepsOf(s) = write_owner_only_file BY <1>3, Zenon DEF StepsOf
  <2>2. /\ Len(write_owner_only_file) = 6 /\ write_owner_only_file[1] = "create"
        /\ write_owner_only_file[2] = "perms" /\ write_owner_only_file[3] = "write"
        /\ write_owner_only_file[4] = "sync" /\ write_owner_only_file[5] = "check"
        /\ write_owner_only_file[6] = "rename"
    BY Zenon DEF write_owner_only_file
  <2> QED BY <1>3, <2>1, <2>2, Zenon
<1> QED BY <1>1, <1>2, <1>3, Zenon

\* A process at step n of its save takes the next one.
LEMMA Stepping ==
  ASSUME SaveInv, NEW p \in Processes, NEW data, NEW name, To(p, data, name),
         name \in Nat, name <= Len(renames'),
         Len(renames) <= Len(renames'), Len(renames) \in Nat, Len(renames') \in Nat,
         synced' \in Nat, synced <= synced', store' = store,
         saver[p].pc # Len(StepsOf(store)), saver[p].pc >= 3 => data = "synced",
         saver[p].pc = 6 => name <= synced'
  PROVE  DOMAIN saver' = Processes /\ \A q \in Processes : SavePc(saver[q])'
<1>1. PICK w : w = [pc |-> saver[p].pc + 1, data |-> data, name |-> name] BY Zenon
<1>2. DOMAIN w = {"pc", "data", "name"} /\ w.pc = saver[p].pc + 1 /\ w.data = data /\ w.name = name
  BY <1>1, Zenon
<1>3. DOMAIN saver' = Processes /\ saver'[p] = w /\ \A q \in Processes : q # p => saver'[q] = saver[q]
  BY <1>1, Zenon DEF To, SaveInv
<1>4. ASSUME NEW q \in Processes PROVE SavePc(saver[q])'
  <2>1. SavePc(saver[q]) BY Zenon DEF SaveInv
  <2>2. CASE q = p
    <3>1. Len(StepsOf(store)) \in {6, 7} /\ StepsOf(store)' = StepsOf(store)
      BY Steps, Zenon DEF SaveInv, StepsOf
    <3>2. saver[p].pc + 1 \in 0..Len(StepsOf(store)) /\ saver[p].pc \in Nat BY <2>1, <2>2, <3>1 DEF SavePc
    <3>3. saver'[q] = w BY <1>3, <2>2, Zenon
    <3>4. w.pc \in 0..Len(StepsOf(store))' /\ w.name \in Nat /\ w.name <= Len(renames)'
      BY <1>2, <3>1, <3>2, Zenon
    <3>5. w.pc >= 4 => w.data = "synced" BY <1>2, <3>2
    <3>6. w.pc = 7 => w.name <= synced' BY <1>2, <3>2
    <3> QED BY <1>2, <3>3, <3>4, <3>5, <3>6, Zenon DEF SavePc
  <2>3. CASE q # p
    <3>1. saver'[q] = saver[q] BY <1>3, <2>3, Zenon
    <3>2. synced \in Nat BY Zenon DEF SaveInv
    <3>3. StepsOf(store)' = StepsOf(store) BY Zenon DEF StepsOf
    <3> QED BY <2>1, <3>1, <3>2, <3>3 DEF SavePc
  <2> QED BY <2>2, <2>3, Zenon
<1> QED BY <1>3, <1>4, Zenon

\* A save that is over, by any way out.
LEMMA SavingEnds ==
  ASSUME SaveInv, NEW p \in Processes, saver' = [saver EXCEPT ![p] = NotSaving],
         UNCHANGED <<renames, synced, store>>
  PROVE  DOMAIN saver' = Processes /\ \A q \in Processes : SavePc(saver[q])'
<1>1. DOMAIN NotSaving = {"pc", "data", "name"} /\ NotSaving.pc = 0 /\ NotSaving.name = 0
  BY Zenon DEF NotSaving
<1>2. Len(renames) \in Nat BY DEF SaveInv
<1>3. DOMAIN saver' = Processes /\ saver'[p] = NotSaving /\ \A q \in Processes : q # p => saver'[q] = saver[q]
  BY Zenon DEF SaveInv
<1>4. StepsOf(store)' = StepsOf(store) BY Zenon DEF StepsOf
<1>5. Len(StepsOf(store)) \in Nat BY Steps DEF SaveInv
<1>6. SavePc(saver[p])' BY <1>1, <1>2, <1>3, <1>4, <1>5 DEF SavePc
<1>7. \A q \in Processes : q # p => SavePc(saver[q])' BY <1>3, <1>4, Zenon DEF SaveInv, SavePc
<1> QED BY <1>3, <1>6, <1>7, Zenon

\* The steps of a save keep what the directory and the contents are.
LEMMA SavingKeeps == SaveInv /\ SaveNext => SaveInv'
<1> SUFFICES ASSUME SaveInv, SaveNext PROVE SaveInv' BY Zenon
<1>1. store' = store /\ store \in {"keystore", "config", "owner-only"} BY Zenon DEF SaveNext, SaveInv
<1>2. PICK n : n = Len(renames) BY Zenon
<1>3. n \in Nat /\ synced \in Nat /\ synced <= n /\ promised \in Nat /\ promised <= synced /\ named = n
  BY <1>2 DEF SaveInv
<1>4. PICK steps : steps = StepsOf(store) BY Zenon
<1>5. /\ Len(steps) = IF store = "owner-only" THEN 6 ELSE 7
      /\ steps[1] = "create" /\ steps[2] = "perms" /\ steps[3] = "write"
      /\ steps[4] = "sync" /\ steps[5] = "check" /\ steps[6] = "rename"
      /\ store # "owner-only" => steps[7] = "syncdir"
  BY <1>1, <1>4, Steps, Zenon
<1>6. ASSUME NEW p \in Processes PROVE saver[p].pc \in 0..Len(steps) BY <1>4, Zenon DEF SaveInv, SavePc
<1>7. ASSUME NEW p \in Processes, saver[p].pc > 0, ~ StepDone(p)
      PROVE  \/ saver[p].pc = 1 /\ NextStep(p) = "perms"
             \/ saver[p].pc = 2 /\ NextStep(p) = "write"
             \/ saver[p].pc = 3 /\ NextStep(p) = "sync"
             \/ saver[p].pc = 4 /\ NextStep(p) = "check"
             \/ saver[p].pc = 5 /\ NextStep(p) = "rename"
             \/ saver[p].pc = 6 /\ NextStep(p) = "syncdir"
  <2>1. saver[p].pc # Len(steps) /\ NextStep(p) = steps[saver[p].pc + 1] BY <1>4, <1>7, Zenon DEF StepDone, NextStep
  <2>2. \/ saver[p].pc \in {1, 2, 3, 4, 5}
        \/ saver[p].pc = 6 /\ store # "owner-only"
    BY <1>5, <1>6, <1>7, <2>1
  <2> QED BY <1>5, <2>1, <2>2
<1>8. ASSUME NEW p \in Processes, NEW data, To(p, data, 0),
             saver[p].pc < 5, saver[p].pc >= 3 => data = "synced",
             UNCHANGED <<renames, named, synced, promised>>
      PROVE  SaveInv'
  <2>1. saver[p].pc # Len(StepsOf(store)) BY <1>4, <1>5, <1>8
  <2>2. saver[p].pc # 6 BY <1>8
  <2>3. DOMAIN saver' = Processes /\ \A q \in Processes : SavePc(saver[q])'
    BY <1>1, <1>2, <1>3, <1>8, <2>1, <2>2, Stepping
  <2> QED BY <1>1, <1>8, <2>3, Zenon DEF SaveInv
<1>9. ASSUME NEW p \in Processes,
             \/ create_temp_file(p) \/ restrict_secret_perms(p) \/ ensure_no_reparse_components(p)
             \/ write_all(p) \/ sync_all(p)
      PROVE  SaveInv'
  <2>1. saver[p].pc >= 4 => saver[p].data = "synced" BY Zenon DEF SaveInv, SavePc
  <2>2. CASE create_temp_file(p) BY <1>8, <2>2 DEF create_temp_file
  <2>3. CASE restrict_secret_perms(p)
    <3>1. saver[p].pc = 1 BY <1>7, <2>3, Zenon DEF restrict_secret_perms
    <3> QED BY <1>8, <2>3, <3>1 DEF restrict_secret_perms
  <2>4. CASE ensure_no_reparse_components(p)
    <3>1. saver[p].pc = 4 BY <1>7, <2>4, Zenon DEF ensure_no_reparse_components
    <3> QED BY <1>8, <2>1, <2>4, <3>1 DEF ensure_no_reparse_components
  <2>5. CASE write_all(p)
    <3>1. saver[p].pc = 2 BY <1>7, <2>5, Zenon DEF write_all
    <3> QED BY <1>8, <2>5, <3>1 DEF write_all
  <2>6. CASE sync_all(p)
    <3>1. saver[p].pc = 3 BY <1>7, <2>6, Zenon DEF sync_all
    <3> QED BY <1>8, <2>6, <3>1 DEF sync_all
  <2> QED BY <1>9, <2>2, <2>3, <2>4, <2>5, <2>6
<1>10. ASSUME NEW p \in Processes, persist_over(p) PROVE SaveInv'
  <2>1. saver[p].pc = 5 /\ saver[p].data = "synced"
    <3>1. saver[p].pc = 5 BY <1>7, <1>10, Zenon DEF persist_over
    <3> QED BY <3>1 DEF SaveInv, SavePc
  <2>2. /\ renames' = Append(renames, "synced") /\ named' = n + 1 /\ To(p, "synced", n + 1)
        /\ UNCHANGED <<synced, promised>>
    BY <1>2, <1>10, <2>1, Zenon DEF persist_over
  <2>3. renames' \in Seq({"synced"}) /\ Len(renames') = n + 1
    <3>1. renames \in Seq({"synced"}) BY Zenon DEF SaveInv
    <3> QED BY <1>2, <2>2, <3>1
  <2>4. saver[p].pc # Len(StepsOf(store)) BY <1>4, <1>5, <2>1, Zenon
  <2>5. n + 1 \in Nat /\ n <= n + 1 /\ saver[p].pc # 6 BY <1>3, <2>1
  <2>6. DOMAIN saver' = Processes /\ \A q \in Processes : SavePc(saver[q])'
    BY <1>1, <1>2, <1>3, <2>2, <2>3, <2>4, <2>5, Stepping
  <2> QED BY <1>1, <1>3, <2>2, <2>3, <2>6 DEF SaveInv
<1>11. ASSUME NEW p \in Processes, sync_parent_dir(p) PROVE SaveInv'
  <2>1. saver[p].pc = 6 BY <1>7, <1>11, Zenon DEF sync_parent_dir
  <2>2. saver[p].data = "synced" /\ saver[p].name \in Nat /\ saver[p].name <= n
    BY <1>2, <2>1 DEF SaveInv, SavePc
  <2>3. synced' = n /\ To(p, saver[p].data, saver[p].name) /\ UNCHANGED <<renames, named, promised>>
    BY <1>2, <1>11, Zenon DEF sync_parent_dir
  <2>4. saver[p].pc # Len(StepsOf(store)) BY <1>11, Zenon DEF sync_parent_dir, StepDone
  <2>5. DOMAIN saver' = Processes /\ \A q \in Processes : SavePc(saver[q])'
    BY <1>1, <1>2, <1>3, <2>2, <2>3, <2>4, Stepping
  <2> QED BY <1>1, <1>2, <1>3, <2>3, <2>5 DEF SaveInv
<1>12. ASSUME NEW p \in Processes, SaveReturns(p) PROVE SaveInv'
  <2>1. DOMAIN saver' = Processes /\ \A q \in Processes : SavePc(saver[q])'
    BY <1>1, <1>12, SavingEnds, Zenon DEF SaveReturns
  <2>2. promised' \in Nat /\ promised' <= synced
    <3>1. CASE store = "owner-only"
      <4>1. promised' = promised BY <1>12, <3>1, Zenon DEF SaveReturns
      <4> QED BY <1>3, <4>1, Zenon
    <3>2. CASE store # "owner-only"
      <4>1. saver[p].pc = 7 BY <1>4, <1>5, <1>12, <3>2, Zenon DEF SaveReturns, StepDone
      <4>2. saver[p].name \in Nat /\ saver[p].name <= synced BY <4>1, Zenon DEF SaveInv, SavePc
      <4>3. promised' \in {saver[p].name, promised} BY <1>12, Zenon DEF SaveReturns
      <4> QED BY <1>3, <4>2, <4>3, Zenon
    <3> QED BY <3>1, <3>2, Zenon
  <2>3. UNCHANGED <<renames, named, synced>> BY <1>12, Zenon DEF SaveReturns
  <2> QED BY <1>1, <1>3, <2>1, <2>2, <2>3, Zenon DEF SaveInv
<1>13. ASSUME NEW p \in Processes, SaveStops(p) PROVE SaveInv'
  <2>1. DOMAIN saver' = Processes /\ \A q \in Processes : SavePc(saver[q])'
    BY <1>1, <1>13, SavingEnds, Zenon DEF SaveStops
  <2> QED BY <1>1, <1>3, <1>13, <2>1, Zenon DEF SaveInv, SaveStops
<1>14. ASSUME PowerLoss PROVE SaveInv'
  <2>1. PICK i \in synced..n :
          /\ named' = i /\ synced' = i
          /\ renames' = [j \in 1..i |-> IF renames[j] = "cached" THEN "torn" ELSE renames[j]]
    BY <1>2, <1>14, Zenon DEF PowerLoss
  <2>2. i \in Nat /\ i <= n /\ synced <= i BY <1>3, <2>1
  <2>3. \A j \in 1..i : renames[j] = "synced" BY <1>2, <1>3, <2>2 DEF SaveInv
  <2>4. renames' = [j \in 1..i |-> "synced"] BY <2>1, <2>3, Zenon
  <2>5. renames' \in Seq({"synced"}) /\ Len(renames') = i BY <2>2, <2>4
  <2>6. DOMAIN saver' = Processes /\ \A q \in Processes : saver'[q] = NotSaving BY <1>14, Zenon DEF PowerLoss
  <2>7. DOMAIN NotSaving = {"pc", "data", "name"} /\ NotSaving.pc = 0 /\ NotSaving.name = 0
    BY Zenon DEF NotSaving
  <2>8. Len(StepsOf(store)') \in Nat BY <1>1, <1>4, <1>5 DEF StepsOf
  <2>9. \A q \in Processes : SavePc(saver[q])' BY <2>2, <2>5, <2>6, <2>7, <2>8 DEF SavePc
  <2>10. promised' = promised BY <1>14, Zenon DEF PowerLoss
  <2> QED BY <1>1, <1>3, <2>1, <2>2, <2>5, <2>6, <2>9, <2>10 DEF SaveInv
<1> QED BY <1>9, <1>10, <1>11, <1>12, <1>13, <1>14, Zenon DEF SaveNext

\* A process that runs no command.
LEMMA Resting == DOMAIN AtRest = ProcessFields /\ AtRest.pc = "idle" /\ AtRest.command = ""
BY Zenon DEF AtRest, ProcessFields

\* One process changes what it holds.
LEMMA ProcessMoves ==
  ASSUME Kept, NEW p \in Processes, NEW r, Move(p, r), DOMAIN r = ProcessFields
  PROVE  /\ DOMAIN process' = Processes /\ \A q \in Processes : DOMAIN process'[q] = ProcessFields
         /\ process'[p] = r /\ \A q \in Processes : q # p => process'[q] = process[q]
BY Zenon DEF Kept, Move

\* The only server that starts takes a step.
LEMMA ServerMoves ==
  ASSUME Kept, QuicInv, NEW p \in Processes, ~ At(p, "idle"),
         NEW r, Move(p, r), DOMAIN r = ProcessFields, ServerAt(r)',
         \A s \in served' : s[1] = s[2],
         disk'.key # Absent => disk'.cert = disk'.key
  PROVE  QuicInv'
<1>1. process'[p] = r /\ \A q \in Processes : q # p => process'[q] = process[q] BY ProcessMoves, Zenon
<1>2. \A q \in Processes : q # p => process[q].pc = "idle" BY Zenon DEF QuicInv, OneAtATime, At
<1>3. OneAtATime' BY <1>1, <1>2, Zenon DEF OneAtATime
<1>4. \A q \in Processes : q # p => ServerAt(process[q])' BY <1>1, <1>2, Zenon DEF ServerAt
<1>5. ServerAt(process[p])' BY <1>1, Zenon DEF ServerAt
<1> QED BY <1>3, <1>4, <1>5, Zenon DEF QuicInv

\* A command starts: unless another one runs, all were at rest.
LEMMA Starting ==
  ASSUME Kept, NEW p \in Processes, NEW r, StartProcess(p, r), DOMAIN r = ProcessFields
  PROVE  /\ Kept' /\ UNCHANGED <<disk, served>>
         /\ process'[p].pc = r.pc /\ process'[p].command = r.command
         /\ process'[p].alias = r.alias /\ process'[p].pin = r.pin
         /\ ~ overlapped' =>
              /\ ~ overlapped /\ \A q \in Processes : process[q].pc = "idle"
              /\ \A q \in Processes : q # p => process'[q] = process[q]
<1>1. PICK w : w = [r EXCEPT !.serial = starts + 1] BY Zenon
<1>2. /\ DOMAIN w = ProcessFields /\ w.pc = r.pc /\ w.command = r.command
      /\ w.alias = r.alias /\ w.pin = r.pin
  BY <1>1, Zenon DEF ProcessFields
<1>3. Move(p, w) /\ UNCHANGED <<disk, served>> BY <1>1, Zenon DEF StartProcess
<1>4. /\ DOMAIN process' = Processes /\ \A q \in Processes : DOMAIN process'[q] = ProcessFields
      /\ process'[p] = w /\ \A q \in Processes : q # p => process'[q] = process[q]
  BY <1>2, <1>3, ProcessMoves, Zenon
<1>5. ~ overlapped' => ~ overlapped /\ \A q \in Processes : process[q].pc = "idle" BY Zenon DEF StartProcess
<1>6. Kept' BY <1>3, <1>4, Zenon DEF Kept
<1> QED BY <1>2, <1>3, <1>4, <1>5, <1>6

\* The steps of a server that starts.
LEMMA QuicKeeps ==
  ASSUME Kept, ~ overlapped => QuicInv, QuicNext
  PROVE  /\ Kept' /\ (~ overlapped' => QuicInv')
         /\ disk'.config = disk.config /\ disk'.keystore = disk.keystore
<1>1. PICK p \in Processes :
        \/ StartServer(p) \/ StatCertificate(p) \/ StatPrivateKey(p)
        \/ read_quic_certificate(p) \/ read_quic_private_key(p)
        \/ write_quic_certificate(p) \/ write_quic_private_key(p) \/ Stop(p)
  BY Zenon DEF QuicNext
<1>2. PICK r : r = process[p] BY Zenon
<1>3. DOMAIN r = ProcessFields BY <1>2, Zenon DEF Kept
<1>4. ASSUME NEW w, Move(p, w), DOMAIN w = ProcessFields, r.pc # "idle", overlapped' = overlapped,
             DOMAIN disk' = DiskFields,
             QuicInv => /\ ServerAt(w)' /\ \A s \in served' : s[1] = s[2]
                        /\ disk'.key # Absent => disk'.cert = disk'.key
      PROVE  Kept' /\ (~ overlapped' => QuicInv')
  <2>1. Kept' BY <1>4, ProcessMoves, Zenon DEF Kept
  <2>2. ~ At(p, "idle") BY <1>2, <1>4, Zenon DEF At
  <2>3. ASSUME ~ overlapped PROVE QuicInv'
    <3>1. QuicInv BY <2>3, Zenon
    <3> QED BY <1>4, <2>2, <3>1, ServerMoves, Zenon
  <2> QED BY <1>4, <2>1, <2>3, Zenon
<1>5. QuicInv => ServerAt(r) /\ (\A s \in served : s[1] = s[2]) /\ (disk.key # Absent => disk.cert = disk.key)
  BY <1>2, Zenon DEF QuicInv
<1>6. ASSUME End(p), r.pc # "idle", UNCHANGED <<disk, served, overlapped>> PROVE Kept' /\ (~ overlapped' => QuicInv')
  <2>1. Move(p, AtRest) BY <1>6, Zenon DEF End
  <2>2. ServerAt(AtRest)' BY Resting, Zenon DEF ServerAt
  <2> QED BY <1>4, <1>5, <1>6, <2>1, <2>2, Resting, Zenon DEF Kept
<1>7. CASE StartServer(p)
  <2>1. PICK new : new = [AtRest EXCEPT !.pc = "stat cert"] BY Zenon
  <2>2. DOMAIN new = ProcessFields /\ new.pc = "stat cert" BY <2>1, Resting, Zenon DEF ProcessFields
  <2>3. StartProcess(p, new) BY <1>7, <2>1, Zenon DEF StartServer
  <2>4. /\ Kept' /\ UNCHANGED <<disk, served>> /\ process'[p].pc = "stat cert"
        /\ ~ overlapped' =>
             /\ ~ overlapped /\ \A q \in Processes : process[q].pc = "idle"
             /\ \A q \in Processes : q # p => process'[q] = process[q]
    BY <2>2, <2>3, Starting, Zenon
  <2>5. ASSUME ~ overlapped' PROVE QuicInv'
    <3>1. QuicInv /\ \A q \in Processes : q # p => process'[q].pc = "idle" BY <2>4, <2>5, Zenon
    <3>2. \A q \in Processes : ServerAt(process[q])' BY <2>4, <3>1, Zenon DEF ServerAt
    <3>3. OneAtATime' BY <3>1, Zenon DEF OneAtATime
    <3> QED BY <2>4, <3>1, <3>2, <3>3, Zenon DEF QuicInv
  <2> QED BY <2>4, <2>5, Zenon
<1>8. CASE StatCertificate(p)
  <2>1. PICK w : w = [r EXCEPT !.pc = "stat key", !.cert = disk.cert] BY Zenon
  <2>2. Move(p, w) /\ r.pc = "stat cert" /\ UNCHANGED <<disk, served, overlapped>>
    BY <1>2, <1>8, <2>1, Zenon DEF StatCertificate, At
  <2>3. DOMAIN w = ProcessFields /\ w.pc = "stat key" /\ w.cert = disk.cert BY <1>3, <2>1, Zenon DEF ProcessFields
  <2>4. ServerAt(w)' BY <2>2, <2>3, Zenon DEF ServerAt
  <2> QED BY <1>4, <1>5, <2>2, <2>3, <2>4, Zenon DEF Kept
<1>9. CASE StatPrivateKey(p)
  <2>1. r.pc = "stat key" /\ UNCHANGED <<disk, served, overlapped>> BY <1>2, <1>9, Zenon DEF StatPrivateKey, At
  <2>2. CASE End(p) BY <1>6, <2>1, <2>2, Zenon
  <2>3. CASE ~ End(p)
    <3>1. PICK w : w = [r EXCEPT !.pc = Decide(r.cert, disk.key), !.cert = r.serial, !.key = r.serial] BY Zenon
    <3>2. Move(p, w) BY <1>2, <1>9, <2>3, <3>1, Zenon DEF StatPrivateKey
    <3>3. DOMAIN w = ProcessFields /\ w.pc = Decide(r.cert, disk.key) /\ w.cert = w.key
      BY <1>3, <3>1, Zenon DEF ProcessFields
    <3>4. w.pc \in {"read cert", "write cert", "idle"} /\ (w.pc = "write cert" => disk.key = Absent)
      BY <3>3, Zenon DEF Decide
    <3>5. ServerAt(w)' BY <2>1, <3>3, <3>4, Zenon DEF ServerAt
    <3> QED BY <1>4, <1>5, <2>1, <3>2, <3>3, <3>5, Zenon DEF Kept
  <2> QED BY <2>2, <2>3, Zenon
<1>10. CASE read_quic_certificate(p)
  <2>1. r.pc = "read cert" /\ UNCHANGED <<disk, served, overlapped>> BY <1>2, <1>10, Zenon DEF read_quic_certificate, At
  <2>2. CASE End(p) BY <1>6, <2>1, <2>2, Zenon
  <2>3. CASE ~ End(p)
    <3>1. PICK w : w = [r EXCEPT !.pc = "read key", !.cert = disk.cert] BY Zenon
    <3>2. Move(p, w) BY <1>2, <1>10, <2>3, <3>1, Zenon DEF read_quic_certificate
    <3>3. DOMAIN w = ProcessFields /\ w.pc = "read key" /\ w.cert = disk.cert BY <1>3, <3>1, Zenon DEF ProcessFields
    <3>4. ServerAt(w)' BY <2>1, <3>3, Zenon DEF ServerAt
    <3> QED BY <1>4, <1>5, <2>1, <3>2, <3>3, <3>4, Zenon DEF Kept
  <2> QED BY <2>2, <2>3, Zenon
<1>11. CASE read_quic_private_key(p)
  <2>1. /\ r.pc = "read key" /\ UNCHANGED <<disk, overlapped>> /\ Move(p, AtRest)
        /\ served' = IF disk.key = Absent THEN served ELSE served \cup {<<r.cert, disk.key>>}
    BY <1>2, <1>11, Zenon DEF read_quic_private_key, At, End
  <2>2. QuicInv => \A s \in served' : s[1] = s[2]
    <3> SUFFICES ASSUME QuicInv, NEW s \in served', disk.key # Absent, s = <<r.cert, disk.key>> PROVE s[1] = s[2]
      BY <1>5, <2>1, Zenon
    <3>1. r.cert = disk.cert /\ disk.cert = disk.key BY <1>5, <2>1, Zenon DEF ServerAt
    <3> QED BY <3>1, Zenon
  <2>3. ServerAt(AtRest)' BY Resting, Zenon DEF ServerAt
  <2> QED BY <1>4, <1>5, <2>1, <2>2, <2>3, Resting, Zenon DEF Kept
<1>12. CASE write_quic_certificate(p)
  <2>1. PICK w : w = [r EXCEPT !.pc = "write key"] BY Zenon
  <2>2. /\ r.pc = "write cert" /\ Move(p, w) /\ UNCHANGED <<served, overlapped>>
        /\ disk' = [disk EXCEPT !.cert = r.cert]
    BY <1>2, <1>12, <2>1, Zenon DEF write_quic_certificate, At, Goto
  <2>3. DOMAIN w = ProcessFields /\ w.pc = "write key" /\ w.cert = r.cert /\ w.key = r.key
    BY <1>3, <2>1, Zenon DEF ProcessFields
  <2>4. /\ DOMAIN disk' = DiskFields /\ disk'.cert = r.cert /\ disk'.key = disk.key
        /\ disk'.config = disk.config /\ disk'.keystore = disk.keystore
    BY <2>2, Zenon DEF Kept, DiskFields
  <2>5. QuicInv => r.cert = r.key /\ disk.key = Absent BY <1>5, <2>2, Zenon DEF ServerAt
  <2>6. QuicInv => ServerAt(w)' BY <2>3, <2>4, <2>5, Zenon DEF ServerAt
  <2> QED BY <1>4, <1>5, <2>2, <2>3, <2>4, <2>5, <2>6, Zenon
<1>13. CASE write_quic_private_key(p)
  <2>1. r.pc = "write key" /\ Move(p, AtRest) /\ UNCHANGED overlapped
    BY <1>2, <1>13, Zenon DEF write_quic_private_key, At, End
  <2>2. QuicInv => r.cert = r.key /\ r.cert = disk.cert /\ disk.key = Absent BY <1>5, <2>1, Zenon DEF ServerAt
  <2>3. ServerAt(AtRest)' BY Resting, Zenon DEF ServerAt
  <2>4. CASE disk' = [disk EXCEPT !.key = r.key] /\ served' = served \cup {<<r.cert, r.key>>}
    <3>1. /\ DOMAIN disk' = DiskFields /\ disk'.cert = disk.cert /\ disk'.key = r.key
          /\ disk'.config = disk.config /\ disk'.keystore = disk.keystore
      BY <2>4, Zenon DEF Kept, DiskFields
    <3>2. QuicInv => \A s \in served' : s[1] = s[2] BY <1>5, <2>2, <2>4
    <3> QED BY <1>4, <2>1, <2>2, <2>3, <3>1, <3>2, Resting, Zenon
  <2>5. CASE disk' = [disk EXCEPT !.cert = Absent] /\ served' = served
    <3>1. /\ DOMAIN disk' = DiskFields /\ disk'.key = disk.key
          /\ disk'.config = disk.config /\ disk'.keystore = disk.keystore
      BY <2>5, Zenon DEF Kept, DiskFields
    <3> QED BY <1>4, <1>5, <2>1, <2>2, <2>3, <2>5, <3>1, Resting, Zenon
  <2> QED BY <1>2, <1>13, <2>4, <2>5, Zenon DEF write_quic_private_key
<1>14. CASE Stop(p)
  <2>1. End(p) /\ r.pc # "idle" /\ UNCHANGED <<disk, served, overlapped>> BY <1>2, <1>14, Zenon DEF Stop, At
  <2> QED BY <1>6, <2>1, Zenon
<1> QED BY <1>1, <1>7, <1>8, <1>9, <1>10, <1>11, <1>12, <1>13, <1>14

\* A file with pins, and the one it becomes with another.
LEMMA FilePins ==
  ASSUME NEW x \in Files, NEW a \in Aliases, NEW v \in PinValues
  PROVE  \E f \in Pins : /\ x = {f} /\ PinIn(x, a) = f[a]
                         /\ WithPin(x, a, v) = {[f EXCEPT ![a] = v]} /\ [f EXCEPT ![a] = v] \in Pins
<1>1. PICK f \in Pins : x = {f} BY Zenon DEF Files
<1>2. (CHOOSE g \in x : TRUE) = f BY <1>1, Zenon
<1>3. [f EXCEPT ![a] = v] \in Pins BY Zenon DEF Pins
<1> QED BY <1>1, <1>2, <1>3, Zenon DEF PinIn, WithPin

\* A pins file that was never written holds no pin.
LEMMA NewFile == NoPins \in Pins /\ {NoPins} \in Files /\ \A a \in Aliases : NoPins[a] = Absent
<1>1. NoPins \in Pins /\ \A a \in Aliases : NoPins[a] = Absent BY Zenon DEF NoPins, Pins
<1> QED BY <1>1, Zenon DEF Files

\* A missing pins file, or an empty one, agrees with any other.
LEMMA NoneAgree == ASSUME NEW config PROVE Agree(config, {}) /\ Agree(config, {NoPins})
BY NewFile, Zenon DEF Agree

\* The same pin is given to both, to the configuration of a keystore that
\* has it or none, or to the keystore of a configuration that has it.
LEMMA PinsAgree ==
  ASSUME NEW x \in Files, NEW y \in Files, Agree(x, y), NEW a \in Aliases, NEW v \in PinValues
  PROVE  /\ WithPin(x, a, v) \in Files /\ WithPin(y, a, v) \in Files
         /\ \A c \in WithPin(x, a, v) : c[a] = v
         /\ Agree(WithPin(x, a, v), WithPin(y, a, v))
         /\ PinIn(y, a) \in {Absent, v} => Agree(WithPin(x, a, v), y)
         /\ PinIn(x, a) = v => Agree(x, WithPin(y, a, v))
         /\ PinIn(y, a) # Absent => PinIn(x, a) = PinIn(y, a)
<1>1. PICK f \in Pins : /\ x = {f} /\ PinIn(x, a) = f[a]
                        /\ WithPin(x, a, v) = {[f EXCEPT ![a] = v]} /\ [f EXCEPT ![a] = v] \in Pins
  BY FilePins, Zenon
<1>2. PICK g \in Pins : /\ y = {g} /\ PinIn(y, a) = g[a]
                        /\ WithPin(y, a, v) = {[g EXCEPT ![a] = v]} /\ [g EXCEPT ![a] = v] \in Pins
  BY FilePins, Zenon
<1>3. PICK fv : fv = [f EXCEPT ![a] = v] BY Zenon
<1>4. PICK gv : gv = [g EXCEPT ![a] = v] BY Zenon
<1>5. /\ \A b \in Aliases : fv[b] = IF b = a THEN v ELSE f[b]
      /\ \A b \in Aliases : gv[b] = IF b = a THEN v ELSE g[b]
  BY <1>3, <1>4, Zenon DEF Pins
<1>6. \A b \in Aliases : g[b] # Absent => f[b] = g[b] BY <1>1, <1>2, Zenon DEF Agree
<1>7. WithPin(x, a, v) = {fv} /\ WithPin(y, a, v) = {gv} /\ fv \in Pins /\ gv \in Pins
  BY <1>1, <1>2, <1>3, <1>4, Zenon
<1>8. WithPin(x, a, v) \in Files /\ WithPin(y, a, v) \in Files BY <1>7, Zenon DEF Files
<1>9. Agree({fv}, {gv}) BY <1>5, <1>6 DEF Agree
<1>10. g[a] \in {Absent, v} => Agree({fv}, {g}) BY <1>5, <1>6, Zenon DEF Agree
<1>11. f[a] = v => Agree({f}, {gv}) BY <1>5, <1>6, Zenon DEF Agree
<1>12. fv[a] = v BY <1>5, Zenon
<1> QED BY <1>1, <1>2, <1>6, <1>7, <1>8, <1>9, <1>10, <1>11, <1>12

\* The only command that runs takes a step.
LEMMA CommandMoves ==
  ASSUME Kept, PinsInv, NEW p \in Processes, ~ At(p, "idle"),
         NEW r, Move(p, r), DOMAIN r = ProcessFields, CommandAt(r)',
         disk'.config \in Files \cup {{}}, disk'.keystore \in Files \cup {{}},
         Agree(disk'.config, disk'.keystore)
  PROVE  PinsInv'
<1>1. process'[p] = r /\ \A q \in Processes : q # p => process'[q] = process[q] BY ProcessMoves, Zenon
<1>2. \A q \in Processes : q # p => process[q].pc = "idle" BY Zenon DEF PinsInv, OneAtATime, At
<1>3. OneAtATime' BY <1>1, <1>2, Zenon DEF OneAtATime
<1>4. ASSUME NEW q \in Processes, q # p PROVE CommandAt(process[q])'
  <2>1. PICK i : i = process[q] /\ process'[q] = i /\ i.pc = "idle" BY <1>1, <1>2, <1>4, Zenon
  <2>2. i.command \in {"join", "add"} => i.alias \in Aliases /\ i.pin \in PinValues
    BY <2>1, Zenon DEF PinsInv, CommandAt
  <2> QED BY <2>1, <2>2, Zenon DEF CommandAt
<1>5. CommandAt(process[p])' BY <1>1, Zenon DEF CommandAt
<1>6. Agree(disk.config, disk.keystore)' BY Zenon DEF Agree
<1> QED BY <1>3, <1>4, <1>5, <1>6 DEF PinsInv

\* A command starts.
LEMMA CommandStarts ==
  ASSUME Kept, ~ overlapped => PinsInv, NEW p \in Processes, NEW command, NEW pc, NEW a, NEW v,
         Run(p, command, pc, a, v),
         \/ command = "init" /\ pc = "save keystore"
         \/ command \in {"host", "join"} /\ pc = "ensure keystore"
         \/ command = "add" /\ pc = "add config",
         command \in {"join", "add"} => a \in Aliases /\ v \in PinValues
  PROVE  Kept' /\ (~ overlapped' => PinsInv') /\ UNCHANGED <<disk, served>>
<1>1. PICK new : new = [AtRest EXCEPT !.command = command, !.pc = pc, !.alias = a, !.pin = v] BY Zenon
<1>2. /\ DOMAIN new = ProcessFields /\ new.pc = pc /\ new.command = command
      /\ new.alias = a /\ new.pin = v
  BY <1>1, Resting, Zenon DEF ProcessFields
<1>3. StartProcess(p, new) BY <1>1, Zenon DEF Run
<1>4. /\ Kept' /\ UNCHANGED <<disk, served>>
      /\ process'[p].pc = pc /\ process'[p].command = command
      /\ process'[p].alias = a /\ process'[p].pin = v
      /\ ~ overlapped' =>
           /\ ~ overlapped /\ \A q \in Processes : process[q].pc = "idle"
           /\ \A q \in Processes : q # p => process'[q] = process[q]
  BY <1>2, <1>3, Starting, Zenon
<1>5. ASSUME ~ overlapped' PROVE PinsInv'
  <2>1. PinsInv /\ \A q \in Processes : q # p => process'[q] = process[q] /\ process'[q].pc = "idle"
    BY <1>4, <1>5, Zenon
  <2>2. OneAtATime' BY <2>1, Zenon DEF OneAtATime
  <2>4. CommandAt(process[p])' BY <1>4, Zenon DEF CommandAt
  <2>5. ASSUME NEW q \in Processes, q # p PROVE CommandAt(process[q])'
    <3>1. PICK i : i = process[q] /\ process'[q] = i /\ i.pc = "idle" BY <2>1, <2>5, Zenon
    <3>2. i.command \in {"join", "add"} => i.alias \in Aliases /\ i.pin \in PinValues
      BY <2>1, <3>1, Zenon DEF PinsInv, CommandAt
    <3> QED BY <3>1, <3>2, Zenon DEF CommandAt
  <2>6. Agree(disk.config, disk.keystore)' BY <1>4, <2>1, Zenon DEF PinsInv, Agree
  <2> QED BY <1>4, <2>1, <2>2, <2>4, <2>5, <2>6, Zenon DEF PinsInv
<1> QED BY <1>4, <1>5, Zenon

\* The steps of init, host, join and add-peer.
LEMMA PinsKeep ==
  ASSUME Kept, ~ overlapped => PinsInv, PinsNext
  PROVE  /\ Kept' /\ (~ overlapped' => PinsInv')
         /\ served' = served /\ disk'.cert = disk.cert /\ disk'.key = disk.key
<1>1. PICK p \in Processes :
        \/ \E force_new \in BOOLEAN : handle_init(p, force_new)
        \/ handle_host(p)
        \/ \E a \in Aliases, v \in PinValues : handle_join(p, a, v) \/ handle_add_peer(p, a, v)
        \/ EnsureKeystore(p) \/ EnsureConfig(p) \/ ensure_peer_pin(p)
        \/ AddToConfig(p) \/ AddToKeystore(p) \/ SaveKeystore(p) \/ SaveConfig(p)
        \/ Stop(p)
  BY Zenon DEF PinsNext
<1>2. PICK r : r = process[p] BY Zenon
<1>3. DOMAIN r = ProcessFields BY <1>2, Zenon DEF Kept
<1> DEFINE Result == /\ Kept' /\ (~ overlapped' => PinsInv')
                     /\ served' = served /\ disk'.cert = disk.cert /\ disk'.key = disk.key
<1> SUFFICES Result BY Zenon
<1>4. ASSUME NEW w, Move(p, w), DOMAIN w = ProcessFields, r.pc # "idle",
             UNCHANGED <<overlapped, served>>, DOMAIN disk' = DiskFields,
             disk'.cert = disk.cert, disk'.key = disk.key,
             PinsInv => /\ CommandAt(w)'
                        /\ disk'.config \in Files \cup {{}} /\ disk'.keystore \in Files \cup {{}}
                        /\ Agree(disk'.config, disk'.keystore)
      PROVE  Result
  <2>1. Kept' BY <1>4, ProcessMoves, Zenon DEF Kept
  <2>2. ~ At(p, "idle") BY <1>2, <1>4, Zenon DEF At
  <2>3. ASSUME ~ overlapped PROVE PinsInv'
    <3>1. PinsInv BY <2>3, Zenon
    <3> QED BY <1>4, <2>2, <3>1, CommandMoves
  <2> QED BY <1>4, <2>1, <2>3, Zenon
<1>5. PinsInv => /\ CommandAt(r)
                 /\ disk.config \in Files \cup {{}} /\ disk.keystore \in Files \cup {{}}
                 /\ Agree(disk.config, disk.keystore)
  BY <1>2, Zenon DEF PinsInv
<1>6. CommandAt(AtRest)' BY Resting, Zenon DEF CommandAt
<1>7. ASSUME End(p), r.pc # "idle", UNCHANGED <<disk, served, overlapped>> PROVE Result
  <2>1. Move(p, AtRest) BY <1>7, Zenon DEF End
  <2>2. DOMAIN disk' = DiskFields BY <1>7, Zenon DEF Kept
  <2> QED BY <1>4, <1>5, <1>6, <1>7, <2>1, <2>2, Resting, Zenon
<1>8. ASSUME NEW w, Move(p, w), DOMAIN w = ProcessFields, r.pc # "idle", UNCHANGED <<disk, served, overlapped>>,
             PinsInv => CommandAt(w)'
      PROVE  Result
  <2>1. DOMAIN disk' = DiskFields BY <1>8, Zenon DEF Kept
  <2> QED BY <1>4, <1>5, <1>8, <2>1
<1> HIDE DEF Result
<1>9. CASE \/ \E force_new \in BOOLEAN : handle_init(p, force_new)
           \/ handle_host(p)
           \/ \E a \in Aliases, v \in PinValues : handle_join(p, a, v) \/ handle_add_peer(p, a, v)
  <2>1. ASSUME NEW force_new \in BOOLEAN, handle_init(p, force_new) PROVE Result
    <3>1. Run(p, "init", "save keystore", AnyAlias, Absent) BY <2>1, Zenon DEF handle_init
    <3> QED BY <3>1, CommandStarts, Zenon DEF Result
  <2>2. ASSUME handle_host(p) PROVE Result
    <3>1. Run(p, "host", "ensure keystore", AnyAlias, Absent) BY <2>2, Zenon DEF handle_host
    <3> QED BY <3>1, CommandStarts, Zenon DEF Result
  <2>3. ASSUME NEW a \in Aliases, NEW v \in PinValues, handle_join(p, a, v) \/ handle_add_peer(p, a, v)
        PROVE  Result
    <3>1. Run(p, "join", "ensure keystore", a, v) \/ Run(p, "add", "add config", a, v)
      BY <2>3, Zenon DEF handle_join, handle_add_peer
    <3> QED BY <3>1, CommandStarts, Zenon DEF Result
  <2> QED BY <1>9, <2>1, <2>2, <2>3
<1>10. CASE EnsureKeystore(p)
  <2>1. PICK k : k = KeyStore_load BY Zenon
  <2>2. PICK w : w = [r EXCEPT !.pc = "ensure config", !.keystore = k] BY Zenon
  <2>3. /\ r.pc = "ensure keystore" /\ Move(p, w) /\ UNCHANGED <<served, overlapped>>
        /\ disk' = [disk EXCEPT !.keystore = k]
    BY <1>2, <1>10, <2>1, <2>2, Zenon DEF EnsureKeystore, At
  <2>4. /\ DOMAIN w = ProcessFields /\ w.pc = "ensure config" /\ w.keystore = k
        /\ w.command = r.command /\ w.alias = r.alias /\ w.pin = r.pin
    BY <1>3, <2>2, Zenon DEF ProcessFields
  <2>5. /\ DOMAIN disk' = DiskFields /\ disk'.cert = disk.cert /\ disk'.key = disk.key
        /\ disk'.config = disk.config /\ disk'.keystore = k
    BY <2>3, Zenon DEF Kept, DiskFields
  <2>6. PinsInv => k \in Files /\ Agree(disk.config, k)
    BY <1>5, <2>1, NewFile, NoneAgree DEF KeyStore_load
  <2>7. PinsInv => CommandAt(w)' BY <1>5, <2>3, <2>4, <2>5, <2>6, Zenon DEF CommandAt
  <2> QED BY <1>4, <1>5, <2>3, <2>4, <2>5, <2>6, <2>7, Zenon
<1>11. CASE EnsureConfig(p)
  <2>1. PICK c : c = Config_load(r.keystore) BY Zenon
  <2>2. /\ r.pc = "ensure config" /\ UNCHANGED <<served, overlapped>>
        /\ disk' = [disk EXCEPT !.config = c]
    BY <1>2, <1>11, <2>1, Zenon DEF EnsureConfig, At
  <2>3. /\ DOMAIN disk' = DiskFields /\ disk'.cert = disk.cert /\ disk'.key = disk.key
        /\ disk'.config = c /\ disk'.keystore = disk.keystore
    BY <2>2, Zenon DEF Kept, DiskFields
  <2>4. PinsInv => /\ r.keystore \in Files /\ r.keystore = disk.keystore
                   /\ r.command \in {"host", "join"}
    BY <1>5, <2>2, Zenon DEF CommandAt
  <2>5. PinsInv => c \in Files /\ Agree(c, disk.keystore)
    <3> SUFFICES ASSUME PinsInv PROVE c \in Files /\ Agree(c, disk.keystore) BY Zenon
    <3>1. CASE disk.config = {}
      <4>1. c = r.keystore BY <2>1, <3>1, Zenon DEF Config_load
      <4>2. PICK f \in Pins : r.keystore = {f} BY <2>4, Zenon DEF Files
      <4>3. Agree({f}, {f}) BY Zenon DEF Agree
      <4> QED BY <2>4, <4>1, <4>2, <4>3, Zenon
    <3>2. CASE disk.config # {} BY <1>5, <2>1, <3>2, Zenon DEF Config_load
    <3> QED BY <3>1, <3>2, Zenon
  <2>6. CASE End(p)
    <3>1. Move(p, AtRest) BY <2>6, Zenon DEF End
    <3> QED BY <1>4, <1>5, <1>6, <2>2, <2>3, <2>5, <3>1, Resting, Zenon
  <2>7. CASE ~ End(p)
    <3>1. PICK w : w = [r EXCEPT !.config = c, !.pc = IF r.command = "join" THEN "pin" ELSE "save config"]
      BY Zenon
    <3>2. Move(p, w) BY <1>2, <1>11, <2>1, <2>7, <3>1, Zenon DEF EnsureConfig
    <3>3. /\ DOMAIN w = ProcessFields /\ w.pc = IF r.command = "join" THEN "pin" ELSE "save config"
          /\ w.config = c /\ w.keystore = r.keystore
          /\ w.command = r.command /\ w.alias = r.alias /\ w.pin = r.pin
      BY <1>3, <3>1, Zenon DEF ProcessFields
    <3>4. PinsInv => CommandAt(w)'
      <4> SUFFICES ASSUME PinsInv PROVE CommandAt(w)' BY Zenon
      <4>1. r.command = "join" => r.alias \in Aliases /\ r.pin \in PinValues BY <1>5, Zenon DEF CommandAt
      <4>2. CASE r.command = "join" BY <2>3, <2>4, <2>5, <3>3, <4>1, <4>2, Zenon DEF CommandAt
      <4>3. CASE r.command = "host" BY <2>3, <2>5, <3>3, <4>3, Zenon DEF CommandAt
      <4> QED BY <2>4, <4>2, <4>3, Zenon
    <3> QED BY <1>4, <1>5, <2>2, <2>3, <2>5, <3>2, <3>3, <3>4, Zenon
  <2> QED BY <2>6, <2>7, Zenon
<1>12. CASE ensure_peer_pin(p)
  <2>1. r.pc = "pin" /\ UNCHANGED <<disk, served, overlapped>> BY <1>2, <1>12, Zenon DEF ensure_peer_pin, At
  <2>2. CASE End(p) BY <1>7, <2>1, <2>2, Zenon
  <2>3. CASE ~ End(p)
    <3>1. PICK c : c = IF PinIn(r.config, r.alias) = Absent THEN WithPin(r.config, r.alias, r.pin) ELSE r.config
      BY Zenon
    <3>2. PICK k : k = IF PinIn(r.keystore, r.alias) = Absent THEN WithPin(r.keystore, r.alias, r.pin) ELSE r.keystore
      BY Zenon
    <3>3. PICK w : w = [r EXCEPT !.pc = "save config", !.config = c, !.keystore = k] BY Zenon
    <3>4. Move(p, w) /\ ~ refuses_pin(r) BY <1>2, <1>12, <2>3, <3>1, <3>2, <3>3 DEF ensure_peer_pin
    <3>5. /\ DOMAIN w = ProcessFields /\ w.pc = "save config" /\ w.config = c /\ w.keystore = k
          /\ w.command = r.command /\ w.alias = r.alias /\ w.pin = r.pin
      BY <1>3, <3>3, Zenon DEF ProcessFields
    <3>6. PinsInv => CommandAt(w)'
      <4> SUFFICES ASSUME PinsInv PROVE CommandAt(w)' BY Zenon
      <4>1. /\ r.command = "join" /\ r.alias \in Aliases /\ r.pin \in PinValues
            /\ r.config \in Files /\ r.config = disk.config
            /\ r.keystore \in Files /\ r.keystore = disk.keystore
        BY <1>5, <2>1, Zenon DEF CommandAt
      <4>2. Agree(r.config, r.keystore) BY <1>5, <4>1, Zenon
      <4>3. PinIn(r.config, r.alias) \in {Absent, r.pin} /\ PinIn(r.keystore, r.alias) \in {Absent, r.pin}
        BY <3>4, Zenon DEF refuses_pin, Refuses
      <4>4. c \in Files /\ k \in Files /\ Agree(c, k) /\ Agree(c, r.keystore)
        BY <3>1, <3>2, <4>1, <4>2, <4>3, PinsAgree, Zenon
      <4> QED BY <2>1, <3>5, <4>1, <4>4, Zenon DEF CommandAt
    <3> QED BY <1>8, <2>1, <3>4, <3>5, <3>6, Zenon
  <2> QED BY <2>2, <2>3, Zenon
<1>13. CASE AddToConfig(p)
  <2>1. r.pc = "add config" /\ UNCHANGED <<disk, served, overlapped>> BY <1>2, <1>13, Zenon DEF AddToConfig, At
  <2>2. CASE End(p) BY <1>7, <2>1, <2>2, Zenon
  <2>3. CASE ~ End(p)
    <3>1. PICK old : old = Config_load({NoPins}) BY Zenon
    <3>2. PICK c : c = WithPin(old, r.alias, r.pin) BY Zenon
    <3>3. PICK w : w = [r EXCEPT !.pc = "save config", !.config = c] BY Zenon
    <3>4. Move(p, w) /\ PinIn(old, r.alias) = Absent BY <1>2, <1>13, <2>3, <3>1, <3>2, <3>3, Zenon DEF AddToConfig
    <3>5. /\ DOMAIN w = ProcessFields /\ w.pc = "save config" /\ w.config = c
          /\ w.command = r.command /\ w.alias = r.alias /\ w.pin = r.pin
      BY <1>3, <3>3, Zenon DEF ProcessFields
    <3>6. PinsInv => CommandAt(w)'
      <4> SUFFICES ASSUME PinsInv PROVE CommandAt(w)' BY Zenon
      <4>1. r.command = "add" /\ r.alias \in Aliases /\ r.pin \in PinValues BY <1>5, <2>1, Zenon DEF CommandAt
      <4>2. old \in Files /\ Agree(old, disk.keystore)
        <5>1. CASE disk.config = {}
          <6>1. old = {NoPins} BY <3>1, <5>1, Zenon DEF Config_load
          <6>2. Agree(old, disk.keystore) BY <1>5, <5>1 DEF Agree
          <6> QED BY <6>1, <6>2, NewFile
        <5>2. CASE disk.config # {} BY <1>5, <3>1, <5>2 DEF Config_load
        <5> QED BY <5>1, <5>2, Zenon
      <4>3. c \in Files /\ (\A f \in c : f[r.alias] = r.pin) /\ Agree(c, disk.keystore)
        <5>1. CASE disk.keystore = {}
          <6>1. WithPin(old, r.alias, r.pin) \in Files /\ \A f \in WithPin(old, r.alias, r.pin) : f[r.alias] = r.pin
            <7>1. PICK f \in Pins : /\ WithPin(old, r.alias, r.pin) = {[f EXCEPT ![r.alias] = r.pin]}
                                   /\ [f EXCEPT ![r.alias] = r.pin] \in Pins
              BY <4>1, <4>2, FilePins
            <7>2. [f EXCEPT ![r.alias] = r.pin][r.alias] = r.pin BY <4>1, <7>1, Zenon DEF Pins
            <7> QED BY <7>1, <7>2, Zenon DEF Files
          <6>2. c \in Files /\ \A f \in c : f[r.alias] = r.pin BY <3>2, <6>1, Zenon
          <6> QED BY <5>1, <6>2, NoneAgree
        <5>2. CASE disk.keystore \in Files
          <6>1. PinIn(disk.keystore, r.alias) = Absent BY <3>4, <4>1, <4>2, <5>2, PinsAgree, Zenon
          <6> QED BY <3>2, <4>1, <4>2, <5>2, <6>1, PinsAgree, Zenon
        <5> QED BY <1>5, <5>1, <5>2
      <4> QED BY <2>1, <3>5, <4>1, <4>3, Zenon DEF CommandAt
    <3> QED BY <1>8, <2>1, <3>4, <3>5, <3>6, Zenon
  <2> QED BY <2>2, <2>3, Zenon
<1>14. CASE AddToKeystore(p)
  <2>1. PICK k : k = WithPin(KeyStore_load, r.alias, r.pin) BY Zenon
  <2>2. PICK w : w = [r EXCEPT !.pc = "save keystore", !.keystore = k] BY Zenon
  <2>3. r.pc = "add keystore" /\ Move(p, w) /\ UNCHANGED <<disk, served, overlapped>>
    BY <1>2, <1>14, <2>1, <2>2, Zenon DEF AddToKeystore, At
  <2>4. /\ DOMAIN w = ProcessFields /\ w.pc = "save keystore" /\ w.keystore = k
        /\ w.command = r.command /\ w.alias = r.alias /\ w.pin = r.pin
    BY <1>3, <2>2, Zenon DEF ProcessFields
  <2>5. PinsInv => CommandAt(w)'
    <3> SUFFICES ASSUME PinsInv PROVE CommandAt(w)' BY Zenon
    <3>1. /\ r.command = "add" /\ r.alias \in Aliases /\ r.pin \in PinValues
          /\ disk.config # {} /\ \A c \in disk.config : c[r.alias] = r.pin
      BY <1>5, <2>3, Zenon DEF CommandAt
    <3>2. disk.config \in Files BY <1>5, <3>1, Zenon
    <3>3. KeyStore_load \in Files /\ Agree(disk.config, KeyStore_load)
      BY <1>5, NewFile, NoneAgree, Zenon DEF KeyStore_load
    <3>4. PinIn(disk.config, r.alias) = r.pin
      <4>1. PICK f \in Pins : disk.config = {f} BY <3>2, Zenon DEF Files
      <4>2. (CHOOSE g \in disk.config : TRUE) = f BY <4>1, Zenon
      <4> QED BY <3>1, <4>1, <4>2, Zenon DEF PinIn
    <3>5. k \in Files /\ Agree(disk.config, k) BY <2>1, <3>1, <3>2, <3>3, <3>4, PinsAgree, Zenon
    <3> QED BY <2>3, <2>4, <3>1, <3>5, Zenon DEF CommandAt
  <2> QED BY <1>8, <2>3, <2>4, <2>5, Zenon
<1>15. CASE SaveKeystore(p)
  <2>1. r.pc = "save keystore" /\ UNCHANGED <<served, overlapped>> BY <1>2, <1>15, Zenon DEF SaveKeystore, At
  <2>2. CASE r.command = "init"
    <3>1. PICK w : w = [r EXCEPT !.pc = "save config", !.config = {NoPins}] BY Zenon
    <3>2. disk' = [disk EXCEPT !.keystore = {NoPins}] /\ Move(p, w) BY <1>2, <1>15, <2>2, <3>1, Zenon DEF SaveKeystore
    <3>3. /\ DOMAIN disk' = DiskFields /\ disk'.cert = disk.cert /\ disk'.key = disk.key
          /\ disk'.config = disk.config /\ disk'.keystore = {NoPins}
      BY <3>2, Zenon DEF Kept, DiskFields
    <3>4. DOMAIN w = ProcessFields /\ w.pc = "save config" /\ w.config = {NoPins} /\ w.command = "init"
      BY <1>3, <2>2, <3>1 DEF ProcessFields
    <3>5. CommandAt(w)' BY <3>3, <3>4, NewFile, NoneAgree, Zenon DEF CommandAt
    <3> QED BY <1>4, <1>5, <2>1, <3>2, <3>3, <3>4, <3>5, NewFile, NoneAgree, Zenon
  <2>3. CASE r.command # "init"
    <3>1. disk' = [disk EXCEPT !.keystore = r.keystore] /\ Move(p, AtRest)
      BY <1>2, <1>15, <2>3, Zenon DEF SaveKeystore, End
    <3>2. /\ DOMAIN disk' = DiskFields /\ disk'.cert = disk.cert /\ disk'.key = disk.key
          /\ disk'.config = disk.config /\ disk'.keystore = r.keystore
      BY <3>1, Zenon DEF Kept, DiskFields
    <3>3. PinsInv => r.keystore \in Files /\ Agree(disk.config, r.keystore) BY <1>5, <2>1, <2>3, Zenon DEF CommandAt
    <3> QED BY <1>4, <1>5, <1>6, <2>1, <3>1, <3>2, <3>3, Resting, Zenon
  <2> QED BY <2>2, <2>3, Zenon
<1>16. CASE SaveConfig(p)
  <2>1. r.pc = "save config" /\ UNCHANGED <<served, overlapped>> /\ disk' = [disk EXCEPT !.config = r.config]
    BY <1>2, <1>16, Zenon DEF SaveConfig, At
  <2>2. /\ DOMAIN disk' = DiskFields /\ disk'.cert = disk.cert /\ disk'.key = disk.key
        /\ disk'.config = r.config /\ disk'.keystore = disk.keystore
    BY <2>1, Zenon DEF Kept, DiskFields
  <2>3. PinsInv =>
          /\ r.config \in Files /\ Agree(r.config, disk.keystore)
          /\ r.command = "join" => r.keystore \in Files /\ Agree(r.config, r.keystore)
          /\ r.command = "add" => \A c \in r.config : c[r.alias] = r.pin
          /\ r.command \in {"join", "add"} => r.alias \in Aliases /\ r.pin \in PinValues
    BY <1>5, <2>1, Zenon DEF CommandAt
  <2>4. ASSUME NEW pc, Goto(p, pc),
               \/ r.command = "join" /\ pc = "save keystore"
               \/ r.command = "add" /\ pc = "add keystore"
        PROVE  Result
    <3>1. PICK w : w = [r EXCEPT !.pc = pc] BY Zenon
    <3>2. Move(p, w) BY <1>2, <2>4, <3>1, Zenon DEF Goto
    <3>3. /\ DOMAIN w = ProcessFields /\ w.pc = pc /\ w.keystore = r.keystore
          /\ w.command = r.command /\ w.alias = r.alias /\ w.pin = r.pin
      BY <1>3, <3>1, Zenon DEF ProcessFields
    <3>4. PinsInv => r.config # {} BY <2>3, Zenon DEF Files
    <3>5. PinsInv => CommandAt(w)' BY <2>2, <2>3, <2>4, <3>3, <3>4, Zenon DEF CommandAt
    <3> QED BY <1>4, <1>5, <2>1, <2>2, <2>3, <3>2, <3>3, <3>5, Zenon
  <2>5. CASE r.command = "join"
    <3>1. Goto(p, "save keystore") BY <1>2, <1>16, <2>5, Zenon DEF SaveConfig
    <3> QED BY <2>4, <2>5, <3>1, Zenon
  <2>6. CASE r.command = "add"
    <3>1. Goto(p, "add keystore") BY <1>2, <1>16, <2>6, Zenon DEF SaveConfig
    <3> QED BY <2>4, <2>6, <3>1, Zenon
  <2>7. CASE r.command \notin {"join", "add"}
    <3>1. Move(p, AtRest) BY <1>2, <1>16, <2>7, Zenon DEF SaveConfig, End
    <3> QED BY <1>4, <1>5, <1>6, <2>1, <2>2, <2>3, <3>1, Resting, Zenon
  <2> QED BY <2>5, <2>6, <2>7, Zenon
<1>17. CASE Stop(p)
  <2>1. End(p) /\ r.pc # "idle" /\ UNCHANGED <<disk, served, overlapped>> BY <1>2, <1>17, Zenon DEF Stop, At
  <2> QED BY <1>7, <2>1
<1> QED BY <1>1, <1>9, <1>10, <1>11, <1>12, <1>13, <1>14, <1>15, <1>16, <1>17

\* The invariant of the files holds when the node starts.
LEMMA StoresStart == ASSUME NEW p, StoreInit(p) PROVE StoreInv
<1>1. /\ renames = <<>> /\ named = 0 /\ synced = 0 /\ promised = 0 /\ served = {}
      /\ saver = [q \in Processes |-> NotSaving] /\ process = [q \in Processes |-> AtRest]
      /\ store \in {"keystore", "config", "owner-only"}
  BY Zenon DEF StoreInit
<1>2. /\ DOMAIN disk = DiskFields /\ disk.cert = Absent /\ disk.key = Absent
      /\ disk.config = {} /\ disk.keystore = {}
  BY Zenon DEF StoreInit, NoFiles, DiskFields
<1>3. SaveInv
  <2>1. renames \in Seq({"synced"}) /\ Len(renames) = 0 BY <1>1
  <2>2. DOMAIN NotSaving = {"pc", "data", "name"} /\ NotSaving.pc = 0 /\ NotSaving.name = 0
    BY Zenon DEF NotSaving
  <2>3. Len(StepsOf(store)) \in Nat BY <1>1, Steps
  <2>4. \A q \in Processes : SavePc(saver[q]) BY <1>1, <2>1, <2>2, <2>3 DEF SavePc
  <2> QED BY <1>1, <2>1, <2>4 DEF SaveInv
<1>4. \A q \in Processes : process[q].pc = "idle" /\ process[q].command = "" /\ DOMAIN process[q] = ProcessFields
  BY <1>1, Resting, Zenon
<1>5. Kept BY <1>1, <1>2, <1>4, Zenon DEF Kept
<1>6. QuicInv BY <1>1, <1>2, <1>4, Zenon DEF QuicInv, OneAtATime, ServerAt
<1>7. PinsInv
  <2>1. \A q \in Processes : CommandAt(process[q]) BY <1>4, Zenon DEF CommandAt
  <2> QED BY <1>2, <1>4, <2>1, NoneAgree, Zenon DEF PinsInv, OneAtATime
<1> QED BY <1>1, <1>2, <1>3, <1>5, <1>6, <1>7 DEF StoreInv

\* The invariant is inductive.
LEMMA StoreStep == StoreInv /\ [StoreNext]_storeVars => StoreInv'
<1> SUFFICES ASSUME StoreInv, [StoreNext]_storeVars PROVE StoreInv' BY Zenon
<1>1. ASSUME UNCHANGED <<disk, process, served, overlapped>> PROVE Kept' /\ (QuicInv => QuicInv') /\ (PinsInv => PinsInv')
  <2>1. Kept' BY <1>1, Zenon DEF StoreInv, Kept
  <2>2. OneAtATime => OneAtATime' BY <1>1, Zenon DEF OneAtATime
  <2>3. QuicInv => QuicInv' BY <1>1, <2>2, Zenon DEF QuicInv, ServerAt
  <2>4. PinsInv => PinsInv'
    <3>1. Agree(disk.config, disk.keystore) => Agree(disk.config, disk.keystore)' BY <1>1, Zenon DEF Agree
    <3>2. ASSUME NEW r, CommandAt(r) PROVE CommandAt(r)' BY <1>1, <3>2, Zenon DEF CommandAt, Agree
    <3>3. (\A q \in Processes : CommandAt(process[q])) => \A q \in Processes : CommandAt(process[q])'
      <4> SUFFICES ASSUME \A q \in Processes : CommandAt(process[q]), NEW q \in Processes
                   PROVE  CommandAt(process[q])'
        BY Zenon
      <4>1. PICK r : r = process[q] /\ r = process'[q] BY <1>1, Zenon
      <4>2. CommandAt(r)' BY <3>2, <4>1, Zenon
      <4> QED BY <4>1, <4>2, Zenon DEF CommandAt
    <3> QED BY <1>1, <2>2, <3>1, <3>3, Zenon DEF PinsInv
  <2> QED BY <2>1, <2>3, <2>4, Zenon
<1>2. ASSUME UNCHANGED <<store, saveVars>> PROVE SaveInv'
  BY <1>2, Zenon DEF StoreInv, SaveInv, SavePc, saveVars, StepsOf
<1>3. CASE UNCHANGED storeVars
  <2>1. UNCHANGED <<part, store, saveVars, disk, process, served, overlapped>> BY <1>3, Zenon DEF storeVars, saveVars
  <2> QED BY <1>1, <1>2, <2>1, Zenon DEF StoreInv
<1>4. CASE SaveNext
  <2>1. UNCHANGED <<part, disk, process, served, overlapped>> BY <1>4, Zenon DEF SaveNext
  <2>2. SaveInv' BY <1>4, SavingKeeps, Zenon DEF StoreInv
  <2> QED BY <1>1, <2>1, <2>2, Zenon DEF StoreInv
<1>5. CASE QuicNext
  <2>1. part = "quic" /\ UNCHANGED <<part, store, saveVars>> BY <1>5, Zenon DEF QuicNext
  <2>2. Kept /\ (~ overlapped => QuicInv) BY <2>1, Zenon DEF StoreInv
  <2>3. /\ Kept' /\ (~ overlapped' => QuicInv')
        /\ disk'.config = disk.config /\ disk'.keystore = disk.keystore
    BY <1>5, <2>2, QuicKeeps, Zenon
  <2> QED BY <1>2, <2>1, <2>3, Zenon DEF StoreInv
<1>6. CASE PinsNext
  <2>1. part = "pins" /\ UNCHANGED <<part, store, saveVars>> BY <1>6, Zenon DEF PinsNext
  <2>2. Kept /\ (~ overlapped => PinsInv) BY <2>1, Zenon DEF StoreInv
  <2>3. /\ Kept' /\ (~ overlapped' => PinsInv')
        /\ served' = served /\ disk'.cert = disk.cert /\ disk'.key = disk.key
    BY <1>6, <2>2, PinsKeep, Zenon
  <2> QED BY <1>2, <2>1, <2>3, Zenon DEF StoreInv
<1> QED BY <1>3, <1>4, <1>5, <1>6, Zenon DEF StoreNext

\* The invariant of the files gives what is said of them.
LEMMA StoreInvHolds == StoreInv => FilesSound
<1> SUFFICES ASSUME StoreInv PROVE FilesSound BY Zenon
<1>1. named > 0 => renames[named] # "torn"
  <2>1. renames \in Seq({"synced"}) /\ named = Len(renames) BY Zenon DEF StoreInv, SaveInv
  <2>2. Len(renames) \in Nat /\ \A j \in 1..Len(renames) : renames[j] = "synced" BY <2>1
  <2> QED BY <2>1, <2>2
<1>2. promised <= named BY DEF StoreInv, SaveInv
<1>3. ASSUME ~ overlapped
      PROVE  /\ \A s \in served : s[1] = s[2]
             /\ disk.cert # Absent /\ disk.key # Absent => disk.cert = disk.key
  BY <1>3, Zenon DEF StoreInv, QuicInv
<1>4. ASSUME ~ overlapped, NEW c \in disk.config, NEW k \in disk.keystore, NEW a \in Aliases,
             c[a] # Absent, k[a] # Absent
      PROVE  c[a] = k[a]
  BY <1>4, Zenon DEF StoreInv, PinsInv, Agree
<1> QED BY <1>1, <1>2, <1>3, <1>4, Zenon DEF FilesSound

(* --- Discovery: the records of an identity -------------------------------- *)

\* The records signed so far.
Records ==
  /\ issued = [h \in 1..Len(issued) |-> issued[h]] /\ Len(issued) \in 0..MaxIssued
  /\ \A h \in 1..Len(issued) :
       issued[h].hash = h /\ issued[h].sequence \in Nat \ {0} /\ issued[h].signed = TRUE

\* What resolver v has accepted is a chain of them.
Chain(v) ==
  /\ accepted[v] \in Seq(Nat)
  /\ \A i \in 1..Len(accepted[v]) :
       /\ accepted[v][i] \in 1..Len(issued)
       /\ issued[accepted[v][i]].sequence = i
       /\ issued[accepted[v][i]].previous_record = IF i = 1 THEN NoRecord ELSE accepted[v][i - 1]

\* Where the chains of two resolvers part, the owner signed a fork: not there
\* perhaps, but where they first did.
PartByFork(v, w) ==
  \A i \in 1..Len(accepted[v]) :
    i <= Len(accepted[w]) /\ accepted[v][i] # accepted[w][i] => Forked

\* A directory entry is whole or there is none, and no entry with a receipt
\* is missing.
Directory ==
  /\ DOMAIN publisher = Publishers
  /\ \A p \in Publishers : publisher[p].pc = "link" => publisher[p].hash \in Hashes
  /\ DOMAIN files = Hashes
  /\ \A h \in Hashes : files[h] \in {"none", "whole"}
  /\ receipts \subseteq {h \in Hashes : files[h] = "whole"}

DiscoveryInv ==
  /\ Records
  /\ DOMAIN accepted = Resolvers /\ \A v \in Resolvers : Chain(v)
  /\ \A v, w \in Resolvers : PartByFork(v, w)
  /\ Directory

\* Appending keeps what is there.
LEMMA Appended ==
  ASSUME NEW s, NEW x, Len(s) \in Nat, s = [i \in 1..Len(s) |-> s[i]]
  PROVE  /\ Len(Append(s, x)) = Len(s) + 1
         /\ Append(s, x) = [i \in 1..(Len(s) + 1) |-> Append(s, x)[i]]
         /\ Append(s, x)[Len(s) + 1] = x
         /\ \A i \in 1..Len(s) : Append(s, x)[i] = s[i]
<1> DEFINE T == {s[i] : i \in 1..Len(s)} \cup {x}
<1>1. s \in Seq(T) OBVIOUS
<1>2. x \in T BY Zenon
<1> HIDE DEF T
<1>3. PICK t : t = Append(s, x) BY Zenon
<1>4. t \in Seq(T) /\ Len(t) = Len(s) + 1 /\ t[Len(s) + 1] = x /\ \A i \in 1..Len(s) : t[i] = s[i]
  BY <1>1, <1>2, <1>3
<1>5. t = [i \in 1..Len(t) |-> t[i]] BY <1>4
<1> QED BY <1>3, <1>4, <1>5, Zenon

\* The owner signs a record: the hash of the new one is its place, and the
\* records before it stay.
LEMMA IssuingKeeps ==
  ASSUME DiscoveryInv, NEW sequence \in 0..(MaxIssued + 1), NEW previous,
         from_current_identity_with_previous(sequence, previous)
  PROVE  DiscoveryInv'
<1>1. Records BY Zenon DEF DiscoveryInv
<1>2. MaxIssued \in Nat BY DiscoveryAssumption
<1>3. PICK r : /\ issued' = Append(issued, r)
               /\ r.hash = Len(issued) + 1 /\ r.sequence = sequence /\ sequence > 0 /\ r.signed = TRUE
  BY DEF from_current_identity_with_previous, validate_structure
<1>4. Len(issued) \in Nat /\ Len(issued) + 1 <= MaxIssued
  BY <1>1, DiscoveryAssumption DEF Records, from_current_identity_with_previous
<1>5. /\ Len(issued') = Len(issued) + 1
      /\ issued' = [i \in 1..Len(issued') |-> issued'[i]]
      /\ issued'[Len(issued) + 1] = r
      /\ \A i \in 1..Len(issued) : issued'[i] = issued[i]
  BY <1>1, <1>3, <1>4, Appended DEF Records
<1>6. Records'
  <2>1. \A h \in 1..Len(issued') : h = Len(issued) + 1 \/ h \in 1..Len(issued) BY <1>4, <1>5
  <2>2. ASSUME NEW h \in 1..Len(issued')
        PROVE  issued'[h].hash = h /\ issued'[h].sequence \in Nat \ {0} /\ issued'[h].signed = TRUE
    <3>1. CASE h = Len(issued) + 1 BY <1>2, <1>3, <1>5, <3>1
    <3>2. CASE h \in 1..Len(issued) BY <1>1, <1>5, <3>2, Zenon DEF Records
    <3> QED BY <2>1, <3>1, <3>2, Zenon
  <2>3. Len(issued') \in 0..MaxIssued BY <1>4, <1>5, DiscoveryAssumption
  <2> QED BY <1>5, <2>2, <2>3, Zenon DEF Records
<1>7. UNCHANGED <<publisher, files, receipts, accepted>> BY Zenon DEF from_current_identity_with_previous
<1>8. ASSUME NEW v \in Resolvers PROVE Chain(v)'
  <2>1. Chain(v) BY Zenon DEF DiscoveryInv
  <2>2. \A h \in 1..Len(issued) : h \in 1..Len(issued') BY <1>4, <1>5
  <2> QED BY <1>5, <1>7, <2>1, <2>2, Zenon DEF Chain
<1>9. ASSUME NEW v \in Resolvers, NEW w \in Resolvers PROVE PartByFork(v, w)'
  <2>1. \A h \in 1..Len(issued) : h \in 1..Len(issued') /\ issued'[h] = issued[h] BY <1>4, <1>5
  <2>2. Forked => Forked' BY <2>1, Zenon DEF Forked
  <2>3. PartByFork(v, w) BY Zenon DEF DiscoveryInv
  <2> QED BY <1>7, <2>2, <2>3, Zenon DEF PartByFork
<1>10. Directory' BY <1>7, Zenon DEF DiscoveryInv, Directory
<1> QED BY <1>6, <1>7, <1>8, <1>9, <1>10, Zenon DEF DiscoveryInv

\* Publishing and stopping half way: a name is given to all of the contents.
LEMMA PublishingKeeps ==
  ASSUME DiscoveryInv, NEW p \in Publishers,
         \/ \E h \in 1..Len(issued) : publish(p, h) \/ publish(p, -h)
         \/ LinkRecord(p) \/ PublishStops(p)
  PROVE  DiscoveryInv'
<1>1. UNCHANGED <<issued, accepted>> BY Zenon DEF publish, LinkRecord, PublishStops
<1>2. /\ Records' /\ DOMAIN accepted' = Resolvers /\ \A v \in Resolvers : Chain(v)'
      /\ \A v, w \in Resolvers : PartByFork(v, w)'
  BY <1>1 DEF DiscoveryInv, Records, Chain, PartByFork, Forked
<1>3. Directory BY Zenon DEF DiscoveryInv
<1>4. \A h \in 1..Len(issued) : h \in Hashes /\ -h \in Hashes
  BY DiscoveryAssumption DEF DiscoveryInv, Records, Hashes, NoRecord
<1>5. AtEase.pc = "idle" BY Zenon DEF AtEase
<1>6. ASSUME NEW h \in Hashes, publish(p, h) PROVE Directory'
  <2>1. PICK w : w.pc = "link" /\ w.hash = h /\ publisher' = [publisher EXCEPT ![p] = w]
    BY <1>6, Zenon DEF publish
  <2>2. UNCHANGED <<files, receipts>> BY <1>6, Zenon DEF publish
  <2> QED BY <1>3, <2>1, <2>2, Zenon DEF Directory
<1>7. ASSUME LinkRecord(p) PROVE Directory'
  <2>1. publisher' = [publisher EXCEPT ![p] = AtEase] /\ hard_link(p) BY <1>7, Zenon DEF LinkRecord
  <2>2. PICK h \in Hashes : h = publisher[p].hash BY <1>3, <1>7, Zenon DEF Directory, LinkRecord
  <2>3. CASE files[h] = "none"
    <3>1. files' = [files EXCEPT ![h] = "whole"] /\ receipts' = receipts \cup {h}
      BY <2>1, <2>2, <2>3, Zenon DEF hard_link
    <3>2. \A g \in Hashes : files'[g] = IF g = h THEN "whole" ELSE files[g]
      BY <1>3, <3>1, Zenon DEF Directory
    <3>3. \A q \in Publishers : publisher'[q].pc = "link" => publisher'[q].hash \in Hashes
      BY <1>3, <1>5, <2>1, Zenon DEF Directory
    <3>4. DOMAIN files' = Hashes /\ DOMAIN publisher' = Publishers BY <1>3, <2>1, <3>1, Zenon DEF Directory
    <3>5. receipts' \subseteq {g \in Hashes : files'[g] = "whole"}
      BY <1>3, <3>1, <3>2, Zenon DEF Directory
    <3>6. \A g \in Hashes : files'[g] \in {"none", "whole"} BY <1>3, <3>2, Zenon DEF Directory
    <3> QED BY <3>3, <3>4, <3>5, <3>6, Zenon DEF Directory
  <2>4. CASE files[h] # "none" BY <1>3, <1>5, <2>1, <2>2, <2>4, Zenon DEF Directory, hard_link
  <2> QED BY <2>3, <2>4, Zenon
<1>8. ASSUME PublishStops(p) PROVE Directory'
  BY <1>3, <1>5, <1>8, Zenon DEF Directory, PublishStops
<1> QED BY <1>2, <1>4, <1>6, <1>7, <1>8, Zenon DEF DiscoveryInv

\* The record a resolver accepts was signed, and continues the last one.
LEMMA ResolvingKeeps ==
  ASSUME DiscoveryInv, NEW v \in Resolvers, resolve(v)
  PROVE  DiscoveryInv'
<1>1. PICK r \in PluginRecords :
        /\ continues(LastAccepted(v), r) /\ Elected(r)
        /\ accepted' = [accepted EXCEPT ![v] = Append(@, r.hash)]
  BY Zenon DEF resolve
<1>2. UNCHANGED <<issued, publisher, files, receipts>> BY Zenon DEF resolve
<1>3. r.signed /\ validate_structure(r) BY <1>1, Zenon DEF Elected, verify
<1>4. PICK h \in 1..Len(issued) : r = issued[h]
  <2>1. ASSUME NEW h \in 1..Len(issued),
               r = [issued[h] EXCEPT !.hash = -h, !.sequence = @ + 1, !.previous_record = h, !.signed = FALSE]
        PROVE  FALSE
    BY <1>3, <2>1
  <2> QED BY <1>1, <2>1, Zenon DEF PluginRecords, Signed, AlteredCopies, Altered
<1>5. Records /\ Chain(v) BY Zenon DEF DiscoveryInv
<1>6. r.hash = h /\ r.sequence \in Nat \ {0} BY <1>4, <1>5, Zenon DEF Records
<1>7. PICK a : a = accepted[v] BY Zenon
<1>8. a \in Seq(Nat) /\ Len(a) \in Nat BY <1>5, <1>7 DEF Chain
<1>9. accepted' = [accepted EXCEPT ![v] = Append(a, h)] /\ h \in Nat BY <1>1, <1>4, <1>5, <1>6, <1>7 DEF Records
<1>10. r.sequence = Len(a) + 1 /\ r.previous_record = IF Len(a) + 1 = 1 THEN NoRecord ELSE a[Len(a)]
  <2>1. CASE a = <<>>
    <3>1. LastAccepted(v) = NoRecord /\ Len(a) = 0 BY <1>7, <2>1, Zenon DEF LastAccepted
    <3>2. r.sequence = 1 BY <1>1, <3>1, Zenon DEF continues
    <3>3. r.previous_record = NoRecord BY <1>3, <3>2, Zenon DEF validate_structure
    <3> QED BY <3>1, <3>2, <3>3
  <2>2. CASE a # <<>>
    <3>1. LastAccepted(v) = a[Len(a)] /\ Len(a) \in 1..Len(a) /\ Len(a) # 0
      BY <1>7, <1>8, <2>2 DEF LastAccepted
    <3>2. a[Len(a)] \in 1..Len(issued) /\ issued[a[Len(a)]].sequence = Len(a)
      BY <1>5, <1>7, <3>1, Zenon DEF Chain
    <3>3. a[Len(a)] # NoRecord BY <1>5, <3>2 DEF NoRecord, Records
    <3>4. r.sequence = Len(a) + 1 /\ r.previous_record = a[Len(a)]
      BY <1>1, <3>1, <3>2, <3>3, Zenon DEF continues, SequenceOf
    <3> QED BY <1>8, <3>1, <3>4
  <2> QED BY <2>1, <2>2, Zenon
<1>11. /\ Append(a, h) \in Seq(Nat) /\ Len(Append(a, h)) = Len(a) + 1
       /\ Append(a, h)[Len(a) + 1] = h
       /\ \A i \in 1..Len(a) : Append(a, h)[i] = a[i]
  <2>1. a \in Seq(Nat) /\ h \in Nat BY <1>8, <1>9, Zenon
  <2> QED BY <2>1
<1>12. PICK b : b = Append(a, h) BY Zenon
<1>13. ASSUME NEW i \in 1..Len(b)
       PROVE  /\ b[i] \in 1..Len(issued) /\ issued[b[i]].sequence = i
              /\ issued[b[i]].previous_record = IF i = 1 THEN NoRecord ELSE b[i - 1]
  <2>1. CASE i = Len(a) + 1
    <3>1. b[i] = h /\ (i # 1 => b[i - 1] = a[Len(a)]) BY <1>8, <1>11, <1>12, <2>1
    <3> QED BY <1>4, <1>8, <1>10, <2>1, <3>1, Zenon
  <2>2. CASE i \in 1..Len(a)
    <3>1. b[i] = a[i] /\ (i # 1 => b[i - 1] = a[i - 1]) BY <1>8, <1>11, <1>12, <2>2
    <3> QED BY <1>5, <1>7, <2>2, <3>1 DEF Chain
  <2>3. Len(b) = Len(a) + 1 BY <1>11, <1>12, Zenon
  <2>4. i \in 1..(Len(a) + 1) BY <2>3, Zenon
  <2> QED BY <1>8, <2>1, <2>2, <2>4
<1>14. DOMAIN accepted' = Resolvers /\ accepted'[v] = b /\ \A w \in Resolvers : w # v => accepted'[w] = accepted[w]
  BY <1>9, <1>12, Zenon DEF DiscoveryInv
<1>15. Chain(v)' BY <1>2, <1>11, <1>12, <1>13, <1>14, Zenon DEF Chain
<1>16. ASSUME NEW w \in Resolvers PROVE Chain(w)'
  <2>1. CASE w = v BY <1>15, <2>1, Zenon
  <2>2. CASE w # v
    <3>1. accepted'[w] = accepted[w] /\ issued' = issued BY <1>2, <1>14, <2>2, Zenon
    <3>2. Chain(w) BY Zenon DEF DiscoveryInv
    <3> QED BY <3>1, <3>2, Zenon DEF Chain
  <2> QED BY <2>1, <2>2, Zenon
<1>17. Records' /\ Directory' BY <1>2, Zenon DEF DiscoveryInv, Records, Directory
<1>18. ASSUME NEW w \in Resolvers
       PROVE  /\ Len(accepted[w]) \in Nat /\ Len(accepted'[w]) \in Nat
              /\ Len(accepted'[w]) <= Len(accepted[w]) + 1
              /\ \A k \in 1..Len(accepted[w]) : accepted'[w][k] = accepted[w][k]
  <2>1. CASE w = v
    <3>1. accepted[w] = a /\ accepted'[w] = b BY <1>7, <1>14, <2>1, Zenon
    <3>2. Len(b) = Len(a) + 1 /\ \A k \in 1..Len(a) : b[k] = a[k] BY <1>11, <1>12, Zenon
    <3> QED BY <1>8, <3>1, <3>2
  <2>2. CASE w # v
    <3>1. accepted'[w] = accepted[w] /\ Chain(w) BY <1>14, <2>2, Zenon DEF DiscoveryInv
    <3>2. accepted[w] \in Seq(Nat) BY <3>1, Zenon DEF Chain
    <3>3. Len(accepted[w]) \in Nat BY <3>2
    <3> QED BY <3>1, <3>3
  <2> QED BY <2>1, <2>2, Zenon
<1>19. ASSUME NEW u \in Resolvers, NEW w \in Resolvers PROVE PartByFork(u, w)'
  <2> SUFFICES ASSUME NEW i \in 1..Len(accepted'[u]), i <= Len(accepted'[w]),
                      accepted'[u][i] # accepted'[w][i]
               PROVE  Forked'
    BY Zenon DEF PartByFork
  <2>1. PICK x, y : x = accepted'[u] /\ y = accepted'[w] BY Zenon
  <2>2. i \in 1..Len(x) /\ i \in 1..Len(y) BY <1>18, <2>1
  <2>3. /\ x[i] \in 1..Len(issued) /\ issued[x[i]].sequence = i
        /\ issued[x[i]].previous_record = IF i = 1 THEN NoRecord ELSE x[i - 1]
        /\ y[i] \in 1..Len(issued) /\ issued[y[i]].sequence = i
        /\ issued[y[i]].previous_record = IF i = 1 THEN NoRecord ELSE y[i - 1]
    BY <1>2, <1>16, <2>1, <2>2, Zenon DEF Chain
  <2>4. x[i] # y[i] BY <2>1, Zenon
  <2>5. CASE i = 1 \/ x[i - 1] = y[i - 1] BY <1>2, <2>3, <2>4, <2>5, Zenon DEF Forked
  <2>6. CASE i # 1 /\ x[i - 1] # y[i - 1]
    <3>1. i - 1 \in 1..Len(accepted[u]) /\ i - 1 <= Len(accepted[w]) /\ i - 1 \in 1..Len(accepted[w])
      BY <1>18, <2>1, <2>2, <2>6
    <3>2. accepted[u][i - 1] # accepted[w][i - 1] BY <1>18, <2>1, <2>6, <3>1, Zenon
    <3>3. Forked BY <3>1, <3>2, Zenon DEF DiscoveryInv, PartByFork
    <3> QED BY <1>2, <3>3, Zenon DEF Forked
  <2> QED BY <2>5, <2>6, Zenon
<1> QED BY <1>14, <1>16, <1>17, <1>19, Zenon DEF DiscoveryInv

\* The invariant of the records holds before any is issued.
LEMMA DiscoveryStarts == ASSUME NEW on, DiscoveryInit(on) PROVE DiscoveryInv
<1>1. Records
  <2>1. issued = <<>> /\ Len(issued) = 0 BY Zenon DEF DiscoveryInit
  <2> QED BY <2>1, DiscoveryAssumption DEF Records
<1>2. Directory BY Zenon DEF DiscoveryInit, Directory, AtEase
<1>3. ASSUME NEW v \in Resolvers PROVE Chain(v)
  <2>1. accepted[v] = <<>> /\ Len(accepted[v]) = 0 BY Zenon DEF DiscoveryInit
  <2>2. accepted[v] \in Seq(Nat) BY <2>1
  <2> QED BY <2>1, <2>2 DEF Chain
<1>4. ASSUME NEW v \in Resolvers, NEW w \in Resolvers PROVE PartByFork(v, w)
  <2>1. accepted[v] = <<>> /\ accepted[w] = <<>> BY Zenon DEF DiscoveryInit
  <2> QED BY <2>1, Zenon DEF PartByFork
<1> QED BY <1>1, <1>2, <1>3, <1>4, Zenon DEF DiscoveryInv, DiscoveryInit

\* It is kept by every step of the owner, the publishers and the resolvers.
LEMMA DiscoveryStep == DiscoveryInv /\ [DiscoveryNext]_discoveryVars => DiscoveryInv'
<1> SUFFICES ASSUME DiscoveryInv, [DiscoveryNext]_discoveryVars PROVE DiscoveryInv' BY Zenon
<1>1. CASE UNCHANGED <<issued, publisher, files, receipts, accepted>>
  BY <1>1 DEF DiscoveryInv, Records, Chain, PartByFork, Forked, Directory
<1>2. CASE UNCHANGED discoveryVars BY <1>1, <1>2, Zenon DEF discoveryVars
<1>3. CASE Tick BY <1>1, <1>3, Zenon DEF Tick
<1> QED BY <1>2, <1>3, IssuingKeeps, PublishingKeeps, ResolvingKeeps DEF DiscoveryNext

\* The invariant says what is promised.
LEMMA DiscoveryInvHolds == DiscoveryInv => AcceptedChain
<1> SUFFICES ASSUME DiscoveryInv PROVE AcceptedChain BY Zenon
<1>1. ASSUME NEW v \in Resolvers, NEW i \in 1..Len(accepted[v])
      PROVE  /\ accepted[v][i] \in 1..Len(issued)
             /\ issued[accepted[v][i]].sequence = i
             /\ issued[accepted[v][i]].previous_record = IF i = 1 THEN NoRecord ELSE accepted[v][i - 1]
  BY Zenon DEF DiscoveryInv, Chain
<1>2. ASSUME NEW v \in Resolvers, NEW w \in Resolvers, NEW i \in 1..Len(accepted[v]),
             i <= Len(accepted[w]), accepted[v][i] # accepted[w][i]
      PROVE  Forked
  BY <1>2, Zenon DEF DiscoveryInv, PartByFork
<1>3. \A h \in Hashes : files[h] # "part" BY Zenon DEF DiscoveryInv, Directory
<1>4. \A h \in receipts : files[h] = "whole" BY Zenon DEF DiscoveryInv, Directory
<1> QED BY <1>1, <1>2, <1>3, <1>4, Zenon DEF AcceptedChain

(* --- the node -------------------------------------------------------------- *)

NodeInv == HostInv /\ Whole /\ StoreInv /\ DiscoveryInv

\* Every part starts in its invariant.
LEMMA NodeStarts == NodeInit => NodeInv
BY HostStarts, StoresStart, DiscoveryStarts, Zenon DEF NodeInit, NodeInv

\* A step of the node is a step of one part, and the others rest.
LEMMA NodeStep == NodeInv /\ [NodeNext]_nodeVars => NodeInv'
<1> SUFFICES ASSUME NodeInv, [NodeNext]_nodeVars PROVE NodeInv' BY Zenon
<1>1. /\ [HostNext]_hostVars /\ [StoreNext]_storeVars /\ [DiscoveryNext]_discoveryVars
  BY Zenon DEF NodeNext, nodeVars
<1> QED BY <1>1, HostStep, StoreStep, DiscoveryStep, Zenon DEF NodeInv

\* In every behaviour the invariant holds.
LEMMA NodeAlways == NodeSpec => []NodeInv
BY NodeStarts, NodeStep, PTL DEF NodeSpec

(***************************************************************************)
(* Once no `up` and no `down` runs any more, the host is as it was before  *)
(* the first one: packet filter, NAT, MSS clamp, forwarding and TUN        *)
(* device.  The cases in which it is not are the ones HostRestored names:  *)
(* a kill, a command of the clean-up that failed, a table found when the   *)
(* guard began, and two processes side by side.                            *)
(***************************************************************************)
THEOREM HostIsRestored == NodeSpec => []HostRestored
<1>1. NodeInv => HostRestored BY HostInvHolds DEF NodeInv
<1> QED BY <1>1, NodeAlways, PTL

(***************************************************************************)
(* An `up` that was asked for the killswitch has the host drop every       *)
(* packet that is not to its peer from before the TUN device exists until  *)
(* the session is over.                                                    *)
(***************************************************************************)
THEOREM KillswitchIsHeld == NodeSpec => []KillswitchHeld
<1>1. NodeInv => KillswitchHeld BY HostInvHolds DEF NodeInv
<1> QED BY <1>1, NodeAlways, PTL

(***************************************************************************)
(* A file holds all of the contents of one save, also after a power loss,  *)
(* a save that promised to last is not undone, and the files that belong   *)
(* together agree: certificate and key of the QUIC server, and the pins of *)
(* configuration and keystore, unless two commands overlapped.             *)
(***************************************************************************)
THEOREM FilesAreSound == NodeSpec => []FilesSound
<1>1. NodeInv => FilesSound BY StoreInvHolds, Zenon DEF NodeInv
<1> QED BY <1>1, NodeAlways, PTL

(***************************************************************************)
(* What a resolver accepts is one unbroken chain of signed records, two    *)
(* resolvers part only if the owner signed two that continue the same one, *)
(* and the directory provider neither shows a part of a record nor loses   *)
(* one whose publication returned a receipt.                               *)
(***************************************************************************)
THEOREM RecordsAreChained == NodeSpec => []AcceptedChain
<1>1. NodeInv => AcceptedChain BY DiscoveryInvHolds, Zenon DEF NodeInv
<1> QED BY <1>1, NodeAlways, PTL
=============================================================================
