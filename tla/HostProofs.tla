----------------------------- MODULE HostProofs -----------------------------
(***************************************************************************)
(* Proofs about what SHPH keeps on a host, for any number of processes,    *)
(* failures and kills.  The control plane (ControlPlane): nothing foreign  *)
(* is removed, and nothing that SHPH put on the host is forgotten.  Then   *)
(* the inductive invariant of the guards of `up` (HostGuards), on which    *)
(* NodeProofs draws.                                                       *)
(***************************************************************************)
EXTENDS ControlPlane, HostGuards, TLAPS

(* --- the control plane ------------------------------------------------------ *)

ProcFields == {"pc", "cmd", "plan", "guard", "todo", "errors", "recorded", "outcome"}

CleaningUp == {"rollback", "undoing", "aborting", "finishing"}

Held == {i \in Items : host[i] = "shph"}

\* The shape of the state; an idle process has noted nothing.
Shaped ==
  /\ DOMAIN host = Items /\ DOMAIN proc = Procs /\ UNION record \subseteq Items
  /\ \A p \in Procs :
       /\ DOMAIN proc[p] = ProcFields
       /\ proc[p].pc \in {"idle", "adding", "save", "session", "reapply"} \cup CleaningUp
       /\ proc[p].guard \subseteq Items /\ proc[p].todo \subseteq Items /\ proc[p].plan \subseteq Items
       /\ proc[p].pc = "idle" => proc[p].guard = {}

\* What was on the host before SHPH is in no record and no guard, and is not
\* about to be removed.
ForeignSafe ==
  \A i \in Items : host[i] = "foreign" =>
    /\ ~IsDns(i) /\ i \notin UNION record
    /\ \A p \in Procs : /\ i \notin proc[p].guard
                        /\ proc[p].pc \in CleaningUp => i \notin proc[p].todo

\* What a process alone at work knows: its guard holds all there is of SHPH,
\* a clean-up without errors has removed what it is done with, and the record
\* lists what the guard of an undo or of a recorded session holds.
ProcKnown(s) ==
  /\ s.pc \in {"adding", "save"} => record = {}
  /\ s.pc \in {"adding", "save", "session"} \cup CleaningUp => Held \subseteq s.guard
  /\ s.pc \in CleaningUp => s.todo \subseteq s.guard /\ (s.errors \/ s.guard = s.todo)
  /\ s.pc = "undoing" => s.guard \subseteq UNION record
  /\ s.pc \in {"session", "finishing"} /\ s.recorded => s.guard \subseteq UNION record
  /\ s.pc = "reapply" => Held = {}

Alone(p) == \A q \in Procs \ {p} : proc[q].pc = "idle"

HeldKnown ==
  ~excused => /\ \A p \in Procs : proc[p].pc # "idle" => Alone(p) /\ ProcKnown(proc[p])
              /\ (\A p \in Procs : proc[p].pc = "idle") => Held \subseteq UNION record

(* --- processes ------------------------------------------------------------ *)

\* Plans are made of items, and a phase goes through what it has to do.
LEMMA ItemsShape ==
  /\ \A p \in Plans : p \subseteq Items
  /\ \A order, todo : Foremost(order, todo) \subseteq todo /\ Topmost(order, todo) \subseteq todo
BY ControlPlaneAssumption DEF Foremost, Topmost

\* A process at rest guards nothing and has nothing to do.
LEMMA IdleShape ==
  ASSUME NEW o
  PROVE  /\ DOMAIN Idle(o) = ProcFields
         /\ Idle(o).pc = "idle" /\ Idle(o).guard = {} /\ Idle(o).todo = {} /\ Idle(o).plan = {}
BY DEF Idle, ProcFields

\* A process that begins to add has all of its plan to do.
LEMMA AddingShape ==
  ASSUME NEW cmd, NEW plan
  PROVE  /\ DOMAIN Adding(cmd, plan) = ProcFields
         /\ Adding(cmd, plan).pc = "adding" /\ Adding(cmd, plan).guard = {}
         /\ Adding(cmd, plan).todo = plan /\ Adding(cmd, plan).plan = plan
BY DEF Adding, Idle, ProcFields

\* A step of p that makes it s keeps the shape and what is foreign.
LEMMA Moves ==
  ASSUME Shaped, ForeignSafe, NEW p \in Procs, NEW s, Become(p, s),
         DOMAIN s = ProcFields, s.guard \subseteq Items, s.todo \subseteq Items, s.plan \subseteq Items,
         s.pc \in {"idle", "adding", "save", "session", "reapply"} \cup CleaningUp,
         s.pc = "idle" => s.guard = {},
         DOMAIN host' = Items, UNION record' \subseteq Items,
         \A i \in Items : host'[i] = "foreign" =>
           /\ host[i] = "foreign" /\ i \notin UNION record' /\ i \notin s.guard
           /\ s.pc \in CleaningUp => i \notin s.todo
  PROVE  Shaped' /\ ForeignSafe'
<1>1. /\ DOMAIN proc' = Procs /\ proc'[p] = s
      /\ \A q \in Procs \ {p} : proc'[q] = proc[q]
  BY DEF Become, Shaped
<1>2. Shaped'
  BY <1>1 DEF Shaped
<1>3. ForeignSafe'
  BY <1>1 DEF ForeignSafe, Shaped
<1>4. QED
  BY <1>2, <1>3

\* And what the processes know, if it was alone and s knows it.
LEMMA Knows ==
  ASSUME Shaped, HeldKnown, NEW p \in Procs, NEW s, Become(p, s),
         ~excused' => /\ ~excused /\ Alone(p)
                      /\ s.pc # "idle" => ProcKnown(s)'
                      /\ s.pc = "idle" => Held' \subseteq UNION record'
  PROVE  HeldKnown'
<1>1. /\ DOMAIN proc' = Procs /\ proc'[p] = s
      /\ \A q \in Procs \ {p} : proc'[q] = proc[q]
  BY DEF Become, Shaped
<1>2. SUFFICES ASSUME ~excused'
               PROVE  /\ \A q \in Procs : proc'[q].pc # "idle" => Alone(q)' /\ ProcKnown(proc[q])'
                      /\ (\A q \in Procs : proc'[q].pc = "idle") => Held' \subseteq UNION record'
  BY DEF HeldKnown
<1>3. \A q \in Procs \ {p} : proc'[q].pc = "idle"
  BY <1>1, <1>2 DEF Alone
<1>4. ASSUME NEW q \in Procs, proc'[q].pc # "idle" PROVE Alone(q)' /\ ProcKnown(proc[q])'
  <2>1. q = p
    BY <1>3, <1>4
  <2>2. Alone(q)'
    BY <2>1, <1>3 DEF Alone
  <2>3. \A r : r = s /\ s.pc # "idle" => ProcKnown(r)'
    BY <1>2
  <2>4. ProcKnown(proc[q])'
    BY <2>1, <2>3, <1>1, <1>4 DEF ProcKnown
  <2>5. QED
    BY <2>2, <2>4
<1>5. QED
  BY <1>1, <1>2, <1>4

Inv == Shaped /\ ForeignSafe /\ HeldKnown

\* A process at work is alone, unless the run is excused.
LEMMA AtWork ==
  ASSUME Inv, NEW p \in Procs, proc[p].pc # "idle", ~excused
  PROVE  Alone(p) /\ ProcKnown(proc[p])
BY DEF Inv, HeldKnown

(* --- starting ------------------------------------------------------------- *)

\* What the start of a command makes of its process.
Started(s) ==
  /\ DOMAIN s = ProcFields
  /\ s.plan \subseteq Items
  /\ \/ s.pc = "idle" /\ s.guard = {} /\ s.todo = {}
     \/ s.pc = "adding" /\ s.guard = {} /\ s.todo \subseteq Items /\ record = {}
     \/ s.pc = "undoing" /\ s.guard = UNION record /\ s.todo = s.guard

\* Every command starts as one that adds or one that cleans up.
LEMMA StartedShape ==
  ASSUME UNION record \subseteq Items, NEW plan, plan \subseteq Items
  PROVE  /\ Started(handle_control_plane_apply(plan))
         /\ Started(handle_control_plane_undo)
         /\ Started(handle_control_plane_reconcile(plan))
         /\ Started(handle_up(plan))
<1>1. \A o : Started(Idle(o))
  BY IdleShape DEF Started
<1>2. ASSUME NEW cmd, record = {} PROVE Started(Adding(cmd, plan))
  BY <1>2, AddingShape DEF Started
<1>3. ASSUME NEW s, DOMAIN s = ProcFields, s.plan \subseteq Items
      PROVE  Started(Cleaning(s, "undoing", UNION record))
  <2>1. PICK c : c = Cleaning(s, "undoing", UNION record)
    OBVIOUS
  <2>2. /\ DOMAIN c = ProcFields /\ c.pc = "undoing" /\ c.guard = UNION record
        /\ c.todo = UNION record /\ c.plan = s.plan
    BY <1>3, <2>1 DEF Cleaning, ProcFields
  <2>3. QED
    BY <1>3, <2>1, <2>2, Zenon DEF Started
<1>4. LET s == [Idle("none") EXCEPT !.cmd = "undo"] IN DOMAIN s = ProcFields /\ s.plan = {}
  BY DEF Idle, ProcFields
<1>5. LET s == [Idle("none") EXCEPT !.cmd = "reconcile", !.plan = plan]
      IN  DOMAIN s = ProcFields /\ s.plan = plan
  BY DEF Idle, ProcFields
<1>6. Started(handle_control_plane_apply(plan))
  BY <1>1, <1>2 DEF handle_control_plane_apply
<1>7. Started(handle_control_plane_undo)
  BY <1>1, <1>3, <1>4, Zenon DEF handle_control_plane_undo
<1>8. Started(handle_control_plane_reconcile(plan))
  BY <1>3, <1>5, <1>6, Zenon DEF handle_control_plane_reconcile
<1>9. Started(handle_up(plan))
  BY <1>1, <1>2 DEF handle_up
<1>10. QED
  BY <1>6, <1>7, <1>8, <1>9

\* A process that starts guards nothing yet.
LEMMA StartedKeeps ==
  ASSUME Inv, NEW p \in Procs, NEW s, Started(s), Become(p, s), UNCHANGED <<host, record>>,
         ~excused' => /\ ~excused /\ Alone(p) /\ Held \subseteq UNION record
  PROVE  Inv'
<1>1. /\ s.guard \subseteq Items /\ s.todo \subseteq Items
      /\ s.pc \in {"idle", "adding", "undoing"} /\ (s.pc = "idle" => s.guard = {})
      /\ s.guard \subseteq UNION record
      /\ s.pc = "undoing" => s.todo = s.guard
  BY DEF Inv, Shaped, Started
<1>2. Shaped' /\ ForeignSafe'
  <2>1. \A i \in Items : host[i] = "foreign" => i \notin UNION record
    BY DEF Inv, ForeignSafe
  <2>2. DOMAIN host' = Items /\ UNION record' \subseteq Items /\ DOMAIN s = ProcFields
        /\ s.plan \subseteq Items
    BY DEF Inv, Shaped, Started
  <2>3. \A i \in Items : host'[i] = "foreign" =>
          /\ host[i] = "foreign" /\ i \notin UNION record' /\ i \notin s.guard
          /\ s.pc \in CleaningUp => i \notin s.todo
    BY <1>1, <2>1 DEF CleaningUp
  <2>4. s.pc \in {"idle", "adding", "save", "session", "reapply"} \cup CleaningUp
    BY <1>1 DEF CleaningUp
  <2>5. QED
    BY <1>1, <2>2, <2>3, <2>4, Moves DEF Inv
<1>3. ASSUME ~excused', s.pc # "idle" PROVE ProcKnown(s)'
  <2>1. Held' \subseteq UNION record'
    BY <1>3 DEF Held
  <2>2. s.pc = "adding" => record' = {} /\ Held' = {}
    BY <2>1 DEF Started
  <2>3. s.pc = "undoing" => s.guard = UNION record' /\ s.todo = s.guard
    BY DEF Started
  <2>4. QED
    BY <1>1, <1>3, <2>1, <2>2, <2>3 DEF ProcKnown, CleaningUp
<1>4. ~excused' => Held' \subseteq UNION record'
  BY DEF Held
<1>5. HeldKnown'
  BY <1>3, <1>4, Knows DEF Inv
<1>6. QED
  BY <1>2, <1>5 DEF Inv

\* A command starts, beside another one only with an excuse.
LEMMA StartKeeps ==
  ASSUME Inv, NEW p \in Procs, Start(p)
  PROVE  Inv'
<1>1. PICK s : Started(s) /\ Become(p, s)
  <2>1. PICK plan \in Plans :
          \/ Become(p, handle_control_plane_apply(plan))
          \/ Become(p, handle_control_plane_undo)
          \/ Become(p, handle_control_plane_reconcile(plan))
          \/ Become(p, handle_up(plan))
    BY DEF Start
  <2>2. UNION record \subseteq Items /\ plan \subseteq Items
    BY ItemsShape DEF Inv, Shaped
  <2>3. QED
    BY <2>1, <2>2, StartedShape
<1>2. ASSUME ~excused' PROVE ~excused /\ Alone(p) /\ Held \subseteq UNION record
  <2>1. ~excused /\ Alone(p) /\ proc[p].pc = "idle"
    BY <1>2, Zenon DEF Start, Alone
  <2>2. \A q \in Procs : proc[q].pc = "idle"
    BY <2>1 DEF Alone
  <2>3. QED
    BY <2>1, <2>2 DEF Inv, HeldKnown
<1>3. UNCHANGED <<host, record>>
  BY DEF Start
<1>4. QED
  BY <1>1, <1>2, <1>3, StartedKeeps

\* reconcile goes on to its second half.
LEMMA ReapplyKeeps ==
  ASSUME Inv, NEW p \in Procs, Reapply(p)
  PROVE  Inv'
<1>1. Started(handle_control_plane_apply(proc[p].plan))
  BY StartedShape DEF Inv, Shaped
<1>2. ASSUME ~excused' PROVE ~excused /\ Alone(p) /\ Held \subseteq UNION record
  <2>1. ~excused /\ proc[p].pc = "reapply"
    BY <1>2 DEF Reapply
  <2>2. QED
    BY <2>1, AtWork DEF ProcKnown
<1>3. QED
  BY <1>1, <1>2, StartedKeeps DEF Reapply

(* --- adding --------------------------------------------------------------- *)

\* The three things that happen to an item whose turn it is to be added.
LEMMA AddItemCases ==
  ASSUME Inv, NEW p \in Procs, AddItem(p)
  PROVE  /\ proc[p].pc = "adding"
         /\ UNCHANGED <<record, excused>>
         /\ \E i \in proc[p].todo :
              \/ host' = [host EXCEPT ![i] = "shph"] /\ Added(p, i) /\ (Present(i) => IsDns(i))
              \/ UNCHANGED host /\ Become(p, [proc[p] EXCEPT !.todo = @ \ {i}])
              \/ AddFailed(p, i) /\ (\/ UNCHANGED host
                                     \/ IsDns(i) /\ host' = [host EXCEPT ![i] = "shph"])
<1>1. PICK i \in Foremost(PlanOrder, proc[p].todo) :
         \/ add_underlay_bypass_route(p, i) \/ add_interface_address(p, i) \/ add_route(p, i)
         \/ apply_dns_servers(p, i)
         \/ run_shell_command_fails /\ AddFailed(p, i)
  BY DEF AddItem
<1>2. i \in proc[p].todo
  BY ItemsShape
<1>3. \/ host' = [host EXCEPT ![i] = "shph"] /\ Added(p, i) /\ (Present(i) => IsDns(i))
      \/ UNCHANGED host /\ Become(p, [proc[p] EXCEPT !.todo = @ \ {i}])
      \/ AddFailed(p, i) /\ (\/ UNCHANGED host
                             \/ IsDns(i) /\ host' = [host EXCEPT ![i] = "shph"])
  <2>1. CASE add_underlay_bypass_route(p, i)
    BY <2>1 DEF add_underlay_bypass_route
  <2>2. CASE add_interface_address(p, i)
    BY <2>2 DEF add_interface_address, AddOrRefuse
  <2>3. CASE add_route(p, i)
    BY <2>3 DEF add_route, AddOrRefuse
  <2>4. CASE apply_dns_servers(p, i)
    BY <2>4 DEF apply_dns_servers
  <2>5. CASE run_shell_command_fails /\ AddFailed(p, i)
    BY <2>5 DEF run_shell_command_fails
  <2>6. QED
    BY <1>1, <2>1, <2>2, <2>3, <2>4, <2>5
<1>4. QED
  BY <1>2, <1>3, Zenon DEF AddItem

\* Whatever a step of p does to item i, it makes p s and hands i to nobody else.
LEMMA ItemKeeps ==
  ASSUME Inv, NEW p \in Procs, NEW i \in Items, NEW s, Become(p, s),
         UNCHANGED <<record, excused>>, proc[p].pc # "idle",
         DOMAIN s = ProcFields, s.plan = proc[p].plan,
         s.todo \subseteq Items,
         s.guard \subseteq proc[p].guard \cup {i},
         s.pc \in {"adding"} \cup CleaningUp,
         s.pc \in CleaningUp => \/ s.todo \subseteq proc[p].guard \cup {i}
                                \/ proc[p].pc \in CleaningUp /\ s.todo \subseteq proc[p].todo,
         DOMAIN host' = Items, \A j \in Items \ {i} : host'[j] = host[j],
         host'[i] = "foreign" => host[i] = "foreign" /\ i \notin s.guard \cup s.todo,
         ~excused /\ ProcKnown(proc[p]) => ProcKnown(s)'
  PROVE  Inv'
<1>1. /\ s.guard \subseteq Items /\ s.plan \subseteq Items
      /\ s.pc \in {"idle", "adding", "save", "session", "reapply"} \cup CleaningUp
      /\ s.pc # "idle" /\ UNION record' \subseteq Items
  BY DEF Inv, Shaped, CleaningUp
<1>2. ASSUME NEW j \in Items, host'[j] = "foreign"
      PROVE  /\ host[j] = "foreign" /\ j \notin UNION record' /\ j \notin s.guard
             /\ s.pc \in CleaningUp => j \notin s.todo
  <2>1. host[j] = "foreign"
    BY <1>2
  <2>2. /\ j \notin UNION record' /\ j \notin proc[p].guard
        /\ proc[p].pc \in CleaningUp => j \notin proc[p].todo
    BY <2>1 DEF Inv, ForeignSafe
  <2>3. QED
    BY <1>2, <2>1, <2>2
<1>3. Shaped' /\ ForeignSafe'
  BY <1>1, <1>2, Moves DEF Inv
<1>4. HeldKnown'
  BY <1>1, AtWork, Knows DEF Inv
<1>5. QED
  BY <1>3, <1>4 DEF Inv

\* An item is added, found there already, or fails.
LEMMA AddItemKeeps ==
  ASSUME Inv, NEW p \in Procs, AddItem(p)
  PROVE  Inv'
<1>1. /\ proc[p].pc = "adding" /\ UNCHANGED <<record, excused>>
      /\ DOMAIN host = Items /\ DOMAIN proc[p] = ProcFields
      /\ proc[p].todo \subseteq Items /\ proc[p].guard \subseteq Items
  BY AddItemCases DEF Inv, Shaped
<1>2. PICK i \in proc[p].todo :
         \/ host' = [host EXCEPT ![i] = "shph"] /\ Added(p, i) /\ (Present(i) => IsDns(i))
         \/ UNCHANGED host /\ Become(p, [proc[p] EXCEPT !.todo = @ \ {i}])
         \/ AddFailed(p, i) /\ (\/ UNCHANGED host
                                \/ IsDns(i) /\ host' = [host EXCEPT ![i] = "shph"])
  BY AddItemCases
<1>3. i \in Items
  BY <1>1, <1>2
<1>4. IsDns(i) => host[i] # "foreign"
  BY <1>3 DEF Inv, ForeignSafe
<1>5. CASE host' = [host EXCEPT ![i] = "shph"] /\ Added(p, i)
  <2>1. PICK s : s = [proc[p] EXCEPT !.guard = @ \cup {i}, !.todo = @ \ {i}]
    OBVIOUS
  <2>2. /\ DOMAIN s = ProcFields /\ s.pc = "adding" /\ s.guard = proc[p].guard \cup {i}
        /\ s.todo = proc[p].todo \ {i} /\ s.plan = proc[p].plan
    BY <1>1, <2>1 DEF ProcFields
  <2>3. DOMAIN host' = Items /\ host'[i] = "shph" /\ \A j \in Items \ {i} : host'[j] = host[j]
    BY <1>1, <1>3, <1>5
  <2>4. ProcKnown(proc[p]) => ProcKnown(s)'
    BY <1>1, <2>2, <2>3 DEF ProcKnown, Held, CleaningUp
  <2>5. Become(p, s) /\ "adding" \notin CleaningUp
    BY <1>5, <2>1 DEF Added, CleaningUp
  <2>6. QED
    BY <1>1, <1>3, <2>2, <2>3, <2>4, <2>5, ItemKeeps
<1>6. CASE UNCHANGED host /\ Become(p, [proc[p] EXCEPT !.todo = @ \ {i}])
  <2>1. PICK s : s = [proc[p] EXCEPT !.todo = @ \ {i}]
    BY Zenon
  <2>2. /\ DOMAIN s = ProcFields /\ s.pc = "adding" /\ s.guard = proc[p].guard
        /\ s.todo = proc[p].todo \ {i} /\ s.plan = proc[p].plan
    BY <1>1, <2>1 DEF ProcFields
  <2>3. ProcKnown(proc[p]) => ProcKnown(s)'
    BY <1>1, <1>6, <2>2 DEF ProcKnown, Held, CleaningUp
  <2>4. Become(p, s) /\ "adding" \notin CleaningUp
    BY <1>6, <2>1 DEF CleaningUp
  <2>5. host[i] = "foreign" => i \notin s.guard \cup s.todo
    BY <1>3, <2>2 DEF Inv, ForeignSafe
  <2>6. QED
    BY <1>1, <1>3, <1>6, <2>2, <2>3, <2>4, <2>5, ItemKeeps
<1>7. CASE AddFailed(p, i) /\ (\/ UNCHANGED host
                               \/ IsDns(i) /\ host' = [host EXCEPT ![i] = "shph"])
  <2>1. PICK g : g = proc[p].guard \cup {d \in {i} : IsDns(d)}
    BY Zenon
  <2>2. PICK s : s = Cleaning(proc[p], "rollback", g)
    OBVIOUS
  <2>3. /\ DOMAIN s = ProcFields /\ s.pc = "rollback" /\ s.guard = g /\ s.todo = g
        /\ s.plan = proc[p].plan
    BY <1>1, <2>2 DEF Cleaning, ProcFields
  <2>4. /\ DOMAIN host' = Items /\ \A j \in Items \ {i} : host'[j] = host[j]
        /\ host'[i] = "foreign" => host[i] = "foreign" /\ ~IsDns(i)
        /\ host'[i] = "shph" => host[i] = "shph" \/ IsDns(i)
    BY <1>1, <1>3, <1>4, <1>7
  <2>5. host'[i] = "foreign" => i \notin s.guard \cup s.todo
    BY <1>3, <2>1, <2>3, <2>4 DEF Inv, ForeignSafe
  <2>6. ProcKnown(proc[p]) => ProcKnown(s)'
    <3>1. SUFFICES ASSUME ProcKnown(proc[p]) PROVE ProcKnown(s)'
      OBVIOUS
    <3>2. Held \subseteq proc[p].guard
      BY <1>1, <3>1 DEF ProcKnown
    <3>3. Held' \subseteq g
      BY <2>1, <2>4, <3>2 DEF Held
    <3>4. QED
      BY <2>3, <3>3 DEF ProcKnown, CleaningUp
  <2>7. Become(p, s) /\ "rollback" \in CleaningUp
    BY <1>7, <2>1, <2>2 DEF AddFailed, CleaningUp
  <2>8. g \subseteq proc[p].guard \cup {i} /\ g \subseteq Items
    BY <1>1, <1>3, <2>1
  <2>9. QED
    BY <1>1, <1>3, <2>3, <2>4, <2>5, <2>6, <2>7, <2>8, ItemKeeps
<1>8. QED
  BY <1>2, <1>5, <1>6, <1>7

(* --- from one phase to the next ------------------------------------------- *)

\* What a process at work may become without touching the host.
Successor(p, s) ==
  /\ DOMAIN s = ProcFields /\ s.plan \subseteq Items
  /\ s.guard \subseteq proc[p].guard /\ s.todo \subseteq Items
  /\ s.pc \in CleaningUp => s.todo \subseteq proc[p].guard
  /\ s.pc \in {"idle", "adding", "save", "session", "reapply"} \cup CleaningUp
  /\ s.pc = "idle" => s.guard = {}

\* A process goes from one phase to the next and the host stays as it is.
LEMMA PhaseKeeps ==
  ASSUME Inv, NEW p \in Procs, NEW s, proc[p].pc # "idle", Successor(p, s), Become(p, s),
         UNCHANGED host, UNION record' \subseteq (UNION record) \cup proc[p].guard,
         ~excused' => ~excused,
         ~excused' /\ ProcKnown(proc[p]) => /\ s.pc # "idle" => ProcKnown(s)'
                                            /\ s.pc = "idle" => Held \subseteq UNION record'
  PROVE  Inv'
<1>1. /\ s.guard \subseteq Items /\ s.todo \subseteq Items /\ DOMAIN host' = Items
      /\ UNION record' \subseteq Items
  BY DEF Inv, Shaped, Successor
<1>2. ASSUME NEW j \in Items, host'[j] = "foreign"
      PROVE  /\ host[j] = "foreign" /\ j \notin UNION record' /\ j \notin s.guard
             /\ s.pc \in CleaningUp => j \notin s.todo
  <2>1. j \notin UNION record /\ j \notin proc[p].guard
    BY <1>2 DEF Inv, ForeignSafe
  <2>2. QED
    BY <1>2, <2>1 DEF Successor
<1>3. Shaped' /\ ForeignSafe'
  BY <1>1, <1>2, Moves DEF Inv, Successor
<1>4. Held' = Held
  BY DEF Held
<1>5. HeldKnown'
  BY <1>4, AtWork, Knows DEF Inv
<1>6. QED
  BY <1>3, <1>5 DEF Inv

\* A process that ends leaves nothing behind that is not on record.
LEMMA EndKeeps ==
  ASSUME Inv, NEW p \in Procs, NEW o, proc[p].pc # "idle", Become(p, Idle(o)),
         UNCHANGED host, UNION record' \subseteq (UNION record) \cup proc[p].guard,
         ~excused' => ~excused,
         ~excused' /\ ProcKnown(proc[p]) => Held \subseteq UNION record'
  PROVE  Inv'
<1>1. PICK s : s = Idle(o)
  OBVIOUS
<1>2. Successor(p, s) /\ s.pc = "idle" /\ Become(p, s)
  BY <1>1, IdleShape DEF Successor
<1>3. QED
  BY <1>2, PhaseKeeps

\* All items are added: on to the save, or the session begins.
LEMMA AddDoneKeeps ==
  ASSUME Inv, NEW p \in Procs, AddDone(p)
  PROVE  Inv'
<1>1. /\ proc[p].pc = "adding" /\ proc[p].todo = {} /\ UNCHANGED <<host, record, excused>>
      /\ DOMAIN proc[p] = ProcFields /\ proc[p].plan \subseteq Items
  BY DEF AddDone, Inv, Shaped
<1>2. PICK s : /\ Become(p, s) /\ DOMAIN s = ProcFields /\ s.plan = proc[p].plan
               /\ s.guard = proc[p].guard /\ s.todo = {}
               /\ s.pc \in {"save", "session"} /\ (s.pc = "session" => ~s.recorded)
  <2>1. CASE proc[p].cmd = "up"
    <3>1. PICK r : r = control_state_recorded(proc[p].guard)
      OBVIOUS
    <3>2. PICK pc : pc = IF r THEN "save" ELSE "session"
      OBVIOUS
    <3>3. PICK s : s = [proc[p] EXCEPT !.recorded = r, !.pc = pc]
      OBVIOUS
    <3>4. Become(p, s)
      BY <2>1, <3>1, <3>2, <3>3 DEF AddDone
    <3>5. /\ DOMAIN s = ProcFields /\ s.plan = proc[p].plan /\ s.guard = proc[p].guard
          /\ s.todo = {} /\ s.pc = pc /\ s.recorded = r
      BY <1>1, <3>3 DEF ProcFields
    <3>6. pc \in {"save", "session"} /\ (pc = "session" => ~r)
      BY <3>2
    <3>7. QED
      BY <3>4, <3>5, <3>6
  <2>2. CASE proc[p].cmd # "up"
    <3>1. PICK s : s = [proc[p] EXCEPT !.pc = "save"]
      BY Zenon
    <3>2. /\ DOMAIN s = ProcFields /\ s.plan = proc[p].plan /\ s.guard = proc[p].guard
          /\ s.todo = {} /\ s.pc = "save"
      BY <1>1, <3>1 DEF ProcFields
    <3>3. Become(p, s)
      BY <2>2, <3>1 DEF AddDone
    <3>4. QED
      BY <3>2, <3>3
  <2>3. QED
    BY <2>1, <2>2
<1>3. Successor(p, s)
  BY <1>1, <1>2 DEF Successor
<1>4. ProcKnown(proc[p]) => ProcKnown(s)'
  BY <1>1, <1>2 DEF ProcKnown, Held, CleaningUp
<1>5. QED
  BY <1>1, <1>2, <1>3, <1>4, PhaseKeeps

\* The state file is written, or cannot be.
LEMMA SaveKeeps ==
  ASSUME Inv, NEW p \in Procs, Save(p)
  PROVE  Inv'
<1>1. /\ proc[p].pc = "save" /\ UNCHANGED <<host, excused>>
      /\ DOMAIN proc[p] = ProcFields /\ proc[p].plan \subseteq Items
      /\ proc[p].guard \subseteq Items /\ proc[p].todo \subseteq Items
  BY DEF Save, Inv, Shaped
<1>2. record' = {proc[p].guard} \/ record' = record
  BY DEF Save, Saved, SaveFailed
<1>3. UNION record' \subseteq (UNION record) \cup proc[p].guard
  BY <1>2
<1>4. ProcKnown(proc[p]) => Held' \subseteq proc[p].guard
  BY <1>1 DEF ProcKnown, Held
<1>5. CASE Saved(proc[p].guard) /\ Become(p, Idle("ok"))
  <2>1. UNION record' = proc[p].guard
    BY <1>5 DEF Saved
  <2>2. Held' = Held
    BY <1>1 DEF Held
  <2>3. QED
    BY <1>1, <1>3, <1>4, <1>5, <2>1, <2>2, EndKeeps
<1>6. CASE Saved(proc[p].guard) /\ Become(p, [proc[p] EXCEPT !.pc = "session"])
  <2>1. UNION record' = proc[p].guard
    BY <1>6 DEF Saved
  <2>2. PICK s : s = [proc[p] EXCEPT !.pc = "session"]
    BY Zenon
  <2>3. /\ DOMAIN s = ProcFields /\ s.plan = proc[p].plan /\ s.guard = proc[p].guard
        /\ s.todo = proc[p].todo /\ s.pc = "session"
    BY <1>1, <2>2 DEF ProcFields
  <2>4. ProcKnown(proc[p]) => ProcKnown(s)'
    BY <1>4, <2>1, <2>3 DEF ProcKnown, CleaningUp
  <2>5. Successor(p, s)
    BY <1>1, <2>3 DEF Successor, CleaningUp
  <2>6. QED
    BY <1>1, <1>3, <1>6, <2>2, <2>3, <2>4, <2>5, PhaseKeeps, Zenon
<1>7. ASSUME NEW pc \in {"aborting", "rollback"}, Become(p, Cleaning(proc[p], pc, proc[p].guard))
      PROVE  Inv'
  <2>1. PICK s : s = Cleaning(proc[p], pc, proc[p].guard)
    OBVIOUS
  <2>2. /\ DOMAIN s = ProcFields /\ s.pc = pc /\ s.guard = proc[p].guard
        /\ s.todo = proc[p].guard /\ s.plan = proc[p].plan
    BY <1>1, <2>1 DEF Cleaning, ProcFields
  <2>3. ProcKnown(proc[p]) => ProcKnown(s)'
    BY <1>4, <1>7, <2>2 DEF ProcKnown
  <2>4. Successor(p, s)
    BY <1>1, <2>2 DEF Successor, CleaningUp
  <2>5. QED
    BY <1>1, <1>3, <1>7, <2>1, <2>2, <2>3, <2>4, PhaseKeeps
<1>8. QED
  BY <1>5, <1>6, <1>7 DEF Save

\* The session of an up is over and its clean-up begins.
LEMMA SessionEndsKeeps ==
  ASSUME Inv, NEW p \in Procs, SessionEnds(p)
  PROVE  Inv'
<1>1. /\ proc[p].pc = "session" /\ UNCHANGED <<host, record, excused>>
      /\ DOMAIN proc[p] = ProcFields /\ proc[p].plan \subseteq Items
      /\ proc[p].guard \subseteq Items
  BY DEF SessionEnds, Inv, Shaped
<1>2. PICK s : s = Cleaning(proc[p], "finishing", proc[p].guard)
  OBVIOUS
<1>3. /\ DOMAIN s = ProcFields /\ s.pc = "finishing" /\ s.guard = proc[p].guard
      /\ s.todo = proc[p].guard /\ s.plan = proc[p].plan /\ s.recorded = proc[p].recorded
  BY <1>1, <1>2 DEF Cleaning, ProcFields
<1>4. ProcKnown(proc[p]) => ProcKnown(s)'
  BY <1>1, <1>3, Zenon DEF ProcKnown, Held
<1>5. Successor(p, s)
  BY <1>1, <1>3, Zenon DEF Successor, CleaningUp
<1>6. QED
  BY <1>1, <1>2, <1>3, <1>4, <1>5, PhaseKeeps DEF SessionEnds

(* --- cleaning up ---------------------------------------------------------- *)

\* A removal succeeds, or fails and changes nothing.
LEMMA RemoveItemCases ==
  ASSUME Inv, NEW p \in Procs, RemoveItem(p)
  PROVE  /\ proc[p].pc \in CleaningUp
         /\ UNCHANGED <<record, excused>>
         /\ \E i \in proc[p].todo :
              \/ host' = [host EXCEPT ![i] = "absent"] /\ Removed(p, i)
              \/ UNCHANGED host /\ RemoveFailed(p, i)
<1>1. PICK i \in Topmost(CleanupStack, proc[p].todo) :
         \/ delete_underlay_bypass_route(p, i) \/ delete_interface_address(p, i)
         \/ delete_route(p, i) \/ restore_dns(p, i)
         \/ run_shell_command_fails /\ RemoveFailed(p, i)
  BY Zenon DEF RemoveItem
<1>2. i \in proc[p].todo
  BY ItemsShape
<1>3. \/ host' = [host EXCEPT ![i] = "absent"] /\ Removed(p, i)
      \/ UNCHANGED host /\ RemoveFailed(p, i)
  <2>1. RemoveOrRefuse(p, i) => \/ host' = [host EXCEPT ![i] = "absent"] /\ Removed(p, i)
                                \/ UNCHANGED host /\ RemoveFailed(p, i)
    BY DEF RemoveOrRefuse
  <2>2. \/ RemoveOrRefuse(p, i)
        \/ host' = [host EXCEPT ![i] = "absent"] /\ Removed(p, i)
        \/ UNCHANGED host /\ RemoveFailed(p, i)
    BY <1>1 DEF delete_underlay_bypass_route, delete_interface_address, delete_route, restore_dns,
                run_shell_command_fails
  <2>3. QED
    BY <2>1, <2>2
<1>4. QED
  BY <1>2, <1>3, Zenon DEF RemoveItem, CleaningUp

\* A removal keeps Inv either way.
LEMMA RemoveItemKeeps ==
  ASSUME Inv, NEW p \in Procs, RemoveItem(p)
  PROVE  Inv'
<1>1. /\ proc[p].pc \in CleaningUp /\ UNCHANGED <<record, excused>>
      /\ DOMAIN host = Items /\ DOMAIN proc[p] = ProcFields
      /\ proc[p].todo \subseteq Items /\ proc[p].guard \subseteq Items
      /\ proc[p].pc # "idle"
  BY RemoveItemCases DEF Inv, Shaped, CleaningUp
<1>2. PICK i \in proc[p].todo : \/ host' = [host EXCEPT ![i] = "absent"] /\ Removed(p, i)
                                \/ UNCHANGED host /\ RemoveFailed(p, i)
  BY RemoveItemCases
<1>3. i \in Items
  BY <1>1, <1>2
<1>4. CASE host' = [host EXCEPT ![i] = "absent"] /\ Removed(p, i)
  <2>1. PICK s : s = [proc[p] EXCEPT !.todo = @ \ {i}, !.guard = @ \ {i}]
    OBVIOUS
  <2>2. /\ DOMAIN s = ProcFields /\ s.pc = proc[p].pc /\ s.guard = proc[p].guard \ {i}
        /\ s.todo = proc[p].todo \ {i} /\ s.plan = proc[p].plan
        /\ s.errors = proc[p].errors /\ s.recorded = proc[p].recorded
    BY <1>1, <2>1 DEF ProcFields
  <2>3. DOMAIN host' = Items /\ host'[i] = "absent" /\ \A j \in Items \ {i} : host'[j] = host[j]
    BY <1>1, <1>3, <1>4
  <2>4. ASSUME ProcKnown(proc[p]) PROVE ProcKnown(s)'
    <3>1. Held' \subseteq Held \ {i}
      BY <2>3 DEF Held
    <3>2. Held \subseteq proc[p].guard /\ proc[p].todo \subseteq proc[p].guard
      BY <1>1, <2>4 DEF ProcKnown
    <3>3. Held' \subseteq s.guard /\ s.todo \subseteq s.guard
      BY <2>2, <3>1, <3>2
    <3>4. s.errors \/ s.guard = s.todo
      BY <1>1, <2>2, <2>4 DEF ProcKnown
    <3>5. /\ s.pc = "undoing" => s.guard \subseteq UNION record'
          /\ s.pc = "finishing" /\ s.recorded => s.guard \subseteq UNION record'
      BY <1>1, <2>2, <2>4 DEF ProcKnown
    <3>6. QED
      BY <1>1, <2>2, <3>3, <3>4, <3>5 DEF ProcKnown, CleaningUp
  <2>5. s.todo \subseteq proc[p].todo
    BY <2>2
  <2>6. Become(p, s)
    BY <1>4, <2>1 DEF Removed
  <2>7. QED
    BY <1>1, <1>3, <2>2, <2>3, <2>4, <2>5, <2>6, ItemKeeps
<1>5. CASE UNCHANGED host /\ RemoveFailed(p, i)
  <2>1. PICK s : s = [proc[p] EXCEPT !.todo = @ \ {i}, !.errors = TRUE]
    OBVIOUS
  <2>2. /\ DOMAIN s = ProcFields /\ s.pc = proc[p].pc /\ s.guard = proc[p].guard
        /\ s.todo = proc[p].todo \ {i} /\ s.plan = proc[p].plan
        /\ s.errors = TRUE /\ s.recorded = proc[p].recorded
    BY <1>1, <2>1 DEF ProcFields
  <2>3. ProcKnown(proc[p]) => ProcKnown(s)'
    BY <1>1, <1>5, <2>2, Zenon DEF ProcKnown, Held, CleaningUp
  <2>4. s.todo \subseteq proc[p].todo
    BY <2>2
  <2>5. host'[i] = "foreign" => host[i] = "foreign" /\ i \notin s.guard \cup s.todo
    BY <1>1, <1>3, <1>5, <2>2 DEF Inv, ForeignSafe
  <2>6. Become(p, s)
    BY <1>5, <2>1 DEF RemoveFailed
  <2>7. QED
    BY <1>1, <1>3, <1>5, <2>2, <2>3, <2>4, <2>5, <2>6, ItemKeeps, Zenon
<1>6. QED
  BY <1>2, <1>4, <1>5

\* What a rollback could not remove is saved, or excused.
LEMMA SaveRemainingCases ==
  ASSUME NEW p \in Procs, SaveRemaining(p)
  PROVE  /\ record' = {proc[p].guard} \/ record' = record
         /\ excused \/ ~excused' => excused' = excused
         /\ ~excused' => record' = {proc[p].guard}
BY Zenon DEF SaveRemaining, Saved, SaveFailed

\* A clean-up that had no errors has left nothing of SHPH.
LEMMA CleanedUp ==
  ASSUME Inv, NEW p \in Procs, proc[p].pc \in CleaningUp, proc[p].todo = {}, ProcKnown(proc[p])
  PROVE  Held \subseteq proc[p].guard /\ (proc[p].errors \/ Held = {})
BY DEF ProcKnown

\* The rollback of a failed command is over.
LEMMA RollbackDoneKeeps ==
  ASSUME Inv, NEW p \in Procs, RollbackDone(p)
  PROVE  Inv'
<1>1. /\ proc[p].pc = "rollback" /\ proc[p].todo = {} /\ UNCHANGED host
      /\ Become(p, Idle("error"))
  BY DEF RollbackDone, CleanupDone
<1>2. \/ /\ proc[p].errors /\ (record' = {proc[p].guard} \/ record' = record)
         /\ ~excused' => ~excused /\ record' = {proc[p].guard}
      \/ ~proc[p].errors /\ UNCHANGED <<record, excused>>
  BY SaveRemainingCases DEF RollbackDone
<1>3. UNION record' \subseteq (UNION record) \cup proc[p].guard
  BY <1>2
<1>4. ~excused' => ~excused
  BY <1>2
<1>5. ~excused' /\ ProcKnown(proc[p]) => Held \subseteq UNION record'
  BY <1>1, <1>2, CleanedUp DEF CleaningUp
<1>6. QED
  BY <1>1, <1>3, <1>4, <1>5, EndKeeps

\* An undo is over: its state file is removed, or says what is left.
LEMMA UndoDoneKeeps ==
  ASSUME Inv, NEW p \in Procs, UndoDone(p)
  PROVE  Inv'
<1>1. /\ proc[p].pc = "undoing" /\ proc[p].todo = {} /\ UNCHANGED <<host, excused>>
      /\ DOMAIN proc[p] = ProcFields /\ proc[p].plan \subseteq Items
  BY DEF UndoDone, CleanupDone, Inv, Shaped
<1>2. ProcKnown(proc[p]) => /\ Held \subseteq UNION record /\ (proc[p].errors \/ Held = {})
  BY <1>1 DEF ProcKnown, CleaningUp
<1>3. CASE UNCHANGED record /\ Become(p, Idle("error"))
  BY <1>1, <1>2, <1>3, EndKeeps
<1>4. CASE ~proc[p].errors /\ RecordRemoved /\ Become(p, Idle("ok"))
  <2>1. UNION record' = {}
    BY <1>4 DEF RecordRemoved
  <2>2. QED
    BY <1>1, <1>2, <1>4, <2>1, EndKeeps
<1>5. CASE ~proc[p].errors /\ RecordRemoved /\ Become(p, [proc[p] EXCEPT !.pc = "reapply"])
  <2>1. record' = {} /\ UNION record' = {}
    BY <1>5 DEF RecordRemoved
  <2>2. PICK s : s = [proc[p] EXCEPT !.pc = "reapply"]
    BY Zenon
  <2>3. /\ DOMAIN s = ProcFields /\ s.pc = "reapply" /\ s.guard = proc[p].guard
        /\ s.todo = {} /\ s.plan = proc[p].plan
    BY <1>1, <2>2 DEF ProcFields
  <2>4. Successor(p, s)
    BY <1>1, <2>3 DEF Successor
  <2>5. Held' = Held
    BY <1>1 DEF Held
  <2>6. ProcKnown(proc[p]) => ProcKnown(s)'
    BY <1>2, <1>5, <2>3, <2>5 DEF ProcKnown, CleaningUp
  <2>7. QED
    BY <1>1, <1>5, <2>1, <2>2, <2>3, <2>4, <2>6, PhaseKeeps, Zenon
<1>6. QED
  BY <1>3, <1>4, <1>5 DEF UndoDone

\* The clean-up at the end of an up is over.
LEMMA FinishKeeps ==
  ASSUME Inv, NEW p \in Procs, finish_up_cleanup(p)
  PROVE  Inv'
<1>1. /\ proc[p].pc \in {"aborting", "finishing"} /\ proc[p].todo = {} /\ UNCHANGED host
      /\ Become(p, Idle("none"))
  BY DEF finish_up_cleanup, CleanupDone
<1>2. \/ /\ proc[p].errors /\ (record' = {proc[p].guard} \/ record' = record)
         /\ ~excused' => ~excused /\ record' = {proc[p].guard}
      \/ ~proc[p].errors /\ record' \in {{}, record} /\ (~excused' => ~excused)
      \/ proc[p].errors /\ record' = record /\ excused'
  <2>1. CASE ~proc[p].recorded
    BY <2>1, Zenon DEF finish_up_cleanup
  <2>2. CASE proc[p].recorded /\ proc[p].errors
    BY <2>2, SaveRemainingCases DEF finish_up_cleanup
  <2>3. CASE proc[p].recorded /\ ~proc[p].errors
    BY <2>3 DEF finish_up_cleanup, RecordRemoved
  <2>4. QED
    BY <2>1, <2>2, <2>3
<1>3. UNION record' \subseteq (UNION record) \cup proc[p].guard
  BY <1>2
<1>4. ~excused' => ~excused
  BY <1>2
<1>5. ~excused' /\ ProcKnown(proc[p]) => Held \subseteq UNION record'
  BY <1>1, <1>2, CleanedUp DEF CleaningUp
<1>6. proc[p].pc # "idle"
  BY <1>1
<1>7. QED
  BY <1>1, <1>3, <1>4, <1>5, <1>6, EndKeeps

\* A process is killed.
LEMMA CrashKeeps ==
  ASSUME Inv, NEW p \in Procs, Crash(p)
  PROVE  Inv'
<1>1. /\ proc[p].pc # "idle" /\ UNCHANGED <<host, record>> /\ Become(p, Idle("none"))
      /\ ~excused' => ~excused /\ ~Unsaved(proc[p])
  BY Zenon DEF Crash
<1>2. proc[p].pc \in {"adding", "save", "session", "reapply"} \cup CleaningUp
  BY <1>1 DEF Inv, Shaped
<1>3. ~Unsaved(proc[p]) /\ ProcKnown(proc[p]) => Held \subseteq UNION record
  BY <1>2 DEF Unsaved, ProcKnown, CleaningUp
<1>4. QED
  BY <1>1, <1>3, EndKeeps

(* --- theorems ------------------------------------------------------------- *)

\* Inv is kept by every step.
LEMMA StepKeeps ==
  ASSUME Inv, Next
  PROVE  Inv'
<1>1. PICK p \in Procs : Start(p) \/ Step(p) \/ Crash(p)
  BY DEF Next
<1>2. CASE Step(p)
  BY <1>2, AddItemKeeps, AddDoneKeeps, SaveKeeps, SessionEndsKeeps, RemoveItemKeeps,
     RollbackDoneKeeps, UndoDoneKeeps, ReapplyKeeps, FinishKeeps DEF Step
<1>3. QED
  BY <1>1, <1>2, StartKeeps, CrashKeeps

\* Inv holds in every behaviour.
LEMMA Always == Spec => []Inv
<1>1. Init => Inv
  <2>1. SUFFICES ASSUME Init PROVE Inv
    OBVIOUS
  <2>2. PICK there \in SUBSET Foreign :
          host = [i \in Items |-> IF i \in there THEN "foreign" ELSE "absent"]
    BY <2>1 DEF Init
  <2>3. /\ DOMAIN host = Items
        /\ \A i \in Items : host[i] # "shph" /\ (host[i] = "foreign" => ~IsDns(i))
    BY <2>2, ControlPlaneAssumption DEF IsDns
  <2>4. DOMAIN proc = Procs /\ \A p \in Procs : proc[p] = Idle("none")
    BY <2>1 DEF Init
  <2>5. record = {} /\ UNION record = {}
    BY <2>1 DEF Init
  <2>6. Shaped
    BY <2>3, <2>4, <2>5, IdleShape DEF Shaped
  <2>7. ForeignSafe
    BY <2>3, <2>4, <2>5, IdleShape DEF ForeignSafe
  <2>8. HeldKnown
    BY <2>3, <2>4, IdleShape DEF HeldKnown, Held
  <2>9. QED
    BY <2>6, <2>7, <2>8 DEF Inv
<1>2. Inv /\ [Next]_vars => Inv'
  <2>1. SUFFICES ASSUME Inv, [Next]_vars PROVE Inv'
    OBVIOUS
  <2>2. CASE Next
    BY <2>1, <2>2, StepKeeps
  <2>3. CASE UNCHANGED vars
    <3>1. Shaped'
      BY <2>1, <2>3 DEF vars, Inv, Shaped
    <3>2. ForeignSafe'
      BY <2>1, <2>3 DEF vars, Inv, ForeignSafe
    <3>3. HeldKnown'
      BY <2>1, <2>3 DEF vars, Inv, HeldKnown, Alone, ProcKnown, Held
    <3>4. QED
      BY <3>1, <3>2, <3>3 DEF Inv
  <2>4. QED
    BY <2>1, <2>2, <2>3
<1>3. QED
  BY <1>1, <1>2, PTL DEF Spec

\* For any processes, configurations, host failures and kills: what SHPH put on
\* the host is known to a running process or to the state file, but for the
\* four excused cases of NothingForgotten (apply_control_plane_with_underlay,
\* ControlPlaneGuard::cleanup, save_remaining_control_plane_state and
\* finish_up_cleanup).
THEOREM NothingIsForgotten == Spec => []NothingForgotten
<1>1. Inv => NothingForgotten
  <2>1. SUFFICES ASSUME Inv, ~excused, NEW i \in Items, host[i] = "shph"
                 PROVE  i \in UNION record \/ \E p \in Procs : i \in proc[p].guard
    BY DEF NothingForgotten
  <2>2. i \in Held
    BY <2>1 DEF Held
  <2>3. CASE \A p \in Procs : proc[p].pc = "idle"
    BY <2>1, <2>2, <2>3 DEF Inv, HeldKnown
  <2>4. ASSUME NEW p \in Procs, proc[p].pc # "idle" PROVE i \in proc[p].guard
    <3>1. ProcKnown(proc[p])
      BY <2>1, <2>4, AtWork
    <3>2. proc[p].pc \in {"adding", "save", "session", "reapply"} \cup CleaningUp
      BY <2>1, <2>4 DEF Inv, Shaped
    <3>3. QED
      BY <2>2, <3>1, <3>2 DEF ProcKnown
  <2>5. QED
    BY <2>3, <2>4
<1>2. QED
  BY <1>1, Always, PTL

\* For any processes, overlapping and killed at any point: no step removes or
\* takes over a route or an address that was on the host before SHPH, although
\* rollback, undo and reconcile delete by name.
THEOREM ForeignStays == Spec => ForeignKept
<1>1. ASSUME Inv, [Next]_vars
      PROVE  [\A i \in Items : host[i] = "foreign" => host'[i] = "foreign"]_vars
  <2>1. SUFFICES ASSUME Next, NEW i \in Items, host[i] = "foreign" PROVE host'[i] = "foreign"
    BY <1>1
  <2>2. DOMAIN host = Items
    BY <1>1 DEF Inv, Shaped
  <2>3. PICK p \in Procs : Start(p) \/ Step(p) \/ Crash(p)
    BY <2>1 DEF Next
  <2>4. CASE AddItem(p)
    <3>1. PICK j \in proc[p].todo : \/ UNCHANGED host
                                    \/ /\ host' = [host EXCEPT ![j] = "shph"]
                                       /\ Present(j) => IsDns(j)
      BY <1>1, <2>4, AddItemCases, Zenon
    <3>2. IsDns(i) => host[i] # "foreign"
      BY <1>1, <2>1 DEF Inv, ForeignSafe
    <3>3. QED
      BY <2>1, <2>2, <3>1, <3>2 DEF Present
  <2>5. CASE RemoveItem(p)
    <3>1. PICK j \in proc[p].todo : UNCHANGED host \/ host' = [host EXCEPT ![j] = "absent"]
      BY <1>1, <2>5, RemoveItemCases
    <3>2. proc[p].pc \in CleaningUp
      BY <1>1, <2>5, RemoveItemCases
    <3>3. i \notin proc[p].todo
      BY <1>1, <2>1, <3>2 DEF Inv, ForeignSafe
    <3>4. QED
      BY <2>1, <2>2, <3>1, <3>3
  <2>6. CASE ~AddItem(p) /\ ~RemoveItem(p)
    BY <2>1, <2>3, <2>6 DEF Start, Step, AddDone, Save, SessionEnds, RollbackDone, UndoDone, Reapply,
                            finish_up_cleanup, Crash
  <2>7. QED
    BY <2>4, <2>5, <2>6
<1>2. QED
  BY <1>1, Always, PTL DEF Spec, ForeignKept

(* --- the guards of `up`: what is on the host ------------------------------- *)

UpFields == {"pc", "options", "held", "previous", "todo"}
MachineFields == {"drop", "allow", "mss", "nat", "forward", "tun"}
Undoable == {"killswitch", "mss", "tun", "nat"}

\* The killswitch is in place, if it was asked for.
Behind == {"tun open", "require native", "tun", "nat", "nat tables", "mss", "control plane", "session"}
UpPcs == Behind \cup {"idle", "killswitch", "killswitch table", "killswitch rules", "unwind",
                      "down killswitch", "down mss"}

\* The guards a process holds at each step.
HeldAt(r) ==
  /\ r.held \subseteq Undoable \cup {"forward"}
  /\ r.pc \in {"idle", "killswitch", "down killswitch", "down mss"} => r.held = {}
  /\ r.pc \in {"killswitch table", "killswitch rules"} => r.held = {"killswitch"}
  /\ r.pc = "tun open" => r.held \subseteq {"killswitch"}
  /\ r.pc \in {"require native", "tun", "nat"} =>
       r.held \subseteq {"killswitch", "tun"} /\ ("tun" \in r.held <=> "native" \in r.options)
  /\ r.pc = "nat tables" => {"nat", "forward"} \subseteq r.held /\ "mss" \notin r.held

IsUp(r) == DOMAIN r = UpFields /\ r.todo \in Seq(Undoable) /\ r.pc \in UpPcs /\ HeldAt(r)

\* Every guard in held is undone by an item of todo.
Covered(held, todo) == \A x \in held : \E k \in DOMAIN todo : x \in PartsOf(todo[k])

\* What is changed on the host, process record r holds and is going to undo.
Owes(r, m) ==
  /\ "killswitch" \notin r.held => m.drop = FALSE /\ m.allow = {}
  /\ "mss" \notin r.held => m.mss = FALSE
  /\ "tun" \notin r.held => m.tun = FALSE
  /\ "nat" \notin r.held => m.nat = FALSE
  /\ "forward" \notin r.held => m.forward = before.forward
  /\ "forward" \in r.held => r.previous = before.forward
  /\ r.pc = "unwind" => Covered(r.held, r.todo)

IsMachine(m) ==
  DOMAIN m = MachineFields /\ m.drop \in BOOLEAN /\ (m.drop = FALSE => m.allow = {})

HostTypes ==
  /\ platform \in {"off", "linux", "windows"}
  /\ before \in {NewHost(TRUE), NewHost(FALSE)}
  /\ IsMachine(machine)
  /\ DOMAIN up = Hosts
  /\ \A p \in Hosts : IsUp(up[p])
  /\ \A p \in Hosts : up[p].pc \in {"killswitch table", "killswitch rules"} => platform = "linux"

Apart ==
  /\ platform = "off" => Active = {}
  /\ \A p \in Active \ together : Active = {p}
  /\ "beside" \notin leftover => \A p, q \in Active : p = q

Accounted ==
  leftover = {} => /\ Active = {} => machine = before
                   /\ \A p \in Active : Owes(up[p], machine)

\* On Linux: from the empty table to the rule for its peer.
Dropping(p) ==
  /\ up[p].pc \in {"killswitch table", "killswitch rules"} => machine.allow = {} \/ "stale" \in leftover
  /\ up[p].pc \in {"killswitch rules"} \cup Behind => machine.drop = TRUE
  /\ up[p].pc \in Behind => machine.allow = {p} \/ "stale" \in leftover

\* On Windows: behind the mutex.
Filtering(p) ==
  /\ "killswitch" \in up[p].held => mutex = {p}
  /\ up[p].pc \in Behind /\ Wants(p, "killswitch") =>
       "killswitch" \in up[p].held /\ machine.drop = TRUE /\ machine.allow = {p}

Guards ==
  /\ platform = "linux" =>
       \A p \in Active \ together : Wants(p, "killswitch") => Dropping(p)
  /\ platform = "windows" => \A p \in Hosts : Filtering(p)

\* The host is a record.
Whole == machine = [x \in DOMAIN machine |-> machine[x]]

HostInv == HostTypes /\ Apart /\ Accounted /\ Guards

(* --- the guards of `up`: one step ------------------------------------------- *)

\* Process p goes on with these fields; the others stand still.
Turns(p, pc, held, previous, todo) ==
  /\ DOMAIN up' = Hosts /\ \A q \in Hosts : q # p => up'[q] = up[q]
  /\ DOMAIN up'[p] = UpFields /\ up'[p].options = up[p].options
  /\ up'[p].pc = pc /\ up'[p].held = held /\ up'[p].previous = previous /\ up'[p].todo = todo

\* What a step of a process that is not its last keeps.
KeepsShape(p) ==
  /\ up[p].pc # "idle" /\ up'[p].pc # "idle"
  /\ DOMAIN up' = Hosts /\ \A q \in Hosts : q # p => up'[q] = up[q]
  /\ up'[p].options \subseteq up[p].options
  /\ IsUp(up'[p])
  /\ up'[p].pc \in {"killswitch table", "killswitch rules"} => platform = "linux"
  /\ UNCHANGED <<platform, before, together>>
  /\ leftover \subseteq leftover'
  /\ IsMachine(machine')

KeepsAccount(p) == leftover' = {} /\ Owes(up[p], machine) => Owes(up[p], machine)'

KeepsDropping(p) ==
  platform = "linux" /\ Wants(p, "killswitch")' /\ (Wants(p, "killswitch") => Dropping(p)) => Dropping(p)'

KeepsFilters(p) ==
  platform = "windows" /\ Filtering(p) =>
    /\ Filtering(p)'
    /\ \A q \in Hosts : q # p /\ mutex = {q} =>
         mutex' = {q} /\ machine'.drop = machine.drop /\ machine'.allow = machine.allow

Keeps(p) == KeepsShape(p) /\ KeepsAccount(p) /\ KeepsDropping(p) /\ KeepsFilters(p)

\* Such a step keeps the invariant.
LEMMA KeepsInv ==
  ASSUME HostInv, NEW p \in Hosts, Keeps(p)
  PROVE  HostInv'
<1>1. HostTypes'
  <2>1. \A q \in Hosts : IsUp(up'[q]) BY Zenon DEF HostInv, HostTypes, Keeps, KeepsShape
  <2>2. \A q \in Hosts : up'[q].pc \in {"killswitch table", "killswitch rules"} => platform = "linux"
    BY Zenon DEF HostInv, HostTypes, Keeps, KeepsShape
  <2>3. IsUp(up[p])' /\ IsMachine(machine)' BY Zenon DEF Keeps, KeepsShape, IsUp, HeldAt, IsMachine
  <2>4. \A q \in Hosts : IsUp(up[q])' BY <2>1, Zenon DEF IsUp, HeldAt
  <2> QED BY <2>2, <2>3, <2>4, Zenon DEF HostInv, HostTypes, Keeps, KeepsShape, NewHost
<1>2. Active' = Active /\ p \in Active
  BY Zenon DEF Active, Keeps, KeepsShape
<1>3. Apart' BY <1>2, Zenon DEF HostInv, Apart, Keeps, KeepsShape
<1>4. Accounted'
  <2> SUFFICES ASSUME leftover' = {} PROVE \A q \in Active : Owes(up[q], machine)'
    BY <1>2 DEF Accounted
  <2>1. leftover = {} BY Zenon DEF Keeps, KeepsShape
  <2>2. Active = {p} BY <1>2, <2>1 DEF HostInv, Apart
  <2>3. Owes(up[p], machine) BY <1>2, <2>1 DEF HostInv, Accounted
  <2> QED BY <2>2, <2>3, Zenon DEF Keeps, KeepsAccount
<1>5. ASSUME platform' = "linux", NEW q \in Active' \ together', Wants(q, "killswitch")'
      PROVE  Dropping(q)'
  <2>1. q \in Active \ together BY <1>2, <1>5, Zenon DEF Keeps, KeepsShape
  <2>2. q = p BY <1>2, <2>1 DEF HostInv, Apart
  <2>3. platform = "linux" BY <1>5, Zenon DEF Keeps, KeepsShape
  <2>4. Wants(p, "killswitch") => Dropping(p) BY <2>1, <2>2, <2>3 DEF HostInv, Guards
  <2> QED BY <1>5, <2>2, <2>3, <2>4 DEF Keeps, KeepsDropping
<1>6. ASSUME platform' = "windows", NEW q \in Hosts PROVE Filtering(q)'
  <2>1. platform = "windows" BY <1>6, Zenon DEF Keeps, KeepsShape
  <2>2. Filtering(p) /\ Filtering(q) BY <2>1 DEF HostInv, Guards
  <2>3. CASE q = p BY <2>1, <2>2, <2>3, Zenon DEF Keeps, KeepsFilters
  <2>4. CASE q # p
    <3>1. up'[q] = up[q] BY <2>4, Zenon DEF Keeps, KeepsShape
    <3>2. mutex = {q} => mutex' = {q} /\ machine'.drop = machine.drop /\ machine'.allow = machine.allow
      BY <2>1, <2>2, <2>4, Zenon DEF Keeps, KeepsFilters
    <3> QED BY <2>2, <3>1, <3>2 DEF Filtering, Wants
  <2> QED BY <2>3, <2>4
<1>7. Guards' BY <1>5, <1>6 DEF Guards
<1> QED BY <1>1, <1>3, <1>4, <1>7 DEF HostInv

\* The length of two lists in a row.
LEMMA Joined ==
  ASSUME NEW S, NEW s \in Seq(S), NEW t \in Seq(S)
  PROVE  s \o t \in Seq(S) /\ Len(s \o t) = Len(s) + Len(t)
OBVIOUS

\* What each order of undoing reaches.
LEMMA Orders ==
  /\ AfterKillswitch \in Seq(Undoable) /\ Covered({"killswitch"}, AfterKillswitch)
  /\ AfterTun \in Seq(Undoable) /\ Covered({"killswitch", "tun"}, AfterTun)
  /\ AfterNat \in Seq(Undoable) /\ Covered({"killswitch", "tun", "nat", "forward"}, AfterNat)
  /\ <<"nat">> \o AfterTun \in Seq(Undoable)
  /\ Covered({"killswitch", "tun", "nat", "forward"}, <<"nat">> \o AfterTun)
  /\ <<"killswitch", "tun", "killswitch">> \in Seq(Undoable)
  /\ Covered({"killswitch", "tun"}, <<"killswitch", "tun", "killswitch">>)
  /\ \A todo \in {AfterMss, AfterControl, UpCleanupOrder} :
       todo \in Seq(Undoable) /\ Covered(Undoable \cup {"forward"}, todo)
<1>2. AfterKillswitch \in Seq(Undoable) /\ Covered({"killswitch"}, AfterKillswitch)
  BY DEF AfterKillswitch, Covered, PartsOf, Undoable
<1>3. AfterTun \in Seq(Undoable) /\ Covered({"killswitch", "tun"}, AfterTun)
  <2>1. AfterTun \in Seq(Undoable) /\ DOMAIN AfterTun = 1 .. 4 BY DEF AfterTun, Undoable
  <2>2. AfterTun[1] = "tun" /\ AfterTun[2] = "killswitch" BY DEF AfterTun
  <2> QED BY <2>1, <2>2 DEF Covered, PartsOf
<1>4. ASSUME NEW first \in Seq(Undoable), Len(first) \in {1, 2}, first[1] = "nat"
      PROVE  first \o AfterTun \in Seq(Undoable)
             /\ Covered({"killswitch", "tun", "nat", "forward"}, first \o AfterTun)
  <2>1. PICK tun : tun = AfterTun OBVIOUS
  <2>2. tun \in Seq(Undoable) /\ Len(tun) = 4 /\ tun[1] = "tun" /\ tun[2] = "killswitch"
    BY <1>3, <2>1 DEF AfterTun
  <2>3. PICK all : all = first \o tun BY Zenon
  <2>4. all \in Seq(Undoable) /\ Len(all) = Len(first) + 4
    BY <2>2, <2>3, Joined, Zenon
  <2>5. all[1] = "nat" /\ all[Len(first) + 1] = "tun" /\ all[Len(first) + 2] = "killswitch"
    BY <1>4, <2>2, <2>3
  <2>6. {1, Len(first) + 1, Len(first) + 2} \subseteq DOMAIN all BY <1>4, <2>4
  <2> QED BY <2>1, <2>3, <2>4, <2>5, <2>6, Zenon DEF Covered, PartsOf
<1>5. AfterNat \in Seq(Undoable) /\ Covered({"killswitch", "tun", "nat", "forward"}, AfterNat)
  <2>1. PICK first : first = <<"nat", "nat">> BY Zenon
  <2>2. first \in Seq(Undoable) /\ Len(first) = 2 /\ first[1] = "nat" BY <2>1 DEF Undoable
  <2> QED BY <1>4, <2>1, <2>2, Zenon DEF AfterNat
<1>6. <<"nat">> \o AfterTun \in Seq(Undoable)
      /\ Covered({"killswitch", "tun", "nat", "forward"}, <<"nat">> \o AfterTun)
  <2>1. PICK first : first = <<"nat">> BY Zenon
  <2>2. first \in Seq(Undoable) /\ Len(first) = 1 /\ first[1] = "nat" BY <2>1 DEF Undoable
  <2> QED BY <1>4, <2>1, <2>2, Zenon
<1>7. PICK three : three = <<"killswitch", "tun", "killswitch">> BY Zenon
<1>8. three \in Seq(Undoable) /\ Covered({"killswitch", "tun"}, three)
  <2>1. three \in Seq(Undoable) /\ DOMAIN three = 1 .. 3 BY <1>7 DEF Undoable
  <2>2. three[1] = "killswitch" /\ three[2] = "tun" BY <1>7
  <2> QED BY <2>1, <2>2 DEF Covered, PartsOf
<1>9. ASSUME NEW todo \in {AfterMss, AfterControl, UpCleanupOrder}
      PROVE  todo \in Seq(Undoable) /\ Covered(Undoable \cup {"forward"}, todo)
  <2>1. todo \in Seq(Undoable) /\ DOMAIN todo = 1 .. 8
    <3>1. CASE todo = AfterMss BY <3>1 DEF AfterMss, Undoable
    <3>2. CASE todo = AfterControl BY <3>2 DEF AfterControl, Undoable
    <3>3. CASE todo = UpCleanupOrder BY <3>3 DEF UpCleanupOrder, Undoable
    <3> QED BY <1>9, <3>1, <3>2, <3>3
  <2>2. /\ todo[1] = "mss" \/ todo[2] = "mss"
        /\ todo[1] = "tun" \/ todo[3] = "tun" \/ todo[4] = "tun"
        /\ todo[2] = "nat" \/ todo[3] = "nat" \/ todo[4] = "nat"
        /\ todo[3] = "killswitch" \/ todo[4] = "killswitch" \/ todo[5] = "killswitch"
    BY <1>9 DEF AfterMss, AfterControl, UpCleanupOrder
  <2> QED BY <2>1, <2>2 DEF Covered, PartsOf, Undoable
<1> QED BY <1>2, <1>3, <1>5, <1>6, <1>7, <1>8, <1>9

\* The three ways to go on.
LEMMA Turning ==
  ASSUME HostInv, NEW p \in Hosts
  PROVE  /\ \A pc, m, items : Done(p, pc, m, items) =>
              Turns(p, pc, up[p].held \cup items, up[p].previous, up[p].todo) /\ machine' = m
         /\ \A pc, m : Done(p, pc, m, {}) =>
              Turns(p, pc, up[p].held, up[p].previous, up[p].todo) /\ machine' = m
         /\ \A todo : Fails(p, todo) \/ Refused(p, todo) =>
              Turns(p, "unwind", up[p].held, up[p].previous, todo) /\ machine' = machine
<1>1. DOMAIN up = Hosts /\ DOMAIN up[p] = UpFields BY Zenon DEF HostInv, HostTypes, IsUp
<1>2. ASSUME NEW pc, NEW m, NEW items, Done(p, pc, m, items)
      PROVE  Turns(p, pc, up[p].held \cup items, up[p].previous, up[p].todo) /\ machine' = m
  BY <1>1, <1>2 DEF Done, Turns, UpFields
<1>3. ASSUME NEW todo, Fails(p, todo) \/ Refused(p, todo)
      PROVE  Turns(p, "unwind", up[p].held, up[p].previous, todo) /\ machine' = machine
  BY <1>1, <1>3 DEF Fails, Refused, Turns, UpFields
<1>4. ASSUME NEW pc, NEW m, Done(p, pc, m, {})
      PROVE  Turns(p, pc, up[p].held, up[p].previous, up[p].todo) /\ machine' = m
  <2>1. up[p].held \cup {} = up[p].held OBVIOUS
  <2> QED BY <1>2, <1>4, <2>1, Zenon
<1> QED BY <1>2, <1>3, <1>4, Zenon

\* A step behind the killswitch, which it leaves alone.
OnTheWay(p) ==
  /\ up[p].pc \in Behind /\ up'[p].pc \in Behind \cup {"unwind"}
  /\ "killswitch" \in up'[p].held <=> "killswitch" \in up[p].held
  /\ machine'.drop = machine.drop /\ machine'.allow = machine.allow
  /\ UNCHANGED <<mutex, leftover, platform, before, together>>

\* A step on the way that touches no filter leaves all guards in force.
LEMMA WayKeepsGuards ==
  ASSUME HostInv, NEW p \in Hosts, OnTheWay(p), up'[p].options = up[p].options
  PROVE  KeepsDropping(p) /\ KeepsFilters(p)
<1>1. KeepsDropping(p)
  <2> SUFFICES ASSUME platform = "linux", Wants(p, "killswitch")', Wants(p, "killswitch") => Dropping(p)
               PROVE  Dropping(p)'
    BY DEF KeepsDropping
  <2>1. Dropping(p) BY DEF Wants
  <2> QED BY <2>1, Zenon DEF Dropping, OnTheWay, Behind
<1>2. KeepsFilters(p)
  BY Zenon DEF KeepsFilters, Filtering, OnTheWay, Behind, Wants
<1> QED BY <1>1, <1>2

\* TunDevice::open to the session: the steps behind the killswitch.
LEMMA WayKeeps ==
  ASSUME HostInv, NEW p \in Hosts,
         \/ TunOpen(p) \/ RequireNative(p) \/ ConfigureTun(p) \/ SwitchForwarding(p) \/ AddNatTables(p)
         \/ apply_mss_clamp(p) \/ ApplyControlPlane(p) \/ UpSessionEnds(p)
  PROVE  Keeps(p)
<1>1. PICK r, m : r = up[p] /\ m = machine OBVIOUS
<1>2. DOMAIN up = Hosts /\ DOMAIN r = UpFields /\ r.todo \in Seq(Undoable) /\ HeldAt(r)
      /\ IsMachine(m)
  BY <1>1, Zenon DEF HostInv, HostTypes, IsUp
<1>3. ASSUME NEW pc \in Behind \cup {"unwind"}, NEW held, NEW previous, NEW todo \in Seq(Undoable),
             Turns(p, pc, held, previous, todo), r.pc \in Behind,
             "killswitch" \in held <=> "killswitch" \in r.held,
             IsMachine(machine'), machine'.drop = m.drop, machine'.allow = m.allow,
             UNCHANGED <<platform, before, mutex, together, leftover>>,
             HeldAt(up'[p]), KeepsAccount(p)
      PROVE  Keeps(p)
  <2>1. OnTheWay(p) /\ up'[p].options = up[p].options BY <1>1, <1>3, Zenon DEF OnTheWay, Turns
  <2>2. KeepsDropping(p) /\ KeepsFilters(p) BY <2>1, WayKeepsGuards, Zenon
  <2>3. KeepsShape(p) BY <1>1, <1>3, Zenon DEF KeepsShape, Turns, IsUp, UpPcs, Behind
  <2> QED BY <1>3, <2>2, <2>3, Zenon DEF Keeps
<1>4. ASSUME NEW todo \in Seq(Undoable), Covered(r.held, todo), r.pc \in Behind,
             Turns(p, "unwind", r.held, r.previous, todo), machine' = machine,
             UNCHANGED <<platform, before, mutex, together, leftover>>
      PROVE  Keeps(p)
  <2>1. HeldAt(up'[p]) BY <1>2, <1>4, Zenon DEF HeldAt, Turns
  <2>2. KeepsAccount(p) BY <1>1, <1>4, Zenon DEF KeepsAccount, Owes, Turns
  <2> QED BY <1>1, <1>2, <1>3, <1>4, <2>1, <2>2, Zenon
<1>5. CASE TunOpen(p)
  <2>1. r.pc = "tun open" /\ r.held \subseteq {"killswitch"} /\ r.pc \in Behind
        /\ UNCHANGED <<platform, before, mutex, together, leftover>>
    BY <1>1, <1>2, <1>5, Zenon DEF TunOpen, HeldAt, Behind
  <2>2. CASE Fails(p, AfterKillswitch)
    <3>1. Turns(p, "unwind", r.held, r.previous, AfterKillswitch) /\ machine' = machine
      BY <1>1, <2>2, Turning, Zenon
    <3>2. Covered(r.held, AfterKillswitch) BY <2>1, Orders, Zenon DEF Covered
    <3> QED BY <1>4, <2>1, <3>1, <3>2, Orders, Zenon
  <2>3. CASE ~ Fails(p, AfterKillswitch)
    <3>1. PICK held : held = r.held \cup IF Wants(p, "native") THEN {"tun"} ELSE {} BY Zenon
    <3>2. Turns(p, "require native", held, r.previous, r.todo) /\ machine' = machine
      BY <1>1, <1>5, <2>3, <3>1, Turning, Zenon DEF TunOpen
    <3>3. HeldAt(up'[p]) BY <1>1, <2>1, <3>1, <3>2, Zenon DEF HeldAt, Turns, Wants, Undoable
    <3>4. KeepsAccount(p) BY <1>1, <2>1, <3>1, <3>2, Zenon DEF KeepsAccount, Owes, Turns
    <3> QED BY <1>1, <1>2, <1>3, <2>1, <3>1, <3>2, <3>3, <3>4, Zenon DEF Behind
  <2> QED BY <2>2, <2>3
<1>6. CASE RequireNative(p)
  <2>1. r.pc = "require native" /\ r.held \subseteq {"killswitch", "tun"} /\ r.pc \in Behind
        /\ ("tun" \in r.held <=> "native" \in r.options)
        /\ UNCHANGED <<platform, before, mutex, together, leftover>>
    BY <1>1, <1>2, <1>6, Zenon DEF RequireNative, HeldAt, Behind
  <2>2. CASE Refused(p, AfterKillswitch) /\ ~ Wants(p, "native")
    <3>1. Turns(p, "unwind", r.held, r.previous, AfterKillswitch) /\ machine' = machine
      BY <1>1, <2>2, Turning, Zenon
    <3>2. Covered(r.held, AfterKillswitch) BY <1>1, <2>1, <2>2, Orders, Zenon DEF Covered, Wants
    <3> QED BY <1>4, <2>1, <3>1, <3>2, Orders, Zenon
  <2>3. CASE Fails(p, <<"killswitch", "tun", "killswitch">>)
    <3>1. PICK todo : todo = <<"killswitch", "tun", "killswitch">> BY Zenon
    <3>2. Turns(p, "unwind", r.held, r.previous, todo) /\ machine' = machine
      BY <1>1, <2>3, <3>1, Turning, Zenon
    <3>3. Covered(r.held, todo) /\ todo \in Seq(Undoable) BY <2>1, <3>1, Orders, Zenon DEF Covered
    <3> QED BY <1>4, <2>1, <3>2, <3>3, Zenon
  <2>4. CASE Done(p, "tun", machine, {})
    <3>1. Turns(p, "tun", r.held, r.previous, r.todo) /\ machine' = machine
      BY <1>1, <2>4, Turning, Zenon
    <3>2. HeldAt(up'[p]) BY <1>1, <1>2, <2>1, <3>1, Zenon DEF HeldAt, Turns
    <3>3. KeepsAccount(p) BY <1>1, <2>1, <3>1, Zenon DEF KeepsAccount, Owes, Turns
    <3> QED BY <1>1, <1>2, <1>3, <2>1, <3>1, <3>2, <3>3, Zenon DEF Behind
  <2> QED BY <1>6, <2>2, <2>3, <2>4, Zenon DEF RequireNative
<1>7. CASE ConfigureTun(p)
  <2>1. r.pc = "tun" /\ r.held \subseteq {"killswitch", "tun"} /\ r.pc \in Behind
        /\ ("tun" \in r.held <=> "native" \in r.options)
        /\ UNCHANGED <<platform, before, mutex, together, leftover>>
    BY <1>1, <1>2, <1>7 DEF ConfigureTun, HeldAt, Behind
  <2>2. PICK new : new = [m EXCEPT !.tun = TRUE] BY Zenon
  <2>3. IsMachine(new) /\ new.drop = m.drop /\ new.allow = m.allow /\ new.mss = m.mss
        /\ new.nat = m.nat /\ new.forward = m.forward
    BY <1>2, <2>2 DEF IsMachine, MachineFields
  <2>4. CASE Done(p, "nat", IF Wants(p, "native") THEN new ELSE machine, {})
    <3>1. Turns(p, "nat", r.held, r.previous, r.todo)
          /\ machine' = IF Wants(p, "native") THEN new ELSE machine
      BY <1>1, <2>4, Turning, Zenon
    <3>2. HeldAt(up'[p]) BY <1>1, <1>2, <2>1, <3>1, Zenon DEF HeldAt, Turns
    <3>3. KeepsAccount(p) BY <1>1, <2>1, <2>3, <3>1, Zenon DEF KeepsAccount, Owes, Turns, Wants
    <3> QED BY <1>1, <1>2, <1>3, <2>1, <2>3, <3>1, <3>2, <3>3, Zenon DEF Behind
  <2>5. CASE /\ Wants(p, "native")
             /\ up' = [up EXCEPT ![p].pc = "unwind", ![p].todo = AfterTun]
             /\ machine' \in {machine, new}
    <3>1. Turns(p, "unwind", r.held, r.previous, AfterTun)
      BY <1>1, <1>2, <2>5 DEF Turns, UpFields
    <3>2. HeldAt(up'[p]) BY <1>1, <1>2, <3>1, Zenon DEF HeldAt, Turns
    <3>3. Covered(r.held, AfterTun) BY <2>1, Orders, Zenon DEF Covered
    <3>4. KeepsAccount(p) BY <1>1, <2>1, <2>3, <2>5, <3>1, <3>3 DEF KeepsAccount, Owes, Turns, Wants
    <3> QED BY <1>1, <1>2, <1>3, <2>1, <2>3, <2>5, <3>1, <3>2, <3>4, Orders, Zenon DEF Behind
  <2> QED BY <1>1, <1>7, <2>2, <2>4, <2>5 DEF ConfigureTun
<1>8. CASE SwitchForwarding(p)
  <2>1. r.pc = "nat" /\ r.held \subseteq {"killswitch", "tun"} /\ r.pc \in Behind
        /\ UNCHANGED <<platform, before, mutex, together, leftover>>
    BY <1>1, <1>2, <1>8, Zenon DEF SwitchForwarding, HeldAt, Behind
  <2>2. CASE Done(p, "mss", machine, {})
    <3>1. Turns(p, "mss", r.held, r.previous, r.todo) /\ machine' = machine
      BY <1>1, <2>2, Turning, Zenon
    <3>2. HeldAt(up'[p]) BY <1>1, <1>2, <2>1, <3>1, Zenon DEF HeldAt, Turns
    <3>3. KeepsAccount(p) BY <1>1, <2>1, <3>1, Zenon DEF KeepsAccount, Owes, Turns
    <3> QED BY <1>1, <1>2, <1>3, <2>1, <3>1, <3>2, <3>3, Zenon DEF Behind
  <2>3. CASE /\ machine' = [m EXCEPT !.forward = TRUE]
             /\ up' = [up EXCEPT ![p].pc = "nat tables", ![p].previous = m.forward,
                                 ![p].held = @ \cup {"forward", "nat"}]
    <3>1. IsMachine(machine') /\ machine'.drop = m.drop /\ machine'.allow = m.allow
          /\ machine'.mss = m.mss /\ machine'.nat = m.nat /\ machine'.tun = m.tun
      BY <1>2, <2>3, Zenon DEF IsMachine, MachineFields
    <3>2. PICK held : held = r.held \cup {"forward", "nat"} BY Zenon
    <3>3. Turns(p, "nat tables", held, m.forward, r.todo)
      BY <1>1, <1>2, <2>3, <3>2, Zenon DEF Turns, UpFields
    <3>4. HeldAt(up'[p]) BY <1>1, <1>2, <2>1, <3>2, <3>3, Zenon DEF HeldAt, Turns, Undoable
    <3>5. KeepsAccount(p) BY <1>1, <2>1, <3>1, <3>2, <3>3, Zenon DEF KeepsAccount, Owes, Turns
    <3> QED BY <1>2, <1>3, <2>1, <3>1, <3>2, <3>3, <3>4, <3>5, Zenon DEF Behind
  <2>4. CASE /\ up' = [up EXCEPT ![p].pc = "unwind", ![p].todo = <<"nat">> \o AfterTun,
                                 ![p].held = @ \cup {"nat"}]
             /\ machine' = machine
    <3>1. PICK todo, held : todo = <<"nat">> \o AfterTun /\ held = r.held \cup {"nat"} BY Zenon
    <3>2. Turns(p, "unwind", held, r.previous, todo)
      BY <1>1, <1>2, <2>4, <3>1 DEF Turns, UpFields
    <3>3. HeldAt(up'[p]) BY <1>1, <1>2, <3>1, <3>2, Zenon DEF HeldAt, Turns, Undoable
    <3>4. Covered(held, todo) /\ todo \in Seq(Undoable) BY <2>1, <3>1, Orders, Zenon DEF Covered
    <3>5. KeepsAccount(p) BY <1>1, <2>1, <2>4, <3>1, <3>2, <3>4 DEF KeepsAccount, Owes, Turns
    <3> QED BY <1>1, <1>2, <1>3, <2>1, <2>4, <3>1, <3>2, <3>3, <3>4, <3>5, Zenon DEF Behind
  <2> QED BY <1>1, <1>8, <2>2, <2>3, <2>4, Zenon DEF SwitchForwarding
<1>9. CASE AddNatTables(p)
  <2>1. r.pc = "nat tables" /\ r.held \subseteq {"killswitch", "tun", "nat", "forward"}
        /\ {"nat", "forward"} \subseteq r.held /\ r.pc \in Behind
        /\ UNCHANGED <<platform, before, mutex, together, leftover>>
    BY <1>1, <1>2, <1>9, Zenon DEF AddNatTables, HeldAt, Behind, Undoable
  <2>2. PICK new : new = [m EXCEPT !.nat = TRUE] BY Zenon
  <2>3. IsMachine(new) /\ new.drop = m.drop /\ new.allow = m.allow /\ new.mss = m.mss
        /\ new.tun = m.tun /\ new.forward = m.forward
    BY <1>2, <2>2 DEF IsMachine, MachineFields
  <2>4. CASE Done(p, "mss", new, {})
    <3>1. Turns(p, "mss", r.held, r.previous, r.todo) /\ machine' = new
      BY <1>1, <2>4, Turning, Zenon
    <3>2. HeldAt(up'[p]) BY <1>1, <1>2, <2>1, <3>1, Zenon DEF HeldAt, Turns
    <3>3. KeepsAccount(p) BY <1>1, <2>1, <2>3, <3>1, Zenon DEF KeepsAccount, Owes, Turns
    <3> QED BY <1>2, <1>3, <2>1, <2>3, <3>1, <3>2, <3>3, Zenon DEF Behind
  <2>5. CASE /\ up' = [up EXCEPT ![p].pc = "unwind", ![p].todo = AfterNat]
             /\ machine' \in {machine, new}
    <3>1. Turns(p, "unwind", r.held, r.previous, AfterNat)
      BY <1>1, <1>2, <2>5 DEF Turns, UpFields
    <3>2. HeldAt(up'[p]) BY <1>1, <1>2, <3>1, Zenon DEF HeldAt, Turns
    <3>3. Covered(r.held, AfterNat) BY <2>1, Orders, Zenon DEF Covered
    <3>4. KeepsAccount(p) BY <1>1, <2>1, <2>3, <2>5, <3>1, <3>3, Zenon DEF KeepsAccount, Owes, Turns
    <3> QED BY <1>1, <1>2, <1>3, <2>1, <2>3, <2>5, <3>1, <3>2, <3>4, Orders, Zenon DEF Behind
  <2> QED BY <1>1, <1>9, <2>2, <2>4, <2>5, Zenon DEF AddNatTables
<1>10. CASE apply_mss_clamp(p)
  <2>1. r.pc = "mss" /\ r.pc \in Behind
        /\ UNCHANGED <<platform, before, mutex, together, leftover>>
    BY <1>1, <1>10, Zenon DEF apply_mss_clamp, Behind
  <2>2. Covered(r.held, AfterMss) /\ AfterMss \in Seq(Undoable) BY <1>2, Orders, Zenon DEF Covered, HeldAt
  <2>3. CASE Done(p, "control plane", machine, {})
    <3>1. Turns(p, "control plane", r.held, r.previous, r.todo) /\ machine' = machine
      BY <1>1, <2>3, Turning, Zenon
    <3>2. HeldAt(up'[p]) BY <1>1, <1>2, <3>1, Zenon DEF HeldAt, Turns
    <3>3. KeepsAccount(p) BY <1>1, <2>1, <3>1, Zenon DEF KeepsAccount, Owes, Turns
    <3> QED BY <1>1, <1>2, <1>3, <2>1, <3>1, <3>2, <3>3, Zenon DEF Behind
  <2>4. CASE Refused(p, AfterMss)
    <3>1. Turns(p, "unwind", r.held, r.previous, AfterMss) /\ machine' = machine
      BY <1>1, <2>4, Turning, Zenon
    <3> QED BY <1>4, <2>1, <2>2, <3>1
  <2>5. PICK held : held = r.held \cup {"mss"} BY Zenon
  <2>6. ASSUME NEW new, new \in {[m EXCEPT !.mss = FALSE], [m EXCEPT !.mss = TRUE]}
        PROVE  IsMachine(new) /\ new.drop = m.drop /\ new.allow = m.allow /\ new.nat = m.nat
               /\ new.tun = m.tun /\ new.forward = m.forward
    BY <1>2, <2>6 DEF IsMachine, MachineFields
  <2>7. CASE Done(p, "control plane", [m EXCEPT !.mss = TRUE], {"mss"})
    <3>1. PICK new : new = [m EXCEPT !.mss = TRUE] BY Zenon
    <3>2. Turns(p, "control plane", held, r.previous, r.todo) /\ machine' = new
      BY <1>1, <2>5, <2>7, <3>1, Turning, Zenon
    <3>3. HeldAt(up'[p]) BY <1>1, <1>2, <2>5, <3>2, Zenon DEF HeldAt, Turns, Undoable
    <3>4. KeepsAccount(p) BY <1>1, <2>1, <2>5, <2>6, <3>1, <3>2, Zenon DEF KeepsAccount, Owes, Turns
    <3> QED BY <1>2, <1>3, <2>1, <2>5, <2>6, <3>1, <3>2, <3>3, <3>4, Zenon DEF Behind
  <2>8. CASE /\ up' = [up EXCEPT ![p].pc = "unwind", ![p].todo = AfterMss, ![p].held = @ \cup {"mss"}]
             /\ machine' \in {[m EXCEPT !.mss = FALSE], [m EXCEPT !.mss = TRUE]}
    <3>1. Turns(p, "unwind", held, r.previous, AfterMss)
      BY <1>1, <1>2, <2>5, <2>8 DEF Turns, UpFields
    <3>2. HeldAt(up'[p]) BY <1>1, <1>2, <2>5, <3>1, Zenon DEF HeldAt, Turns, Undoable
    <3>3. Covered(held, AfterMss) BY <1>2, <2>5, Orders, Zenon DEF Covered, HeldAt, Undoable
    <3>4. KeepsAccount(p) BY <1>1, <2>1, <2>5, <2>6, <2>8, <3>1, <3>3 DEF KeepsAccount, Owes, Turns
    <3> QED BY <1>2, <1>3, <2>1, <2>2, <2>5, <2>6, <2>8, <3>1, <3>2, <3>4, Zenon DEF Behind
  <2> QED BY <1>1, <1>10, <2>3, <2>4, <2>7, <2>8, Zenon DEF apply_mss_clamp
<1>11. CASE ApplyControlPlane(p) \/ UpSessionEnds(p)
  <2>1. r.pc \in {"control plane", "session"} /\ r.pc \in Behind
        /\ UNCHANGED <<platform, before, mutex, together, leftover>>
    BY <1>1, <1>11, Zenon DEF ApplyControlPlane, UpSessionEnds, Behind
  <2>2. CASE Done(p, "session", machine, {})
    <3>1. Turns(p, "session", r.held, r.previous, r.todo) /\ machine' = machine
      BY <1>1, <2>2, Turning, Zenon
    <3>2. HeldAt(up'[p]) BY <1>1, <1>2, <3>1, Zenon DEF HeldAt, Turns
    <3>3. KeepsAccount(p) BY <1>1, <2>1, <3>1, Zenon DEF KeepsAccount, Owes, Turns
    <3> QED BY <1>1, <1>2, <1>3, <2>1, <3>1, <3>2, <3>3, Zenon DEF Behind
  <2>3. ASSUME NEW todo \in {AfterControl, UpCleanupOrder}, machine' = machine,
               Turns(p, "unwind", r.held, r.previous, todo)
        PROVE  Keeps(p)
    <3>1. Covered(r.held, todo) /\ todo \in Seq(Undoable) BY <1>2, Orders, Zenon DEF Covered, HeldAt
    <3> QED BY <1>4, <2>1, <2>3, <3>1, Zenon
  <2>4. CASE Fails(p, AfterControl) \/ Fails(p, UpCleanupOrder) BY <1>1, <2>3, <2>4, Turning, Zenon
  <2>5. CASE UpSessionEnds(p)
    <3>1. Turns(p, "unwind", r.held, r.previous, UpCleanupOrder) /\ machine' = machine
      BY <1>1, <1>2, <2>5 DEF UpSessionEnds, Turns, UpFields
    <3> QED BY <2>3, <3>1
  <2> QED BY <1>11, <2>2, <2>4, <2>5, Zenon DEF ApplyControlPlane
<1> QED BY <1>5, <1>6, <1>7, <1>8, <1>9, <1>10, <1>11

\* Putting the killswitch in place, on Linux in three steps.
LEMMA LinuxKillswitchKeeps ==
  ASSUME HostInv, NEW p \in Hosts,
         DeleteStaleKillswitch(p) \/ AddKillswitchTable(p) \/ AddKillswitchRules(p)
  PROVE  Keeps(p)
<1>1. PICK r, m : r = up[p] /\ m = machine OBVIOUS
<1>2. DOMAIN up = Hosts /\ DOMAIN r = UpFields /\ r.todo \in Seq(Undoable) /\ HeldAt(r)
      /\ IsMachine(m)
  BY <1>1, Zenon DEF HostInv, HostTypes, IsUp
<1>3. platform = "linux" /\ r.pc \in {"killswitch", "killswitch table", "killswitch rules"}
      /\ UNCHANGED <<platform, before, together, mutex>>
  BY <1>1, Zenon DEF HostInv, HostTypes, DeleteStaleKillswitch, AddKillswitchTable, AddKillswitchRules
<1>4. KeepsFilters(p) BY <1>3, Zenon DEF KeepsFilters
<1>5. ASSUME NEW pc \in {"killswitch table", "killswitch rules", "tun open", "unwind"},
             NEW held, NEW todo \in Seq(Undoable), Turns(p, pc, held, r.previous, todo),
             IsMachine(machine'), leftover \subseteq leftover',
             HeldAt(up'[p]), KeepsAccount(p), KeepsDropping(p)
      PROVE  Keeps(p)
  <2>1. KeepsShape(p) BY <1>1, <1>3, <1>5, Zenon DEF KeepsShape, Turns, IsUp, UpPcs, Behind
  <2> QED BY <1>4, <1>5, <2>1, Zenon DEF Keeps
<1>6. ASSUME Turns(p, "unwind", r.held, r.previous, AfterKillswitch), machine' = machine,
             UNCHANGED leftover, r.held = {"killswitch"}
      PROVE  Keeps(p)
  <2>1. HeldAt(up'[p]) BY <1>6, Zenon DEF HeldAt, Turns, Undoable
  <2>2. KeepsAccount(p)
    <3>1. Covered(r.held, AfterKillswitch) BY <1>6, Orders
    <3> QED BY <1>1, <1>3, <1>6, <3>1, Zenon DEF KeepsAccount, Owes, Turns
  <2>3. KeepsDropping(p) BY <1>6, Zenon DEF KeepsDropping, Dropping, Turns, Behind
  <2> QED BY <1>1, <1>2, <1>5, <1>6, <2>1, <2>2, <2>3, Orders, Zenon
<1>7. CASE DeleteStaleKillswitch(p)
  <2>1. r.pc = "killswitch" /\ r.held = {}
    BY <1>1, <1>2, <1>7, Zenon DEF DeleteStaleKillswitch, HeldAt
  <2>2. CASE ~ Wants(p, "killswitch") /\ Done(p, "tun open", machine, {}) /\ UNCHANGED leftover
    <3>1. Turns(p, "tun open", r.held, r.previous, r.todo) /\ machine' = machine
      BY <1>1, <2>2, Turning, Zenon
    <3>2. HeldAt(up'[p]) BY <2>1, <3>1, Zenon DEF HeldAt, Turns, Undoable
    <3>3. KeepsAccount(p) BY <1>1, <1>3, <3>1, Zenon DEF KeepsAccount, Owes, Turns
    <3>4. KeepsDropping(p) BY <2>2, <3>1, Zenon DEF KeepsDropping, Wants, Turns
    <3> QED BY <1>1, <1>2, <1>5, <2>2, <3>1, <3>2, <3>3, <3>4, Zenon
  <2>3. CASE /\ Done(p, "killswitch table", [machine EXCEPT !.drop = FALSE, !.allow = {}], {"killswitch"})
             /\ UNCHANGED leftover
    <3>1. PICK new : new = [m EXCEPT !.drop = FALSE, !.allow = {}] OBVIOUS
    <3>2. IsMachine(new) /\ new.allow = {} /\ new.mss = m.mss /\ new.tun = m.tun
          /\ new.nat = m.nat /\ new.forward = m.forward
      BY <1>2, <3>1 DEF IsMachine, MachineFields
    <3>3. PICK held : held = {"killswitch"} BY Zenon
    <3>4. r.held \cup {"killswitch"} = held BY <2>1, <3>3
    <3>5. Turns(p, "killswitch table", held, r.previous, r.todo) /\ machine' = new
      BY <1>1, <2>3, <3>1, <3>4, Turning, Zenon
    <3>6. HeldAt(up'[p]) BY <3>3, <3>5, Zenon DEF HeldAt, Turns, Undoable
    <3>7. KeepsAccount(p) BY <1>1, <1>3, <2>1, <3>2, <3>3, <3>5, Zenon DEF KeepsAccount, Owes, Turns
    <3>8. KeepsDropping(p) BY <3>2, <3>5, Zenon DEF KeepsDropping, Dropping, Turns, Behind
    <3> QED BY <1>1, <1>2, <1>5, <2>3, <3>2, <3>5, <3>6, <3>7, <3>8, Zenon
  <2>4. CASE /\ up' = [up EXCEPT ![p].pc = "killswitch table", ![p].held = {"killswitch"}]
             /\ leftover' = IF machine.drop THEN leftover \cup {"stale"} ELSE leftover
             /\ machine' = machine
    <3>1. PICK held : held = {"killswitch"} BY Zenon
    <3>2. Turns(p, "killswitch table", held, r.previous, r.todo)
      BY <1>1, <1>2, <2>4, <3>1, Zenon DEF Turns, UpFields
    <3>3. HeldAt(up'[p]) BY <3>1, <3>2, Zenon DEF HeldAt, Turns, Undoable
    <3>4. KeepsAccount(p)
      <4> SUFFICES ASSUME Owes(up[p], machine) PROVE Owes(up[p], machine)' BY Zenon DEF KeepsAccount
      <4>1. machine' = m /\ before' = before /\ up'[p].held = {"killswitch"} /\ up'[p].pc # "unwind"
        BY <1>1, <1>3, <2>4, <3>1, <3>2, Zenon DEF Turns
      <4>2. m.mss = FALSE /\ m.tun = FALSE /\ m.nat = FALSE /\ m.forward = before.forward
        BY <1>1, <2>1, Zenon DEF Owes
      <4> QED BY <4>1, <4>2, Zenon DEF Owes
    <3>5. m.allow = {} \/ "stale" \in leftover' BY <1>1, <1>2, <2>4, Zenon DEF IsMachine
    <3>6. KeepsDropping(p) BY <1>1, <2>4, <3>2, <3>5, Zenon DEF KeepsDropping, Dropping, Turns, Behind
    <3>7. leftover \subseteq leftover' BY <2>4, Zenon
    <3> QED BY <1>1, <1>2, <1>5, <2>4, <3>2, <3>3, <3>4, <3>6, <3>7, Zenon
  <2> QED BY <1>7, <2>2, <2>3, <2>4, Zenon DEF DeleteStaleKillswitch
<1>8. CASE AddKillswitchTable(p)
  <2>1. r.pc = "killswitch table" /\ r.held = {"killswitch"} /\ UNCHANGED leftover
    BY <1>1, <1>2, <1>8, Zenon DEF AddKillswitchTable, HeldAt
  <2>2. CASE Done(p, "killswitch rules", [machine EXCEPT !.drop = TRUE], {})
    <3>1. PICK new : new = [m EXCEPT !.drop = TRUE] BY Zenon
    <3>2. IsMachine(new) /\ new.drop = TRUE /\ new.allow = m.allow /\ new.mss = m.mss
          /\ new.tun = m.tun /\ new.nat = m.nat /\ new.forward = m.forward
      BY <1>2, <3>1 DEF IsMachine, MachineFields
    <3>3. Turns(p, "killswitch rules", r.held, r.previous, r.todo) /\ machine' = new
      BY <1>1, <2>2, <3>1, Turning, Zenon
    <3>4. HeldAt(up'[p]) BY <2>1, <3>3, Zenon DEF HeldAt, Turns, Undoable
    <3>5. KeepsAccount(p) BY <1>1, <1>3, <2>1, <3>2, <3>3, Zenon DEF KeepsAccount, Owes, Turns
    <3>6. KeepsDropping(p)
      BY <1>1, <2>1, <3>2, <3>3, Zenon DEF KeepsDropping, Dropping, Turns, Behind, Wants
    <3> QED BY <1>1, <1>2, <1>5, <2>1, <3>2, <3>3, <3>4, <3>5, <3>6, Zenon
  <2>3. CASE Fails(p, AfterKillswitch) BY <1>1, <1>6, <2>1, <2>3, Turning, Zenon
  <2> QED BY <1>8, <2>2, <2>3, Zenon DEF AddKillswitchTable
<1>9. CASE AddKillswitchRules(p)
  <2>1. r.pc = "killswitch rules" /\ r.held = {"killswitch"} /\ UNCHANGED leftover
    BY <1>1, <1>2, <1>9, Zenon DEF AddKillswitchRules, HeldAt
  <2>2. CASE machine.drop /\ Done(p, "tun open", [machine EXCEPT !.allow = @ \cup {p}], {})
    <3>1. PICK new : new = [m EXCEPT !.allow = @ \cup {p}] BY Zenon
    <3>2. IsMachine(new) /\ new.drop = TRUE /\ new.allow = m.allow \cup {p} /\ new.mss = m.mss
          /\ new.tun = m.tun /\ new.nat = m.nat /\ new.forward = m.forward
      BY <1>1, <1>2, <2>2, <3>1, Zenon DEF IsMachine, MachineFields
    <3>3. Turns(p, "tun open", r.held, r.previous, r.todo) /\ machine' = new
      BY <1>1, <2>2, <3>1, Turning, Zenon
    <3>4. HeldAt(up'[p]) BY <2>1, <3>3, Zenon DEF HeldAt, Turns, Undoable
    <3>5. KeepsAccount(p) BY <1>1, <1>3, <2>1, <3>2, <3>3, Zenon DEF KeepsAccount, Owes, Turns
    <3>6. KeepsDropping(p)
      <4> SUFFICES ASSUME Wants(p, "killswitch")', Wants(p, "killswitch") => Dropping(p)
                   PROVE  Dropping(p)'
        BY DEF KeepsDropping
      <4>1. Dropping(p) BY <3>3, Zenon DEF Wants, Turns
      <4>2. m.allow = {} \/ "stale" \in leftover BY <1>1, <2>1, <4>1, Zenon DEF Dropping
      <4>3. new.allow = {p} \/ "stale" \in leftover' BY <2>1, <3>2, <4>2, Zenon
      <4> QED BY <3>2, <3>3, <4>3, Zenon DEF Dropping, Turns, Behind
    <3> QED BY <1>1, <1>2, <1>5, <2>1, <3>2, <3>3, <3>4, <3>5, <3>6, Zenon
  <2>3. CASE Refused(p, AfterKillswitch) \/ Fails(p, AfterKillswitch) BY <1>1, <1>6, <2>1, <2>3, Turning, Zenon
  <2> QED BY <1>9, <2>2, <2>3, Zenon DEF AddKillswitchRules
<1> QED BY <1>7, <1>8, <1>9

\* On Windows in one step, which the mutex keeps others out of.
LEMMA WindowsKillswitchKeeps ==
  ASSUME HostInv, NEW p \in Hosts, WindowsKillswitchGuard_apply(p)
  PROVE  Keeps(p)
<1>1. PICK r, m : r = up[p] /\ m = machine OBVIOUS
<1>2. DOMAIN up = Hosts /\ DOMAIN r = UpFields /\ r.todo \in Seq(Undoable) /\ HeldAt(r)
      /\ IsMachine(m)
  BY <1>1, Zenon DEF HostInv, HostTypes, IsUp
<1>3. platform = "windows" /\ r.pc = "killswitch" /\ r.held = {}
      /\ UNCHANGED <<platform, before, together, leftover>>
  BY <1>1, <1>2, Zenon DEF WindowsKillswitchGuard_apply, HeldAt
<1>4. KeepsDropping(p) BY <1>3, Zenon DEF KeepsDropping
<1>5. ASSUME NEW pc \in {"tun open", "unwind"}, NEW held, NEW todo \in Seq(Undoable),
             Turns(p, pc, held, r.previous, todo), IsMachine(machine'),
             HeldAt(up'[p]), KeepsAccount(p), KeepsFilters(p)
      PROVE  Keeps(p)
  <2>1. KeepsShape(p) BY <1>1, <1>3, <1>5, Zenon DEF KeepsShape, Turns, IsUp, UpPcs, Behind
  <2> QED BY <1>4, <1>5, <2>1, Zenon DEF Keeps
<1>6. CASE ~ Wants(p, "killswitch") /\ Done(p, "tun open", machine, {}) /\ UNCHANGED mutex
  <2>1. Turns(p, "tun open", r.held, r.previous, r.todo) /\ machine' = machine
    BY <1>1, <1>6, Turning, Zenon
  <2>2. HeldAt(up'[p]) BY <1>3, <2>1, Zenon DEF HeldAt, Turns, Undoable
  <2>3. KeepsAccount(p) BY <1>1, <1>3, <2>1, Zenon DEF KeepsAccount, Owes, Turns
  <2>4. KeepsFilters(p) BY <1>3, <1>6, <2>1, Zenon DEF KeepsFilters, Filtering, Turns, Wants
  <2> QED BY <1>1, <1>2, <1>5, <2>1, <2>2, <2>3, <2>4, Zenon
<1>7. CASE (Fails(p, AfterKillswitch) \/ Refused(p, AfterKillswitch)) /\ UNCHANGED mutex
  <2>1. Turns(p, "unwind", r.held, r.previous, AfterKillswitch) /\ machine' = machine
    BY <1>1, <1>7, Turning, Zenon
  <2>2. HeldAt(up'[p]) BY <1>3, <2>1 DEF HeldAt, Turns, Undoable
  <2>3. KeepsAccount(p) BY <1>1, <1>3, <2>1 DEF KeepsAccount, Owes, Turns, Covered
  <2>4. KeepsFilters(p) BY <1>3, <1>7, <2>1, Zenon DEF KeepsFilters, Filtering, Turns, Wants, Behind
  <2> QED BY <1>1, <1>2, <1>5, <2>1, <2>2, <2>3, <2>4, Orders, Zenon
<1>8. CASE /\ Done(p, "tun open", [machine EXCEPT !.drop = TRUE, !.allow = {p}], {"killswitch"})
           /\ mutex = {} /\ mutex' = {p}
  <2>1. PICK new : new = [m EXCEPT !.drop = TRUE, !.allow = {p}] OBVIOUS
  <2>2. IsMachine(new) /\ new.drop = TRUE /\ new.allow = {p} /\ new.mss = m.mss
        /\ new.tun = m.tun /\ new.nat = m.nat /\ new.forward = m.forward
    BY <1>2, <2>1 DEF IsMachine, MachineFields
  <2>3. PICK held : held = {"killswitch"} BY Zenon
  <2>4. r.held \cup {"killswitch"} = held BY <1>3, <2>3
  <2>5. Turns(p, "tun open", held, r.previous, r.todo) /\ machine' = new
    BY <1>1, <1>8, <2>1, <2>4, Turning, Zenon
  <2>6. HeldAt(up'[p]) BY <2>3, <2>5, Zenon DEF HeldAt, Turns, Undoable
  <2>7. KeepsAccount(p)
    <3> SUFFICES ASSUME Owes(up[p], machine) PROVE Owes(up[p], machine)' BY DEF KeepsAccount
    <3>1. machine' = new /\ before' = before /\ up'[p].held = {"killswitch"} /\ up'[p].pc # "unwind"
      BY <1>3, <2>3, <2>5, Zenon DEF Turns
    <3>2. m.mss = FALSE /\ m.tun = FALSE /\ m.nat = FALSE /\ m.forward = before.forward
      BY <1>1, <1>3, Zenon DEF Owes
    <3> QED BY <2>2, <3>1, <3>2 DEF Owes
  <2>8. KeepsFilters(p) BY <1>3, <1>8, <2>2, <2>3, <2>5, Zenon DEF KeepsFilters, Filtering, Turns
  <2> QED BY <1>1, <1>2, <1>5, <2>2, <2>5, <2>6, <2>7, <2>8, Zenon
<1>9. CASE /\ mutex = {} /\ UNCHANGED mutex
           /\ up' = [up EXCEPT ![p].pc = "unwind", ![p].todo = AfterKillswitch]
           /\ machine' = [machine EXCEPT !.drop = FALSE, !.allow = {}]
  <2>1. PICK new : new = [m EXCEPT !.drop = FALSE, !.allow = {}] OBVIOUS
  <2>2. IsMachine(new) /\ new.drop = FALSE /\ new.allow = {} /\ new.mss = m.mss
        /\ new.tun = m.tun /\ new.nat = m.nat /\ new.forward = m.forward
    BY <1>2, <2>1 DEF IsMachine, MachineFields
  <2>3. Turns(p, "unwind", r.held, r.previous, AfterKillswitch) /\ machine' = new
    BY <1>1, <1>2, <1>9, <2>1 DEF Turns, UpFields
  <2>4. HeldAt(up'[p]) BY <1>3, <2>3 DEF HeldAt, Turns, Undoable
  <2>5. KeepsAccount(p)
    <3> SUFFICES ASSUME Owes(up[p], machine) PROVE Owes(up[p], machine)' BY DEF KeepsAccount
    <3>1. machine' = new /\ before' = before /\ up'[p].held = {} BY <1>3, <2>3, Zenon DEF Turns
    <3>2. m.mss = FALSE /\ m.tun = FALSE /\ m.nat = FALSE /\ m.forward = before.forward
      BY <1>1, <1>3, Zenon DEF Owes
    <3> QED BY <2>2, <3>1, <3>2 DEF Owes, Covered
  <2>6. KeepsFilters(p) BY <1>3, <1>9, <2>3, Zenon DEF KeepsFilters, Filtering, Turns, Wants, Behind
  <2> QED BY <1>1, <1>2, <1>5, <2>2, <2>3, <2>4, <2>5, <2>6, Orders, Zenon
<1> QED BY <1>6, <1>7, <1>8, <1>9, Zenon DEF WindowsKillswitchGuard_apply

\* The undo of one guard: what it holds less, is undone on the host.
LEMMA CleanupKeeps ==
  ASSUME HostInv, NEW p \in Hosts, cleanup(p)
  PROVE  Keeps(p)
<1>1. PICK r, m : r = up[p] /\ m = machine OBVIOUS
<1>2. DOMAIN up = Hosts /\ DOMAIN r = UpFields /\ r.todo \in Seq(Undoable) /\ HeldAt(r)
      /\ IsMachine(m)
  BY <1>1, Zenon DEF HostInv, HostTypes, IsUp
<1>3. r.pc = "unwind" /\ r.todo # <<>> /\ UNCHANGED <<platform, before, together>>
  BY <1>1, Zenon DEF cleanup
<1>4. PICK item, held : item = Head(r.todo) /\ held = r.held \cap PartsOf(item) BY Zenon
<1>5. item \in Undoable /\ item = r.todo[1] BY <1>2, <1>3, <1>4
<1>6. PICK rest : rest = Tail(r.todo) BY Zenon
<1>7. rest \in Seq(Undoable) /\ \A k \in DOMAIN r.todo : k = 1 \/ (k - 1 \in DOMAIN rest /\ rest[k - 1] = r.todo[k])
  BY <1>2, <1>3, <1>6
<1>8. PICK stay \in SUBSET held :
        /\ up' = [up EXCEPT ![p].todo = Tail(@), ![p].held = (@ \ held) \cup stay]
        /\ \/ /\ stay = {} /\ UNCHANGED leftover
              /\ mutex' = IF held = {"killswitch"} THEN mutex \ {p} ELSE mutex
              /\ machine' = IF held = {} THEN m
                            ELSE IF item = "nat" /\ "nat" \notin held
                            THEN [m EXCEPT !.forward = r.previous]
                            ELSE IF item = "nat" /\ "forward" \notin held
                            THEN [m EXCEPT !.nat = FALSE]
                            ELSE Undone(p, item)
           \/ /\ leftover' = IF \E k \in 2 .. Len(r.todo) : r.todo[k] = item
                             THEN leftover ELSE leftover \cup {"undo"}
              /\ UNCHANGED mutex
              /\ \/ stay = held /\ machine' = m
                 \/ /\ item = "nat" /\ "nat" \in held /\ stay = {"forward"} \cap held
                    /\ machine' = [m EXCEPT !.nat = FALSE]
                 \/ /\ "forward" \in held /\ stay = {"nat"} \cap held
                    /\ machine' = [m EXCEPT !.forward = r.previous]
  BY <1>1, <1>4, Zenon DEF cleanup
<1>9. PICK now_held : now_held = (r.held \ held) \cup stay BY Zenon
<1>10. Turns(p, "unwind", now_held, r.previous, rest)
  BY <1>1, <1>2, <1>3, <1>6, <1>8, <1>9 DEF Turns, UpFields
<1>11. now_held \subseteq r.held /\ stay \subseteq r.held BY <1>4, <1>8, <1>9
<1>12. HeldAt(up'[p]) BY <1>2, <1>10, <1>11, Zenon DEF HeldAt, Turns
<1>13. leftover \subseteq leftover' BY <1>8
\* Field by field, what the step does to the host.
<1>14. /\ IsMachine(machine')
       /\ IF "killswitch" \in r.held \ now_held THEN machine'.drop = FALSE /\ machine'.allow = {}
          ELSE machine'.drop = m.drop /\ machine'.allow = m.allow
       /\ machine'.mss = IF "mss" \in r.held \ now_held THEN FALSE ELSE m.mss
       /\ machine'.tun = IF "tun" \in r.held \ now_held THEN FALSE ELSE m.tun
       /\ machine'.nat = IF "nat" \in r.held \ now_held THEN FALSE ELSE m.nat
       /\ machine'.forward = IF "forward" \in r.held \ now_held THEN r.previous ELSE m.forward
  <2>1. CASE item # "nat"
    <3>1. PartsOf(item) = {item} /\ held \in {{}, {item}} BY <1>4, <2>1 DEF PartsOf
    <3>2. CASE held = {} \/ stay = held
      <4>1. now_held = r.held BY <1>4, <1>8, <1>9, <3>1, <3>2
      <4>2. machine' = m BY <1>8, <2>1, <3>1, <3>2
      <4> QED BY <1>2, <4>1, <4>2, Zenon
    <3>3. CASE held = {item} /\ stay # held
      <4>1. stay = {} /\ machine' = Undone(p, item) BY <1>5, <1>8, <2>1, <3>3, Zenon DEF Undoable
      <4>2. r.held \ now_held = {item} BY <1>4, <1>9, <3>1, <3>3, <4>1
      <4>3. item \in {"killswitch", "mss", "tun"} BY <1>5, <2>1 DEF Undoable
      <4>4. CASE item = "killswitch"
        BY <1>1, <1>2, <4>1, <4>2, <4>4, Zenon DEF Undone, IsMachine, MachineFields
      <4>5. CASE item = "mss"
        BY <1>1, <1>2, <4>1, <4>2, <4>5, Zenon DEF Undone, IsMachine, MachineFields
      <4>6. CASE item = "tun"
        BY <1>1, <1>2, <4>1, <4>2, <4>6, Zenon DEF Undone, IsMachine, MachineFields
      <4> QED BY <4>3, <4>4, <4>5, <4>6, Zenon
    <3> QED BY <3>1, <3>2, <3>3, Zenon
  <2>2. CASE item = "nat"
    <3>1. held = r.held \cap {"nat", "forward"} BY <1>4, <2>2 DEF PartsOf
    <3>2. CASE machine' = m /\ stay = held
      <4>1. now_held = r.held BY <1>4, <1>9, <3>2
      <4> QED BY <1>2, <3>2, <4>1, Zenon
    <3>3. CASE machine' = [m EXCEPT !.nat = FALSE] /\ r.held \ now_held = {"nat"}
      BY <1>2, <3>3, Zenon DEF IsMachine, MachineFields
    <3>4. CASE machine' = [m EXCEPT !.forward = r.previous] /\ r.held \ now_held = {"forward"}
      BY <1>2, <3>4, Zenon DEF IsMachine, MachineFields
    <3>5. CASE machine' = Undone(p, item) /\ r.held \ now_held = {"nat", "forward"}
      <4>1. machine' = [m EXCEPT !.nat = FALSE, !.forward = r.previous]
        BY <1>1, <2>2, <3>5 DEF Undone
      <4> QED BY <1>2, <3>5, <4>1, Zenon DEF IsMachine, MachineFields
    <3>6. CASE stay = {} /\ machine' = IF held = {} THEN m
                            ELSE IF item = "nat" /\ "nat" \notin held
                            THEN [m EXCEPT !.forward = r.previous]
                            ELSE IF item = "nat" /\ "forward" \notin held
                            THEN [m EXCEPT !.nat = FALSE]
                            ELSE Undone(p, item)
      <4>1. r.held \ now_held = held BY <1>4, <1>9, <3>6
      <4>2. held \in {{}, {"nat"}, {"forward"}, {"nat", "forward"}} BY <3>1
      <4> QED BY <2>2, <3>2, <3>3, <3>4, <3>5, <3>6, <4>1, <4>2, Zenon
    <3>7. CASE "nat" \in held /\ stay = {"forward"} \cap held /\ machine' = [m EXCEPT !.nat = FALSE]
      <4>1. r.held \ now_held = {"nat"} BY <1>9, <3>1, <3>7
      <4> QED BY <3>3, <3>7, <4>1, Zenon
    <3>8. CASE "forward" \in held /\ stay = {"nat"} \cap held /\ machine' = [m EXCEPT !.forward = r.previous]
      <4>1. r.held \ now_held = {"forward"} BY <1>9, <3>1, <3>8
      <4> QED BY <3>4, <3>8, <4>1, Zenon
    <3> QED BY <1>8, <3>2, <3>6, <3>7, <3>8, Zenon
  <2> QED BY <2>1, <2>2, Zenon
<1>15. KeepsShape(p) BY <1>1, <1>3, <1>7, <1>10, <1>12, <1>13, <1>14 DEF KeepsShape, Turns, IsUp, UpPcs
<1>16. KeepsDropping(p) BY <1>10, Zenon DEF KeepsDropping, Dropping, Turns, Behind
<1>17. KeepsAccount(p)
  <2> SUFFICES ASSUME leftover' = {}, Owes(r, m) PROVE Owes(up[p], machine)'
    BY <1>1 DEF KeepsAccount
  <2>1. Covered(now_held, rest)
    <3> SUFFICES ASSUME NEW x \in now_held PROVE \E k \in DOMAIN rest : x \in PartsOf(rest[k])
      BY DEF Covered
    <3>1. PICK k \in DOMAIN r.todo : x \in PartsOf(r.todo[k]) BY <1>3, <1>11 DEF Owes, Covered
    <3>2. CASE k # 1 BY <1>7, <3>1, <3>2
    <3>3. CASE k = 1
      <4>1. x \in stay BY <1>4, <1>5, <1>9, <1>11, <3>1, <3>3
      <4>2. PICK j \in 2 .. Len(r.todo) : r.todo[j] = item BY <1>8, <4>1
      <4>3. j \in DOMAIN r.todo /\ j # 1 BY <1>2
      <4> QED BY <1>5, <1>7, <3>1, <3>3, <4>2, <4>3
    <3> QED BY <3>2, <3>3
  <2> QED BY <1>3, <1>10, <1>11, <1>14, <2>1 DEF Owes, Turns
<1>18. KeepsFilters(p)
  <2> SUFFICES ASSUME platform = "windows", Filtering(p)
               PROVE  /\ Filtering(p)'
                      /\ \A q \in Hosts : q # p /\ mutex = {q} =>
                           mutex' = {q} /\ machine'.drop = machine.drop /\ machine'.allow = machine.allow
    BY DEF KeepsFilters
  <2>1. "killswitch" \in now_held => mutex' = {p}
    <3> SUFFICES ASSUME "killswitch" \in now_held PROVE mutex' = {p} OBVIOUS
    <3>1. mutex = {p} BY <1>1, <1>11 DEF Filtering
    <3>2. held = {"killswitch"} => stay # {} BY <1>9
    <3> QED BY <1>8, <3>1, <3>2
  <2>2. Filtering(p)' BY <1>10, <2>1, Zenon DEF Filtering, Turns, Behind
  <2>3. ASSUME NEW q \in Hosts, q # p, mutex = {q}
        PROVE  mutex' = {q} /\ machine'.drop = machine.drop /\ machine'.allow = machine.allow
    <3>1. "killswitch" \notin r.held BY <1>1, <2>3 DEF Filtering
    <3>2. mutex' \in {mutex, mutex \ {p}} BY <1>8
    <3> QED BY <1>1, <1>14, <2>3, <3>1, <3>2
  <2> QED BY <2>2, <2>3
<1> QED BY <1>15, <1>16, <1>17, <1>18 DEF Keeps

\* A process that does not run holds nothing.
LEMMA IdleUp ==
  /\ NotUp.pc = "idle" /\ NotUp.held = {} /\ NotUp.options = {} /\ NotUp.todo = <<>>
  /\ DOMAIN NotUp = UpFields /\ IsUp(NotUp) /\ <<>> \in Seq(Undoable)
<1>1. NotUp.pc = "idle" /\ NotUp.held = {} /\ NotUp.options = {} /\ NotUp.todo = <<>>
      /\ DOMAIN NotUp = UpFields
  BY DEF NotUp, UpFields
<1>2. <<>> \in Seq(Undoable) OBVIOUS
<1> QED BY <1>1, <1>2 DEF IsUp, HeldAt, UpPcs

\* `down` goes on from the killswitch to the MSS clamp.
LEMMA DownKeeps ==
  ASSUME HostInv, NEW p \in Hosts, cleanup_firewall_state(p), up'[p].pc # "idle"
  PROVE  Keeps(p)
<1>1. PICK r, m : r = up[p] /\ m = machine OBVIOUS
<1>2. DOMAIN up = Hosts /\ DOMAIN r = UpFields /\ r.todo \in Seq(Undoable) /\ HeldAt(r)
      /\ IsMachine(m)
  BY <1>1, Zenon DEF HostInv, HostTypes, IsUp
<1>0. up' # [up EXCEPT ![p] = NotUp] BY <1>2, IdleUp
<1>3. r.pc = "down killswitch" /\ r.held = {} /\ platform = "linux"
      /\ UNCHANGED <<platform, before, mutex, together, leftover>>
  <2>1. r.pc = "down killswitch" BY <1>0, <1>1, Zenon DEF cleanup_firewall_state
  <2>2. platform = "linux" BY <1>0, <1>1, Zenon DEF cleanup_firewall_state
  <2>3. UNCHANGED <<platform, before, mutex, together, leftover>> BY Zenon DEF cleanup_firewall_state
  <2> QED BY <1>2, <2>1, <2>2, <2>3, Zenon DEF HeldAt
<1>4. PICK new : new = [m EXCEPT !.drop = FALSE, !.allow = {}] OBVIOUS
<1>5. IsMachine(new) /\ new.drop = FALSE /\ new.allow = {} /\ new.mss = m.mss /\ new.tun = m.tun
      /\ new.nat = m.nat /\ new.forward = m.forward
  BY <1>2, <1>4 DEF IsMachine, MachineFields
<1>6. /\ machine' \in {m, new}
      /\ \/ up' = [up EXCEPT ![p] = [NotUp EXCEPT !.pc = "down mss"]]
         \/ up' = [up EXCEPT ![p].pc = "down mss"]
  BY <1>0, <1>1, <1>3, <1>4, Zenon DEF cleanup_firewall_state
<1>7. /\ DOMAIN up' = Hosts /\ \A q \in Hosts : q # p => up'[q] = up[q]
      /\ DOMAIN up'[p] = UpFields /\ up'[p].options \subseteq r.options
      /\ up'[p].pc = "down mss" /\ up'[p].held = {} /\ up'[p].todo \in Seq(Undoable)
  <2>1. CASE up' = [up EXCEPT ![p] = [NotUp EXCEPT !.pc = "down mss"]]
    <3>1. PICK w : w = [NotUp EXCEPT !.pc = "down mss"] BY Zenon
    <3>2. DOMAIN w = UpFields /\ w.pc = "down mss" /\ w.held = {} /\ w.options = {} /\ w.todo = <<>>
      BY <3>1, IdleUp, Zenon DEF UpFields
    <3>3. w.todo \in Seq(Undoable) /\ w.options \subseteq r.options BY <3>2, IdleUp, Zenon
    <3>4. up' = [up EXCEPT ![p] = w] /\ up'[p] = w BY <1>2, <2>1, <3>1, Zenon
    <3> QED BY <1>2, <3>2, <3>3, <3>4, Zenon
  <2>2. CASE up' = [up EXCEPT ![p].pc = "down mss"] BY <1>1, <1>2, <1>3, <2>2, Zenon DEF UpFields
  <2> QED BY <1>6, <2>1, <2>2, Zenon
<1>8. HeldAt(up'[p]) BY <1>7, Zenon DEF HeldAt
<1>9. KeepsShape(p) BY <1>1, <1>2, <1>3, <1>5, <1>6, <1>7, <1>8, Zenon DEF KeepsShape, IsUp, UpPcs
<1>10. KeepsAccount(p) BY <1>1, <1>3, <1>5, <1>6, <1>7, Zenon DEF KeepsAccount, Owes
<1>11. KeepsDropping(p) BY <1>7, Zenon DEF KeepsDropping, Dropping, Behind
<1>12. KeepsFilters(p) BY <1>3, Zenon DEF KeepsFilters
<1> QED BY <1>9, <1>10, <1>11, <1>12 DEF Keeps

\* A process ends: when it owes nothing any more the host is as before.
Ends(p) ==
  /\ up[p].pc # "idle" /\ up' = [up EXCEPT ![p] = NotUp]
  /\ UNCHANGED <<platform, before, together>>
  /\ leftover \subseteq leftover'
  /\ IsMachine(machine')
  /\ leftover' = {} /\ Owes(up[p], machine) => machine' = before
  /\ platform = "windows" /\ Filtering(p) =>
       \A q \in Hosts : q # p /\ mutex = {q} =>
         mutex' = {q} /\ machine'.drop = machine.drop /\ machine'.allow = machine.allow

\* Such a step keeps the invariant.
LEMMA EndsInv ==
  ASSUME HostInv, NEW p \in Hosts, Ends(p)
  PROVE  HostInv'
<1>1. DOMAIN up' = Hosts /\ up'[p] = NotUp /\ \A q \in Hosts : q # p => up'[q] = up[q]
  BY Zenon DEF Ends, HostInv, HostTypes
<1>3. HostTypes'
  <2>1. \A q \in Hosts : IsUp(up'[q]) BY <1>1, IdleUp, Zenon DEF HostInv, HostTypes
  <2>2. \A q \in Hosts : up'[q].pc \in {"killswitch table", "killswitch rules"} => platform = "linux"
    BY <1>1, IdleUp, Zenon DEF HostInv, HostTypes
  <2>3. \A q \in Hosts : IsUp(up[q])' BY <2>1, Zenon DEF IsUp, HeldAt
  <2>4. IsMachine(machine)' BY Zenon DEF Ends, IsMachine
  <2> QED BY <1>1, <2>2, <2>3, <2>4, Zenon DEF HostInv, HostTypes, Ends, NewHost
<1>4. Active' = Active \ {p} /\ p \in Active BY <1>1, IdleUp DEF Active, Ends
<1>5. Active' \ together' = {} BY <1>4 DEF HostInv, Apart, Ends
<1>6. Apart' BY <1>4, <1>5 DEF HostInv, Apart, Ends
<1>7. Accounted'
  <2> SUFFICES ASSUME leftover' = {} PROVE machine' = before' /\ Active' = {} BY DEF Accounted
  <2>1. leftover = {} BY DEF Ends
  <2>2. Active = {p} BY <1>4, <2>1 DEF HostInv, Apart
  <2>3. Owes(up[p], machine) BY <1>4, <2>1 DEF HostInv, Accounted
  <2> QED BY <1>4, <2>2, <2>3 DEF Ends
<1>8. ASSUME platform' = "windows", NEW q \in Hosts PROVE Filtering(q)'
  <2>1. platform = "windows" BY <1>8 DEF Ends
  <2>2. Filtering(p) /\ Filtering(q) BY <2>1 DEF HostInv, Guards
  <2>3. CASE q = p BY <1>1, <2>3, IdleUp, Zenon DEF Filtering, Behind
  <2>4. CASE q # p
    <3>1. up'[q] = up[q] BY <1>1, <2>4
    <3>2. mutex = {q} => mutex' = {q} /\ machine'.drop = machine.drop /\ machine'.allow = machine.allow
      BY <2>1, <2>2, <2>4 DEF Ends
    <3> QED BY <2>2, <3>1, <3>2 DEF Filtering, Wants
  <2> QED BY <2>3, <2>4
<1>9. Guards' BY <1>5, <1>8 DEF Guards
<1> QED BY <1>3, <1>6, <1>7, <1>9 DEF HostInv

\* A host with the fields of the one before is the one before.
LEMMA SameHost ==
  ASSUME NEW m, NEW b, b \in {NewHost(TRUE), NewHost(FALSE)}, m = [x \in DOMAIN m |-> m[x]],
         DOMAIN m = MachineFields, m.drop = FALSE, m.allow = {}, m.mss = FALSE, m.nat = FALSE,
         m.tun = FALSE, m.forward = b.forward
  PROVE  m = b
<1>1. b = [x \in MachineFields |-> b[x]] BY DEF NewHost, MachineFields
<1>2. b.drop = FALSE /\ b.allow = {} /\ b.mss = FALSE /\ b.nat = FALSE /\ b.tun = FALSE
  BY DEF NewHost
<1>3. \A x \in MachineFields : m[x] = b[x] BY <1>2, Zenon DEF MachineFields
<1> QED BY <1>1, <1>3

\* UpReturns, Kill and the end of `down`.
LEMMA EndingEnds ==
  ASSUME HostInv, Whole, NEW p \in Hosts,
         UpReturns(p) \/ Kill(p) \/ (cleanup_firewall_state(p) /\ up'[p].pc = "idle")
  PROVE  Ends(p)
<1>1. PICK r, m : r = up[p] /\ m = machine OBVIOUS
<1>2. DOMAIN up = Hosts /\ DOMAIN r = UpFields /\ r.todo \in Seq(Undoable) /\ HeldAt(r)
      /\ IsMachine(m) /\ before \in {NewHost(TRUE), NewHost(FALSE)}
  BY <1>1, Zenon DEF HostInv, HostTypes, IsUp
<1>3. ASSUME Owes(r, m), r.held = {} PROVE m = before
  BY <1>1, <1>2, <1>3, SameHost, Zenon DEF Owes, Whole, IsMachine
<1>4. CASE UpReturns(p)
  <2>1. r.pc = "unwind" /\ r.todo = <<>> /\ mutex' = mutex \ {p}
        /\ UNCHANGED <<platform, machine, before, together, leftover>>
        /\ up' = [up EXCEPT ![p] = NotUp]
    BY <1>1, <1>4 DEF UpReturns
  <2>2. Owes(r, m) => r.held = {}
    <3>1. r.pc = "unwind" /\ r.todo = <<>> BY <2>1, Zenon
    <3>2. DOMAIN r.todo = {} BY <3>1
    <3> QED BY <3>1, <3>2, Zenon DEF Owes, Covered
  <2> QED BY <1>1, <1>2, <1>3, <2>1, <2>2, Zenon DEF Ends
<1>5. CASE Kill(p) BY <1>1, <1>2, <1>5 DEF Kill, Ends
<1>6. CASE cleanup_firewall_state(p) /\ up'[p].pc = "idle"
  <2>1. r.pc \in {"down killswitch", "down mss"} /\ r.held = {}
        /\ UNCHANGED <<platform, before, mutex, together, leftover>>
    BY <1>1, <1>2, <1>6, Zenon DEF cleanup_firewall_state, HeldAt
  <2>2. up' = [up EXCEPT ![p] = NotUp]
    BY <1>1, <1>2, <1>6, ZenonT(30) DEF cleanup_firewall_state, NotUp, UpFields
  <2>3. PICK open, clear : open = [m EXCEPT !.drop = FALSE, !.allow = {}]
                           /\ clear = [m EXCEPT !.mss = FALSE]
    BY Zenon
  <2>4. \/ machine' = m
        \/ machine' = clear
        \/ machine' = open /\ (platform = "linux" \/ mutex = {})
    BY <1>1, <1>6, <2>3, Zenon DEF cleanup_firewall_state
  <2>5. IsMachine(open) /\ IsMachine(clear) /\ clear.drop = m.drop /\ clear.allow = m.allow
    BY <1>2, <2>3 DEF IsMachine, MachineFields
  <2>6. Owes(r, m) => open = m /\ clear = m
    <3> SUFFICES ASSUME Owes(r, m) PROVE open = m /\ clear = m OBVIOUS
    <3>1. m.drop = FALSE /\ m.allow = {} /\ m.mss = FALSE BY <2>1, Zenon DEF Owes
    <3> QED BY <1>1, <2>3, <3>1, Zenon DEF Whole
  <2>7. Owes(r, m) => machine' = before BY <1>3, <2>1, <2>4, <2>6, Zenon
  <2>8. \A q \in Hosts : platform = "windows" /\ mutex = {q} =>
          machine'.drop = m.drop /\ machine'.allow = m.allow
    BY <2>4, <2>5
  <2>9. r.pc # "idle" /\ IsMachine(machine') BY <1>2, <2>1, <2>4, <2>5, Zenon
  <2> QED BY <1>1, <2>1, <2>2, <2>7, <2>8, <2>9, Zenon DEF Ends
<1> QED BY <1>4, <1>5, <1>6

\* `up` or `down` is started.
LEMMA BeginInv ==
  ASSUME HostInv, NEW p \in Hosts,
         (\E options \in UpOptions : Up(p, options)) \/ Down(p)
  PROVE  HostInv'
<1>1. PICK rec, options :
        /\ Begin(p, rec)
        /\ \/ rec = [NotUp EXCEPT !.pc = "killswitch", !.options = options]
           \/ rec = [NotUp EXCEPT !.pc = "down killswitch"]
  BY Zenon DEF Up, Down
<1>2. DOMAIN rec = UpFields /\ rec.pc \in {"killswitch", "down killswitch"} /\ rec.held = {} /\ rec.todo = <<>>
  BY <1>1, IdleUp, Zenon DEF UpFields
<1>3. IsUp(rec) BY <1>2, IdleUp, Zenon DEF IsUp, HeldAt, UpPcs
<1>4. /\ up[p].pc = "idle" /\ platform # "off" /\ UNCHANGED <<platform, machine, before, mutex>>
      /\ together' = IF Active = {} THEN together \ {p} ELSE together \cup Active \cup {p}
      /\ leftover' = IF Active = {} THEN leftover ELSE leftover \cup {"beside"}
      /\ up' = [up EXCEPT ![p] = rec]
  BY <1>1, Zenon DEF Begin
<1>5. DOMAIN up' = Hosts /\ up'[p] = rec /\ \A q \in Hosts : q # p => up'[q] = up[q]
  BY <1>4, Zenon DEF HostInv, HostTypes
<1>6. HostTypes'
  <2>1. \A q \in Hosts : IsUp(up'[q]) BY <1>3, <1>5, Zenon DEF HostInv, HostTypes
  <2>2. \A q \in Hosts : IsUp(up[q])' BY <2>1, Zenon DEF IsUp, HeldAt
  <2>3. \A q \in Hosts : up'[q].pc \in {"killswitch table", "killswitch rules"} => platform = "linux"
    BY <1>2, <1>5, Zenon DEF HostInv, HostTypes
  <2> QED BY <1>4, <1>5, <2>2, <2>3, Zenon DEF HostInv, HostTypes, NewHost, IsMachine
<1>7. Active' = Active \cup {p} /\ p \notin Active BY <1>2, <1>4, <1>5, Zenon DEF Active
<1>8. \A q \in Active' \ together' : q = p /\ Active' = {p} BY <1>4, <1>7
<1>9. Apart'
  <2>1. "beside" \notin leftover' => Active = {} BY <1>4
  <2> QED BY <1>4, <1>7, <1>8, <2>1 DEF Apart
<1>10. Accounted'
  <2> SUFFICES ASSUME leftover' = {} PROVE \A q \in Active' : Owes(up'[q], machine)
    BY <1>4, <1>7, Zenon DEF Accounted, Owes
  <2>1. Active = {} /\ leftover = {} BY <1>4
  <2>2. machine = before BY <2>1 DEF HostInv, Accounted
  <2>3. before.drop = FALSE /\ before.allow = {} /\ before.mss = FALSE /\ before.nat = FALSE
        /\ before.tun = FALSE
    <3>1. PICK f \in BOOLEAN : before = NewHost(f) BY Zenon DEF HostInv, HostTypes
    <3> QED BY <3>1 DEF NewHost
  <2>4. Owes(rec, machine) BY <1>2, <2>2, <2>3, Zenon DEF Owes
  <2> QED BY <1>5, <1>7, <2>1, <2>4
<1>11. Guards'
  <2>1. \A q \in Active' \ together' : Dropping(q)' BY <1>2, <1>5, <1>8, Zenon DEF Dropping, Behind
  <2>2. ASSUME platform' = "windows", NEW q \in Hosts PROVE Filtering(q)'
    <3>1. CASE q = p BY <1>2, <1>5, <3>1, Zenon DEF Filtering, Behind
    <3>2. CASE q # p
      <4>1. Filtering(q) BY <1>4, <2>2 DEF HostInv, Guards
      <4> QED BY <1>4, <1>5, <3>2, <4>1 DEF Filtering, Wants
    <3> QED BY <3>1, <3>2
  <2> QED BY <2>1, <2>2 DEF Guards
<1> QED BY <1>6, <1>9, <1>10, <1>11 DEF HostInv

\* Commands change fields of the host and leave it a record.
LEMMA HostStaysWhole == HostInv /\ Whole /\ [HostNext]_hostVars => Whole'
<1> SUFFICES ASSUME HostInv, Whole, [HostNext]_hostVars PROVE Whole' OBVIOUS
<1>1. CASE machine' = machine BY <1>1 DEF Whole
<1>2. ASSUME NEW p \in Hosts, NEW item, machine' = Undone(p, item),
             item \in {"killswitch", "mss", "tun", "nat"}
      PROVE  Whole'
  BY <1>2, Zenon DEF Undone, Whole
<1>3. ASSUME NEW p \in Hosts, HostNext,
             \/ DeleteStaleKillswitch(p) \/ AddKillswitchTable(p) \/ AddKillswitchRules(p)
             \/ WindowsKillswitchGuard_apply(p) \/ TunOpen(p) \/ RequireNative(p) \/ ConfigureTun(p)
             \/ SwitchForwarding(p) \/ AddNatTables(p) \/ apply_mss_clamp(p) \/ ApplyControlPlane(p)
             \/ cleanup_firewall_state(p)
      PROVE  Whole'
  BY <1>1, <1>3, Zenon
     DEF DeleteStaleKillswitch, AddKillswitchTable, AddKillswitchRules, WindowsKillswitchGuard_apply,
         TunOpen, RequireNative, ConfigureTun, SwitchForwarding, AddNatTables, apply_mss_clamp,
         ApplyControlPlane, cleanup_firewall_state, Done, Fails, Refused, Whole
<1>4. ASSUME NEW p \in Hosts, cleanup(p) PROVE Whole'
  <2>1. CASE \E item \in {"killswitch", "mss", "tun", "nat"} : machine' = Undone(p, item)
    BY <1>2, <2>1
  <2>2. CASE machine' = [machine EXCEPT !.forward = up[p].previous] BY <2>2 DEF Whole
  <2>3. CASE machine' = [machine EXCEPT !.nat = FALSE] BY <2>3, Zenon DEF Whole
  <2>4. Head(up[p].todo) \in Undoable
    <3>1. up[p].todo \in Seq(Undoable) /\ up[p].todo # <<>> BY <1>4, Zenon DEF HostInv, HostTypes, IsUp, cleanup
    <3> QED BY <3>1
  <2>5. PICK item \in {"killswitch", "mss", "tun", "nat"} : item = Head(up[p].todo) BY <2>4 DEF Undoable
  <2> QED BY <1>1, <1>4, <2>1, <2>2, <2>3, <2>5, Zenon DEF cleanup
<1>5. ASSUME NEW p \in Hosts,
             \/ \E options \in UpOptions : Up(p, options)
             \/ UpSessionEnds(p) \/ UpReturns(p) \/ Kill(p) \/ Down(p)
      PROVE  machine' = machine
  BY <1>5, Zenon DEF Up, Begin, UpSessionEnds, UpReturns, Kill, Down
<1>6. CASE UNCHANGED hostVars BY <1>1, <1>6 DEF hostVars
<1> QED BY <1>1, <1>3, <1>4, <1>5, <1>6 DEF HostNext

\* The invariant holds at the start, also where the guards are not explored.
LEMMA HostStarts == ASSUME NEW on, HostInit(on) PROVE HostInv /\ Whole
<1>1. PICK f \in BOOLEAN : machine = NewHost(f) BY Zenon DEF HostInit
<1>2. DOMAIN machine = MachineFields /\ machine.drop = FALSE /\ machine.allow = {} /\ Whole
  BY <1>1, Zenon DEF NewHost, MachineFields, Whole
<1>3. \A p \in Hosts : up[p] = NotUp BY DEF HostInit
<1>4. Active = {} BY <1>3, IdleUp DEF Active
<1>5. HostTypes
  <2>1. platform \in {"off", "linux", "windows"} /\ before = machine /\ DOMAIN up = Hosts
    BY DEF HostInit
  <2>2. \A p \in Hosts : IsUp(up[p]) /\ up[p].pc = "idle" BY <1>3, IdleUp, Zenon
  <2>3. IsMachine(machine) BY <1>2, Zenon DEF IsMachine
  <2>4. before \in {NewHost(TRUE), NewHost(FALSE)} BY <1>1, <2>1, Zenon
  <2> QED BY <2>1, <2>2, <2>3, <2>4, Zenon DEF HostTypes
<1>6. Apart /\ Accounted BY <1>4 DEF Apart, Accounted, HostInit
<1>7. Guards BY <1>3, <1>4, IdleUp, Zenon DEF Guards, Filtering, Behind
<1> QED BY <1>2, <1>5, <1>6, <1>7 DEF HostInv

\* The invariant is inductive.
LEMMA HostStep == HostInv /\ Whole /\ [HostNext]_hostVars => HostInv' /\ Whole'
<1> SUFFICES ASSUME HostInv, Whole, [HostNext]_hostVars PROVE HostInv' BY HostStaysWhole
<1>1. CASE UNCHANGED hostVars
  <2>1. UNCHANGED <<platform, machine, before, mutex, up, together, leftover>> BY <1>1 DEF hostVars
  <2>2. HostTypes' BY <2>1, Zenon DEF HostInv, HostTypes, IsUp, HeldAt, IsMachine, NewHost
  <2>3. Active' = Active BY <2>1 DEF Active
  <2>4. Apart' BY <2>1, <2>3 DEF HostInv, Apart
  <2>5. Accounted' BY <2>1, <2>3, Zenon DEF HostInv, Accounted, Owes, Covered
  <2>6. Guards' BY <2>1, <2>3, Zenon DEF HostInv, Guards, Dropping, Filtering, Wants
  <2> QED BY <2>2, <2>4, <2>5, <2>6 DEF HostInv
<1>2. ASSUME NEW p \in Hosts, Keeps(p) \/ Ends(p) PROVE HostInv' BY <1>2, KeepsInv, EndsInv
<1>3. ASSUME NEW p \in Hosts,
             \/ DeleteStaleKillswitch(p) \/ AddKillswitchTable(p) \/ AddKillswitchRules(p)
             \/ WindowsKillswitchGuard_apply(p) \/ cleanup(p)
             \/ TunOpen(p) \/ RequireNative(p) \/ ConfigureTun(p) \/ SwitchForwarding(p)
             \/ AddNatTables(p) \/ apply_mss_clamp(p) \/ ApplyControlPlane(p) \/ UpSessionEnds(p)
      PROVE  HostInv'
  BY <1>2, <1>3, LinuxKillswitchKeeps, WindowsKillswitchKeeps, CleanupKeeps, WayKeeps
<1>4. ASSUME NEW p \in Hosts, UpReturns(p) \/ Kill(p) \/ cleanup_firewall_state(p)
      PROVE  HostInv'
  BY <1>2, <1>4, DownKeeps, EndingEnds
<1> QED BY <1>1, <1>3, <1>4, BeginInv DEF HostNext

\* What the invariant says about the killswitch.
LEMMA HostInvHolds == HostInv => HostRestored /\ KillswitchHeld
<1> SUFFICES ASSUME HostInv PROVE HostRestored /\ KillswitchHeld OBVIOUS
<1>1. HostRestored BY DEF HostInv, Accounted, HostRestored
<1>2. ASSUME NEW p \in Hosts, Wants(p, "killswitch"), up[p].pc \in Behind,
             platform = "linux" => p \notin together
      PROVE  machine.drop /\ (machine.allow = {p} \/ (platform = "linux" /\ "stale" \in leftover))
  <2>1. p \in Active BY <1>2, Zenon DEF Active, Behind
  <2>2. CASE platform = "linux"
    <3>1. Dropping(p) BY <1>2, <2>1, <2>2 DEF HostInv, Guards
    <3> QED BY <1>2, <2>2, <3>1, Zenon DEF Dropping
  <2>3. CASE platform = "windows"
    <3>1. Filtering(p) BY <2>3 DEF HostInv, Guards
    <3> QED BY <1>2, <3>1 DEF Filtering
  <2>4. platform # "off" BY <2>1 DEF HostInv, Apart
  <2> QED BY <2>2, <2>3, <2>4, Zenon DEF HostInv, HostTypes
<1>3. KillswitchHeld BY <1>2, Zenon DEF KillswitchHeld, Behind
<1> QED BY <1>1, <1>3
=============================================================================
