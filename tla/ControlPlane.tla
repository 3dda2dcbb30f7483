---------------------------- MODULE ControlPlane ----------------------------
(***************************************************************************)
(* The control plane of shph-cli/src/main.rs: `shph apply`, `reconcile`,   *)
(* `undo` (also the first half of `down`) and `up` change the host's       *)
(* underlay bypass routes, interface address, routes and DNS with one      *)
(* shell command per item, keep the items they added in a                  *)
(* ControlPlaneGuard, and keep the guard in <config>.control-plane.json.   *)
(*                                                                         *)
(* Every command is a process of its own.  Commands of the host fail, the  *)
(* state file cannot be written, and processes are killed, each at any     *)
(* step.  Live mode only: with dry_run nothing changes.  The interface     *)
(* name is fixed, so an item is one entry of the state file.               *)
(***************************************************************************)
EXTENDS Integers, Sequences, Functions

CONSTANTS
  Procs,        \* process slots: commands that may run at the same time
  Commands,     \* the commands the operator uses
  BypassRoutes, InterfaceCidr, Routes, DnsServers,
                \* sequences of items by kind; DnsServers has at most one, the list
  Plans,        \* plans of the configurations: sets of items
  Foreign,      \* items that may be on the host before SHPH runs
  MaxFaults,    \* bound: failures other than those the host state explains
  MaxCrashes    \* bound: processes killed

PlanOrder == BypassRoutes \o InterfaceCidr \o Routes \o DnsServers
Items == Range(PlanOrder)
IsBypass(i) == i \in Range(BypassRoutes)
IsDns(i) == i \in Range(DnsServers)

ASSUME ControlPlaneAssumption ==
  /\ IsInjective(PlanOrder) /\ Len(DnsServers) <= 1 /\ Len(InterfaceCidr) <= 1
  /\ Plans \subseteq SUBSET Items /\ Foreign \subseteq Items \ Range(DnsServers)
  /\ Commands \subseteq {"apply", "reconcile", "undo", "up"}
  /\ MaxFaults \in Nat /\ MaxCrashes \in Nat

VARIABLES
  host,     \* host[i]: "absent", "foreign" or "shph", who put item i there
  record,   \* the state file: {} when there is none, else {its items}
  proc,     \* the processes
  faults, crashes,
  excused   \* commands overlapped, or a process lost items it had not saved

vars == <<host, record, proc, faults, crashes, excused>>

Idle(outcome) ==
  [pc |-> "idle", cmd |-> "none", plan |-> {}, guard |-> {}, todo |-> {},
   errors |-> FALSE, recorded |-> FALSE, outcome |-> outcome]

Init ==
  /\ \E there \in SUBSET Foreign : host = [i \in Items |-> IF i \in there THEN "foreign" ELSE "absent"]
  /\ record = {}
  /\ proc = [p \in Procs |-> Idle("none")]
  /\ faults = 0 /\ crashes = 0 /\ excused = FALSE

Become(p, state) == proc' = [proc EXCEPT ![p] = state]
Fault == faults < MaxFaults /\ faults' = faults + 1

\* The item of todo whose turn it is when the items are added in order.
Foremost(order, todo) ==
  {i \in todo : \E k \in DOMAIN order : order[k] = i /\ \A l \in 1 .. k - 1 : order[l] \notin todo}

\* ControlPlaneGuard::cleanup goes through what the guard holds: DNS, routes,
\* bypass routes, each in reverse, and the address last.
CleanupStack == InterfaceCidr \o BypassRoutes \o Routes \o DnsServers

Topmost(stack, todo) ==
  {i \in todo : \E k \in DOMAIN stack :
                  stack[k] = i /\ \A l \in k + 1 .. Len(stack) : stack[l] \notin todo}

Adding(cmd, plan) ==
  [Idle("none") EXCEPT !.pc = "adding", !.cmd = cmd, !.plan = plan, !.todo = plan]

\* cleanup with the items of s; `pc` says what the caller does afterwards.
Cleaning(s, pc, guard) ==
  [s EXCEPT !.pc = pc, !.guard = guard, !.todo = guard, !.errors = FALSE]

-----------------------------------------------------------------------------
\* Starting a command.

\* Where handle_control_plane_apply begins: with a state file it reports
\* "already reconciled" or asks for reconcile, and changes nothing.
handle_control_plane_apply(plan) ==
  IF record = {} THEN Adding("apply", plan)
  ELSE Idle(IF record = {plan} THEN "ok" ELSE "error")

handle_control_plane_undo ==
  IF record = {} THEN Idle("ok")
  ELSE Cleaning([Idle("none") EXCEPT !.cmd = "undo"], "undoing", UNION record)

handle_control_plane_reconcile(plan) ==
  IF record = {} THEN handle_control_plane_apply(plan)
  ELSE Cleaning([Idle("none") EXCEPT !.cmd = "reconcile", !.plan = plan], "undoing", UNION record)

\* handle_up refuses to start over a recorded state.
handle_up(plan) == IF record = {} THEN Adding("up", plan) ELSE Idle("error")

Start(p) ==
  /\ proc[p].pc = "idle"
  /\ \E plan \in Plans :
       \/ "apply" \in Commands /\ Become(p, handle_control_plane_apply(plan))
       \/ "undo" \in Commands /\ Become(p, handle_control_plane_undo)
       \/ "reconcile" \in Commands /\ Become(p, handle_control_plane_reconcile(plan))
       \/ "up" \in Commands /\ Become(p, handle_up(plan))
  /\ excused' = (excused \/ \E q \in Procs \ {p} : proc[q].pc # "idle")
  /\ UNCHANGED <<host, record, faults, crashes>>

-----------------------------------------------------------------------------
\* apply_control_plane_with_underlay, one item at a time.

Present(i) == host[i] # "absent"

\* A slip: an item is noted before its command has run.
AddFailedNoting(p, i) ==
  Become(p, Cleaning(proc[p], "rollback", proc[p].guard \cup {i}))

\* The command for i fails: everything noted is rolled back.  DNS is noted
\* before its commands run, the other kinds after.
AddFailed(p, i) ==
  Become(p, Cleaning(proc[p], "rollback", proc[p].guard \cup {d \in {i} : IsDns(d)}))

\* The command for i succeeded and the guard takes it over.
Added(p, i) == Become(p, [proc[p] EXCEPT !.guard = @ \cup {i}, !.todo = @ \ {i}])

\* The script asks for the route to the proxy.  It reuses a bypass route that
\* goes the same way, which is then not noted, and refuses one that does not.
add_underlay_bypass_route(p, i) ==
  /\ IsBypass(i)
  /\ \/ ~Present(i) /\ host' = [host EXCEPT ![i] = "shph"] /\ Added(p, i)
     \/ Present(i) /\ Become(p, [proc[p] EXCEPT !.todo = @ \ {i}]) /\ UNCHANGED host
     \/ Present(i) /\ AddFailed(p, i) /\ UNCHANGED host

\* ip and netsh refuse to add what is there.
AddOrRefuse(p, i) ==
  IF Present(i) THEN AddFailed(p, i) /\ UNCHANGED host
  ELSE Added(p, i) /\ host' = [host EXCEPT ![i] = "shph"]

add_interface_address(p, i) == i \in Range(InterfaceCidr) /\ AddOrRefuse(p, i)

add_route(p, i) == i \in Range(Routes) /\ AddOrRefuse(p, i)

\* One command for each family of servers: an earlier one may have run when
\* one fails.
apply_dns_servers(p, i) ==
  /\ IsDns(i)
  /\ \/ host' = [host EXCEPT ![i] = "shph"] /\ Added(p, i) /\ UNCHANGED faults
     \/ Fault /\ AddFailed(p, i) /\ host' \in {host, [host EXCEPT ![i] = "shph"]}

\* The command cannot be started, or ends with an error.
run_shell_command_fails == Fault /\ UNCHANGED host

AddItem(p) ==
  /\ proc[p].pc = "adding"
  /\ \E i \in Foremost(PlanOrder, proc[p].todo) :
         \/ /\ add_underlay_bypass_route(p, i) \/ add_interface_address(p, i) \/ add_route(p, i)
            /\ UNCHANGED faults
         \/ apply_dns_servers(p, i)
         \/ ~IsDns(i) /\ run_shell_command_fails /\ AddFailed(p, i)
  /\ UNCHANGED <<record, crashes, excused>>

\* A guard of bypass routes alone is not recorded by `up`.
control_state_recorded(guard) == \E i \in guard : ~IsBypass(i)

AddDone(p) ==
  /\ proc[p].pc = "adding" /\ proc[p].todo = {}
  /\ IF proc[p].cmd = "up"
     THEN LET recorded == control_state_recorded(proc[p].guard)
          IN  Become(p, [proc[p] EXCEPT !.recorded = recorded,
                                        !.pc = IF recorded THEN "save" ELSE "session"])
     ELSE Become(p, [proc[p] EXCEPT !.pc = "save"])
  /\ UNCHANGED <<host, record, faults, crashes, excused>>

\* save_control_plane_state replaces the file by renaming; it also reports an
\* error when the rename is done and the directory cannot be synced.
Saved(guard) == record' = {guard} /\ UNCHANGED faults
SaveFailed(guard) == Fault /\ record' \in {record, {guard}}

Save(p) ==
  /\ proc[p].pc = "save"
  /\ \/ /\ Saved(proc[p].guard)
        /\ Become(p, IF proc[p].cmd = "up" THEN [proc[p] EXCEPT !.pc = "session"] ELSE Idle("ok"))
     \/ /\ SaveFailed(proc[p].guard)
        /\ Become(p, Cleaning(proc[p], IF proc[p].cmd = "up" THEN "aborting" ELSE "rollback",
                              proc[p].guard))
  /\ UNCHANGED <<host, crashes, excused>>

\* The session of `up` ends, with or without an error.
SessionEnds(p) ==
  /\ proc[p].pc = "session"
  /\ Become(p, Cleaning(proc[p], "finishing", proc[p].guard))
  /\ UNCHANGED <<host, record, faults, crashes, excused>>

-----------------------------------------------------------------------------
\* ControlPlaneGuard::cleanup, one item at a time; it never stops early.

\* A slip: the guard lets go of an item whose removal failed.
RemoveFailedForgetting(p, i) ==
  Become(p, [proc[p] EXCEPT !.todo = @ \ {i}, !.errors = TRUE, !.guard = @ \ {i}])

RemoveFailed(p, i) == Become(p, [proc[p] EXCEPT !.todo = @ \ {i}, !.errors = TRUE])

Removed(p, i) == Become(p, [proc[p] EXCEPT !.todo = @ \ {i}, !.guard = @ \ {i}])

\* ip refuses to remove what is not there.
RemoveOrRefuse(p, i) ==
  IF Present(i) THEN Removed(p, i) /\ host' = [host EXCEPT ![i] = "absent"]
  ELSE RemoveFailed(p, i) /\ UNCHANGED host

delete_underlay_bypass_route(p, i) == IsBypass(i) /\ RemoveOrRefuse(p, i)

delete_interface_address(p, i) == i \in Range(InterfaceCidr) /\ RemoveOrRefuse(p, i)

delete_route(p, i) == i \in Range(Routes) /\ RemoveOrRefuse(p, i)

\* Both families are tried, and restoring can be repeated.
restore_dns(p, i) == IsDns(i) /\ Removed(p, i) /\ host' = [host EXCEPT ![i] = "absent"]

RemoveItem(p) ==
  /\ proc[p].pc \in {"rollback", "undoing", "aborting", "finishing"}
  /\ \E i \in Topmost(CleanupStack, proc[p].todo) :
         \/ /\ \/ delete_underlay_bypass_route(p, i) \/ delete_interface_address(p, i)
               \/ delete_route(p, i) \/ restore_dns(p, i)
            /\ UNCHANGED faults
         \/ run_shell_command_fails /\ RemoveFailed(p, i)
  /\ UNCHANGED <<record, crashes, excused>>

CleanupDone(p, pcs) == proc[p].pc \in pcs /\ proc[p].todo = {}

\* save_remaining_control_plane_state.  The guard is not empty after an error.
SaveRemaining(p) ==
  \/ Saved(proc[p].guard) /\ UNCHANGED excused
  \/ SaveFailed(proc[p].guard) /\ excused' = TRUE

\* remove_control_plane_state.
RecordRemoved == record' = {} /\ UNCHANGED faults

\* The end of a failed apply.
RollbackDone(p) ==
  /\ CleanupDone(p, {"rollback"})
  /\ IF proc[p].errors THEN SaveRemaining(p) ELSE UNCHANGED <<record, faults, excused>>
  /\ Become(p, Idle("error"))
  /\ UNCHANGED <<host, crashes>>

\* The end of the cleanup in undo and reconcile: after an error the record
\* stays as it is; otherwise it goes, and reconcile applies the plan.
UndoDone(p) ==
  /\ CleanupDone(p, {"undoing"})
  /\ \/ /\ proc[p].errors
        /\ Become(p, Idle("error"))
        /\ UNCHANGED <<record, faults>>
     \/ /\ ~proc[p].errors
        /\ Fault
        /\ Become(p, Idle("error"))
        /\ UNCHANGED record
     \/ /\ ~proc[p].errors
        /\ RecordRemoved
        /\ Become(p, IF proc[p].cmd = "reconcile" THEN [proc[p] EXCEPT !.pc = "reapply"] ELSE Idle("ok"))
  /\ UNCHANGED <<host, crashes, excused>>

\* The second half of reconcile looks for a state file again.
Reapply(p) ==
  /\ proc[p].pc = "reapply"
  /\ Become(p, handle_control_plane_apply(proc[p].plan))
  /\ UNCHANGED <<host, record, faults, crashes, excused>>

\* finish_up_cleanup, after the session or after the record could not be saved.
finish_up_cleanup(p) ==
  /\ CleanupDone(p, {"aborting", "finishing"})
  /\ \/ /\ ~proc[p].recorded
        /\ excused' = (excused \/ proc[p].errors)
        /\ UNCHANGED <<record, faults>>
     \/ /\ proc[p].recorded /\ proc[p].errors
        /\ SaveRemaining(p)
     \/ /\ proc[p].recorded /\ ~proc[p].errors
        /\ RecordRemoved \/ (Fault /\ UNCHANGED record)
        /\ UNCHANGED excused
  /\ Become(p, Idle("none"))
  /\ UNCHANGED <<host, crashes>>

\* Nothing on disk says what the process has added: it has not come to a save
\* that succeeds, or its `up` records nothing.
Unsaved(s) ==
  \/ s.pc \in {"adding", "save", "rollback", "aborting"}
  \/ s.pc \in {"session", "finishing"} /\ ~s.recorded

\* The process is killed.
Crash(p) ==
  /\ proc[p].pc # "idle" /\ crashes < MaxCrashes
  /\ crashes' = crashes + 1
  /\ Become(p, Idle("none"))
  /\ excused' = (excused \/ Unsaved(proc[p]))
  /\ UNCHANGED <<host, record, faults>>

Step(p) ==
  \/ AddItem(p) \/ AddDone(p) \/ Save(p) \/ SessionEnds(p)
  \/ RemoveItem(p) \/ RollbackDone(p) \/ UndoDone(p) \/ Reapply(p) \/ finish_up_cleanup(p)

Next == \E p \in Procs : Start(p) \/ Step(p) \/ Crash(p)

Spec == Init /\ [][Next]_vars

\* An operator who keeps running commands to their end.
Fairness == \A p \in Procs : WF_vars(Start(p)) /\ WF_vars(Step(p))

RepeatingSpec == Spec /\ Fairness

-----------------------------------------------------------------------------
\* Safety: whatever SHPH has put on the host is known to a running process or
\* to the state file, after failed commands, failed rollbacks, sessions that
\* are killed and interrupted clean-ups alike.  Four cases are excused: two
\* commands overlap, a process is killed before its first successful save, the
\* state file cannot be written when a rollback has already failed, or an `up`
\* that added bypass routes alone, which it does not record, is killed or
\* cannot remove them.
NothingForgotten ==
  ~excused => \A i \in Items : host[i] = "shph" =>
                \/ i \in UNION record
                \/ \E p \in Procs : i \in proc[p].guard

\* Action property: a route, address or bypass route that was on the host
\* before SHPH is never removed, although rollback, undo and reconcile all
\* delete by name and processes overlap and crash.
ForeignKept ==
  [][\A i \in Items : host[i] = "foreign" => host'[i] = "foreign"]_vars

\* What the documentation says of persistence: the bypass routes are kept
\* with the other state while a session of `up` is running.
BypassPersisted ==
  \A p \in Procs : proc[p].pc = "session" => proc[p].guard \subseteq UNION record

\* What the documentation says of reconcile: it is safe to repeat.  An
\* operator who repeats it succeeds again and again once the host's commands
\* have stopped failing.
ReconcileRepeatable == []<>(\E p \in Procs : proc[p].outcome = "ok")
=============================================================================
