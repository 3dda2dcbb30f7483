----------------------------- MODULE HostGuards -----------------------------
(***************************************************************************)
(* What `shph up` does to the host around a session, and how it takes it   *)
(* back (shph-cli main.rs, shph-tun firewall.rs and windows_firewall.rs):  *)
(* the killswitch, the MTU and link of the TUN device, NAT with IPv4       *)
(* forwarding, and the MSS clamp.  Each is a guard that holds the commands *)
(* that undo it.  Every failure on the way up and the end of the session   *)
(* run the undo of what was done so far in an order of their own, and the  *)
(* destructors of the guards try once more what failed.  The addresses,    *)
(* routes and DNS servers of the control plane are module ControlPlane's;  *)
(* here applying them is one step.                                         *)
(*                                                                         *)
(* On Linux the tables of all processes have the same names; on Windows a  *)
(* named mutex lets one process at a time hold the killswitch.             *)
(***************************************************************************)
EXTENDS Naturals, Sequences, FiniteSets

CONSTANTS Hosts,          \* processes that run `up` or `down`
          UpOptions,      \* sets of options among "killswitch", "native", "nat", "mss"
          MaxUps, MaxHostFaults, MaxHostKills

VARIABLES platform,
          machine,      \* [drop, allow, mss, nat, forward, tun]: see NewHost
          before,    \* ghost: the host before the first command
          mutex,     \* Windows: the processes that hold the mutex, at most one
          up,        \* p -> [pc, options, held, previous, todo]
          ups, hostFaults, hostKills,
          together,  \* ghost: processes that ran at the same time as another
          leftover   \* ghost: why something may stay behind: "stale", "undo", "kill", "beside"

hostVars == <<platform, machine, before, mutex, up, ups, hostFaults, hostKills, together, leftover>>

\* drop: packets leave only to the allowed peers (that of process p is p).
NewHost(forward) == [drop |-> FALSE, allow |-> {}, mss |-> FALSE, nat |-> FALSE,
                     forward |-> forward, tun |-> FALSE]
NotUp == [pc |-> "idle", options |-> {}, held |-> {}, previous |-> FALSE, todo |-> <<>>]

HostInit(on) ==
  /\ platform \in IF on THEN {"linux", "windows"} ELSE {"off"}
  /\ \E forward \in IF on THEN BOOLEAN ELSE {FALSE} : machine = NewHost(forward)
  /\ before = machine
  /\ mutex = {}
  /\ up = [p \in Hosts |-> NotUp]
  /\ ups = 0 /\ hostFaults = 0 /\ hostKills = 0
  /\ together = {}
  /\ leftover = {}

Active == {p \in Hosts : up[p].pc # "idle"}

Begin(p, rec) ==
  /\ platform # "off" /\ up[p].pc = "idle" /\ ups < MaxUps
  /\ ups' = ups + 1
  /\ up' = [up EXCEPT ![p] = rec]
  /\ together' = IF Active = {} THEN together \ {p} ELSE together \cup Active \cup {p}
  /\ leftover' = IF Active = {} THEN leftover ELSE leftover \cup {"beside"}
  /\ UNCHANGED <<platform, machine, before, mutex, hostFaults, hostKills>>

(* --- the way up: handle_up ------------------------------------------------ *)

\* What is refused before the first command leaves the host alone.
Up(p, options) == Begin(p, [NotUp EXCEPT !.pc = "killswitch", !.options = options])

\* Run a command: go on to pc with the host as given, holding the items.
Done(p, pc, newHost, items) ==
  /\ machine' = newHost
  /\ up' = [up EXCEPT ![p].pc = pc, ![p].held = @ \cup items]
  /\ UNCHANGED hostFaults

\* The command fails: undo in the order of todo.
Fails(p, todo) ==
  /\ hostFaults < MaxHostFaults
  /\ hostFaults' = hostFaults + 1
  /\ up' = [up EXCEPT ![p].pc = "unwind", ![p].todo = todo]
  /\ UNCHANGED machine

Refused(p, todo) ==
  /\ up' = [up EXCEPT ![p].pc = "unwind", ![p].todo = todo]
  /\ UNCHANGED <<machine, hostFaults>>

Wants(p, option) == option \in up[p].options

\* A slip: a killswitch that could not be completed is left as it is.
AfterKillswitch_nothing == <<>>

\* What error_with_cleanup, finish_up_cleanup and then the destructors undo.
AfterKillswitch == <<"killswitch", "killswitch">>
AfterTun == <<"tun", "killswitch", "tun", "killswitch">>
AfterNat == <<"nat", "nat">> \o AfterTun
AfterMss == <<"mss", "mss", "tun", "nat", "killswitch", "nat", "tun", "killswitch">>
AfterControl == <<"tun", "mss", "nat", "killswitch", "mss", "nat", "tun", "killswitch">>

UpCleanupOrder == <<"mss", "nat", "killswitch", "tun", "mss", "nat", "tun", "killswitch">>

\* apply_linux_firewall_plan for the killswitch: a table left behind is
\* deleted as far as possible ...
DeleteStaleKillswitch(p) ==
  /\ platform = "linux" /\ up[p].pc = "killswitch"
  /\ \/ ~ Wants(p, "killswitch") /\ Done(p, "tun open", machine, {}) /\ UNCHANGED leftover
     \/ /\ Wants(p, "killswitch")
        /\ Done(p, "killswitch table", [machine EXCEPT !.drop = FALSE, !.allow = {}], {"killswitch"})
        /\ UNCHANGED leftover
     \/ /\ Wants(p, "killswitch") /\ hostFaults < MaxHostFaults
        /\ hostFaults' = hostFaults + 1
        /\ up' = [up EXCEPT ![p].pc = "killswitch table", ![p].held = {"killswitch"}]
        /\ leftover' = IF machine.drop THEN leftover \cup {"stale"} ELSE leftover
        /\ UNCHANGED machine
  /\ UNCHANGED <<platform, before, mutex, ups, hostKills, together>>

\* ... then the table with its dropping chain is added, then the rules.
AddKillswitchTable(p) ==
  /\ up[p].pc = "killswitch table"
  /\ \/ Done(p, "killswitch rules", [machine EXCEPT !.drop = TRUE], {})
     \/ Fails(p, AfterKillswitch)
  /\ UNCHANGED <<platform, before, mutex, ups, hostKills, together, leftover>>

AddKillswitchRules(p) ==
  /\ up[p].pc = "killswitch rules"
  /\ \/ machine.drop /\ Done(p, "tun open", [machine EXCEPT !.allow = @ \cup {p}], {})
     \/ ~ machine.drop /\ Refused(p, AfterKillswitch)   \* somebody deleted the table
     \/ Fails(p, AfterKillswitch)
  /\ UNCHANGED <<platform, before, mutex, ups, hostKills, together, leftover>>

\* A slip: the filters are replaced without asking for the mutex.
WindowsKillswitchGuard_apply_unlocked(p) ==
  /\ platform = "windows" /\ up[p].pc = "killswitch"
  /\ \/ ~ Wants(p, "killswitch") /\ Done(p, "tun open", machine, {}) /\ UNCHANGED mutex
     \/ /\ Wants(p, "killswitch")
        /\ \/ /\ Done(p, "tun open", [machine EXCEPT !.drop = TRUE, !.allow = {p}], {"killswitch"})
              /\ mutex' = {p}
           \/ Fails(p, AfterKillswitch) /\ UNCHANGED mutex
  /\ UNCHANGED <<platform, before, ups, hostKills, together, leftover>>

\* WindowsKillswitchGuard::apply: one transaction, under the mutex.  When it
\* is aborted, the guard's destructor still deletes the filters that bear the
\* keys it had added, also those a killed process has left.
WindowsKillswitchGuard_apply(p) ==
  /\ platform = "windows" /\ up[p].pc = "killswitch"
  /\ \/ ~ Wants(p, "killswitch") /\ Done(p, "tun open", machine, {}) /\ UNCHANGED mutex
     \/ /\ Wants(p, "killswitch") /\ mutex = {}
        /\ \/ /\ Done(p, "tun open", [machine EXCEPT !.drop = TRUE, !.allow = {p}], {"killswitch"})
              /\ mutex' = {p}
           \/ Fails(p, AfterKillswitch) /\ UNCHANGED mutex
           \/ /\ hostFaults < MaxHostFaults
              /\ hostFaults' = hostFaults + 1
              /\ up' = [up EXCEPT ![p].pc = "unwind", ![p].todo = AfterKillswitch]
              /\ machine' = [machine EXCEPT !.drop = FALSE, !.allow = {}]
              /\ UNCHANGED mutex
     \/ /\ Wants(p, "killswitch") /\ mutex # {}
        /\ Refused(p, AfterKillswitch) /\ UNCHANGED mutex
  /\ UNCHANGED <<platform, before, ups, hostKills, together, leftover>>

\* TunDevice::open and NativeTunMutationGuard::capture.
TunOpen(p) ==
  /\ up[p].pc = "tun open"
  /\ \/ Done(p, "require native", machine, IF Wants(p, "native") THEN {"tun"} ELSE {})
     \/ Fails(p, AfterKillswitch)
  /\ UNCHANGED <<platform, before, mutex, ups, hostKills, together, leftover>>

\* The options that need a native device, and allow_interface.
RequireNative(p) ==
  /\ up[p].pc = "require native"
  /\ IF ~ Wants(p, "native") /\ (Wants(p, "killswitch") \/ Wants(p, "mss"))
     THEN Refused(p, AfterKillswitch)
     ELSE \/ Done(p, "tun", machine, {})
          \/ Fails(p, <<"killswitch", "tun", "killswitch">>)
  /\ UNCHANGED <<platform, before, mutex, ups, hostKills, together, leftover>>

\* configure_native_tun_mtu, _link_up and _route_priority; some of them may
\* have run before one fails.
ConfigureTun(p) ==
  /\ up[p].pc = "tun"
  /\ \/ Done(p, "nat", IF Wants(p, "native") THEN [machine EXCEPT !.tun = TRUE] ELSE machine, {})
     \/ /\ Wants(p, "native")
        /\ hostFaults < MaxHostFaults
        /\ hostFaults' = hostFaults + 1
        /\ up' = [up EXCEPT ![p].pc = "unwind", ![p].todo = AfterTun]
        /\ machine' \in {machine, [machine EXCEPT !.tun = TRUE]}
  /\ UNCHANGED <<platform, before, mutex, ups, hostKills, together, leftover>>

\* apply_nat: nothing on Windows, and without a native device.  Forwarding
\* is read and switched on in one step (two in the code, and nobody between
\* them but another process).
SwitchForwarding(p) ==
  /\ up[p].pc = "nat"
  /\ IF platform = "windows" \/ ~ Wants(p, "nat") \/ ~ Wants(p, "native")
     THEN Done(p, "mss", machine, {})
     ELSE \/ /\ machine' = [machine EXCEPT !.forward = TRUE]
             /\ up' = [up EXCEPT ![p].pc = "nat tables", ![p].previous = machine.forward,
                                 ![p].held = @ \cup {"forward", "nat"}]
             /\ UNCHANGED hostFaults
          \/ /\ hostFaults < MaxHostFaults
             /\ hostFaults' = hostFaults + 1
             /\ up' = [up EXCEPT ![p].pc = "unwind", ![p].todo = <<"nat">> \o AfterTun,
                                 ![p].held = @ \cup {"nat"}]
             /\ UNCHANGED machine
  /\ UNCHANGED <<platform, before, mutex, ups, hostKills, together, leftover>>

AddNatTables(p) ==
  /\ up[p].pc = "nat tables"
  /\ \/ Done(p, "mss", [machine EXCEPT !.nat = TRUE], {})
     \/ /\ hostFaults < MaxHostFaults
        /\ hostFaults' = hostFaults + 1
        /\ up' = [up EXCEPT ![p].pc = "unwind", ![p].todo = AfterNat]
        /\ machine' \in {machine, [machine EXCEPT !.nat = TRUE]}
  /\ UNCHANGED <<platform, before, mutex, ups, hostKills, together, leftover>>

\* apply_mss_clamp, which Windows does not have: the plan of the killswitch.
apply_mss_clamp(p) ==
  /\ up[p].pc = "mss"
  /\ IF ~ Wants(p, "mss") THEN Done(p, "control plane", machine, {})
     ELSE IF platform = "windows" THEN Refused(p, AfterMss)
     ELSE \/ Done(p, "control plane", [machine EXCEPT !.mss = TRUE], {"mss"})
          \/ /\ hostFaults < MaxHostFaults
             /\ hostFaults' = hostFaults + 1
             /\ up' = [up EXCEPT ![p].pc = "unwind", ![p].todo = AfterMss, ![p].held = @ \cup {"mss"}]
             /\ machine' \in {[machine EXCEPT !.mss = FALSE], [machine EXCEPT !.mss = TRUE]}
  /\ UNCHANGED <<platform, before, mutex, ups, hostKills, together, leftover>>

\* apply_control_plane_with_underlay and save_control_plane_state.
ApplyControlPlane(p) ==
  /\ up[p].pc = "control plane"
  /\ \/ Done(p, "session", machine, {})
     \/ Fails(p, AfterControl)
     \/ Fails(p, UpCleanupOrder)
  /\ UNCHANGED <<platform, before, mutex, ups, hostKills, together, leftover>>

\* The session ends, with an error or not.
UpSessionEnds(p) ==
  /\ up[p].pc = "session"
  /\ up' = [up EXCEPT ![p].pc = "unwind", ![p].todo = UpCleanupOrder]
  /\ UNCHANGED <<platform, machine, before, mutex, ups, hostFaults, hostKills, together, leftover>>

(* --- the way back ---------------------------------------------------------- *)

\* The commands of one guard; those of the killswitch and of NAT delete the
\* tables, whoever put them there.
Undone(p, item) ==
  CASE item = "killswitch" -> [machine EXCEPT !.drop = FALSE, !.allow = {}]
    [] item = "mss" -> [machine EXCEPT !.mss = FALSE]
    [] item = "tun" -> [machine EXCEPT !.tun = FALSE]
    [] item = "nat" -> [machine EXCEPT !.nat = FALSE, !.forward = up[p].previous]

PartsOf(item) == IF item = "nat" THEN {"nat", "forward"} ELSE {item}

\* FirewallGuard, NatGuard, NativeTunMutationGuard: cleanup and drop.  What
\* fails stays held, for the second time round; NAT's two parts fail apart.
cleanup(p) ==
  /\ up[p].pc = "unwind" /\ up[p].todo # <<>>
  /\ LET item == Head(up[p].todo)
         held == up[p].held \cap PartsOf(item)
         Rest(h) == up' = [up EXCEPT ![p].todo = Tail(@), ![p].held = (@ \ held) \cup h]
     IN \/ /\ machine' = IF held = {} THEN machine
                      ELSE IF item = "nat" /\ "nat" \notin held
                      THEN [machine EXCEPT !.forward = up[p].previous]
                      ELSE IF item = "nat" /\ "forward" \notin held
                      THEN [machine EXCEPT !.nat = FALSE]
                      ELSE Undone(p, item)
           /\ Rest({})
           /\ mutex' = IF held = {"killswitch"} THEN mutex \ {p} ELSE mutex
           /\ UNCHANGED <<hostFaults, leftover>>
        \/ /\ held # {} /\ hostFaults < MaxHostFaults
           /\ hostFaults' = hostFaults + 1
           /\ \/ Rest(held) /\ UNCHANGED machine
              \/ /\ item = "nat" /\ "nat" \in held
                 /\ Rest({"forward"} \cap held)
                 /\ machine' = [machine EXCEPT !.nat = FALSE]
              \/ /\ "forward" \in held
                 /\ Rest({"nat"} \cap held)
                 /\ machine' = [machine EXCEPT !.forward = up[p].previous]
           /\ leftover' = IF \E k \in 2 .. Len(up[p].todo) : up[p].todo[k] = item
                          THEN leftover ELSE leftover \cup {"undo"}
           /\ UNCHANGED mutex
  /\ UNCHANGED <<platform, before, ups, hostKills, together>>

UpReturns(p) ==
  /\ up[p].pc = "unwind" /\ up[p].todo = <<>>
  /\ up' = [up EXCEPT ![p] = NotUp]
  /\ mutex' = mutex \ {p}
  /\ UNCHANGED <<platform, machine, before, ups, hostFaults, hostKills, together, leftover>>

\* The process is killed; the mutex goes with it, the host stays as it is.
Kill(p) ==
  /\ up[p].pc # "idle" /\ hostKills < MaxHostKills
  /\ hostKills' = hostKills + 1
  /\ up' = [up EXCEPT ![p] = NotUp]
  /\ mutex' = mutex \ {p}
  /\ leftover' = leftover \cup {"kill"}
  /\ UNCHANGED <<platform, machine, before, ups, hostFaults, together>>

\* handle_down: cleanup_firewall_state after the control plane's undo, which
\* is module ControlPlane's.  The MSS table is not looked at when deleting
\* the killswitch failed; a probe that fails counts as a missing table.  On
\* Windows clear_stale needs the mutex.
Down(p) == Begin(p, [NotUp EXCEPT !.pc = "down killswitch"])

cleanup_firewall_state(p) ==
  /\ \/ /\ up[p].pc = "down killswitch" /\ (platform = "linux" \/ mutex = {})
        /\ machine' = [machine EXCEPT !.drop = FALSE, !.allow = {}]
        /\ up' = [up EXCEPT ![p] = IF platform = "linux" THEN [NotUp EXCEPT !.pc = "down mss"] ELSE NotUp]
        /\ UNCHANGED hostFaults
     \/ /\ up[p].pc = "down mss"
        /\ machine' = [machine EXCEPT !.mss = FALSE]
        /\ up' = [up EXCEPT ![p] = NotUp]
        /\ UNCHANGED hostFaults
     \/ /\ up[p].pc = "down killswitch" /\ platform = "linux"     \* the probe fails
        /\ hostFaults < MaxHostFaults /\ hostFaults' = hostFaults + 1
        /\ up' = [up EXCEPT ![p].pc = "down mss"]
        /\ UNCHANGED machine
     \/ /\ up[p].pc \in {"down killswitch", "down mss"}
        /\ \/ platform = "windows" /\ mutex # {} /\ UNCHANGED hostFaults
           \/ hostFaults < MaxHostFaults /\ hostFaults' = hostFaults + 1
        /\ up' = [up EXCEPT ![p] = NotUp]
        /\ UNCHANGED machine
  /\ UNCHANGED <<platform, before, mutex, ups, hostKills, together, leftover>>

HostNext ==
  \E p \in Hosts :
    \/ \E options \in UpOptions : Up(p, options)
    \/ DeleteStaleKillswitch(p) \/ AddKillswitchTable(p) \/ AddKillswitchRules(p)
    \/ WindowsKillswitchGuard_apply(p) \/ TunOpen(p) \/ RequireNative(p) \/ ConfigureTun(p)
    \/ SwitchForwarding(p) \/ AddNatTables(p) \/ apply_mss_clamp(p) \/ ApplyControlPlane(p)
    \/ UpSessionEnds(p) \/ cleanup(p) \/ UpReturns(p) \/ Kill(p)
    \/ Down(p) \/ cleanup_firewall_state(p)

(* --- properties ------------------------------------------------------------- *)

(***************************************************************************)
(* From before the TUN device exists until the session is over, a process  *)
(* that was asked for the killswitch has the host drop every packet that   *)
(* is not to its peer.  On Linux this holds as long as no other `up` or    *)
(* `down` runs meanwhile, and a table left by a killed process, which      *)
(* could not be deleted, may let packets to that one's peer through.  On   *)
(* Windows it holds whatever other processes do.                           *)
(***************************************************************************)
KillswitchHeld ==
  \A p \in Hosts :
    /\ Wants(p, "killswitch")
    /\ up[p].pc \in {"tun open", "require native", "tun", "nat", "nat tables", "mss",
                     "control plane", "session"}
    /\ platform = "linux" => p \notin together
    => machine.drop /\ (machine.allow = {p} \/ (platform = "linux" /\ "stale" \in leftover))

(***************************************************************************)
(* When no `up` is running the host is as it was before the first one, on  *)
(* whatever step each of them failed, as long as none was ever killed,     *)
(* none ever ran beside another command (two of them may undo each other's *)
(* changes in an order that leaves IPv4 forwarding on, for good), and no   *)
(* undo failed both when it was due and in the destructor.                 *)
(***************************************************************************)
HostRestored ==
  Active = {} /\ leftover = {} => machine = before
=============================================================================
