-------------------------------- MODULE Node --------------------------------
(***************************************************************************)
(* What a node keeps on its host, besides its sessions and the control     *)
(* plane: the firewall, NAT and TUN guards of `up` (HostGuards), the       *)
(* keystore, configuration and certificate files (Stores), the audit       *)
(* journal (AuditJournal), the published identity records (Discovery) and  *)
(* the shares of a split secret (Shamir).  They share nothing in memory or *)
(* on disk, so a behaviour exercises one of them and the others rest.      *)
(***************************************************************************)
EXTENDS HostGuards, Stores, AuditJournal, Discovery, Shamir

nodeVars == <<hostVars, storeVars, auditVars, discoveryVars, shamirVars>>

NodeInit ==
  \E p \in {"guards", "save", "quic", "pins", "audit", "discovery", "shamir"} :
    /\ StoreInit(p)
    /\ HostInit(p = "guards")
    /\ AuditInit(p = "audit")
    /\ DiscoveryInit(p = "discovery")
    /\ ShamirInit(p = "shamir")

NodeNext ==
  \/ HostNext /\ UNCHANGED <<storeVars, auditVars, discoveryVars, shamirVars>>
  \/ StoreNext /\ UNCHANGED <<hostVars, auditVars, discoveryVars, shamirVars>>
  \/ AuditNext /\ UNCHANGED <<hostVars, storeVars, discoveryVars, shamirVars>>
  \/ DiscoveryNext /\ UNCHANGED <<hostVars, storeVars, auditVars, shamirVars>>
  \/ ShamirNext /\ UNCHANGED <<hostVars, storeVars, auditVars, discoveryVars>>

NodeSpec == NodeInit /\ [][NodeNext]_nodeVars
=============================================================================
