---------------------------------- MODULE Edge ----------------------------------
(***************************************************************************)
(* The relay services beside the VPN sessions, each explored by itself:    *)
(* the front door of the edge, its server connections, its SOCKS5 client   *)
(* over HTTP/2 and HTTP/3, and the onion relays.  They share no state in   *)
(* one process but the front door, whose answer is a choice of EdgeServe.  *)
(***************************************************************************)
EXTENDS FrontDoor, EdgeClient, EdgeServe, Onion

edgeVars == <<doorVars, clientVars, serveVars, onionVars>>

EdgeInit ==
  \E part \in {"door", "h2 client", "h3 client", "h2 server", "h3 server", "onion"} :
    /\ DoorInit(part = "door")
    /\ ClientInit(CASE part = "h2 client" -> "h2" [] part = "h3 client" -> "h3"
                    [] OTHER -> "off")
    /\ ServeInit(CASE part = "h2 server" -> "h2" [] part = "h3 server" -> "h3"
                   [] OTHER -> "off")
    /\ OnionInit(IF part = "onion" THEN "on" ELSE "off")

EdgeNext ==
  \/ DoorNext /\ UNCHANGED <<clientVars, serveVars, onionVars>>
  \/ ClientNext /\ UNCHANGED <<doorVars, serveVars, onionVars>>
  \/ ServeNext /\ UNCHANGED <<doorVars, clientVars, onionVars>>
  \/ OnionNext /\ UNCHANGED <<doorVars, clientVars, serveVars>>

Spec == EdgeInit /\ [][EdgeNext]_edgeVars
=============================================================================
