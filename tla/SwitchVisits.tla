--------------------------- MODULE SwitchVisits ---------------------------
(***************************************************************************)
(* Switch with a history variable: how long ago the entry of each host was *)
(* last visited, that is inserted by insert_mac_port or found by one of    *)
(* the two lookups of handle_packet.  The comments of mac.h and mac.c      *)
(* speak of that time; the code keeps the time of the insertion only.      *)
(***************************************************************************)
EXTENDS Switch

VARIABLE unvisited   \* seconds since each host's entry was last visited

visitVars == <<vars, unvisited>>

VisitInit ==
  /\ Init
  /\ unvisited = [m \in MAC |-> AgeCap]

(* The hosts whose entry the next step of the packet thread visits: the    *)
(* destination or the source that lookup_port finds, or the host inserted. *)
Visits ==
  CASE pc = "lookup_dst" -> {cur.dst} \ {m \in MAC \cup Group : Unknown(m)}
    [] pc = "lookup_src" -> {cur.src} \ {m \in MAC : Unknown(m)}
    [] pc = "insert"     -> {cur.src}
    [] OTHER             -> {}

VisitNext ==
  \/ /\ PacketThread
     /\ unvisited' = [m \in MAC |-> IF m \in Visits THEN 0 ELSE unvisited[m]]
  \/ /\ Clock
     /\ unvisited' = [m \in MAC |-> Older(unvisited[m])]
  \/ /\ \/ \E m \in MAC, d \in MAC \cup Group, in \in Iface : Recv(m, d, in)
        \/ SweepThread
        \/ \E m \in Mobile, iface \in Iface : Move(m, iface)
     /\ UNCHANGED unvisited

VisitSpec == VisitInit /\ [][VisitNext]_visitVars
-----------------------------------------------------------------------------
(* An entry leaves the table only when it has not been visited for         *)
(* MAC_PORT_TIMEOUT seconds: whatever was visited since is still there.    *)
VisitedStay ==
  \A m \in MAC : unvisited[m] < MAC_PORT_TIMEOUT => lookup_port(m) # NULL
=============================================================================
