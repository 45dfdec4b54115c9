------------------------------ MODULE Switch ------------------------------
(***************************************************************************)
(* The learning switch: the packet thread (main.c, packet.c) around the    *)
(* forwarding database of MacPortMap, the sweeping thread, and the hosts,  *)
(* some of which may be moved to another interface while frames of theirs  *)
(* are being handled.                                                      *)
(***************************************************************************)
EXTENDS MacPortMap

CONSTANTS
  Group,     \* destination addresses no host owns (broadcast, multicast)
  Mobile     \* the hosts that may be plugged into another interface

ASSUME GroupAssumption == Group \cap MAC = {} /\ NULL \notin MAC \cup Group
ASSUME MobileAssumption == Mobile \subseteq MAC

VARIABLES
  pc,        \* where the packet thread is
  cur,       \* the frame handle_packet is working on
  tx,        \* the interfaces that frame was sent out of
  attach,    \* the interface each host is plugged into
  quiet      \* history: seconds since a host moved, or since the switch
             \* learned it at an interface it had left

vars == <<mac_port_map, idle, pc, cur, tx, attach, quiet>>

Frame == [src : MAC, dst : MAC \cup Group, in : Iface]
NoFrame == [src |-> NULL, dst |-> NULL, in |-> NULL]

TypeOK ==
  /\ TableTypeOK
  /\ pc \in {"recv", "lookup_dst", "lookup_src", "insert"}
  /\ cur \in Frame \cup {NoFrame}
  /\ (pc = "recv") <=> (cur = NoFrame)
  /\ tx \in SUBSET Iface
  /\ attach \in [MAC -> Iface]
  /\ quiet \in [MAC -> 0 .. AgeCap]

Init ==
  /\ TableInit
  /\ pc = "recv"
  /\ cur = NoFrame
  /\ tx = {}
  /\ attach \in [MAC -> Iface]
  /\ quiet = [m \in MAC |-> AgeCap]
-----------------------------------------------------------------------------
(* handle_packet is called with a frame from m to d. *)
Enter(m, d, in) ==
  /\ pc = "recv"
  /\ pc' = "lookup_dst"
  /\ cur' = [src |-> m, dst |-> d, in |-> in]
  /\ UNCHANGED <<mac_port_map, idle, tx, attach, quiet>>

(* ustack_run receives a frame that host m sent to d.  It may have waited  *)
(* in a socket since before the host was moved.                            *)
Recv(m, d, in) ==
  /\ in = attach[m] \/ m \in Mobile
  /\ Enter(m, d, in)

(* Variant: the loop over the interfaces ends with the first send. *)
BroadcastStops(iface) == {CHOOSE k \in Iface : k # iface}

(* The interfaces a frame is put on: by one call, and by the loop over all *)
(* the interfaces but the one it came from.                                *)
iface_send_packet(iface) == {iface}
broadcast_packet(iface) == UNION {iface_send_packet(k) : k \in Iface \ {iface}}

(* First half of handle_packet: forward to the known interface of the      *)
(* destination, or broadcast.                                              *)
Forward ==
  /\ pc = "lookup_dst"
  /\ pc' = "lookup_src"
  /\ LET tx_iface == lookup_port(cur.dst)
     IN  tx' = IF tx_iface # NULL THEN iface_send_packet(tx_iface)
                                  ELSE broadcast_packet(cur.in)
  /\ UNCHANGED <<mac_port_map, idle, cur, attach, quiet>>

(* Variant: the frame of the last call is still there. *)
DoneKeepsFrame ==
  /\ pc' = "recv"
  /\ tx' = {}
  /\ UNCHANGED cur

(* handle_packet returns to ustack_run. *)
Done ==
  /\ pc' = "recv"
  /\ cur' = NoFrame
  /\ tx' = {}

(* Variant: every source is taken for a new one. *)
AnySource(mac) == TRUE

Unknown(mac) == lookup_port(mac) = NULL

(* Second half of handle_packet: learn the source, unless it is known. *)
KnownSource ==
  /\ pc = "lookup_src"
  /\ ~ Unknown(cur.src)
  /\ Done
  /\ UNCHANGED <<mac_port_map, idle, attach, quiet>>

NewSource ==
  /\ pc = "lookup_src"
  /\ Unknown(cur.src)
  /\ pc' = "insert"
  /\ UNCHANGED <<mac_port_map, idle, cur, tx, attach, quiet>>

Learn ==
  /\ pc = "insert"
  /\ insert_mac_port(cur.src, cur.in)
  /\ quiet' = IF attach[cur.src] = cur.in THEN quiet
                                          ELSE [quiet EXCEPT ![cur.src] = 0]
  /\ Done
  /\ UNCHANGED <<idle, attach>>

(* The sweeping thread. *)
SweepThread ==
  /\ Sweep
  /\ UNCHANGED <<pc, cur, tx, attach, quiet>>

Clock ==
  /\ Tick
  /\ quiet' = [m \in MAC |-> Older(quiet[m])]
  /\ UNCHANGED <<pc, cur, tx, attach>>

(* A host is unplugged and plugged into another interface. *)
Move(m, iface) ==
  /\ attach[m] # iface
  /\ attach' = [attach EXCEPT ![m] = iface]
  /\ quiet' = [quiet EXCEPT ![m] = 0]
  /\ UNCHANGED <<mac_port_map, idle, pc, cur, tx>>

PacketThread == Forward \/ KnownSource \/ NewSource \/ Learn

Next ==
  \/ \E m \in MAC, d \in MAC \cup Group, in \in Iface : Recv(m, d, in)
  \/ PacketThread
  \/ SweepThread
  \/ Clock
  \/ \E m \in Mobile, iface \in Iface : Move(m, iface)

Spec == Init /\ [][Next]_vars

(* Both threads run in endless loops and time passes; frames need not      *)
(* arrive and hosts need not move.                                         *)
FairSpec ==
  /\ Spec
  /\ WF_vars(PacketThread)
  /\ WF_vars(SweepThread)
  /\ WF_vars(Clock)
-----------------------------------------------------------------------------
(* The packet thread and the sweeping thread use the forwarding database   *)
(* as its specification allows: handle_packet inserts only addresses that  *)
(* are not in the table at that moment, sweeps in between included.        *)
ImplementsTable == TableSpec

(* A frame to a host that has been settled for longer than any entry lives *)
(* reaches the segment of that host: an entry that still names the         *)
(* interface the host left cannot outlive MaxAge seconds, even if the      *)
(* switch learned it from a frame it was handling during the move.         *)
SettledDelivery ==
  [][ (/\ pc = "lookup_dst" /\ pc' = "lookup_src"
       /\ cur.dst \in MAC /\ quiet[cur.dst] > MaxAge)
      => attach[cur.dst] \in tx' \cup {cur.in} ]_vars

(* A host that has fallen silent, and that no frame is sent to, is         *)
(* forgotten for good, however many entries of other hosts come before its *)
(* own in the list: each sweep removes one entry, and others are learned   *)
(* all the time.                                                           *)
Forgotten ==
  \A m \in MAC :
    <>[](m \notin {cur.src, cur.dst}) => <>[](lookup_port(m) = NULL)

(* An address missed by the lookup of handle_packet is still absent when   *)
(* insert_mac_port runs, since no other thread inserts.                    *)
MissStillMisses == pc = "insert" => lookup_port(cur.src) = NULL

(* An entry that names an interface its host is not plugged into is at     *)
(* least as old as the move, or the late learning, that made it wrong.     *)
StaleAge ==
  \A k \in DOMAIN mac_port_map :
    LET e == mac_port_map[k]
    IN  e.iface # attach[e.mac] => quiet[e.mac] <= e.age

(* The inductive invariant behind TableSpec and SettledDelivery. *)
SwitchInv == TypeOK /\ TableInv /\ MissStillMisses /\ StaleAge
=============================================================================
