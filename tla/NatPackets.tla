---------------------------- MODULE NatPackets ----------------------------
(***************************************************************************)
(* What the two versions of the address translator have in common: the     *)
(* packets, the ports and the bounds of a check.                           *)
(*                                                                         *)
(* A port is a u16 of two bytes with ByteBase values each (256 in the      *)
(* code); packets and mappings hold ports in network byte order, the pool  *)
(* is indexed in host byte order.                                          *)
(***************************************************************************)
EXTENDS Integers, FiniteSets, Sequences, FiniteSetsExt

CONSTANTS
  Inside, Outside,   \* the addresses of the private and the public hosts
  external_ip,       \* the address of the external interface, n1-eth1
  internal_ip,       \* the address of the internal interface, n1-eth0
  HostPort,          \* the ports that hosts use, in network byte order
  NatPort,           \* the ports that hosts address the translator at
  ByteBase,
  NAT_PORT_MIN, NAT_PORT_MAX,
  TCP_TIMEOUT,       \* the 60 seconds of nat_timeout
  Stalls,            \* for how many seconds the timeout thread may be held up
  MaxMappings,       \* bound on the number of mappings inserted
  MaxTime            \* bound on the clock

Port == 0 .. ByteBase * ByteBase - 1
PoolRange == NAT_PORT_MIN .. NAT_PORT_MAX

ASSUME AddressAssumption ==
  /\ Inside \cap Outside = {}
  /\ {external_ip, internal_ip} \cap (Inside \cup Outside) = {}
ASSUME BaseAssumption == ByteBase \in Nat \ {0, 1}
ASSUME PortAssumption ==
  /\ HostPort \subseteq Port /\ NatPort \subseteq Port
  /\ PoolRange \subseteq Port \ {0, ByteBase * ByteBase - 1}
  /\ NAT_PORT_MIN <= NAT_PORT_MAX
ASSUME TimeAssumption ==
  /\ TCP_TIMEOUT \in Nat \ {0} /\ Stalls \subseteq Nat /\ MaxTime \in Nat
ASSUME MappingsAssumption == MaxMappings \in Nat

(* htons and ntohs swap the two bytes of a port. *)
htons(port) == (port % ByteBase) * ByteBase + port \div ByteBase

Address == Inside \cup Outside \cup {external_ip, internal_ip}
Endpoint == [ip : Address, port : Port]
Packet == [src : Endpoint, dst : Endpoint, proto : {"TCP", "ICMP"}]
None == [pc |-> "none"]
Idle == [pc |-> "idle"]

(* The TCP packets that hosts send: from their own address and port to any *)
(* other address.                                                          *)
Sources == [ip : Inside \cup Outside, port : HostPort]
Targets == [ip : Address \ {external_ip}, port : HostPort]
           \cup [ip : {external_ip}, port : NatPort]
Arrivals == {pkt \in [src : Sources, dst : Targets, proto : {"TCP"}] :
               pkt.src.ip # pkt.dst.ip}

(* The first entry of a list in a set of matching ones; 0 for NULL. *)
First(S) == IF S = {} THEN 0 ELSE Min(S)
=============================================================================
