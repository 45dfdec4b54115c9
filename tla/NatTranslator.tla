--------------------------- MODULE NatTranslator ---------------------------
(***************************************************************************)
(* The address translator (nat_stack/nat.c with the dispatch of main.c):   *)
(* the packet thread, which looks up or inserts mappings and rewrites the  *)
(* packets, and the timeout thread that nat_table_init starts.             *)
(*                                                                         *)
(* The mappings all go to nat_mapping_list[0], in the order of their       *)
(* insertion, and every search walks all the buckets, so the table is one  *)
(* list.  A mapping is known by its number in the order of insertion; what *)
(* was inserted stays in maps, linked and freed say what became of it.     *)
(*                                                                         *)
(* A search, an insertion and a removal are one step each here, as under   *)
(* the lock that nat.h asks for and that the code does not take.  NatList  *)
(* has their single pointer writes, with the lock and without it.          *)
(***************************************************************************)
EXTENDS NatPackets

VARIABLES
  maps,            \* the mappings inserted so far
  linked,          \* those in nat_mapping_list
  freed,           \* those handed back with free()
  assigned_ports,  \* the ports whose byte in the pool is 1
  main,            \* the packet thread: pc, the packet, the mapping found
  th,              \* the timeout thread: pc, now, and pos and q of its walk
  sent,            \* the packet just handed to ip_send_packet
  clock,
  stall            \* the timeout thread runs for at most this many seconds

table == <<maps, linked, freed, assigned_ports>>
vars == <<table, main, th, sent, clock, stall>>

(* What assign_external_port returns when the pool is exhausted: (u16)-1. *)
NoPort == ByteBase * ByteBase - 1

Mapping == [ip : Address, port : Port, ext : Port, time : 0 .. MaxTime]
-----------------------------------------------------------------------------
nat_lookup_external(external_port) ==
  First({i \in linked : maps[i].ext = external_port})

nat_lookup_internal(ip, port) ==
  First({i \in linked : maps[i].ip = ip /\ maps[i].port = port})

(* Variant: the search starts one port too low. *)
PortsBelow == (NAT_PORT_MIN - 1 .. NAT_PORT_MAX - 1) \ assigned_ports

(* The ports assign_external_port still finds; its loop never reaches      *)
(* NAT_PORT_MAX.                                                           *)
FreePorts == {i \in PoolRange : i < NAT_PORT_MAX /\ i \notin assigned_ports}
assign_external_port == IF FreePorts = {} THEN NoPort ELSE Min(FreePorts)

(* get_packet_direction: DIR_INVALID is never returned. *)
get_packet_direction(pkt) ==
  IF pkt.dst.ip = external_ip THEN "DIR_IN" ELSE "DIR_OUT"

nat_get_mapping_from_packet(pkt) ==
  IF get_packet_direction(pkt) = "DIR_IN"
  THEN nat_lookup_external(pkt.dst.port)
  ELSE nat_lookup_internal(pkt.src.ip, pkt.src.port)

(* nat_table_init: an empty table and pool, and the thread created. *)
Init ==
  /\ maps = << >>
  /\ linked = {}
  /\ freed = {}
  /\ assigned_ports = {}
  /\ main = Idle
  /\ th = [pc |-> "created", now |-> 0, pos |-> 0, q |-> 0]
  /\ sent = None
  /\ clock = 0
  /\ stall \in Stalls
-----------------------------------------------------------------------------
(* A TCP packet reaches nat_translate_packet.  Past the bound on mappings  *)
(* only packets of known flows are considered.                             *)
Recv(pkt) ==
  /\ main.pc = "idle"
  /\ Len(maps) < MaxMappings \/ nat_get_mapping_from_packet(pkt) # 0
  /\ main' = [pc |-> "lookup", pkt |-> pkt]
  /\ sent' = None
  /\ UNCHANGED <<table, th, clock, stall>>

(* handle_ip_packet answers an ICMP echo request to the address of the     *)
(* interface it came in on.  Any other packet that is not TCP is dropped,  *)
(* which changes nothing here.                                             *)
EchoReply(src) ==
  /\ main.pc = "idle"
  /\ LET own == IF src.ip \in Inside THEN internal_ip ELSE external_ip
     IN  sent' = [src |-> [ip |-> own, port |-> 0], dst |-> src,
                  proto |-> "ICMP"]
  /\ UNCHANGED <<table, main, th, clock, stall>>

(* do_translation: the search for the mapping. *)
Lookup ==
  /\ main.pc = "lookup"
  /\ main' = [pc |-> "translate", pkt |-> main.pkt,
              map |-> nat_get_mapping_from_packet(main.pkt)]
  /\ UNCHANGED <<table, th, sent, clock, stall>>

(* do_translation, first branch: rewrite the destination. *)
TranslateIn ==
  /\ main.pc = "translate" /\ main.map # 0
  /\ get_packet_direction(main.pkt) = "DIR_IN"
  /\ LET m == maps[main.map]
     IN  sent' = [main.pkt EXCEPT !.dst = [ip |-> m.ip, port |-> m.port]]
  /\ main' = Idle
  /\ UNCHANGED <<table, th, clock, stall>>

(* Variant: the port is not marked as assigned. *)
Unmarked(port) == {}

(* The byte of the pool that assign_external_port sets. *)
Marked(port) == {port} \ {NoPort}

(* nat_insert_mapping for the source of the packet. *)
nat_insert_mapping(src) ==
  LET port == assign_external_port
  IN  /\ maps' = Append(maps, [ip |-> src.ip, port |-> src.port,
                               ext |-> htons(port), time |-> clock])
      /\ linked' = linked \cup {Len(maps) + 1}
      /\ assigned_ports' = assigned_ports \cup Marked(port)

(* do_translation without a mapping, in either direction: insert one; the  *)
(* packet itself is sent as it came.                                       *)
InsertMapping ==
  /\ main.pc = "translate" /\ main.map = 0
  /\ nat_insert_mapping(main.pkt.src)
  /\ sent' = main.pkt
  /\ main' = Idle
  /\ UNCHANGED <<freed, th, clock, stall>>

(* Variant: only the port is rewritten. *)
PortOnly(m) == [ip |-> main.pkt.src.ip, port |-> m.ext]

External(m) == [ip |-> external_ip, port |-> m.ext]

(* do_translation, last branch: rewrite the source. *)
TranslateOut ==
  /\ main.pc = "translate" /\ main.map # 0
  /\ get_packet_direction(main.pkt) = "DIR_OUT"
  /\ sent' = [main.pkt EXCEPT !.src = External(maps[main.map])]
  /\ main' = Idle
  /\ UNCHANGED <<table, th, clock, stall>>
-----------------------------------------------------------------------------
(* The mapping a walk finds behind pos (0 for the list head). *)
Behind(pos) == First({i \in linked : i > pos})

(* nat_timeout reads the clock once and walks the list once. *)
StartTimeout ==
  /\ th.pc = "created"
  /\ th' = [pc |-> "walk", now |-> clock, pos |-> Behind(0),
            q |-> IF Behind(0) = 0 THEN 0 ELSE Behind(Behind(0))]
  /\ UNCHANGED <<table, main, sent, clock, stall>>

Advance == [th EXCEPT !.pc = "walk", !.pos = th.q,
                      !.q = IF th.q = 0 THEN 0 ELSE Behind(th.q)]

(* Variant: the timeout is not looked at. *)
Anytime == maps[th.pos].time - th.now >= 0

(* The test of the walk: update_time - now >= 60. *)
Expired == maps[th.pos].time - th.now >= TCP_TIMEOUT

Keep ==
  /\ th.pc = "walk" /\ th.pos # 0 /\ ~Expired
  /\ th' = Advance
  /\ UNCHANGED <<table, main, sent, clock, stall>>

(* free_port is given the port in network byte order. *)
free_port(port) == assigned_ports' = assigned_ports \ ({port} \cap PoolRange)

FreePort ==
  /\ th.pc = "walk" /\ th.pos # 0 /\ Expired
  /\ free_port(maps[th.pos].ext)
  /\ th' = [th EXCEPT !.pc = "remove"]
  /\ UNCHANGED <<maps, linked, freed, main, sent, clock, stall>>

Remove ==
  /\ th.pc = "remove"
  /\ linked' = linked \ {th.pos}
  /\ freed' = freed \cup {th.pos}
  /\ th' = Advance
  /\ UNCHANGED <<maps, assigned_ports, main, sent, clock, stall>>

EndTimeout ==
  /\ th.pc = "walk" /\ th.pos = 0
  /\ th' = [th EXCEPT !.pc = "done"]
  /\ UNCHANGED <<table, main, sent, clock, stall>>

(* A second passes; the timeout thread is held up for at most stall        *)
(* seconds after it has read the clock.                                    *)
Tick ==
  /\ clock < MaxTime
  /\ th.pc \in {"walk", "remove"} => clock - th.now < stall
  /\ clock' = clock + 1
  /\ UNCHANGED <<table, main, th, sent, stall>>

PacketThread == Lookup \/ TranslateIn \/ InsertMapping \/ TranslateOut
TimeoutThread == StartTimeout \/ Keep \/ FreePort \/ Remove \/ EndTimeout

(* What handle_packet is called with. *)
Arrival == \/ \E pkt \in Arrivals : Recv(pkt)
           \/ \E src \in Sources : EchoReply(src)

Next == Arrival \/ PacketThread \/ TimeoutThread \/ Tick

Spec == Init /\ [][Next]_vars

(* Both threads are scheduled and time passes. *)
FairSpec ==
  /\ Spec
  /\ WF_vars(PacketThread) /\ WF_vars(TimeoutThread) /\ WF_vars(Tick)
-----------------------------------------------------------------------------
TypeOK ==
  /\ maps \in Seq(Mapping)
  /\ linked \subseteq DOMAIN maps /\ freed \subseteq DOMAIN maps
  /\ assigned_ports \subseteq PoolRange
  /\ main.pc \in {"idle", "lookup", "translate"}
  /\ main.pc # "idle" => main.pkt \in Packet
  /\ main.pc = "translate" => main.map \in 0 .. Len(maps)
  /\ th.pc \in {"created", "walk", "remove", "done"}
  /\ th.pos \in 0 .. Len(maps) /\ th.q \in 0 .. Len(maps)
  /\ sent \in Packet \cup {None}
  /\ clock \in 0 .. MaxTime

(* The timeout thread is not held up for a whole timeout while it walks. *)
Prompt == stall < TCP_TIMEOUT

(* The pool marks exactly the ports that mappings hold, and no two         *)
(* mappings hold the same one, other than the port of an exhausted pool.   *)
PoolMatchesTable ==
  LET Held == {i \in linked : maps[i].ext # htons(NoPort)}
  IN  Prompt =>
        /\ assigned_ports = {htons(maps[i].ext) : i \in Held}
        /\ \A i, j \in Held : maps[i].ext = maps[j].ext => i = j

(* What the searches find in the table, as the bindings it represents. *)
Inner(i) == [ip |-> maps[i].ip, port |-> maps[i].port]
B == INSTANCE NatBindings WITH
       Spare <- htons(NoPort),
       bind <- [e \in {Inner(i) : i \in linked} |->
                  maps[nat_lookup_internal(e.ip, e.port)].ext],
       owner <- [port \in {maps[i].ext : i \in linked} |->
                   Inner(nat_lookup_external(port))],
       rcvd <- IF main.pc = "idle" THEN None ELSE main.pkt

(* The two threads keep the bindings: however the searches and insertions  *)
(* of the one fall between the steps of the other, no binding changes or   *)
(* is given to two hosts, and every packet that finds one follows it.      *)
KeepsBindings == B!Init /\ [][Prompt => B!KeepStep]_vars

(* The reply to a translated packet comes back to the host that sent it:   *)
(* searching the table by the port that lookup_internal gave an endpoint   *)
(* leads to that endpoint, as long as the pool was not exhausted.          *)
ReplyReachesSender == Prompt => B!RepliesReturn

(* The mapping that do_translation holds while it rewrites a packet has    *)
(* not been freed under it by the timeout thread.                          *)
MappingInUse ==
  (Prompt /\ main.pc = "translate" /\ main.map # 0) => main.map \in linked
-----------------------------------------------------------------------------
(* The whole promise of a translator.  It also demands that the source of  *)
(* a packet that leaves is replaced when this packet makes the mapping.    *)
ImplementsBindings == B!Init /\ [][Prompt => B!Step]_vars

(* A mapping whose timeout has passed is removed, as the comments say. *)
ExpiredAreRemoved ==
  \A i \in 1 .. MaxMappings :
    (i \in linked /\ clock - maps[i].time >= TCP_TIMEOUT)
      ~> (i \notin linked)
=============================================================================
