------------------------------ MODULE NatHash ------------------------------
(***************************************************************************)
(* The second version of the address translator (nat_stack/nat_new_2.c,    *)
(* built in the place of nat.c): every mapping is stored twice, once in    *)
(* the bucket of its internal and once in that of its external endpoint,   *)
(* and a search looks into one bucket only.                                *)
(*                                                                         *)
(* A copy is known by its number in the order of insertion, which is also  *)
(* its place among the copies of its bucket.                               *)
(*                                                                         *)
(* A search, an insertion and a removal are one step each here, as under   *)
(* the lock that nat.h asks for and that the code does not take.  NatList  *)
(* has their single pointer writes, with the lock and without it.          *)
(***************************************************************************)
EXTENDS NatPackets

CONSTANTS
  HASH_8BITS,      \* the number of buckets
  hash             \* the bucket of every endpoint

ASSUME HashAssumption ==
  /\ HASH_8BITS \in Nat \ {0}
  /\ hash \in [Endpoint -> 0 .. HASH_8BITS - 1]

VARIABLES
  copies,          \* the copies of mappings inserted so far
  linked,          \* those in the buckets
  assigned_ports,  \* the ports whose byte in the pool is 1
  main,            \* the packet thread: pc, the packet, the copy found
  th,              \* the timeout thread: pc, now, bucket i, pos and q
  sent,            \* the packet just handed to ip_send_packet
  clock,
  stall            \* the timeout thread runs for at most this many seconds

table == <<copies, linked, assigned_ports>>
vars == <<table, main, th, sent, clock, stall>>

Copy == [inner : Endpoint, ext : Port, bucket : 0 .. HASH_8BITS - 1,
         time : 0 .. MaxTime]

(* What assign_external_port returns when the pool is exhausted. *)
NoPort == 0
-----------------------------------------------------------------------------
nat_hash(addr, port) == hash[[ip |-> addr, port |-> port]]

nat_lookup_external(port) ==
  First({c \in linked : /\ copies[c].bucket = nat_hash(external_ip, port)
                        /\ copies[c].ext = port})

nat_lookup_internal(inner) ==
  First({c \in linked : /\ copies[c].bucket = nat_hash(inner.ip, inner.port)
                        /\ copies[c].inner = inner})

(* Variant: the search starts one port too low. *)
PortsBelow == (NAT_PORT_MIN - 1 .. NAT_PORT_MAX) \ assigned_ports

FreePorts == PoolRange \ assigned_ports
assign_external_port == IF FreePorts = {} THEN NoPort ELSE Min(FreePorts)

get_packet_direction(pkt) ==
  IF pkt.dst.ip = external_ip THEN "DIR_IN" ELSE "DIR_OUT"

(* nat_table_init: empty buckets and pool, and the thread created. *)
Init ==
  /\ copies = << >>
  /\ linked = {}
  /\ assigned_ports = {}
  /\ main = Idle
  /\ th = [pc |-> "created", now |-> 0, i |-> 0, pos |-> 0, q |-> 0]
  /\ sent = None
  /\ clock = 0
  /\ stall \in Stalls
-----------------------------------------------------------------------------
(* A TCP packet reaches nat_translate_packet.                              *)
Recv(pkt) ==
  /\ main.pc = "idle"
  /\ main' = [pc |-> "lookup", pkt |-> pkt]
  /\ sent' = None
  /\ UNCHANGED <<table, th, clock, stall>>

(* nat_get_mapping_from_packet: one bucket is searched. *)
Lookup ==
  /\ main.pc = "lookup"
  /\ LET dir == get_packet_direction(main.pkt)
         map == IF dir = "DIR_IN"
                THEN nat_lookup_external(main.pkt.dst.port)
                ELSE nat_lookup_internal(main.pkt.src)
     IN  main' = [pc |-> IF map = 0 /\ dir = "DIR_OUT" THEN "insert"
                                                       ELSE "translate",
                  pkt |-> main.pkt, map |-> map, new |-> FALSE]
  /\ UNCHANGED <<table, th, sent, clock, stall>>

(* nat_insert_mapping, called for packets that leave only: the copy found  *)
(* by the internal endpoint.  A behaviour is not followed past the bound   *)
(* on mappings.                                                            *)
InsertInternal ==
  /\ main.pc = "insert"
  /\ Len(copies) < 2 * MaxMappings
  /\ LET port == assign_external_port
         src == main.pkt.src
     IN  /\ copies' = Append(copies, [inner |-> src, ext |-> htons(port),
                                      bucket |-> nat_hash(src.ip, src.port),
                                      time |-> 0])
         /\ assigned_ports' = assigned_ports \cup ({port} \ {NoPort})
  /\ linked' = linked \cup {Len(copies')}
  /\ main' = [main EXCEPT !.pc = "copy", !.map = Len(copies'), !.new = TRUE]
  /\ UNCHANGED <<th, sent, clock, stall>>

(* Variant: the second copy goes to the bucket of the first. *)
BesideFirst(m) == m

SecondCopy(m) == [m EXCEPT !.bucket = nat_hash(external_ip, m.ext)]

(* The copy found by the external port.  Only the first copy gets the time *)
(* of the insertion.                                                       *)
InsertExternal ==
  /\ main.pc = "copy"
  /\ copies' = Append([copies EXCEPT ![main.map].time = clock],
                      SecondCopy(copies[main.map]))
  /\ linked' = linked \cup {Len(copies')}
  /\ main' = [main EXCEPT !.pc = "translate"]
  /\ UNCHANGED <<assigned_ports, th, sent, clock, stall>>

(* Variant: the address of a packet from outside is not rewritten. *)
PortOnly(pkt, m) ==
  IF get_packet_direction(pkt) = "DIR_IN"
  THEN [pkt EXCEPT !.dst.port = m.inner.port]
  ELSE [pkt EXCEPT !.src = [ip |-> external_ip, port |-> m.ext]]

(* The packet rewritten by do_translation. *)
Translated(pkt, m) ==
  IF get_packet_direction(pkt) = "DIR_IN"
  THEN [pkt EXCEPT !.dst = m.inner]
  ELSE [pkt EXCEPT !.src = [ip |-> external_ip, port |-> m.ext]]

(* do_translation: rewrite, note the time in the copy found, and send. *)
Translate ==
  /\ main.pc = "translate" /\ main.map # 0
  /\ sent' = Translated(main.pkt, copies[main.map])
  /\ copies' = [copies EXCEPT ![main.map].time = clock]
  /\ main' = Idle
  /\ UNCHANGED <<linked, assigned_ports, th, clock, stall>>

(* A packet from outside to a port without a mapping takes the branch of   *)
(* those that leave, which dereferences NULL: the program dies.            *)
Crash ==
  /\ main.pc = "translate" /\ main.map = 0
  /\ main' = [main EXCEPT !.pc = "crashed"]
  /\ UNCHANGED <<table, th, sent, clock, stall>>
-----------------------------------------------------------------------------
(* The copy that a walk of bucket i finds behind pos (0 for the head). *)
Behind(i, pos) == First({c \in linked : copies[c].bucket = i /\ c > pos})
From(i, pos) == [th EXCEPT !.pc = "walk", !.i = i, !.pos = pos,
                           !.q = IF pos = 0 THEN 0 ELSE Behind(i, pos)]

Alive == main.pc # "crashed"

(* nat_timeout reads the clock once and walks every bucket once. *)
StartTimeout ==
  /\ Alive /\ th.pc = "created"
  /\ th' = [From(0, Behind(0, 0)) EXCEPT !.now = clock]
  /\ UNCHANGED <<table, main, sent, clock, stall>>

Advance == From(th.i, th.q)

(* The conn of every mapping: bzero'ed when it is inserted, and the call   *)
(* that would update it is commented out.                                  *)
conn == [external_fin |-> 0, internal_fin |-> 0,
         external_seq_end |-> 0, internal_seq_end |-> 0,
         external_ack |-> 0, internal_ack |-> 0]

is_flow_finished ==
  /\ conn.external_fin = 1 /\ conn.internal_fin = 1
  /\ conn.external_ack = conn.internal_seq_end + 1
  /\ conn.internal_ack = conn.external_seq_end + 1

Expired ==
  \/ is_flow_finished
  \/ copies[th.pos].time - th.now >= TCP_TIMEOUT

Keep ==
  /\ Alive /\ th.pc = "walk" /\ th.pos # 0 /\ ~Expired
  /\ th' = Advance
  /\ UNCHANGED <<table, main, sent, clock, stall>>

(* free_port is given the port in network byte order. *)
free_port(port) == assigned_ports' = assigned_ports \ ({port} \cap PoolRange)

FreePort ==
  /\ Alive /\ th.pc = "walk" /\ th.pos # 0 /\ Expired
  /\ free_port(copies[th.pos].ext)
  /\ th' = [th EXCEPT !.pc = "remove"]
  /\ UNCHANGED <<copies, linked, main, sent, clock, stall>>

Remove ==
  /\ Alive /\ th.pc = "remove"
  /\ linked' = linked \ {th.pos}
  /\ th' = Advance
  /\ UNCHANGED <<copies, assigned_ports, main, sent, clock, stall>>

NextBucket ==
  /\ Alive /\ th.pc = "walk" /\ th.pos = 0
  /\ th' = IF th.i < HASH_8BITS - 1 THEN From(th.i + 1, Behind(th.i + 1, 0))
                                    ELSE [th EXCEPT !.pc = "done"]
  /\ UNCHANGED <<table, main, sent, clock, stall>>

(* A second passes while the timeout thread is held up in its walk, which  *)
(* it is for at most stall seconds.  Nothing but the walk compares times,  *)
(* and only with the one it began at, so the clock stands still otherwise. *)
Tick ==
  /\ Alive
  /\ th.pc \in {"walk", "remove"}
  /\ clock < MaxTime /\ clock - th.now < stall
  /\ clock' = clock + 1
  /\ UNCHANGED <<table, main, th, sent, stall>>

PacketThread == Lookup \/ InsertInternal \/ InsertExternal \/ Translate \/ Crash
TimeoutThread == StartTimeout \/ Keep \/ FreePort \/ Remove \/ NextBucket

Next ==
  \/ \E pkt \in Arrivals : Recv(pkt)
  \/ PacketThread \/ TimeoutThread \/ Tick

Spec == Init /\ [][Next]_vars
-----------------------------------------------------------------------------
TypeOK ==
  /\ copies \in Seq(Copy)
  /\ linked \subseteq DOMAIN copies
  /\ assigned_ports \subseteq PoolRange
  /\ main.pc \in {"idle", "lookup", "insert", "copy", "translate", "crashed"}
  /\ main.pc # "idle" => main.pkt \in Packet
  /\ main.pc \in {"copy", "translate"} => main.map \in 0 .. Len(copies)
  /\ th.pc \in {"created", "walk", "remove", "done"}
  /\ th.i \in 0 .. HASH_8BITS - 1
  /\ {th.pos, th.q} \subseteq 0 .. Len(copies)
  /\ sent \in Packet \cup {None}
  /\ clock \in 0 .. MaxTime

(* The timeout thread is not held up for a whole timeout while it walks. *)
Prompt == stall < TCP_TIMEOUT

(* The bindings that the searches find in the buckets, without the mapping *)
(* that is being inserted: the packet in work is the first to use it.      *)
Inserted == IF main.pc \in {"copy", "translate"} /\ main.new
            THEN {main.map, main.map + 1} ELSE {}
Bound == {e \in {copies[c].inner : c \in linked \ Inserted} :
            nat_lookup_internal(e) # 0}
Given == {port \in {copies[c].ext : c \in linked \ Inserted} :
            nat_lookup_external(port) # 0}
B == INSTANCE NatBindings WITH
       Spare <- htons(NoPort),
       bind <- [e \in Bound |-> copies[nat_lookup_internal(e)].ext],
       owner <- [port \in Given |-> copies[nat_lookup_external(port)].inner],
       rcvd <- IF main.pc = "idle" THEN None ELSE main.pkt

(* The hash buckets keep the promise of a translator: whichever endpoints  *)
(* share a bucket, and although a mapping lives in two copies that are     *)
(* inserted and stamped apart, no binding changes, is given to two hosts   *)
(* or is missed, and every packet is rewritten, the first one included.    *)
ImplementsBindings == B!Init /\ [][Prompt => B!Step]_vars

(* The bucket that the external copy went to is the one searched for the   *)
(* reply: the port that an endpoint is seen under leads back to it.        *)
ReplyReachesSender == Prompt => B!RepliesReturn

(* The NULL dereference of do_translation is reached only by a packet to a *)
(* port that was never given out: no reply of a flow can end the program.  *)
CrashOnlyUnknown ==
  (Prompt /\ ~Alive) =>
    \A c \in DOMAIN copies : copies[c].ext # main.pkt.dst.port
=============================================================================
