---------------------------- MODULE MacPortList ----------------------------
(***************************************************************************)
(* The forwarding database at the level of its memory: the doubly linked   *)
(* list of list.h, the walks over it and the pointer writes of the two     *)
(* threads that share it, one memory access of a thread at a time.         *)
(*                                                                         *)
(* mac.c takes no lock, so the operations of the two threads may overlap.  *)
(* Overlap = TRUE is that program.  Overlap = FALSE keeps the schedules in *)
(* which no operation starts while one of the other thread is under way;   *)
(* those are shown to implement MacPortMap, whose operations are atomic.   *)
(*                                                                         *)
(* The clock stands still during an operation: inside one, time(NULL) is   *)
(* read once and before the list is, so a later second changes nothing     *)
(* that the operation does.                                                *)
(***************************************************************************)
EXTENDS Naturals, FiniteSets, Sequences

CONSTANTS MAC, Iface, MAC_PORT_TIMEOUT, SweepPeriod,
  Node,      \* the heap blocks that malloc hands out, numbered from 1
  Overlap    \* whether the operations of the two threads may overlap

ASSUME NodeAssumption == IsFiniteSet(Node) /\ Node = 1 .. Cardinality(Node)
ASSUME TableAssumption ==
  /\ IsFiniteSet(MAC)
  /\ MAC_PORT_TIMEOUT \in Nat \ {0} /\ SweepPeriod \in Nat \ {0}
ASSUME OverlapAssumption == Overlap \in BOOLEAN

VARIABLES
  next, prev,   \* the links of the list head and of every block
  data,         \* the payload of every block: mac, iface, age
  live,         \* the blocks malloc has handed out and free not taken back
  p,            \* the packet thread: pc, pos and q of its walk, its frame
  s,            \* the sweeping thread: pc, pos and q of its walk
  idle          \* seconds since the last sweep

vars == <<next, prev, data, live, p, s, idle>>

ListHead == 0                       \* &mac_port_map.hash_table[0]
NIL == Cardinality(Node) + 1    \* the NULL pointer
Link == {ListHead, NIL} \cup Node

AgeCap == MAC_PORT_TIMEOUT + SweepPeriod * Cardinality(MAC)
Unset == [mac |-> 0, iface |-> 0, age |-> 0]
Payload == [mac : MAC, iface : Iface, age : 0 .. AgeCap] \cup {Unset}

NoFrame == [src |-> 0, dst |-> 0, in |-> 0]
PacketIdle == [pc |-> "idle", pos |-> ListHead, q |-> ListHead,
               frame |-> NoFrame]
SweepIdle == [pc |-> "idle", pos |-> ListHead, q |-> ListHead]

(* A thread that is between two operations. *)
OutsideP == p.pc \in {"idle", "src", "insert"}
OutsideS == s.pc = "idle"
-----------------------------------------------------------------------------
(* init_mac_port_table: bzero, then init_list_head. *)
Init ==
  /\ next = [n \in {ListHead} \cup Node |->
               IF n = ListHead THEN ListHead ELSE NIL]
  /\ prev = next
  /\ data = [n \in Node |-> Unset]
  /\ live = {}
  /\ p = PacketIdle
  /\ s = SweepIdle
  /\ idle = 0

(***************************************************************************)
(* The packet thread.  handle_packet looks up the destination, then the    *)
(* source, and inserts the source if the second walk missed it.  A walk is *)
(* list_for_each_entry_safe: pos = head->next; then, for every pos, first  *)
(* q = pos->next, then the test for the end, the body and pos = q.         *)
(***************************************************************************)
Recv(src, dst, in) ==
  /\ p.pc = "idle"
  /\ Overlap \/ OutsideS
  /\ p' = [p EXCEPT !.pc = "dst_q", !.pos = next[ListHead],
                    !.frame = [src |-> src, dst |-> dst, in |-> in]]
  /\ UNCHANGED <<next, prev, data, live, s, idle>>

StartSrc ==
  /\ p.pc = "src"
  /\ Overlap \/ OutsideS
  /\ p' = [p EXCEPT !.pc = "src_q", !.pos = next[ListHead]]
  /\ UNCHANGED <<next, prev, data, live, s, idle>>

WalkNext(from, to) ==
  /\ p.pc = from
  /\ p' = [p EXCEPT !.pc = to, !.q = next[p.pos]]
  /\ UNCHANGED <<next, prev, data, live, s, idle>>

(* The body of lookup_port for the address mac: the walk ends with a hit   *)
(* or a miss, or goes on.                                                  *)
WalkBody(from, again, mac, hit, miss) ==
  /\ p.pc = from
  /\ p' = IF p.pos = ListHead THEN [p EXCEPT !.pc = miss, !.q = ListHead]
          ELSE IF data[p.pos].mac = mac
               THEN [p EXCEPT !.pc = hit, !.pos = ListHead, !.q = ListHead]
               ELSE [p EXCEPT !.pc = again, !.pos = p.q]
  /\ UNCHANGED <<next, prev, data, live, s, idle>>

lookup_dst == \/ WalkNext("dst_q", "dst_body")
              \/ WalkBody("dst_body", "dst_q", p.frame.dst, "src", "src")
lookup_src == \/ WalkNext("src_q", "src_body")
              \/ WalkBody("src_body", "src_q", p.frame.src, "done", "insert")

(* handle_packet returns after a hit on the source. *)
Return ==
  /\ p.pc = "done"
  /\ p' = PacketIdle
  /\ UNCHANGED <<next, prev, data, live, s, idle>>

(* Variant: the address is not copied into the new entry. *)
NoAddress == [mac |-> 0, iface |-> p.frame.in, age |-> 0]

NewEntry == [mac |-> p.frame.src, iface |-> p.frame.in, age |-> 0]

(* insert_mac_port: malloc and bzero leave both links NULL; p.q keeps      *)
(* head->prev, the third argument of list_insert.                          *)
Malloc(n) ==
  /\ p.pc = "insert"
  /\ Overlap \/ OutsideS
  /\ n \in Node \ live
  /\ live' = live \cup {n}
  /\ next' = [next EXCEPT ![n] = NIL]
  /\ prev' = [prev EXCEPT ![n] = NIL]
  /\ data' = [data EXCEPT ![n] = NewEntry]
  /\ p' = [p EXCEPT !.pc = "link1", !.pos = n, !.q = prev[ListHead]]
  /\ UNCHANGED <<s, idle>>

(* list_insert(new, head->prev, head): its four writes, in order. *)
Link1 ==
  /\ p.pc = "link1"
  /\ prev' = [prev EXCEPT ![ListHead] = p.pos]
  /\ p' = [p EXCEPT !.pc = "link2"]
  /\ UNCHANGED <<next, data, live, s, idle>>

Link2 ==
  /\ p.pc = "link2"
  /\ next' = [next EXCEPT ![p.q] = p.pos]
  /\ p' = [p EXCEPT !.pc = "link3"]
  /\ UNCHANGED <<prev, data, live, s, idle>>

Link3 ==
  /\ p.pc = "link3"
  /\ next' = [next EXCEPT ![p.pos] = ListHead]
  /\ p' = [p EXCEPT !.pc = "link4"]
  /\ UNCHANGED <<prev, data, live, s, idle>>

Link4 ==
  /\ p.pc = "link4"
  /\ prev' = [prev EXCEPT ![p.pos] = p.q]
  /\ p' = PacketIdle
  /\ UNCHANGED <<next, data, live, s, idle>>
-----------------------------------------------------------------------------
(***************************************************************************)
(* The sweeping thread: sweep_aged_mac_port_entry after a sleep.           *)
(***************************************************************************)
StartSweep ==
  /\ s.pc = "idle"
  /\ idle > 0
  /\ Overlap \/ OutsideP
  /\ s' = [s EXCEPT !.pc = "q", !.pos = next[ListHead]]
  /\ UNCHANGED <<next, prev, data, live, p, idle>>

SweepNext ==
  /\ s.pc = "q"
  /\ s' = [s EXCEPT !.pc = "body", !.q = next[s.pos]]
  /\ UNCHANGED <<next, prev, data, live, p, idle>>

(* Variant: entries are removed one second after the timeout. *)
OverAged(n) == data[n].age > MAC_PORT_TIMEOUT

AgedEntry(n) == data[n].age >= MAC_PORT_TIMEOUT

SweepBody ==
  /\ s.pc = "body"
  /\ IF s.pos = ListHead
     THEN s' = SweepIdle /\ idle' = 0
     ELSE /\ s' = IF AgedEntry(s.pos)
                  THEN [s EXCEPT !.pc = "unlink1"]
                  ELSE [s EXCEPT !.pc = "q", !.pos = s.q]
          /\ UNCHANGED idle
  /\ UNCHANGED <<next, prev, data, live, p>>

(* Variants: one of the two neighbours keeps its link to the entry. *)
KeepsPrev == prev
KeepsNext == next

(* list_delete_entry: entry->next->prev = entry->prev, then                *)
(* entry->prev->next = entry->next.                                        *)
PrevWithout == [prev EXCEPT ![next[s.pos]] = prev[s.pos]]
NextWithout == [next EXCEPT ![prev[s.pos]] = next[s.pos]]

Unlink1 ==
  /\ s.pc = "unlink1"
  /\ prev' = PrevWithout
  /\ s' = [s EXCEPT !.pc = "unlink2"]
  /\ UNCHANGED <<next, data, live, p, idle>>

Unlink2 ==
  /\ s.pc = "unlink2"
  /\ next' = NextWithout
  /\ s' = [s EXCEPT !.pc = "free"]
  /\ idle' = 0
  /\ UNCHANGED <<prev, data, live, p>>

(* free(entry) and return: one entry a call.  The allocator may overwrite  *)
(* the block.                                                              *)
Free ==
  /\ s.pc = "free"
  /\ live' = live \ {s.pos}
  /\ next' = [next EXCEPT ![s.pos] = NIL]
  /\ prev' = [prev EXCEPT ![s.pos] = NIL]
  /\ data' = [data EXCEPT ![s.pos] = Unset]
  /\ s' = SweepIdle
  /\ UNCHANGED <<p, idle>>

(* A second passes. *)
Tick ==
  /\ OutsideP /\ OutsideS
  /\ idle < SweepPeriod
  /\ idle' = idle + 1
  /\ data' = [n \in Node |->
                IF n \in live /\ data[n].age < AgeCap
                THEN [data[n] EXCEPT !.age = @ + 1] ELSE data[n]]
  /\ UNCHANGED <<next, prev, live, p, s>>

Packet ==
  \/ \E src, dst \in MAC, in \in Iface : Recv(src, dst, in)
  \/ StartSrc \/ lookup_dst \/ lookup_src \/ Return
  \/ \E n \in Node : Malloc(n)
  \/ Link1 \/ Link2 \/ Link3 \/ Link4

Sweeper == StartSweep \/ SweepNext \/ SweepBody \/ Unlink1 \/ Unlink2 \/ Free

Next == Packet \/ Sweeper \/ Tick

Spec == Init /\ [][Next]_vars
-----------------------------------------------------------------------------
TypeOK ==
  /\ next \in [{ListHead} \cup Node -> Link]
  /\ prev \in [{ListHead} \cup Node -> Link]
  /\ data \in [Node -> Payload]
  /\ live \subseteq Node
  /\ p.pos \in Link /\ p.q \in Link
  /\ s.pos \in Link /\ s.q \in Link
  /\ idle \in 0 .. SweepPeriod

(* The blocks a walk meets, in order: next pointers followed from the list *)
(* head, up to the head again or to a block whose next is not yet set.     *)
Chain ==
  LET Walk[k \in 0 .. Cardinality(Node)] ==
        IF k = 0 THEN << >>
        ELSE LET w == Walk[k-1]
                 n == next[IF w = << >> THEN ListHead ELSE w[Len(w)]]
             IN  IF Len(w) < k - 1 \/ n \notin Node THEN w
                 ELSE IF next[n] = NIL THEN w ELSE Append(w, n)
  IN  Walk[Cardinality(Node)]

(* The forwarding database that the list represents. *)
Table == INSTANCE MacPortMap WITH
           mac_port_map <- [k \in 1 .. Len(Chain) |-> data[Chain[k]]]

(* Operations that do not overlap act on the list as the atomic operations *)
(* of MacPortMap act on the table.                                         *)
ImplementsTable == Table!TableSpec

(* Between operations the list is a ring in both directions and holds      *)
(* exactly the blocks in use: nothing leaks and nothing freed is linked.   *)
WellLinked ==
  (OutsideP /\ OutsideS) =>
    LET ring == {ListHead} \cup {Chain[k] : k \in 1 .. Len(Chain)}
    IN  /\ ring = {ListHead} \cup live
        /\ \A n \in ring : next[n] \in ring /\ prev[next[n]] = n

(* A walk is safe while entries are added or removed: each thread only     *)
(* follows pointers to the list head or to a block that is in use.         *)
SafeWalk ==
  LET Safe(n) == n \in {ListHead} \cup live
  IN  /\ p.pc \in {"dst_q", "dst_body", "src_q", "src_body"} => Safe(p.pos)
      /\ s.pc \in {"q", "body", "unlink1", "unlink2"} => Safe(s.pos)
      /\ p.pc = "link2" => Safe(p.q)
=============================================================================
