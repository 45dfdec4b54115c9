------------------------------ MODULE NatList ------------------------------
(***************************************************************************)
(* One list of mappings of the address translator at the level of its      *)
(* memory: nat_mapping_list[0] of nat.c or a bucket of nat_new_2.c, with   *)
(* the packet thread that searches it and appends to it and the timeout    *)
(* thread that walks it once and removes from it, one memory access of a   *)
(* thread at a time.                                                       *)
(*                                                                         *)
(* Neither version takes nat.lock for any of this: Locked = FALSE is the   *)
(* program.  With Locked = TRUE the packet thread holds the lock from the  *)
(* search to the last use of the mapping and the timeout thread for one    *)
(* entry of its walk at a time, from the test to the link of the next one. *)
(* NatTranslator and NatHash, whose list operations are single steps,      *)
(* stand for such a program.                                               *)
(***************************************************************************)
EXTENDS Naturals, FiniteSets, SequencesExt

CONSTANTS
  Key,       \* what mappings are searched by
  Node,      \* the heap blocks that malloc hands out: 1 .. n for some n
  Locked,    \* whether the threads take the lock
  Versions   \* whose list it is: a subset of {"nat", "nat_new_2"}

VARIABLES
  version,
  next, prev,   \* the links of the list head and of every block
  data,         \* the payload of every block: key and update_time
  live,         \* the blocks malloc has handed out and free not taken back
  p,            \* the packet thread: pc, pos and q of its walk, its key
  t,            \* the timeout thread: pc, pos and q of its walk
  late          \* 60 seconds have passed since nat_timeout read the clock

heap == <<next, prev, data, live>>
vars == <<version, heap, p, t, late>>

ListHead == 0                   \* &nat.nat_mapping_list[i]
NIL == Cardinality(Node) + 1    \* the NULL pointer
Link == {ListHead, NIL} \cup Node

(* A payload says of update_time only whether it is 60 or more seconds     *)
(* after the time that nat_timeout has read.                               *)
Payload == [key : Key, late : BOOLEAN]
Unset == [key |-> 0, late |-> FALSE]

PacketIdle == [pc |-> "idle", pos |-> ListHead, q |-> ListHead, key |-> 0,
               stamp |-> FALSE]

(* A thread that is between two operations, and does not hold the lock. *)
OutsideP == p.pc = "idle"
OutsideT == t.pc \in {"created", "body", "done"}
-----------------------------------------------------------------------------
(* nat_table_init: init_list_head, and the thread created. *)
Init ==
  /\ version \in Versions
  /\ next = [n \in {ListHead} \cup Node |->
               IF n = ListHead THEN ListHead ELSE NIL]
  /\ prev = next
  /\ data = [n \in Node |-> Unset]
  /\ live = {}
  /\ p = PacketIdle
  /\ t = [pc |-> "created", pos |-> ListHead, q |-> ListHead]
  /\ late = FALSE

(***************************************************************************)
(* The packet thread: nat_lookup_external or nat_lookup_internal, then     *)
(* nat_insert_mapping if the walk found nothing.  Past the last block only *)
(* packets of known flows are considered.                                  *)
(***************************************************************************)
Recv(key) ==
  /\ p.pc = "idle"
  /\ Locked => OutsideT
  /\ live # Node \/ \E n \in live : data[n].key = key
  /\ p' = [p EXCEPT !.pc = "q", !.pos = next[ListHead], !.key = key,
                    !.stamp = (version = "nat_new_2")]
  /\ UNCHANGED <<version, heap, t, late>>

(* nat_new_2.c appends the second copy of a mapping without a search, and  *)
(* does not stamp it.                                                      *)
SecondCopy(key) ==
  /\ version = "nat_new_2"
  /\ p.pc = "idle"
  /\ Locked => OutsideT
  /\ live # Node
  /\ p' = [p EXCEPT !.pc = "insert", !.key = key]
  /\ UNCHANGED <<version, heap, t, late>>

SearchNext ==
  /\ p.pc = "q"
  /\ p' = [p EXCEPT !.pc = "body", !.q = next[p.pos]]
  /\ UNCHANGED <<version, heap, t, late>>

SearchBody ==
  /\ p.pc = "body"
  /\ p' = IF p.pos = ListHead THEN [p EXCEPT !.pc = "insert"]
          ELSE IF data[p.pos].key = p.key THEN [p EXCEPT !.pc = "use"]
          ELSE [p EXCEPT !.pc = "q", !.pos = p.q]
  /\ UNCHANGED <<version, heap, t, late>>

(* The new block: nat.c leaves its links NULL, nat_new_2.c calls           *)
(* init_list_head; nat.c has set update_time before the block is linked.   *)
Fresh(n) == IF version = "nat" THEN NIL ELSE n
NewMapping == [key |-> p.key, late |-> late /\ version = "nat"]

(* The second argument that list_add_tail hands to list_insert. *)
LastPlace == prev[ListHead]

Malloc(n) ==
  /\ p.pc = "insert"
  /\ n \in Node \ live
  /\ live' = live \cup {n}
  /\ next' = [next EXCEPT ![n] = Fresh(n)]
  /\ prev' = [prev EXCEPT ![n] = Fresh(n)]
  /\ data' = [data EXCEPT ![n] = NewMapping]
  /\ p' = [p EXCEPT !.pc = "link1", !.pos = n, !.q = LastPlace]
  /\ UNCHANGED <<version, t, late>>

(* list_insert(new, head->prev, head): its four writes, in order. *)
LinkPrev(from, n, to, then) ==
  /\ p.pc = from
  /\ prev' = [prev EXCEPT ![n] = to]
  /\ p' = then
  /\ UNCHANGED <<version, next, data, live, t, late>>

LinkNext(from, n, to, then) ==
  /\ p.pc = from
  /\ next' = [next EXCEPT ![n] = to]
  /\ p' = then
  /\ UNCHANGED <<version, prev, data, live, t, late>>

list_insert ==
  \/ LinkPrev("link1", ListHead, p.pos, [p EXCEPT !.pc = "link2"])
  \/ LinkNext("link2", p.q, p.pos, [p EXCEPT !.pc = "link3"])
  \/ LinkNext("link3", p.pos, ListHead, [p EXCEPT !.pc = "link4"])
  \/ LinkPrev("link4", p.pos, p.q,
              IF p.stamp THEN [p EXCEPT !.pc = "use"] ELSE PacketIdle)

(* do_translation reads the mapping; that of nat_new_2.c then stamps it. *)
Use ==
  /\ p.pc = "use"
  /\ data' = IF p.stamp THEN [data EXCEPT ![p.pos].late = late] ELSE data
  /\ p' = PacketIdle
  /\ UNCHANGED <<version, next, prev, live, t, late>>
-----------------------------------------------------------------------------
(***************************************************************************)
(* The timeout thread: list_for_each_entry_safe over the list, once.       *)
(***************************************************************************)
StartTimeout ==
  /\ t.pc = "created"
  /\ Locked => OutsideP
  /\ t' = [t EXCEPT !.pc = "q", !.pos = next[ListHead]]
  /\ UNCHANGED <<version, heap, p, late>>

TimeoutNext ==
  /\ t.pc = "q"
  /\ t' = [t EXCEPT !.pc = "body", !.q = next[t.pos]]
  /\ UNCHANGED <<version, heap, p, late>>

(* update_time - now >= 60. *)
Expired(n) == data[n].late

TimeoutBody ==
  /\ t.pc = "body"
  /\ Locked => OutsideP
  /\ t' = IF t.pos = ListHead THEN [t EXCEPT !.pc = "done"]
          ELSE IF Expired(t.pos) THEN [t EXCEPT !.pc = "unlink1"]
          ELSE [t EXCEPT !.pc = "q", !.pos = t.q]
  /\ UNCHANGED <<version, heap, p, late>>

(* list_delete_entry: entry->next->prev = entry->prev, then                *)
(* entry->prev->next = entry->next.                                        *)
PrevWithout == [prev EXCEPT ![next[t.pos]] = prev[t.pos]]
NextWithout == [next EXCEPT ![prev[t.pos]] = next[t.pos]]

Unlink1 ==
  /\ t.pc = "unlink1"
  /\ prev' = PrevWithout
  /\ t' = [t EXCEPT !.pc = "unlink2"]
  /\ UNCHANGED <<version, next, data, live, p, late>>

Unlink2 ==
  /\ t.pc = "unlink2"
  /\ next' = NextWithout
  /\ t' = [t EXCEPT !.pc = "free"]
  /\ UNCHANGED <<version, prev, data, live, p, late>>

Successor == t.q

(* free: the allocator may overwrite the block.  The walk goes on. *)
Free ==
  /\ t.pc = "free"
  /\ live' = live \ {t.pos}
  /\ next' = [next EXCEPT ![t.pos] = NIL]
  /\ prev' = [prev EXCEPT ![t.pos] = NIL]
  /\ data' = [data EXCEPT ![t.pos] = Unset]
  /\ t' = [t EXCEPT !.pc = "q", !.pos = Successor]
  /\ UNCHANGED <<version, p, late>>

(* The thread is held up until 60 seconds have passed since it began. *)
Stall ==
  /\ t.pc \notin {"created", "done"}
  /\ ~ late
  /\ late' = TRUE
  /\ UNCHANGED <<version, heap, p, t>>

Packet ==
  \/ \E key \in Key : Recv(key) \/ SecondCopy(key)
  \/ SearchNext \/ SearchBody
  \/ \E n \in Node : Malloc(n)
  \/ list_insert \/ Use

Timeout ==
  StartTimeout \/ TimeoutNext \/ TimeoutBody \/ Unlink1 \/ Unlink2 \/ Free

Next == Packet \/ Timeout \/ Stall

Spec == Init /\ [][Next]_vars
-----------------------------------------------------------------------------
TypeOK ==
  /\ version \in Versions
  /\ next \in [{ListHead} \cup Node -> Link]
  /\ prev \in [{ListHead} \cup Node -> Link]
  /\ data \in [Node -> Payload \cup {Unset}]
  /\ live \subseteq Node /\ \A n \in live : data[n] \in Payload
  /\ p.pos \in Link /\ p.q \in Link /\ p.stamp \in BOOLEAN
  /\ t.pos \in Link /\ t.q \in Link
  /\ late \in BOOLEAN

(* The blocks a walk meets, in order: next pointers followed from the list *)
(* head, up to the head again or to a block whose next is not yet set.     *)
Chain ==
  LET Walk[k \in 0 .. Cardinality(Node)] ==
        IF k = 0 THEN << >>
        ELSE LET w == Walk[k-1]
                 n == next[IF w = << >> THEN ListHead ELSE Last(w)]
             IN  IF Len(w) < k - 1 \/ n \notin Node THEN w
                 ELSE IF next[n] \in {NIL, n} THEN w ELSE Append(w, n)
  IN  Walk[Cardinality(Node)]

(* Whenever neither thread holds the lock, the list is a ring in both      *)
(* directions and holds exactly the blocks in use, wherever the walk of    *)
(* nat_timeout is and however many entries it has removed.                 *)
WellLinked ==
  (OutsideP /\ OutsideT) =>
    LET ring == {ListHead} \cup Range(Chain)
    IN  /\ ring = {ListHead} \cup live
        /\ \A n \in ring : next[n] \in ring /\ prev[next[n]] = n

(* The list changes as NatTranslator and NatHash say, by single steps: the *)
(* packet thread adds its block at the end, the timeout thread takes the   *)
(* one it is at away, and no other pointer write shows a walk anything.    *)
AtomicUpdates ==
  [][ \/ Chain' = Chain
      \/ p' # p /\ Chain' = Append(Chain, p.pos)
      \/ t' # t /\ Chain' = SelectSeq(Chain, LAMBDA n : n # t.pos) ]_vars

(* Each thread only follows pointers to the list head or to a block in     *)
(* use: the search while entries are removed, the timeout walk, with the   *)
(* successor it saved, while others are appended, the writes of both, and  *)
(* the use of the mapping that was found.                                  *)
SafeWalk ==
  LET Safe(n) == n \in {ListHead} \cup live
  IN  /\ p.pc \in {"q", "body", "use"} => Safe(p.pos)
      /\ p.pc = "link2" => Safe(p.q)
      /\ t.pc \in {"q", "body", "unlink1", "unlink2", "free"} => Safe(t.pos)
      /\ t.pc = "unlink1" => Safe(next[t.pos])
      /\ t.pc = "unlink2" => Safe(prev[t.pos])
=============================================================================
