------------------------- MODULE MacPortListProofs -------------------------
(***************************************************************************)
(* Proofs about the linked list of the forwarding database: what holds in  *)
(* every execution of the unlocked program in which operations of the two  *)
(* threads happen not to overlap, and so in all executions of a program    *)
(* whose operations exclude each other.                                    *)
(***************************************************************************)
EXTENDS MacPortList, TLAPS, FiniteSetTheorems, SequenceTheorems,
        WellFoundedInduction

FrameType == [src : MAC, dst : MAC, in : Iface]
EntryType == [mac : MAC, iface : Iface, age : 0 .. AgeCap]
LinkPc == {"link1", "link2", "link3"}
WalkPc == {"dst_q", "dst_body", "src_q", "src_body"}
SweepPc == {"q", "body", "unlink1", "unlink2"}

(* The types, with those of the two threads and of a block in use. *)
Typed ==
  /\ TypeOK
  /\ \A n \in live : data[n] \in EntryType
  /\ p \in [pc : {"idle", "src", "done", "insert", "link4"} \cup WalkPc \cup LinkPc,
            pos : Link, q : Link, frame : FrameType \cup {NoFrame}]
  /\ p.pc # "idle" => p.frame \in FrameType
  /\ s \in [pc : {"idle", "free"} \cup SweepPc, pos : Link, q : Link]

(* No two operations are under way. *)
Serial == OutsideP \/ OutsideS

(* What is k places behind the list head in the ring of the blocks c. *)
At(c, k) == IF k \in 1 .. Len(c) THEN c[k] ELSE ListHead
Blocks(c) == {c[k] : k \in 1 .. Len(c)}

(* The block that is in use and not in the ring: it is about to be linked  *)
(* or was unlinked just now.                                               *)
Extra == IF p.pc \in LinkPc THEN {p.pos} ELSE IF s.pc = "free" THEN {s.pos} ELSE {}

Distinct(c) ==
  /\ \A k, l \in 1 .. Len(c) : c[k] = c[l] => k = l
  /\ live = Blocks(c) \cup Extra /\ Blocks(c) \cap Extra = {}

(* The links forward and backward, with the writes of the operation under  *)
(* way; a thread that walks or unlinks is at place j.                      *)
NextLinks(c) ==
  \A k \in 0 .. Len(c) :
    next[At(c, k)] = IF k = Len(c) /\ p.pc = "link3" THEN p.pos ELSE At(c, k + 1)
PrevLinks(c, j) ==
  \A k \in 1 .. Len(c) + 1 :
    (k = Len(c) /\ p.pc = "link4") \/
    prev[At(c, k)] = IF k = Len(c) + 1 /\ p.pc \in {"link2", "link3"} THEN p.pos
                     ELSE IF k = j + 1 /\ s.pc = "unlink2" THEN At(c, j - 1)
                     ELSE At(c, k - 1)

(* The packet thread walks the ring, and has not met the source of its     *)
(* frame so far when it looks for it; or it links a new entry at the end.  *)
PacketAt(c, j) ==
  /\ p.pc \in WalkPc => p.pos = At(c, j)
  /\ p.pc \in {"dst_body", "src_body"} /\ j <= Len(c) => p.q = At(c, j + 1)
  /\ p.pc \in {"src_q", "src_body"} =>
       \A k \in 1 .. Len(c) : k < j => data[c[k]].mac # p.frame.src
  /\ p.pc \in {"insert"} \cup LinkPc =>
       \A k \in 1 .. Len(c) : data[c[k]].mac # p.frame.src
  /\ p.pc \in LinkPc => /\ p.pos \in Node /\ next[p.pos] = NIL
                        /\ p.q = At(c, Len(c)) /\ data[p.pos] = NewEntry
  /\ p.pc = "link4" => Len(c) # 0 /\ p.pos = At(c, Len(c)) /\ p.q = At(c, Len(c) - 1)

(* The sweeping thread walks the ring and has met no aged entry so far, or *)
(* it unlinks the first one.                                               *)
SweeperAt(c, j) ==
  /\ s.pc \in SweepPc =>
       /\ s.pos = At(c, j) /\ idle > 0
       /\ \A k \in 1 .. Len(c) : k < j => ~ AgedEntry(c[k])
  /\ s.pc = "body" /\ j <= Len(c) => s.q = At(c, j + 1)
  /\ s.pc \in {"unlink1", "unlink2"} => j <= Len(c) /\ AgedEntry(c[j])
  /\ s.pc = "free" => s.pos \in Node

Ring(c, j) ==
  Distinct(c) /\ NextLinks(c) /\ PrevLinks(c, j) /\ PacketAt(c, j) /\ SweeperAt(c, j)

(* There is such a ring at all times. *)
HasRing(c) == \E j \in 1 .. Len(c) + 1 : Ring(c, j)
Closed == \E c \in Seq(Node) : HasRing(c)

ListInv == Typed /\ Serial /\ Closed

-----------------------------------------------------------------------------
(* The blocks are numbered from 1, and neither the list head nor NULL is   *)
(* one of them.                                                            *)
LEMMA NodeFacts ==
  /\ Cardinality(Node) \in Nat /\ Node \subseteq Nat /\ IsFiniteSet(Node)
  /\ ListHead \notin Node /\ NIL \notin Node /\ NIL # ListHead
  /\ AgeCap \in Nat /\ MAC_PORT_TIMEOUT \in Nat /\ SweepPeriod \in Nat
<1>1. IsFiniteSet(Node) /\ Node = 1 .. Cardinality(Node)
  BY NodeAssumption
<1>2. Cardinality(Node) \in Nat /\ Cardinality(MAC) \in Nat
  BY <1>1, TableAssumption, FS_CardinalityType
<1>3. Node \subseteq Nat /\ 0 \notin Node /\ Cardinality(Node) + 1 \notin Node
      /\ Cardinality(Node) + 1 # 0
  <2> DEFINE n == Cardinality(Node)
  <2>1. n \in Nat /\ Node = 1 .. n
    BY <1>1, <1>2
  <2> HIDE DEF n
  <2>2. Node \subseteq Nat /\ 0 \notin Node /\ n + 1 \notin Node /\ n + 1 # 0
    BY <2>1
  <2> QED
    BY <2>2 DEF n
<1>4. MAC_PORT_TIMEOUT \in Nat /\ SweepPeriod \in Nat
  BY TableAssumption
<1>5. AgeCap \in Nat
  <2> DEFINE m == Cardinality(MAC)
  <2>1. m \in Nat
    BY <1>2
  <2> HIDE DEF m
  <2>2. MAC_PORT_TIMEOUT + SweepPeriod * m \in Nat
    BY <1>4, <2>1
  <2> QED
    BY <2>2 DEF AgeCap, m
<1> QED
  BY <1>1, <1>2, <1>3, <1>4, <1>5 DEF ListHead, NIL

(* The places of a ring: the list head is both ends of it. *)
LEMMA AtFacts ==
  ASSUME NEW c \in Seq(Node)
  PROVE  /\ Len(c) \in Nat /\ DOMAIN c = 1 .. Len(c)
         /\ At(c, 0) = ListHead /\ At(c, Len(c) + 1) = ListHead
         /\ \A k \in 1 .. Len(c) : At(c, k) = c[k] /\ c[k] \in Node
                                   /\ At(c, k) # ListHead /\ c[k] \in Blocks(c)
         /\ \A k : At(c, k) \in {ListHead} \cup Node
         /\ \A k : At(c, k) \in Link
         /\ Blocks(c) \subseteq Node
<1>1. Len(c) \in Nat /\ DOMAIN c = 1 .. Len(c)
  BY LenProperties
<1>2. \A k \in 1 .. Len(c) : c[k] \in Node
  BY ElementOfSeq
<1>3. 0 \notin 1 .. Len(c) /\ Len(c) + 1 \notin 1 .. Len(c)
  BY <1>1
<1> QED
  BY <1>1, <1>2, <1>3, NodeFacts DEF At, Blocks, Link

(* No block is at two of them. *)
LEMMA PlacesDiffer ==
  ASSUME NEW c \in Seq(Node), Distinct(c)
  PROVE  /\ \A k, l \in 0 .. Len(c) : At(c, k) = At(c, l) => k = l
         /\ \A k, l \in 1 .. Len(c) + 1 : At(c, k) = At(c, l) => k = l
         /\ \A n \in Node \ Blocks(c) : \A k : At(c, k) # n
<1>1. /\ Len(c) \in Nat
      /\ At(c, 0) = ListHead /\ At(c, Len(c) + 1) = ListHead
      /\ \A k \in 1 .. Len(c) : At(c, k) = c[k] /\ At(c, k) # ListHead
  BY AtFacts
<1>2. \A k, l \in 1 .. Len(c) : c[k] = c[l] => k = l
  BY DEF Distinct
<1>3. /\ \A k \in 0 .. Len(c) : k = 0 \/ k \in 1 .. Len(c)
      /\ \A k \in 1 .. Len(c) + 1 : k = Len(c) + 1 \/ k \in 1 .. Len(c)
  BY <1>1
<1>4. \A n \in Node \ Blocks(c) : \A k : At(c, k) # n
  BY NodeFacts DEF At, Blocks
<1> QED
  BY <1>1, <1>2, <1>3, <1>4

(* The packet thread does not write to the list unless it inserts. *)
LEMMA PacketWalks ==
  ASSUME NEW c \in Seq(Node), NEW j, NEW jj, Ring(c, j), s.pc = "idle",
         UNCHANGED <<next, prev, data, live, s, idle>>,
         p.pc \notin LinkPc \cup {"link4"}, p'.pc \notin LinkPc \cup {"link4"},
         PacketAt(c, jj)'
  PROVE  Ring(c, jj)'
<1>1. Distinct(c)'
  BY DEF Ring, Distinct, Extra, LinkPc
<1>2. NextLinks(c)'
  BY DEF Ring, NextLinks, LinkPc
<1>3. PrevLinks(c, jj)'
  BY DEF Ring, PrevLinks, LinkPc
<1>4. SweeperAt(c, jj)'
  BY DEF SweeperAt, SweepPc
<1> QED
  BY <1>1, <1>2, <1>3, <1>4 DEF Ring

(* Nor does the sweeping thread unless it removes an entry. *)
LEMMA SweeperWalks ==
  ASSUME NEW c \in Seq(Node), NEW j, NEW jj, Ring(c, j), OutsideP,
         UNCHANGED <<next, prev, data, live, p>>,
         s.pc \notin {"unlink2", "free"}, s'.pc \notin {"unlink2", "free"},
         SweeperAt(c, jj)'
  PROVE  Ring(c, jj)'
<1>0. p'.pc \in {"idle", "src", "insert"} /\ p.pc = p'.pc
  BY DEF OutsideP
<1>1. Distinct(c)'
  BY DEF Ring, Distinct, Extra, LinkPc
<1>2. NextLinks(c)'
  BY DEF Ring, NextLinks, LinkPc
<1>3. PrevLinks(c, jj)'
  BY <1>0 DEF Ring, PrevLinks, LinkPc
<1>4. PacketAt(c, jj)'
  BY <1>0 DEF Ring, PacketAt, WalkPc, LinkPc
<1> QED
  BY <1>1, <1>2, <1>3, <1>4 DEF Ring

(* The places that walks go from and to. *)
LEMMA WalkFacts ==
  ASSUME Typed, NEW c \in Seq(Node), NEW j \in 1 .. Len(c) + 1, Ring(c, j)
  PROVE  /\ j \in Nat /\ 1 \in 1 .. Len(c) + 1
         /\ p.pc \notin LinkPc => next[ListHead] = At(c, 1)
         /\ p.pc \notin LinkPc /\ j <= Len(c) =>
              /\ next[At(c, j)] = At(c, j + 1) /\ j + 1 \in 1 .. Len(c) + 1
              /\ At(c, j) = c[j] /\ c[j] \in Node /\ At(c, j) # ListHead
         /\ ~ (j <= Len(c)) => At(c, j) = ListHead /\ j = Len(c) + 1
         /\ next[At(c, j)] \in Link
<1>1. /\ Len(c) \in Nat /\ At(c, 0) = ListHead /\ At(c, Len(c) + 1) = ListHead
      /\ \A k \in 1 .. Len(c) : At(c, k) = c[k] /\ c[k] \in Node /\ At(c, k) # ListHead
      /\ At(c, j) \in {ListHead} \cup Node
  BY AtFacts
<1>2. p.pc \notin LinkPc => \A k \in 0 .. Len(c) : next[At(c, k)] = At(c, k + 1)
  BY DEF Ring, NextLinks, LinkPc
<1>3. j \in Nat /\ 1 \in 1 .. Len(c) + 1 /\ 0 \in 0 .. Len(c) /\ 0 + 1 = 1
  BY <1>1
<1>4. p.pc \notin LinkPc => next[ListHead] = At(c, 1)
  BY <1>1, <1>2, <1>3
<1>5. j <= Len(c) => j \in 1 .. Len(c) /\ j \in 0 .. Len(c) /\ j + 1 \in 1 .. Len(c) + 1
  BY <1>1
<1>6. ~ (j <= Len(c)) => j = Len(c) + 1
  BY <1>1
<1>7. next[At(c, j)] \in Link
  BY <1>1 DEF Typed, TypeOK
<1> QED
  BY <1>1, <1>2, <1>3, <1>4, <1>5, <1>6, <1>7

(* A frame comes in, and the walk for its destination begins. *)
LEMMA RecvKeeps ==
  ASSUME Typed, Serial', NEW c \in Seq(Node), NEW j \in 1 .. Len(c) + 1, Ring(c, j),
         NEW src \in MAC, NEW dst \in MAC, NEW in \in Iface, Recv(src, dst, in)
  PROVE  Typed' /\ Serial' /\ HasRing(c)'
<1>1. /\ p.pc = "idle" /\ s.pc = "idle" /\ UNCHANGED <<next, prev, data, live, s, idle>>
      /\ p' = [p EXCEPT !.pc = "dst_q", !.pos = next[ListHead],
                        !.frame = [src |-> src, dst |-> dst, in |-> in]]
  BY DEF Recv, Typed, Serial, OutsideP, OutsideS
<1>2. next[ListHead] = At(c, 1) /\ 1 \in 1 .. Len(c) + 1 /\ At(c, 1) \in Link
  BY <1>1, WalkFacts, AtFacts DEF LinkPc
<1>3. p'.pc = "dst_q" /\ p'.pos = At(c, 1)
  BY <1>1, <1>2 DEF Typed
<1>4. Typed'
  <2>1. p' \in [pc : {"idle", "src", "done", "insert", "link4"} \cup WalkPc \cup LinkPc,
                pos : Link, q : Link, frame : FrameType \cup {NoFrame}]
        /\ p'.frame \in FrameType
    BY <1>1, <1>2 DEF Typed, WalkPc, FrameType
  <2> QED
    BY <1>1, <2>1 DEF Typed, TypeOK
<1>5. PacketAt(c, 1)'
  BY <1>3 DEF PacketAt, LinkPc
<1>6. Ring(c, 1)'
  BY <1>1, <1>3, <1>5, PacketWalks DEF LinkPc
<1> QED
  BY <1>1, <1>2, <1>4, <1>6 DEF Serial, OutsideS, HasRing

(* The walk for its source begins. *)
LEMMA StartSrcKeeps ==
  ASSUME Typed, Serial', NEW c \in Seq(Node), NEW j \in 1 .. Len(c) + 1, Ring(c, j),
         StartSrc
  PROVE  Typed' /\ Serial' /\ HasRing(c)'
<1>1. /\ p.pc = "src" /\ s.pc = "idle" /\ UNCHANGED <<next, prev, data, live, s, idle>>
      /\ p' = [p EXCEPT !.pc = "src_q", !.pos = next[ListHead]]
  BY DEF StartSrc, Typed, Serial, OutsideP, OutsideS
<1>2. next[ListHead] = At(c, 1) /\ 1 \in 1 .. Len(c) + 1 /\ At(c, 1) \in Link
  BY <1>1, WalkFacts, AtFacts DEF LinkPc
<1>3. p'.pc = "src_q" /\ p'.pos = At(c, 1)
  BY <1>1, <1>2 DEF Typed
<1>4. Typed'
  <2>1. p' \in [pc : {"idle", "src", "done", "insert", "link4"} \cup WalkPc \cup LinkPc,
                pos : Link, q : Link, frame : FrameType \cup {NoFrame}]
        /\ p'.frame \in FrameType
    BY <1>1, <1>2 DEF Typed, WalkPc
  <2> QED
    BY <1>1, <2>1 DEF Typed, TypeOK
<1>5. PacketAt(c, 1)'
  <2>1. \A k \in 1 .. Len(c) : ~ (k < 1)
    OBVIOUS
  <2> QED
    BY <1>3, <2>1 DEF PacketAt, LinkPc
<1>6. Ring(c, 1)'
  BY <1>1, <1>3, <1>5, PacketWalks DEF LinkPc
<1> QED
  BY <1>1, <1>2, <1>4, <1>6 DEF Serial, OutsideS, HasRing

(* A walk notes what is behind its place before it looks at the entry. *)
LEMMA WalkNextKeeps ==
  ASSUME Typed, Serial, NEW c \in Seq(Node), NEW j \in 1 .. Len(c) + 1, Ring(c, j),
         WalkNext("dst_q", "dst_body") \/ WalkNext("src_q", "src_body")
  PROVE  Typed' /\ Serial' /\ HasRing(c)'
<1>1. /\ \/ p.pc = "dst_q" /\ p' = [p EXCEPT !.pc = "dst_body", !.q = next[p.pos]]
         \/ p.pc = "src_q" /\ p' = [p EXCEPT !.pc = "src_body", !.q = next[p.pos]]
      /\ UNCHANGED <<next, prev, data, live, s, idle>>
  BY DEF WalkNext
<1>2. p.pos = At(c, j) /\ s.pc = "idle"
  BY <1>1 DEF Ring, PacketAt, WalkPc, Serial, OutsideP, OutsideS
<1>3. /\ next[p.pos] \in Link
      /\ j <= Len(c) => next[p.pos] = At(c, j + 1)
  BY <1>1, <1>2, WalkFacts DEF LinkPc
<1>4. /\ \/ p.pc = "dst_q" /\ p'.pc = "dst_body"
         \/ p.pc = "src_q" /\ p'.pc = "src_body"
      /\ p'.pos = At(c, j) /\ p'.q = next[p.pos] /\ p'.frame = p.frame
  BY <1>1, <1>2 DEF Typed
<1>5. Typed'
  <2>1. p' \in [pc : {"idle", "src", "done", "insert", "link4"} \cup WalkPc \cup LinkPc,
                pos : Link, q : Link, frame : FrameType \cup {NoFrame}]
        /\ p'.frame \in FrameType
    BY <1>1, <1>3, <1>4 DEF Typed, WalkPc
  <2> QED
    BY <1>1, <2>1 DEF Typed, TypeOK
<1>6. PacketAt(c, j)'
  BY <1>1, <1>3, <1>4 DEF Ring, PacketAt, LinkPc, WalkPc
<1>7. Ring(c, j)'
  BY <1>1, <1>2, <1>4, <1>6, PacketWalks DEF LinkPc
<1> QED
  BY <1>1, <1>2, <1>5, <1>7 DEF Serial, OutsideS, HasRing

(* It ends at the list head or at an entry it looks for, or goes on to     *)
(* what it has noted.                                                      *)
LEMMA WalkBodyKeeps ==
  ASSUME Typed, Serial, NEW c \in Seq(Node), NEW j \in 1 .. Len(c) + 1, Ring(c, j),
         \/ WalkBody("dst_body", "dst_q", p.frame.dst, "src", "src")
         \/ WalkBody("src_body", "src_q", p.frame.src, "done", "insert")
  PROVE  Typed' /\ Serial' /\ HasRing(c)'
<1>1. p.pc \in {"dst_body", "src_body"} /\ UNCHANGED <<next, prev, data, live, s, idle>>
  BY DEF WalkBody
<1>2. p.pos = At(c, j) /\ s.pc = "idle" /\ (j <= Len(c) => p.q = At(c, j + 1))
  BY <1>1 DEF Ring, PacketAt, WalkPc, Serial, OutsideP, OutsideS
<1>3. p.pc = "src_body" => \A k \in 1 .. Len(c) : k < j => data[c[k]].mac # p.frame.src
  BY DEF Ring, PacketAt
<1>4. /\ j <= Len(c) => p.pos # ListHead /\ p.pos = c[j] /\ j + 1 \in 1 .. Len(c) + 1
      /\ p.pos # ListHead => j <= Len(c)
      /\ ~ (j <= Len(c)) => j = Len(c) + 1
      /\ j \in Nat
  BY <1>1, <1>2, WalkFacts DEF LinkPc
<1>5. ListHead \in Link /\ p.frame \in FrameType
  BY <1>1 DEF Link, Typed
<1>6. PICK jj \in 1 .. Len(c) + 1 :
        /\ PacketAt(c, jj)'
        /\ p'.pc \in {"src", "done", "insert", "dst_q", "src_q"}
        /\ p'.pos \in Link /\ p'.q \in Link /\ p'.frame = p.frame
        /\ p' \in [pc : {"src", "done", "insert", "dst_q", "src_q"},
                   pos : Link, q : Link, frame : FrameType]
  <2>0. Len(c) \in Nat
    BY AtFacts
  <2>1. CASE p.pos = ListHead
    <3>1. \/ p.pc = "dst_body" /\ p' = [p EXCEPT !.pc = "src", !.q = ListHead]
          \/ p.pc = "src_body" /\ p' = [p EXCEPT !.pc = "insert", !.q = ListHead]
      BY <2>1 DEF WalkBody
    <3>2. /\ \/ p.pc = "dst_body" /\ p'.pc = "src"
             \/ p.pc = "src_body" /\ p'.pc = "insert"
          /\ p'.pos \in Link /\ p'.q \in Link /\ p'.frame = p.frame
          /\ p' \in [pc : {"src", "done", "insert", "dst_q", "src_q"},
                     pos : Link, q : Link, frame : FrameType]
      BY <1>5, <3>1 DEF Typed
    <3>3. \A k \in 1 .. Len(c) : k < j
      BY <1>4, <2>0, <2>1
    <3>4. p'.pc = "insert" => \A k \in 1 .. Len(c) : data'[c[k]].mac # p'.frame.src
      BY <1>1, <1>3, <3>2, <3>3
    <3>5. PacketAt(c, j)'
      BY <3>2, <3>4 DEF PacketAt, WalkPc, LinkPc
    <3> QED
      BY <3>2, <3>5
  <2>2. CASE /\ p.pos # ListHead
             /\ data[p.pos].mac = IF p.pc = "dst_body" THEN p.frame.dst ELSE p.frame.src
    <3>1. \/ p' = [p EXCEPT !.pc = "src", !.pos = ListHead, !.q = ListHead]
          \/ p' = [p EXCEPT !.pc = "done", !.pos = ListHead, !.q = ListHead]
      BY <2>2 DEF WalkBody
    <3>2. /\ p'.pc \in {"src", "done"}
          /\ p'.pos \in Link /\ p'.q \in Link /\ p'.frame = p.frame
          /\ p' \in [pc : {"src", "done", "insert", "dst_q", "src_q"},
                     pos : Link, q : Link, frame : FrameType]
      BY <1>5, <3>1 DEF Typed
    <3>3. PacketAt(c, j)'
      BY <3>2 DEF PacketAt, WalkPc, LinkPc
    <3> QED
      BY <3>2, <3>3
  <2>3. CASE /\ p.pos # ListHead
             /\ data[p.pos].mac # IF p.pc = "dst_body" THEN p.frame.dst ELSE p.frame.src
    <3>1. \/ p.pc = "dst_body" /\ p' = [p EXCEPT !.pc = "dst_q", !.pos = p.q]
          \/ p.pc = "src_body" /\ p' = [p EXCEPT !.pc = "src_q", !.pos = p.q]
      BY <2>3 DEF WalkBody
    <3>2. /\ \/ p.pc = "dst_body" /\ p'.pc = "dst_q"
             \/ p.pc = "src_body" /\ p'.pc = "src_q"
          /\ p'.pos = p.q
          /\ p'.pos \in Link /\ p'.q \in Link /\ p'.frame = p.frame
          /\ p' \in [pc : {"src", "done", "insert", "dst_q", "src_q"},
                     pos : Link, q : Link, frame : FrameType]
      BY <1>5, <3>1 DEF Typed
    <3>3. j + 1 \in 1 .. Len(c) + 1 /\ p'.pos = At(c, j + 1) /\ p.pos = c[j]
      BY <1>2, <1>4, <2>3, <3>2
    <3>4. \A k \in 1 .. Len(c) : k < j + 1 => k < j \/ k = j
      BY <1>4
    <3>5. p'.pc = "src_q" =>
            \A k \in 1 .. Len(c) : k < j + 1 => data'[c[k]].mac # p'.frame.src
      BY <1>1, <1>3, <2>3, <3>2, <3>3, <3>4
    <3>6. PacketAt(c, j + 1)'
      BY <3>2, <3>3, <3>5 DEF PacketAt, WalkPc, LinkPc
    <3> QED
      BY <3>2, <3>3, <3>6
  <2> QED
    BY <2>1, <2>2, <2>3
<1>7. Typed'
  BY <1>1, <1>6 DEF Typed, TypeOK, WalkPc
<1>8. Ring(c, jj)'
  BY <1>1, <1>2, <1>6, PacketWalks DEF LinkPc
<1> QED
  BY <1>1, <1>2, <1>7, <1>8 DEF Serial, OutsideS, HasRing

(* handle_packet returns. *)
LEMMA ReturnKeeps ==
  ASSUME Typed, Serial, NEW c \in Seq(Node), NEW j \in 1 .. Len(c) + 1, Ring(c, j),
         Return
  PROVE  Typed' /\ Serial' /\ HasRing(c)'
<1>1. /\ p.pc = "done" /\ p' = PacketIdle /\ p'.pc = "idle"
      /\ UNCHANGED <<next, prev, data, live, s, idle>>
  BY DEF Return, PacketIdle
<1>2. s.pc = "idle"
  BY <1>1 DEF Serial, OutsideP, OutsideS
<1>3. Typed'
  BY <1>1 DEF Typed, TypeOK, PacketIdle, Link
<1>4. PacketAt(c, j)'
  BY <1>1 DEF PacketAt, WalkPc, LinkPc
<1>5. Ring(c, j)'
  BY <1>1, <1>2, <1>4, PacketWalks DEF LinkPc
<1> QED
  BY <1>1, <1>2, <1>3, <1>5 DEF Serial, OutsideS, HasRing

-----------------------------------------------------------------------------
(* A block is allocated for the new entry; it is in nobody's way. *)
LEMMA MallocKeeps ==
  ASSUME Typed, Serial', NEW c \in Seq(Node), NEW j \in 1 .. Len(c) + 1, Ring(c, j),
         NEW n \in Node, Malloc(n)
  PROVE  Typed' /\ Serial' /\ HasRing(c)'
<1>1. /\ p.pc = "insert" /\ s.pc = "idle" /\ n \notin live
      /\ live' = live \cup {n} /\ next' = [next EXCEPT ![n] = NIL]
      /\ prev' = [prev EXCEPT ![n] = NIL] /\ data' = [data EXCEPT ![n] = NewEntry]
      /\ p' = [p EXCEPT !.pc = "link1", !.pos = n, !.q = prev[ListHead]]
      /\ UNCHANGED <<s, idle>>
  BY DEF Malloc, Typed, Serial, OutsideP, OutsideS
<1>2. /\ next \in [{ListHead} \cup Node -> Link] /\ prev \in [{ListHead} \cup Node -> Link]
      /\ data \in [Node -> Payload] /\ live \subseteq Node
  BY DEF Typed, TypeOK
<1>3. /\ Len(c) \in Nat /\ Len(c) + 1 \in 1 .. Len(c) + 1 /\ (Len(c) + 1) - 1 = Len(c)
      /\ At(c, Len(c) + 1) = ListHead
      /\ \A k : At(c, k) \in {ListHead} \cup Node
      /\ \A k \in 1 .. Len(c) : c[k] \in Node /\ At(c, k) = c[k]
  BY AtFacts
<1>4. /\ Distinct(c) /\ NextLinks(c) /\ PrevLinks(c, j)
      /\ \A k \in 1 .. Len(c) : data[c[k]].mac # p.frame.src
  BY <1>1 DEF Ring, PacketAt
<1>5. live = Blocks(c) /\ n \notin Blocks(c)
  BY <1>1, <1>4 DEF Distinct, Extra, LinkPc
<1>6. \A k : At(c, k) # n
  BY <1>4, <1>5, PlacesDiffer
<1>7. prev[ListHead] = At(c, Len(c)) /\ prev[ListHead] \in Link
  BY <1>1, <1>2, <1>3, <1>4 DEF PrevLinks
<1>8. /\ p'.pc = "link1" /\ p'.pos = n /\ p'.q = At(c, Len(c)) /\ p'.frame = p.frame
      /\ p.frame \in FrameType /\ n \in Link /\ NIL \in Link
      /\ p' \in [pc : {"link1"}, pos : Link, q : Link, frame : FrameType]
  BY <1>1, <1>7 DEF Typed, Link
<1>9. NewEntry \in Payload /\ NewEntry' = NewEntry /\ NewEntry \in EntryType
  <2>1. 0 \in 0 .. AgeCap
    BY NodeFacts
  <2> QED
    BY <1>8, <2>1 DEF NewEntry, Payload, FrameType, EntryType
<1>10. /\ next'[n] = NIL /\ data'[n] = NewEntry
       /\ \A k : next'[At(c, k)] = next[At(c, k)] /\ prev'[At(c, k)] = prev[At(c, k)]
       /\ \A k \in 1 .. Len(c) : data'[c[k]] = data[c[k]]
  BY <1>1, <1>2, <1>3, <1>6
<1>11. Typed'
  <2>1. next' \in [{ListHead} \cup Node -> Link] /\ prev' \in [{ListHead} \cup Node -> Link]
    BY <1>1, <1>2, <1>8
  <2>2. data' \in [Node -> Payload] /\ \A m \in live' : data'[m] \in EntryType
    BY <1>1, <1>2, <1>9 DEF Typed
  <2> QED
    BY <1>1, <1>2, <1>8, <2>1, <2>2 DEF Typed, TypeOK, LinkPc
<1>12. Distinct(c)'
  BY <1>1, <1>4, <1>5, <1>8 DEF Distinct, Extra, LinkPc
<1>13. NextLinks(c)'
  BY <1>1, <1>4, <1>8, <1>10 DEF NextLinks
<1>14. PrevLinks(c, j)'
  BY <1>1, <1>4, <1>8, <1>10 DEF PrevLinks
<1>15. PacketAt(c, j)'
  BY <1>4, <1>8, <1>9, <1>10 DEF PacketAt, WalkPc, LinkPc
<1>16. SweeperAt(c, j)'
  BY <1>1 DEF SweeperAt, SweepPc
<1> QED
  BY <1>1, <1>11, <1>12, <1>13, <1>14, <1>15, <1>16 DEF Serial, OutsideS, HasRing, Ring

(* First the list head gets it as the last entry. *)
LEMMA Link1Keeps ==
  ASSUME Typed, Serial, NEW c \in Seq(Node), NEW j \in 1 .. Len(c) + 1, Ring(c, j),
         Link1
  PROVE  Typed' /\ Serial' /\ HasRing(c)'
<1>1. /\ p.pc = "link1" /\ prev' = [prev EXCEPT ![ListHead] = p.pos]
      /\ p' = [p EXCEPT !.pc = "link2"] /\ UNCHANGED <<next, data, live, s, idle>>
  BY DEF Link1
<1>2. s.pc = "idle"
  BY <1>1 DEF Serial, OutsideP, OutsideS
<1>3. /\ p'.pc = "link2" /\ p'.pos = p.pos /\ p'.q = p.q /\ p'.frame = p.frame
      /\ p' \in [pc : {"link2"}, pos : Link, q : Link, frame : FrameType]
  BY <1>1 DEF Typed
<1>4. prev \in [{ListHead} \cup Node -> Link] /\ p.pos \in Link
  BY DEF Typed, TypeOK
<1>5. /\ Len(c) \in Nat /\ At(c, Len(c) + 1) = ListHead
      /\ \A k \in 1 .. Len(c) : At(c, k) # ListHead /\ At(c, k) \in {ListHead} \cup Node
  BY AtFacts
<1>6. Distinct(c) /\ NextLinks(c) /\ PrevLinks(c, j) /\ PacketAt(c, j)
  BY DEF Ring
<1>7. Typed'
  BY <1>1, <1>3, <1>4 DEF Typed, TypeOK, LinkPc
<1>8. Distinct(c)' /\ NextLinks(c)'
  BY <1>1, <1>3, <1>6 DEF Distinct, Extra, LinkPc, NextLinks
<1>9. PrevLinks(c, j)'
  <2>1. prev'[ListHead] = p.pos
    BY <1>1, <1>4
  <2>2. \A k \in 1 .. Len(c) : prev'[At(c, k)] = prev[At(c, k)]
    BY <1>1, <1>4, <1>5
  <2>3. \A k \in 1 .. Len(c) + 1 : k = Len(c) + 1 \/ (k \in 1 .. Len(c) /\ k # Len(c) + 1)
    BY <1>5
  <2>4. \A k \in 1 .. Len(c) : k # Len(c) + 1 => prev[At(c, k)] = At(c, k - 1)
    <3>1. \A k \in 1 .. Len(c) : k \in 1 .. Len(c) + 1
      BY <1>5
    <3> QED
      BY <1>1, <1>2, <1>6, <3>1 DEF PrevLinks
  <2> QED
    BY <1>1, <1>2, <1>3, <1>5, <2>1, <2>2, <2>3, <2>4 DEF PrevLinks
<1>10. PacketAt(c, j)'
  BY <1>1, <1>3, <1>6 DEF PacketAt, WalkPc, LinkPc, NewEntry
<1>11. SweeperAt(c, j)'
  BY <1>1, <1>2 DEF SweeperAt, SweepPc
<1> QED
  BY <1>1, <1>2, <1>7, <1>8, <1>9, <1>10, <1>11 DEF Serial, OutsideS, HasRing, Ring

(* Then what was the last one before it points to it. *)
LEMMA Link2Keeps ==
  ASSUME Typed, Serial, NEW c \in Seq(Node), NEW j \in 1 .. Len(c) + 1, Ring(c, j),
         Link2
  PROVE  Typed' /\ Serial' /\ HasRing(c)'
<1>1. /\ p.pc = "link2" /\ next' = [next EXCEPT ![p.q] = p.pos]
      /\ p' = [p EXCEPT !.pc = "link3"] /\ UNCHANGED <<prev, data, live, s, idle>>
  BY DEF Link2
<1>2. s.pc = "idle"
  BY <1>1 DEF Serial, OutsideP, OutsideS
<1>3. /\ p'.pc = "link3" /\ p'.pos = p.pos /\ p'.q = p.q /\ p'.frame = p.frame
      /\ p' \in [pc : {"link3"}, pos : Link, q : Link, frame : FrameType]
  BY <1>1 DEF Typed
<1>4. next \in [{ListHead} \cup Node -> Link] /\ p.pos \in Link
  BY DEF Typed, TypeOK
<1>5. Len(c) \in Nat /\ \A k : At(c, k) \in {ListHead} \cup Node
  BY AtFacts
<1>6. Distinct(c) /\ NextLinks(c) /\ PrevLinks(c, j) /\ PacketAt(c, j)
  BY DEF Ring
<1>7. p.q = At(c, Len(c)) /\ p.pos \in Node /\ next[p.pos] = NIL
  BY <1>1, <1>6 DEF PacketAt, LinkPc
<1>8. Typed'
  BY <1>1, <1>3, <1>4 DEF Typed, TypeOK, LinkPc
<1>9. Distinct(c)' /\ PrevLinks(c, j)'
  BY <1>1, <1>3, <1>6 DEF Distinct, Extra, LinkPc, PrevLinks
<1>10. p.pos \notin Blocks(c)
  BY <1>1, <1>6 DEF Distinct, Extra, LinkPc
<1>11. \A k : At(c, k) # p.pos
  BY <1>6, <1>7, <1>10, PlacesDiffer
<1>12. next'[At(c, Len(c))] = p.pos /\ next'[p.pos] = NIL
  BY <1>1, <1>4, <1>5, <1>7, <1>11
<1>13. \A k \in 0 .. Len(c) : k # Len(c) => next'[At(c, k)] = next[At(c, k)]
  <2>1. Len(c) \in 0 .. Len(c)
    BY <1>5
  <2>2. \A k \in 0 .. Len(c) : k # Len(c) => At(c, k) # At(c, Len(c))
    BY <1>6, <2>1, PlacesDiffer
  <2> QED
    BY <1>1, <1>4, <1>7, <2>2
<1>14. NextLinks(c)'
  BY <1>1, <1>3, <1>6, <1>12, <1>13 DEF NextLinks
<1>15. PacketAt(c, j)'
  BY <1>1, <1>3, <1>6, <1>12 DEF PacketAt, WalkPc, LinkPc, NewEntry
<1>16. SweeperAt(c, j)'
  BY <1>1, <1>2 DEF SweeperAt, SweepPc
<1> QED
  BY <1>1, <1>2, <1>8, <1>9, <1>14, <1>15, <1>16 DEF Serial, OutsideS, HasRing, Ring

(* With its link forward the block is an entry of the list, the last one. *)
LEMMA Link3Keeps ==
  ASSUME Typed, Serial, NEW c \in Seq(Node), NEW j \in 1 .. Len(c) + 1, Ring(c, j),
         Link3
  PROVE  Typed' /\ Serial' /\ \E d \in Seq(Node) : d = Append(c, p.pos) /\ HasRing(d)'
<1>1. /\ p.pc = "link3" /\ next' = [next EXCEPT ![p.pos] = ListHead]
      /\ p' = [p EXCEPT !.pc = "link4"] /\ UNCHANGED <<prev, data, live, s, idle>>
  BY DEF Link3
<1>2. s.pc = "idle"
  BY <1>1 DEF Serial, OutsideP, OutsideS
<1>3. /\ p'.pc = "link4" /\ p'.pos = p.pos /\ p'.q = p.q /\ p'.frame = p.frame
      /\ p' \in [pc : {"link4"}, pos : Link, q : Link, frame : FrameType]
  BY <1>1 DEF Typed
<1>4. next \in [{ListHead} \cup Node -> Link] /\ ListHead \in Link
  BY DEF Typed, TypeOK, Link
<1>5. Distinct(c) /\ NextLinks(c) /\ PrevLinks(c, j) /\ PacketAt(c, j)
  BY DEF Ring
<1>6. p.q = At(c, Len(c)) /\ p.pos \in Node
  BY <1>1, <1>5 DEF PacketAt, LinkPc
<1>7. /\ p.pos \notin Blocks(c) /\ live = Blocks(c) \cup {p.pos}
      /\ \A k : At(c, k) # p.pos
  <2>1. p.pos \notin Blocks(c) /\ live = Blocks(c) \cup {p.pos}
    BY <1>1, <1>5 DEF Distinct, Extra, LinkPc
  <2> QED
    BY <1>5, <1>6, <2>1, PlacesDiffer
<1>8. PICK d : d = Append(c, p.pos)
  OBVIOUS
<1>9. d \in Seq(Node) /\ Len(d) = Len(c) + 1 /\ d[Len(c) + 1] = p.pos
      /\ \A k \in 1 .. Len(c) : d[k] = c[k]
  BY <1>6, <1>8, AppendProperties
<1>10. /\ Len(c) \in Nat /\ At(c, 0) = ListHead /\ At(c, Len(c) + 1) = ListHead
       /\ \A k \in 1 .. Len(c) : At(c, k) = c[k]
       /\ \A k : At(c, k) \in {ListHead} \cup Node
  BY AtFacts
<1>11. /\ At(d, 0) = ListHead /\ At(d, Len(d) + 1) = ListHead
       /\ \A k \in 1 .. Len(d) : At(d, k) = d[k]
  BY <1>9, AtFacts
<1>12. /\ \A k \in 0 .. Len(c) : At(d, k) = At(c, k)
       /\ At(d, Len(c) + 1) = p.pos /\ At(d, Len(c) + 2) = ListHead
  <2>1. \A k \in 0 .. Len(c) : k = 0 \/ (k \in 1 .. Len(c) /\ k \in 1 .. Len(c) + 1)
    BY <1>10
  <2>2. Len(c) + 1 \in 1 .. Len(c) + 1 /\ (Len(c) + 1) + 1 = Len(c) + 2
    BY <1>10
  <2>3. At(d, Len(c) + 1) = p.pos /\ At(d, Len(c) + 2) = ListHead
    BY <1>9, <1>11, <2>2
  <2>4. \A k \in 0 .. Len(c) : At(d, k) = At(c, k)
    BY <1>9, <1>10, <1>11, <2>1
  <2> QED
    BY <2>3, <2>4
<1>13. Typed'
  BY <1>1, <1>3, <1>4 DEF Typed, TypeOK
<1>14. Distinct(d)'
  <2>1. \A k \in 1 .. Len(d) : (k \in 1 .. Len(c) /\ d[k] = c[k] /\ c[k] \in Blocks(c))
                               \/ (k = Len(c) + 1 /\ d[k] = p.pos)
    <3>1. \A k \in 1 .. Len(d) : k \in 1 .. Len(c) \/ k = Len(c) + 1
      BY <1>9, <1>10
    <3> QED
      BY <1>9, <3>1 DEF Blocks
  <2>2. \A k, l \in 1 .. Len(d) : d[k] = d[l] => k = l
    BY <1>5, <1>7, <2>1 DEF Distinct
  <2>3. Blocks(d) = Blocks(c) \cup {p.pos}
    <3>1. \A k \in 1 .. Len(c) : k \in 1 .. Len(d)
      BY <1>9, <1>10
    <3>2. Len(c) + 1 \in 1 .. Len(d)
      BY <1>9, <1>10
    <3> QED
      BY <1>9, <2>1, <3>1, <3>2 DEF Blocks
  <2>4. Extra' = {}
    BY <1>1, <1>2, <1>3 DEF Extra, LinkPc
  <2> QED
    BY <1>1, <1>7, <2>2, <2>3, <2>4 DEF Distinct
<1>15. NextLinks(d)'
  <2>1. /\ \A k \in 0 .. Len(c) : next'[At(c, k)] = next[At(c, k)]
        /\ next'[p.pos] = ListHead
    BY <1>1, <1>4, <1>6, <1>7
  <2>2. \A k \in 0 .. Len(d) :
          \/ k = Len(c) + 1 /\ k + 1 = Len(c) + 2
          \/ k = Len(c) /\ k \in 0 .. Len(c)
          \/ k # Len(c) /\ k \in 0 .. Len(c) /\ k + 1 \in 0 .. Len(c)
    BY <1>9, <1>10
  <2>3. \A k \in 0 .. Len(d) : next'[At(d, k)] = At(d, k + 1)
    <3> SUFFICES ASSUME NEW k \in 0 .. Len(d) PROVE next'[At(d, k)] = At(d, k + 1)
      OBVIOUS
    <3>1. CASE k = Len(c) + 1
      BY <1>12, <2>1, <2>2, <3>1
    <3>2. CASE k = Len(c) /\ k \in 0 .. Len(c)
      BY <1>1, <1>5, <1>12, <2>1, <3>2 DEF NextLinks
    <3>3. CASE k # Len(c) /\ k \in 0 .. Len(c) /\ k + 1 \in 0 .. Len(c)
      BY <1>1, <1>5, <1>12, <2>1, <3>3 DEF NextLinks
    <3> QED
      BY <2>2, <3>1, <3>2, <3>3
  <2> QED
    BY <1>3, <2>3 DEF NextLinks
<1>16. PrevLinks(d, 1)'
  <2>1. \A k \in 1 .. Len(d) + 1 :
          \/ k = Len(d)
          \/ k = Len(c) + 2 /\ k - 1 = Len(c) + 1 /\ Len(c) + 1 \in 1 .. Len(c) + 1
          \/ /\ k \in 1 .. Len(c) /\ k \in 1 .. Len(c) + 1 /\ k # Len(c) + 1
             /\ k \in 0 .. Len(c) /\ k - 1 \in 0 .. Len(c)
    BY <1>9, <1>10
  <2>2. \A k \in 1 .. Len(c) + 1 :
          prev[At(c, k)] = IF k = Len(c) + 1 THEN p.pos ELSE At(c, k - 1)
    BY <1>1, <1>2, <1>5 DEF PrevLinks
  <2>3. \A k \in 1 .. Len(d) + 1 : k = Len(d) \/ prev[At(d, k)] = At(d, k - 1)
    <3> SUFFICES ASSUME NEW k \in 1 .. Len(d) + 1, k # Len(d)
                 PROVE  prev[At(d, k)] = At(d, k - 1)
      OBVIOUS
    <3>1. CASE k = Len(c) + 2 /\ k - 1 = Len(c) + 1 /\ Len(c) + 1 \in 1 .. Len(c) + 1
      BY <1>10, <1>12, <2>2, <3>1
    <3>2. CASE /\ k \in 1 .. Len(c) /\ k \in 1 .. Len(c) + 1 /\ k # Len(c) + 1
               /\ k \in 0 .. Len(c) /\ k - 1 \in 0 .. Len(c)
      BY <1>12, <2>2, <3>2
    <3> QED
      BY <2>1, <3>1, <3>2
  <2> QED
    BY <1>1, <1>2, <1>3, <2>3 DEF PrevLinks
<1>17. PacketAt(d, 1)'
  <2>1. Len(d) # 0 /\ Len(d) - 1 = Len(c) /\ Len(c) \in 0 .. Len(c)
    BY <1>9, <1>10
  <2> QED
    BY <1>3, <1>6, <1>9, <1>12, <2>1 DEF PacketAt, WalkPc, LinkPc
<1>18. SweeperAt(d, 1)' /\ 1 \in 1 .. Len(d) + 1
  BY <1>1, <1>2, <1>9, <1>10 DEF SweeperAt, SweepPc
<1>19. Ring(d, 1)'
  BY <1>14, <1>15, <1>16, <1>17, <1>18 DEF Ring
<1> QED
  BY <1>1, <1>2, <1>8, <1>9, <1>13, <1>18, <1>19 DEF Serial, OutsideS, HasRing

(* Its link backward comes last. *)
LEMMA Link4Keeps ==
  ASSUME Typed, Serial, NEW c \in Seq(Node), NEW j \in 1 .. Len(c) + 1, Ring(c, j),
         Link4
  PROVE  Typed' /\ Serial' /\ HasRing(c)'
<1>1. /\ p.pc = "link4" /\ prev' = [prev EXCEPT ![p.pos] = p.q]
      /\ p' = PacketIdle /\ p'.pc = "idle" /\ UNCHANGED <<next, data, live, s, idle>>
  BY DEF Link4, PacketIdle
<1>2. s.pc = "idle"
  BY <1>1 DEF Serial, OutsideP, OutsideS
<1>3. prev \in [{ListHead} \cup Node -> Link] /\ p.q \in Link
  BY DEF Typed, TypeOK
<1>4. Distinct(c) /\ NextLinks(c) /\ PrevLinks(c, j) /\ PacketAt(c, j)
  BY DEF Ring
<1>5. Len(c) # 0 /\ p.pos = At(c, Len(c)) /\ p.q = At(c, Len(c) - 1)
  BY <1>1, <1>4 DEF PacketAt
<1>6. Len(c) \in Nat /\ \A k : At(c, k) \in {ListHead} \cup Node
  BY AtFacts
<1>7. Typed'
  BY <1>1, <1>3 DEF Typed, TypeOK, PacketIdle, Link
<1>8. Distinct(c)' /\ NextLinks(c)'
  BY <1>1, <1>2, <1>4 DEF Distinct, Extra, LinkPc, NextLinks
<1>9. PrevLinks(c, j)'
  <2>1. prev'[At(c, Len(c))] = At(c, Len(c) - 1)
    BY <1>1, <1>3, <1>5, <1>6
  <2>2. Len(c) \in 1 .. Len(c) + 1
    BY <1>5, <1>6
  <2>3. \A k \in 1 .. Len(c) + 1 : k # Len(c) => prev'[At(c, k)] = prev[At(c, k)]
    <3>1. \A k \in 1 .. Len(c) + 1 : k # Len(c) => At(c, k) # At(c, Len(c))
      BY <1>4, <2>2, PlacesDiffer
    <3> QED
      BY <1>1, <1>3, <1>5, <3>1
  <2>4. \A k \in 1 .. Len(c) + 1 : k # Len(c) => prev[At(c, k)] = At(c, k - 1)
    BY <1>1, <1>2, <1>4 DEF PrevLinks
  <2> QED
    BY <1>1, <1>2, <2>1, <2>3, <2>4 DEF PrevLinks
<1>10. PacketAt(c, j)' /\ SweeperAt(c, j)'
  BY <1>1, <1>2 DEF PacketAt, WalkPc, LinkPc, SweeperAt, SweepPc
<1> QED
  BY <1>1, <1>2, <1>7, <1>8, <1>9, <1>10 DEF Serial, OutsideS, HasRing, Ring

-----------------------------------------------------------------------------
(* A sweep begins. *)
LEMMA StartSweepKeeps ==
  ASSUME Typed, Serial', NEW c \in Seq(Node), NEW j \in 1 .. Len(c) + 1, Ring(c, j),
         StartSweep
  PROVE  Typed' /\ Serial' /\ HasRing(c)'
<1>1. /\ s.pc = "idle" /\ idle > 0 /\ OutsideP /\ UNCHANGED <<next, prev, data, live, p, idle>>
      /\ s' = [s EXCEPT !.pc = "q", !.pos = next[ListHead]]
  BY DEF StartSweep, Typed, Serial, OutsideP, OutsideS
<1>2. next[ListHead] = At(c, 1) /\ 1 \in 1 .. Len(c) + 1 /\ At(c, 1) \in Link
  BY <1>1, WalkFacts, AtFacts DEF LinkPc, OutsideP
<1>3. /\ s'.pc = "q" /\ s'.pos = At(c, 1)
      /\ s' \in [pc : {"q"}, pos : Link, q : Link]
  BY <1>1, <1>2 DEF Typed
<1>4. Typed'
  BY <1>1, <1>3 DEF Typed, TypeOK, SweepPc
<1>5. SweeperAt(c, 1)'
  <2>1. \A k \in 1 .. Len(c) : ~ (k < 1)
    OBVIOUS
  <2> QED
    BY <1>1, <1>3, <2>1 DEF SweeperAt
<1>6. Ring(c, 1)'
  BY <1>1, <1>3, <1>5, SweeperWalks
<1>7. Serial'
  BY <1>1 DEF Serial, OutsideP
<1> QED
  BY <1>2, <1>4, <1>6, <1>7 DEF HasRing

(* It notes what is behind its place before it looks at the entry. *)
LEMMA SweepNextKeeps ==
  ASSUME Typed, Serial, NEW c \in Seq(Node), NEW j \in 1 .. Len(c) + 1, Ring(c, j),
         SweepNext
  PROVE  Typed' /\ Serial' /\ HasRing(c)'
<1>1. /\ s.pc = "q" /\ UNCHANGED <<next, prev, data, live, p, idle>>
      /\ s' = [s EXCEPT !.pc = "body", !.q = next[s.pos]]
  BY DEF SweepNext
<1>2. s.pos = At(c, j) /\ OutsideP /\ SweeperAt(c, j)
  BY <1>1 DEF Ring, SweeperAt, SweepPc, Serial, OutsideS
<1>3. /\ next[s.pos] \in Link
      /\ j <= Len(c) => next[s.pos] = At(c, j + 1)
  BY <1>2, WalkFacts DEF LinkPc, OutsideP
<1>4. /\ s'.pc = "body" /\ s'.pos = s.pos /\ s'.q = next[s.pos]
      /\ s' \in [pc : {"body"}, pos : Link, q : Link]
  BY <1>1, <1>3 DEF Typed
<1>5. Typed'
  BY <1>1, <1>4 DEF Typed, TypeOK, SweepPc
<1>6. SweeperAt(c, j)'
  BY <1>1, <1>2, <1>3, <1>4 DEF SweeperAt, SweepPc, AgedEntry
<1>7. Ring(c, j)'
  BY <1>1, <1>2, <1>4, <1>6, SweeperWalks
<1>8. Serial'
  BY <1>1, <1>2 DEF Serial, OutsideP
<1> QED
  BY <1>5, <1>7, <1>8 DEF HasRing

(* It ends at the list head, stays at an aged entry or goes on. *)
LEMMA SweepBodyKeeps ==
  ASSUME Typed, Serial, NEW c \in Seq(Node), NEW j \in 1 .. Len(c) + 1, Ring(c, j),
         SweepBody
  PROVE  Typed' /\ Serial' /\ HasRing(c)'
<1>1. s.pc = "body" /\ UNCHANGED <<next, prev, data, live, p>>
  BY DEF SweepBody
<1>2. /\ s.pos = At(c, j) /\ OutsideP /\ SweeperAt(c, j) /\ idle > 0
      /\ j <= Len(c) => s.q = At(c, j + 1)
  BY <1>1 DEF Ring, SweeperAt, SweepPc, Serial, OutsideS
<1>3. /\ j <= Len(c) => s.pos # ListHead /\ s.pos = c[j] /\ j + 1 \in 1 .. Len(c) + 1
      /\ s.pos # ListHead => j <= Len(c)
      /\ j \in Nat
  BY <1>2, WalkFacts DEF LinkPc, OutsideP
<1>4. Serial'
  BY <1>1, <1>2 DEF Serial, OutsideP
<1>5. CASE s.pos = ListHead
  <2>1. s' = SweepIdle /\ idle' = 0 /\ s'.pc = "idle"
    BY <1>5 DEF SweepBody, SweepIdle
  <2>2. SweeperAt(c, j)'
    BY <2>1 DEF SweeperAt, SweepPc
  <2>3. Ring(c, j)'
    BY <1>1, <1>2, <2>1, <2>2, SweeperWalks
  <2>4. 0 \in 0 .. SweepPeriod
    BY NodeFacts
  <2>5. Typed'
    BY <1>1, <2>1, <2>4 DEF Typed, TypeOK, SweepIdle, Link
  <2> QED
    BY <1>4, <2>3, <2>5 DEF HasRing
<1>6. CASE s.pos # ListHead /\ AgedEntry(s.pos)
  <2>1. s' = [s EXCEPT !.pc = "unlink1"] /\ idle' = idle
    BY <1>6 DEF SweepBody
  <2>2. /\ s'.pc = "unlink1" /\ s'.pos = s.pos
        /\ s' \in [pc : {"unlink1"}, pos : Link, q : Link]
    BY <2>1 DEF Typed
  <2>3. SweeperAt(c, j)'
    BY <1>1, <1>2, <1>3, <1>6, <2>1, <2>2 DEF SweeperAt, SweepPc, AgedEntry
  <2>4. Ring(c, j)'
    BY <1>1, <1>2, <2>2, <2>3, SweeperWalks
  <2>5. Typed'
    BY <1>1, <2>1, <2>2 DEF Typed, TypeOK, SweepPc
  <2> QED
    BY <1>4, <2>4, <2>5 DEF HasRing
<1>7. CASE s.pos # ListHead /\ ~ AgedEntry(s.pos)
  <2>1. s' = [s EXCEPT !.pc = "q", !.pos = s.q] /\ idle' = idle
    BY <1>7 DEF SweepBody
  <2>2. /\ s'.pc = "q" /\ s'.pos = s.q
        /\ s' \in [pc : {"q"}, pos : Link, q : Link]
    BY <2>1 DEF Typed
  <2>3. SweeperAt(c, j + 1)'
    <3>1. \A k \in 1 .. Len(c) : k < j + 1 => k < j \/ k = j
      BY <1>3
    <3>2. \A k \in 1 .. Len(c) : k < j + 1 => ~ AgedEntry(c[k])
      BY <1>1, <1>2, <1>3, <1>7, <3>1 DEF SweeperAt, SweepPc
    <3>3. \A k \in 1 .. Len(c) : k < j + 1 => ~ AgedEntry(c[k])'
      BY <1>1, <3>2 DEF AgedEntry
    <3> QED
      BY <1>2, <1>3, <1>7, <2>1, <2>2, <3>3 DEF SweeperAt
  <2>4. Ring(c, j + 1)'
    BY <1>1, <1>2, <2>2, <2>3, SweeperWalks
  <2>5. Typed'
    BY <1>1, <2>1, <2>2 DEF Typed, TypeOK, SweepPc
  <2> QED
    BY <1>3, <1>4, <1>7, <2>4, <2>5 DEF HasRing
<1> QED
  BY <1>5, <1>6, <1>7

(* The removal of an entry: what is behind it points back past it. *)
LEMMA Unlink1Keeps ==
  ASSUME Typed, Serial, NEW c \in Seq(Node), NEW j \in 1 .. Len(c) + 1, Ring(c, j),
         Unlink1
  PROVE  Typed' /\ Serial' /\ HasRing(c)'
<1>1. /\ s.pc = "unlink1" /\ prev' = [prev EXCEPT ![next[s.pos]] = prev[s.pos]]
      /\ s' = [s EXCEPT !.pc = "unlink2"] /\ UNCHANGED <<next, data, live, p, idle>>
  BY DEF Unlink1, PrevWithout
<1>2. /\ s.pos = At(c, j) /\ OutsideP /\ SweeperAt(c, j) /\ j <= Len(c)
      /\ Distinct(c) /\ NextLinks(c) /\ PrevLinks(c, j) /\ PacketAt(c, j)
  BY <1>1 DEF Ring, SweeperAt, SweepPc, Serial, OutsideS
<1>3. p.pc \notin LinkPc \cup WalkPc \cup {"link4"}
  BY <1>2 DEF OutsideP, LinkPc, WalkPc
<1>4. next[At(c, j)] = At(c, j + 1) /\ j + 1 \in 1 .. Len(c) + 1 /\ j \in Nat
  BY <1>2, <1>3, WalkFacts
<1>5. prev[At(c, j)] = At(c, j - 1)
  BY <1>1, <1>2, <1>3 DEF PrevLinks, LinkPc
<1>6. prev \in [{ListHead} \cup Node -> Link]
  BY DEF Typed, TypeOK
<1>7. \A k : At(c, k) \in {ListHead} \cup Node /\ At(c, k) \in Link
  BY AtFacts
<1>8. /\ s'.pc = "unlink2" /\ s'.pos = s.pos
      /\ s' \in [pc : {"unlink2"}, pos : Link, q : Link]
  BY <1>1 DEF Typed
<1>9. prev' = [prev EXCEPT ![At(c, j + 1)] = At(c, j - 1)]
  BY <1>1, <1>2, <1>4, <1>5
<1>10. Typed'
  <2>1. prev' \in [{ListHead} \cup Node -> Link]
    BY <1>6, <1>7, <1>9
  <2> QED
    BY <1>1, <1>8, <2>1 DEF Typed, TypeOK, SweepPc
<1>11. Distinct(c)' /\ NextLinks(c)'
  BY <1>1, <1>2, <1>8 DEF Distinct, Extra, NextLinks
<1>12. PrevLinks(c, j)'
  <2>1. prev'[At(c, j + 1)] = At(c, j - 1)
    BY <1>6, <1>7, <1>9
  <2>2. \A k \in 1 .. Len(c) + 1 : k # j + 1 => prev'[At(c, k)] = prev[At(c, k)]
    <3>1. \A k \in 1 .. Len(c) + 1 : k # j + 1 => At(c, k) # At(c, j + 1)
      BY <1>2, <1>4, PlacesDiffer
    <3> QED
      BY <1>6, <1>7, <1>9, <3>1
  <2>3. \A k \in 1 .. Len(c) + 1 : prev[At(c, k)] = At(c, k - 1)
    BY <1>1, <1>2, <1>3 DEF PrevLinks, LinkPc
  <2> QED
    BY <1>1, <1>3, <1>8, <2>1, <2>2, <2>3 DEF PrevLinks, LinkPc
<1>13. PacketAt(c, j)'
  BY <1>1, <1>2, <1>3 DEF PacketAt, LinkPc, WalkPc
<1>14. SweeperAt(c, j)'
  BY <1>1, <1>2, <1>8 DEF SweeperAt, SweepPc, AgedEntry
<1>15. Serial'
  BY <1>1, <1>2 DEF Serial, OutsideP
<1> QED
  BY <1>10, <1>11, <1>12, <1>13, <1>14, <1>15 DEF HasRing, Ring

(* The ring without the block at place j. *)
Without(c, j) == [k \in 1 .. Len(c) - 1 |-> IF k < j THEN c[k] ELSE c[k + 1]]

(* What is before that place stays where it is, what is behind it moves up. *)
LEMMA WithoutFacts ==
  ASSUME NEW c \in Seq(Node), NEW j \in 1 .. Len(c)
  PROVE  /\ Without(c, j) \in Seq(Node) /\ Len(Without(c, j)) = Len(c) - 1
         /\ \A k \in 1 .. Len(c) - 1 :
              Without(c, j)[k] = IF k < j THEN c[k] ELSE c[k + 1]
         /\ \A k \in 0 .. Len(c) :
              At(Without(c, j), k) = IF k < j THEN At(c, k) ELSE At(c, k + 1)
<1> DEFINE d == Without(c, j)
<1>1. /\ Len(c) \in Nat /\ At(c, 0) = ListHead /\ At(c, Len(c) + 1) = ListHead
      /\ \A k \in 1 .. Len(c) : At(c, k) = c[k] /\ c[k] \in Node
  BY AtFacts
<1>2. /\ Len(c) - 1 \in Nat /\ j \in Nat
      /\ \A k \in 1 .. Len(c) - 1 : k \in 1 .. Len(c) /\ k + 1 \in 1 .. Len(c)
  BY <1>1
<1>3. d \in [1 .. Len(c) - 1 -> Node]
  BY <1>1, <1>2 DEF Without
<1>4. d \in Seq(Node) /\ Len(d) = Len(c) - 1
  BY <1>2, <1>3
<1>5. \A k \in 1 .. Len(c) - 1 : d[k] = IF k < j THEN c[k] ELSE c[k + 1]
  BY DEF Without
<1>6. /\ At(d, 0) = ListHead /\ At(d, Len(d) + 1) = ListHead
      /\ \A k \in 1 .. Len(d) : At(d, k) = d[k]
  BY <1>4, AtFacts
<1>7. ASSUME NEW k \in 0 .. Len(c)
      PROVE  At(d, k) = IF k < j THEN At(c, k) ELSE At(c, k + 1)
  <2>1. CASE k = 0
    <3>1. 0 < j
      OBVIOUS
    <3> QED
      BY <1>1, <1>6, <2>1, <3>1
  <2>2. CASE k = Len(c)
    <3>1. ~ (Len(c) < j) /\ Len(d) + 1 = Len(c)
      BY <1>1, <1>4
    <3> QED
      BY <1>1, <1>6, <2>2, <3>1
  <2>3. CASE k # 0 /\ k # Len(c)
    <3>1. k \in 1 .. Len(c) - 1
      BY <1>1, <2>3
    <3> QED
      BY <1>1, <1>2, <1>4, <1>5, <1>6, <3>1
  <2> QED
    BY <2>1, <2>2, <2>3
<1> QED
  BY <1>4, <1>5, <1>7

(* Then what is before it points past it, and the list is without it. *)
LEMMA Unlink2Keeps ==
  ASSUME Typed, Serial, NEW c \in Seq(Node), NEW j \in 1 .. Len(c) + 1, Ring(c, j),
         Unlink2
  PROVE  /\ Typed' /\ Serial' /\ j \in 1 .. Len(c)
         /\ Without(c, j) \in Seq(Node) /\ HasRing(Without(c, j))'
<1>1. /\ s.pc = "unlink2" /\ next' = [next EXCEPT ![prev[s.pos]] = next[s.pos]]
      /\ s' = [s EXCEPT !.pc = "free"] /\ idle' = 0 /\ UNCHANGED <<prev, data, live, p>>
  BY DEF Unlink2, NextWithout
<1>2. /\ s.pos = At(c, j) /\ OutsideP /\ j <= Len(c)
      /\ Distinct(c) /\ NextLinks(c) /\ PrevLinks(c, j) /\ PacketAt(c, j)
  BY <1>1 DEF Ring, SweeperAt, SweepPc, Serial, OutsideS
<1>3. p.pc \notin LinkPc \cup WalkPc \cup {"link4"} /\ p'.pc = p.pc
  BY <1>1, <1>2 DEF OutsideP, LinkPc, WalkPc
<1>4. /\ Len(c) \in Nat /\ Len(c) # 0 /\ j \in Nat /\ j \in 1 .. Len(c)
      /\ j - 1 \in 0 .. Len(c) /\ j \in 0 .. Len(c) /\ j # j + 1
      /\ (j - 1) + 1 = j /\ j # 0
  <2>1. Len(c) \in Nat
    BY AtFacts
  <2> QED
    BY <1>2, <2>1
<1>5. /\ \A k \in 0 .. Len(c) : next[At(c, k)] = At(c, k + 1)
      /\ \A k \in 1 .. Len(c) + 1 :
           prev[At(c, k)] = IF k = j + 1 THEN At(c, j - 1) ELSE At(c, k - 1)
  BY <1>1, <1>2, <1>3 DEF NextLinks, PrevLinks, LinkPc
<1>6. prev[s.pos] = At(c, j - 1) /\ next[s.pos] = At(c, j + 1)
  BY <1>2, <1>4, <1>5
<1>7. next \in [{ListHead} \cup Node -> Link]
  BY DEF Typed, TypeOK
<1>8. /\ \A k : At(c, k) \in {ListHead} \cup Node /\ At(c, k) \in Link
      /\ \A k \in 1 .. Len(c) : At(c, k) = c[k] /\ c[k] \in Node /\ c[k] \in Blocks(c)
  BY AtFacts
<1>9. /\ next'[At(c, j - 1)] = At(c, j + 1)
      /\ \A k \in 0 .. Len(c) : k # j - 1 => next'[At(c, k)] = At(c, k + 1)
  <2>1. \A k \in 0 .. Len(c) : k # j - 1 => At(c, k) # At(c, j - 1)
    BY <1>2, <1>4, PlacesDiffer
  <2> QED
    BY <1>1, <1>5, <1>6, <1>7, <1>8, <2>1
<1>10. /\ s'.pc = "free" /\ s'.pos = s.pos /\ s.pos \in Node /\ s.pos = c[j]
       /\ s' \in [pc : {"free"}, pos : Link, q : Link]
  BY <1>1, <1>2, <1>4, <1>8 DEF Typed
<1>11. Typed'
  <2>1. next' \in [{ListHead} \cup Node -> Link]
    BY <1>1, <1>6, <1>7, <1>8
  <2>2. idle' \in 0 .. SweepPeriod
    BY <1>1, NodeFacts
  <2> QED
    BY <1>1, <1>10, <2>1, <2>2 DEF Typed, TypeOK
<1>12. PICK d \in Seq(Node) : d = Without(c, j)
  BY <1>4, WithoutFacts
<1>13. /\ Len(d) = Len(c) - 1
       /\ \A k \in 1 .. Len(c) - 1 : d[k] = IF k < j THEN c[k] ELSE c[k + 1]
       /\ \A k \in 0 .. Len(c) : At(d, k) = IF k < j THEN At(c, k) ELSE At(c, k + 1)
  BY <1>4, <1>12, WithoutFacts
<1>14. \A k \in 1 .. Len(d) : d[k] \in Blocks(c) /\ d[k] # c[j]
                              /\ \E l \in 1 .. Len(c) : d[k] = c[l]
  <2>1. \A k \in 1 .. Len(d) : /\ k \in 1 .. Len(c) - 1 /\ k \in 1 .. Len(c)
                               /\ k + 1 \in 1 .. Len(c)
                               /\ k < j => k # j
                               /\ ~ (k < j) => k + 1 # j
    BY <1>4, <1>13
  <2> QED
    BY <1>2, <1>4, <1>8, <1>13, <2>1 DEF Distinct
<1>15. Distinct(d)'
  <2>1. \A k, l \in 1 .. Len(d) : d[k] = d[l] => k = l
    <3> SUFFICES ASSUME NEW k \in 1 .. Len(d), NEW l \in 1 .. Len(d), d[k] = d[l]
                 PROVE  k = l
      OBVIOUS
    <3> DEFINE kk == IF k < j THEN k ELSE k + 1
               ll == IF l < j THEN l ELSE l + 1
    <3>1. kk \in 1 .. Len(c) /\ ll \in 1 .. Len(c) /\ k \in 1 .. Len(c) - 1
          /\ l \in 1 .. Len(c) - 1
      BY <1>4, <1>13
    <3>2. c[kk] = c[ll]
      BY <1>13, <3>1
    <3>3. kk = ll
      <4> HIDE DEF kk, ll
      <4> QED
        BY <1>2, <3>1, <3>2 DEF Distinct
    <3> QED
      BY <1>4, <3>1, <3>3
  <2>2. Blocks(c) = Blocks(d) \cup {c[j]} /\ Blocks(d) \cap {c[j]} = {}
    <3>1. \A k \in 1 .. Len(c) : k = j \/ \E l \in 1 .. Len(d) : c[k] = d[l]
      <4> SUFFICES ASSUME NEW k \in 1 .. Len(c), k # j
                   PROVE  \E l \in 1 .. Len(d) : c[k] = d[l]
        OBVIOUS
      <4>1. CASE k < j
        <5>1. k \in 1 .. Len(d) /\ k \in 1 .. Len(c) - 1
          BY <1>4, <1>13, <4>1
        <5> QED
          BY <1>13, <4>1, <5>1
      <4>2. CASE ~ (k < j)
        <5>1. k - 1 \in 1 .. Len(d) /\ k - 1 \in 1 .. Len(c) - 1 /\ ~ (k - 1 < j)
              /\ (k - 1) + 1 = k
          BY <1>4, <1>13, <4>2
        <5> QED
          BY <1>13, <5>1
      <4> QED
        BY <4>1, <4>2
    <3> QED
      BY <1>4, <1>14, <3>1 DEF Blocks
  <2>3. live = Blocks(c)
    BY <1>1, <1>2, <1>3 DEF Distinct, Extra, LinkPc
  <2>4. Extra' = {c[j]}
    BY <1>3, <1>10 DEF Extra, LinkPc
  <2> QED
    BY <1>1, <2>1, <2>2, <2>3, <2>4 DEF Distinct
<1>16. NextLinks(d)'
  <2>1. ASSUME NEW k \in 0 .. Len(d)
        PROVE  next'[At(d, k)] = At(d, k + 1)
    <3>1. k \in 0 .. Len(c) /\ k + 1 \in 0 .. Len(c)
      BY <1>4, <1>13
    <3>2. CASE k = j - 1
      <4>1. k < j /\ ~ (k + 1 < j) /\ (k + 1) + 1 = j + 1
        BY <1>4, <3>2
      <4> QED
        BY <1>9, <1>13, <3>1, <3>2, <4>1
    <3>3. CASE k < j /\ k # j - 1
      <4>1. k + 1 < j
        BY <1>4, <3>1, <3>3
      <4> QED
        BY <1>9, <1>13, <3>1, <3>3, <4>1
    <3>4. CASE ~ (k < j)
      <4>1. ~ (k + 1 < j) /\ k + 1 # j - 1
        BY <1>4, <3>1, <3>4
      <4> QED
        BY <1>9, <1>13, <3>1, <3>4, <4>1
    <3> QED
      BY <3>2, <3>3, <3>4
  <2> QED
    BY <1>3, <2>1 DEF NextLinks, LinkPc
<1>17. PrevLinks(d, 1)'
  <2>1. ASSUME NEW k \in 1 .. Len(d) + 1
        PROVE  prev[At(d, k)] = At(d, k - 1)
    <3>1. k \in 0 .. Len(c) /\ k - 1 \in 0 .. Len(c) /\ k \in 1 .. Len(c) + 1
          /\ k + 1 \in 1 .. Len(c) + 1 /\ (k + 1) - 1 = k /\ (k - 1) + 1 = k
      BY <1>4, <1>13
    <3>2. CASE k < j
      <4>1. k - 1 < j /\ k # j + 1
        BY <1>4, <3>1, <3>2
      <4> QED
        BY <1>5, <1>13, <3>1, <3>2, <4>1
    <3>3. CASE k = j
      <4>1. ~ (k < j) /\ k - 1 < j
        BY <1>4, <3>3
      <4> QED
        BY <1>5, <1>13, <3>1, <3>3, <4>1
    <3>4. CASE ~ (k < j) /\ k # j
      <4>1. ~ (k - 1 < j) /\ k + 1 # j + 1
        BY <1>4, <3>1, <3>4
      <4> QED
        BY <1>5, <1>13, <3>1, <3>4, <4>1
    <3> QED
      BY <3>2, <3>3, <3>4
  <2> QED
    BY <1>1, <1>3, <1>10, <2>1 DEF PrevLinks, LinkPc
<1>18. PacketAt(d, 1)'
  <2>1. p.pc = "insert" => \A k \in 1 .. Len(c) : data[c[k]].mac # p.frame.src
    BY <1>2 DEF PacketAt
  <2>2. p.pc = "insert" => \A k \in 1 .. Len(d) : data[d[k]].mac # p.frame.src
    BY <1>14, <2>1
  <2> QED
    BY <1>1, <1>3, <2>2 DEF PacketAt, LinkPc, WalkPc
<1>19. SweeperAt(d, 1)' /\ 1 \in 1 .. Len(d) + 1
  BY <1>4, <1>10, <1>13 DEF SweeperAt, SweepPc
<1>20. HasRing(d)'
  BY <1>15, <1>16, <1>17, <1>18, <1>19 DEF HasRing, Ring
<1>21. Serial'
  BY <1>1, <1>2 DEF Serial, OutsideP
<1>22. Without(c, j)' = Without(c, j)
  BY DEF Without
<1> QED
  BY <1>4, <1>11, <1>12, <1>20, <1>21, <1>22

(* The block is given back; nothing points to it any more. *)
LEMMA FreeKeeps ==
  ASSUME Typed, Serial, NEW c \in Seq(Node), NEW j \in 1 .. Len(c) + 1, Ring(c, j),
         Free
  PROVE  Typed' /\ Serial' /\ HasRing(c)'
<1>1. /\ s.pc = "free" /\ live' = live \ {s.pos}
      /\ next' = [next EXCEPT ![s.pos] = NIL] /\ prev' = [prev EXCEPT ![s.pos] = NIL]
      /\ data' = [data EXCEPT ![s.pos] = Unset]
      /\ s' = SweepIdle /\ s'.pc = "idle" /\ UNCHANGED <<p, idle>>
  BY DEF Free, SweepIdle
<1>2. /\ Distinct(c) /\ NextLinks(c) /\ PrevLinks(c, j) /\ PacketAt(c, j)
      /\ s.pos \in Node /\ OutsideP
  BY <1>1 DEF Ring, SweeperAt, Serial, OutsideS
<1>3. p.pc \notin LinkPc \cup WalkPc \cup {"link4"} /\ p'.pc = p.pc
  BY <1>1, <1>2 DEF OutsideP, LinkPc, WalkPc
<1>4. s.pos \notin Blocks(c) /\ live' = Blocks(c)
  BY <1>1, <1>2, <1>3 DEF Distinct, Extra, LinkPc
<1>5. \A k : At(c, k) # s.pos
  BY <1>2, <1>4, PlacesDiffer
<1>6. /\ next \in [{ListHead} \cup Node -> Link] /\ prev \in [{ListHead} \cup Node -> Link]
      /\ data \in [Node -> Payload]
  BY DEF Typed, TypeOK
<1>7. /\ \A k : At(c, k) \in {ListHead} \cup Node
      /\ \A k \in 1 .. Len(c) : At(c, k) = c[k] /\ c[k] \in Node
      /\ Blocks(c) \subseteq Node
  BY AtFacts
<1>8. /\ \A k : next'[At(c, k)] = next[At(c, k)] /\ prev'[At(c, k)] = prev[At(c, k)]
      /\ \A k \in 1 .. Len(c) : data'[c[k]] = data[c[k]]
  BY <1>1, <1>5, <1>6, <1>7
<1>9. Typed'
  <2>1. NIL \in Link /\ Unset \in Payload /\ ListHead \in Link
    BY DEF Link, Payload
  <2>2. /\ next' \in [{ListHead} \cup Node -> Link] /\ prev' \in [{ListHead} \cup Node -> Link]
        /\ data' \in [Node -> Payload]
    BY <1>1, <1>6, <2>1
  <2>3. live' \subseteq Node /\ \A n \in live' : data'[n] \in EntryType
    BY <1>1, <1>4, <1>6, <1>7 DEF Typed
  <2>4. s' \in [pc : {"idle"}, pos : Link, q : Link]
    BY <1>1, <2>1 DEF SweepIdle
  <2> QED
    BY <1>1, <2>2, <2>3, <2>4 DEF Typed, TypeOK
<1>10. Distinct(c)'
  BY <1>1, <1>2, <1>3, <1>4 DEF Distinct, Extra
<1>11. NextLinks(c)' /\ PrevLinks(c, j)'
  BY <1>1, <1>2, <1>3, <1>8 DEF NextLinks, PrevLinks, LinkPc
<1>12. PacketAt(c, j)'
  BY <1>1, <1>2, <1>3, <1>8 DEF PacketAt, LinkPc, WalkPc
<1>13. SweeperAt(c, j)'
  BY <1>1 DEF SweeperAt, SweepPc
<1> QED
  BY <1>1, <1>9, <1>10, <1>11, <1>12, <1>13 DEF HasRing, Ring, Serial, OutsideS

(* A second passes between two operations: the entries age. *)
LEMMA TickKeeps ==
  ASSUME Typed, NEW c \in Seq(Node), NEW j \in 1 .. Len(c) + 1, Ring(c, j), Tick
  PROVE  /\ Typed' /\ Serial' /\ HasRing(c)'
         /\ \A n \in live :
              data'[n] = IF data[n].age < AgeCap
                         THEN [data[n] EXCEPT !.age = @ + 1] ELSE data[n]
<1>1. /\ OutsideP /\ s.pc = "idle" /\ idle < SweepPeriod /\ idle' = idle + 1
      /\ data' = [n \in Node |-> IF n \in live /\ data[n].age < AgeCap
                                 THEN [data[n] EXCEPT !.age = @ + 1] ELSE data[n]]
      /\ UNCHANGED <<next, prev, live, p, s>>
  BY DEF Tick, OutsideS
<1>2. p.pc \notin LinkPc \cup WalkPc \cup {"link4"} /\ p'.pc = p.pc
  BY <1>1 DEF OutsideP, LinkPc, WalkPc
<1>3. /\ data \in [Node -> Payload] /\ live \subseteq Node
      /\ \A n \in live : data[n] \in EntryType
  BY DEF Typed, TypeOK
<1>4. \A n \in live : data'[n] = IF data[n].age < AgeCap
                                 THEN [data[n] EXCEPT !.age = @ + 1] ELSE data[n]
  BY <1>1, <1>3
<1>5. \A n \in live : data'[n].mac = data[n].mac /\ data'[n] \in EntryType
  <2> SUFFICES ASSUME NEW n \in live
               PROVE  data'[n].mac = data[n].mac /\ data'[n] \in EntryType
    OBVIOUS
  <2>1. data[n] \in EntryType /\ data[n].age \in 0 .. AgeCap /\ AgeCap \in Nat
    BY <1>3, NodeFacts DEF EntryType
  <2>2. CASE data[n].age < AgeCap
    <3>1. data'[n] = [data[n] EXCEPT !.age = data[n].age + 1]
      BY <1>4, <2>2
    <3>2. data[n].age + 1 \in 0 .. AgeCap
      BY <2>1, <2>2
    <3> QED
      BY <2>1, <3>1, <3>2 DEF EntryType
  <2>3. CASE ~ (data[n].age < AgeCap)
    BY <1>4, <2>1, <2>3
  <2> QED
    BY <2>2, <2>3
<1>6. data' \in [Node -> Payload]
  <2>1. \A n \in Node : data'[n] \in Payload
    BY <1>1, <1>3, <1>5 DEF Payload, EntryType
  <2> QED
    BY <1>1, <2>1
<1>7. idle' \in 0 .. SweepPeriod
  BY <1>1, NodeFacts DEF Typed, TypeOK
<1>8. Typed'
  BY <1>1, <1>3, <1>5, <1>6, <1>7 DEF Typed, TypeOK
<1>9. \A k \in 1 .. Len(c) : c[k] \in live
  BY AtFacts DEF Ring, Distinct
<1>10. Distinct(c)' /\ NextLinks(c)' /\ PrevLinks(c, j)'
  BY <1>1 DEF Ring, Distinct, Extra, NextLinks, PrevLinks
<1>11. PacketAt(c, j)'
  BY <1>1, <1>2, <1>5, <1>9 DEF Ring, PacketAt, LinkPc, WalkPc
<1>12. SweeperAt(c, j)'
  BY <1>1 DEF SweeperAt, SweepPc
<1> QED
  BY <1>1, <1>4, <1>8, <1>10, <1>11, <1>12 DEF HasRing, Ring, Serial, OutsideS

-----------------------------------------------------------------------------
(* init_mac_port_table leaves an empty list: the head alone is a ring. *)
LEMMA InitEmpty ==
  ASSUME Init
  PROVE  Typed /\ Serial /\ HasRing(<< >>)
<1>1. /\ p = PacketIdle /\ p.pc = "idle" /\ s = SweepIdle /\ s.pc = "idle"
      /\ live = {} /\ idle = 0 /\ data = [n \in Node |-> Unset] /\ prev = next
      /\ next = [n \in {ListHead} \cup Node |-> IF n = ListHead THEN ListHead ELSE NIL]
  BY DEF Init, PacketIdle, SweepIdle
<1>2. /\ << >> \in Seq(Node) /\ Len(<< >>) = 0 /\ 1 .. 0 = {}
      /\ 1 \in 1 .. 0 + 1 /\ 0 .. 0 = {0} /\ 1 .. 0 + 1 = {1} /\ 0 + 1 = 1 /\ 1 - 1 = 0
  OBVIOUS
<1>3. \A k : At(<< >>, k) = ListHead
  BY <1>2 DEF At
<1>4. Typed
  <2>1. 0 \in 0 .. SweepPeriod
    BY NodeFacts
  <2> QED
    BY <1>1, <2>1 DEF Typed, TypeOK, Payload, PacketIdle, SweepIdle, Link
<1>5. Distinct(<< >>)
  BY <1>1, <1>2 DEF Distinct, Blocks, Extra, LinkPc
<1>6. next[ListHead] = ListHead /\ prev[ListHead] = ListHead
  BY <1>1
<1>7. NextLinks(<< >>) /\ PrevLinks(<< >>, 1)
  BY <1>1, <1>2, <1>3, <1>6 DEF NextLinks, PrevLinks
<1>8. PacketAt(<< >>, 1) /\ SweeperAt(<< >>, 1)
  BY <1>1 DEF PacketAt, SweeperAt, WalkPc, LinkPc, SweepPc
<1> QED
  BY <1>1, <1>2, <1>4, <1>5, <1>7, <1>8 DEF HasRing, Ring, Serial, OutsideS

(* What a step does to the ring: list_insert appends a block to it with    *)
(* its third write, list_delete_entry takes the first aged one out of it   *)
(* with its second, and no other step of either thread changes it.         *)
LEMMA StepRing ==
  ASSUME Typed, Serial, Serial', NEW c \in Seq(Node), NEW j \in 1 .. Len(c) + 1,
         Ring(c, j), [Next]_vars
  PROVE  /\ Typed' /\ Serial'
         /\ Link3 => \E d \in Seq(Node) : d = Append(c, p.pos) /\ HasRing(d)'
         /\ Unlink2 => /\ j \in 1 .. Len(c) /\ Without(c, j) \in Seq(Node)
                       /\ HasRing(Without(c, j))'
         /\ ~ Link3 /\ ~ Unlink2 => HasRing(c)'
<1>1. CASE Link3
  <2>1. ~ Unlink2
    BY <1>1 DEF Link3, Unlink2, Serial, OutsideP, OutsideS
  <2> QED
    BY <1>1, <2>1, Link3Keeps
<1>2. CASE Unlink2
  <2>1. ~ Link3
    BY <1>2 DEF Link3, Unlink2, Serial, OutsideP, OutsideS
  <2> QED
    BY <1>2, <2>1, Unlink2Keeps
<1>3. CASE ~ Link3 /\ ~ Unlink2
  <2> SUFFICES Typed' /\ Serial' /\ HasRing(c)'
    BY <1>3
  <2>1. CASE \E src, dst \in MAC, in \in Iface : Recv(src, dst, in)
    BY <2>1, RecvKeeps
  <2>2. CASE StartSrc
    BY <2>2, StartSrcKeeps
  <2>3. CASE lookup_dst \/ lookup_src
    BY <2>3, WalkNextKeeps, WalkBodyKeeps DEF lookup_dst, lookup_src
  <2>4. CASE Return
    BY <2>4, ReturnKeeps
  <2>5. CASE \E n \in Node : Malloc(n)
    BY <2>5, MallocKeeps
  <2>6. CASE Link1
    BY <2>6, Link1Keeps
  <2>7. CASE Link2
    BY <2>7, Link2Keeps
  <2>8. CASE Link4
    BY <2>8, Link4Keeps
  <2>9. CASE StartSweep
    BY <2>9, StartSweepKeeps
  <2>10. CASE SweepNext
    BY <2>10, SweepNextKeeps
  <2>11. CASE SweepBody
    BY <2>11, SweepBodyKeeps
  <2>12. CASE Unlink1
    BY <2>12, Unlink1Keeps
  <2>13. CASE Free
    BY <2>13, FreeKeeps
  <2>14. CASE Tick
    BY <2>14, TickKeeps
  <2>15. CASE UNCHANGED vars
    <3>1. UNCHANGED <<next, prev, data, live, p, s, idle>>
      BY <2>15 DEF vars
    <3>2. Typed' /\ Serial'
      BY <3>1 DEF Typed, TypeOK, Serial, OutsideP, OutsideS
    <3>3. Ring(c, j)'
      BY <3>1 DEF Ring, Distinct, Extra, NextLinks, PrevLinks, PacketAt, SweeperAt,
                  AgedEntry, NewEntry
    <3> QED
      BY <3>2, <3>3 DEF HasRing
  <2> QED
    BY <1>3, <2>1, <2>2, <2>3, <2>4, <2>5, <2>6, <2>7, <2>8, <2>9, <2>10, <2>11,
       <2>12, <2>13, <2>14, <2>15 DEF Next, Packet, Sweeper
<1> QED
  BY <1>1, <1>2, <1>3

(* In every execution of the program in which no two operations are under  *)
(* way at a time, the list is a ring, up to the write that is due.         *)
THEOREM ListInvariance ==
  Spec /\ []Serial => []ListInv
<1>1. Init => ListInv
  <2>1. << >> \in Seq(Node)
    OBVIOUS
  <2> QED
    BY <2>1, InitEmpty DEF ListInv, Closed
<1>2. ListInv /\ Serial' /\ [Next]_vars => ListInv'
  <2> SUFFICES ASSUME ListInv, Serial', [Next]_vars PROVE ListInv'
    OBVIOUS
  <2>1. PICK c \in Seq(Node) : HasRing(c)
    BY DEF ListInv, Closed
  <2>2. PICK j \in 1 .. Len(c) + 1 : Ring(c, j)
    BY <2>1 DEF HasRing
  <2>3. Typed /\ Serial
    BY DEF ListInv
  <2>4. /\ Typed' /\ Serial'
        /\ \E d \in Seq(Node) : HasRing(d)'
    BY <2>2, <2>3, StepRing
  <2> QED
    BY <2>4 DEF ListInv, Closed
<1> QED
  BY <1>1, <1>2, PTL DEF Spec

(* If no operation starts while one of the other thread is under way, no   *)
(* two of them are ever under way: the schedules of Overlap = FALSE, those *)
(* of a program that takes the lock, are among the ones spoken of above.   *)
THEOREM ListLockSerialises ==
  ASSUME ~ Overlap
  PROVE  Spec => []Serial
<1>1. Init => ListInv
  BY InitEmpty, << >> \in Seq(Node) DEF ListInv, Closed
<1>2. ListInv /\ [Next]_vars => ListInv'
  <2> SUFFICES ASSUME ListInv, [Next]_vars PROVE ListInv'
    OBVIOUS
  <2>0. PICK c \in Seq(Node) : HasRing(c)
    BY DEF ListInv, Closed
  <2>1. PICK j \in 1 .. Len(c) + 1 : Ring(c, j)
    BY <2>0 DEF HasRing
  <2>2. Typed /\ Serial
    BY DEF ListInv
  <2>3. Serial'
    <3>1. CASE Packet /\ OutsideS
      <4>1. s' = s
        BY <3>1 DEF Packet, Recv, StartSrc, lookup_dst, lookup_src, WalkNext, WalkBody,
                    Return, Malloc, Link1, Link2, Link3, Link4
      <4> QED
        BY <3>1, <4>1 DEF Serial, OutsideS
    <3>2. CASE Packet /\ ~ OutsideS
      BY <2>2, <3>2 DEF Packet, Recv, StartSrc, lookup_dst, lookup_src, WalkNext, WalkBody,
                  Return, Malloc, Link1, Link2, Link3, Link4, Serial, OutsideP
    <3>3. CASE Sweeper
      <4>1. OutsideP /\ p' = p
        BY <2>2, <3>3 DEF Sweeper, StartSweep, SweepNext, SweepBody, Unlink1, Unlink2, Free,
                          Serial, OutsideS
      <4> QED
        BY <4>1 DEF Serial, OutsideP
    <3>4. CASE Tick \/ UNCHANGED vars
      BY <2>2, <3>4 DEF Tick, vars, Serial, OutsideP, OutsideS
    <3> QED
      BY <3>1, <3>2, <3>3, <3>4 DEF Next
  <2>4. /\ Typed' /\ Serial'
        /\ \E d \in Seq(Node) : HasRing(d)'
    BY <2>1, <2>2, <2>3, StepRing
  <2> QED
    BY <2>4 DEF ListInv, Closed
<1> QED
  BY <1>1, <1>2, PTL DEF Spec, ListInv

(* The types of the list and of the places its two walks are at. *)
THEOREM ListTypeCorrect ==
  Spec /\ []Serial => []TypeOK
  BY ListInvariance, PTL DEF ListInv, Typed

(* Both walks of list_for_each_entry_safe, and the writes of list_insert,  *)
(* only follow pointers to the list head or to a block in use.             *)
THEOREM ListSafeWalk ==
  Spec /\ []Serial => []SafeWalk
<1>1. ListInv => SafeWalk
  <2> SUFFICES ASSUME ListInv PROVE SafeWalk
    OBVIOUS
  <2>1. PICK c \in Seq(Node) : HasRing(c)
    BY DEF ListInv, Closed
  <2>2. PICK j \in 1 .. Len(c) + 1 : Ring(c, j)
    BY <2>1 DEF HasRing
  <2>3. \A k : At(c, k) \in {ListHead} \cup live
    BY <2>2 DEF Ring, Distinct, At, Blocks
  <2> QED
    BY <2>2, <2>3 DEF SafeWalk, Ring, PacketAt, SweeperAt, WalkPc, SweepPc, LinkPc
<1> QED
  BY <1>1, ListInvariance, PTL

-----------------------------------------------------------------------------
(* A nonempty set of numbers has a least one. *)
LEMMA LeastNumber ==
  ASSUME NEW T \in SUBSET Nat, T # {}
  PROVE  \E x \in T : \A y \in T : x <= y
<1> DEFINE R == OpToRel(<, Nat)
<1>1. IsWellFoundedOn(R, Nat)
  BY NatLessThanWellFounded
<1>2. \A x, y \in Nat : x < y => <<x, y>> \in R
  BY DEF OpToRel
<1> HIDE DEF R
<1>3. PICK x \in T : \A y \in T : ~ (<<y, x>> \in R)
  BY <1>1, WFMin
<1>4. \A y \in T : x \in Nat /\ y \in Nat /\ ~ (y < x)
  BY <1>2, <1>3
<1>5. \A y \in T : x <= y
  BY <1>4
<1> QED
  BY <1>5

(* The first k blocks of a ring. *)
Prefix(c, k) == [i \in 1 .. k |-> c[i]]

(* They grow by the next block; all of them are the ring. *)
LEMMA PrefixFacts ==
  ASSUME NEW c \in Seq(Node)
  PROVE  /\ \A k \in 0 .. Len(c) :
              /\ Prefix(c, k) \in Seq(Node) /\ Len(Prefix(c, k)) = k
              /\ (Prefix(c, k) = << >>) = (k = 0)
              /\ k # 0 => Prefix(c, k)[k] = c[k]
              /\ k < Len(c) => Append(Prefix(c, k), c[k + 1]) = Prefix(c, k + 1)
         /\ Prefix(c, Len(c)) = c /\ Prefix(c, 0) = << >>
<1>1. Len(c) \in Nat /\ \A i \in 1 .. Len(c) : c[i] \in Node
  BY AtFacts
<1>2. ASSUME NEW k \in 0 .. Len(c)
      PROVE  /\ Prefix(c, k) \in Seq(Node) /\ Len(Prefix(c, k)) = k
             /\ \A i \in 1 .. k : Prefix(c, k)[i] = c[i]
  <2>1. k \in Nat /\ \A i \in 1 .. k : i \in 1 .. Len(c)
    BY <1>1
  <2>2. Prefix(c, k) \in [1 .. k -> Node]
    BY <1>1, <2>1 DEF Prefix
  <2> QED
    BY <2>1, <2>2 DEF Prefix
<1>3. ASSUME NEW k \in 0 .. Len(c)
      PROVE  (Prefix(c, k) = << >>) = (k = 0) /\ (k # 0 => Prefix(c, k)[k] = c[k])
  <2>1. k # 0 => k \in 1 .. k
    BY <1>1
  <2>2. Prefix(c, k) = << >> <=> Len(Prefix(c, k)) = 0
    BY <1>2, EmptySeq
  <2> QED
    BY <1>2, <2>1, <2>2
<1>4. ASSUME NEW k \in 0 .. Len(c), k < Len(c)
      PROVE  Append(Prefix(c, k), c[k + 1]) = Prefix(c, k + 1)
  <2>1. k \in Nat /\ k + 1 \in 0 .. Len(c) /\ k + 1 \in 1 .. Len(c)
    BY <1>1, <1>4
  <2> DEFINE a == Append(Prefix(c, k), c[k + 1])
             b == Prefix(c, k + 1)
  <2>2. /\ a \in Seq(Node) /\ Len(a) = k + 1 /\ a[k + 1] = c[k + 1]
        /\ \A i \in 1 .. k : a[i] = c[i]
    BY <1>1, <1>2, <2>1, AppendProperties
  <2>3. /\ b \in Seq(Node) /\ Len(b) = k + 1 /\ \A i \in 1 .. k + 1 : b[i] = c[i]
    BY <1>2, <2>1
  <2>4. \A i \in 1 .. k + 1 : i \in 1 .. k \/ i = k + 1
    BY <2>1
  <2> HIDE DEF a, b
  <2>5. a = b
    BY <2>2, <2>3, <2>4, SeqEqual
  <2> QED
    BY <2>5 DEF a, b
<1>5. Len(c) \in 0 .. Len(c) /\ 0 \in 0 .. Len(c)
  BY <1>1
<1>6. Prefix(c, Len(c)) = c
  BY <1>2, <1>5, SeqEqual
<1> QED
  BY <1>2, <1>3, <1>4, <1>5, <1>6

(* No block twice, so no more of them than there are. *)
LEMMA RingIsShort ==
  ASSUME NEW c \in Seq(Node), Distinct(c)
  PROVE  Len(c) <= Cardinality(Node)
<1>1. Len(c) \in Nat /\ \A k \in 1 .. Len(c) : c[k] \in Node
  BY AtFacts
<1>2. [k \in 1 .. Len(c) |-> c[k]] \in Injection(1 .. Len(c), Node)
  BY <1>1 DEF Injection, Distinct, IsInjective
<1>3. Cardinality(1 .. Len(c)) <= Cardinality(Node)
  BY <1>2, NodeFacts, FS_Injection
<1>4. Cardinality(1 .. Len(c)) = Len(c)
  <2>1. Cardinality(1 .. Len(c)) = IF 1 > Len(c) THEN 0 ELSE Len(c) - 1 + 1
    BY <1>1, FS_Interval
  <2> QED
    BY <1>1, <2>1
<1> QED
  BY <1>3, <1>4

(* One step of the walk of Chain, and the walk. *)
Extend(w, k) ==
  LET n == next[IF w = << >> THEN ListHead ELSE w[Len(w)]]
  IN  IF Len(w) < k - 1 \/ n \notin Node THEN w
      ELSE IF next[n] = NIL THEN w ELSE Append(w, n)
IsWalk(f) ==
  f = [k \in 0 .. Cardinality(Node) |-> IF k = 0 THEN << >> ELSE Extend(f[k-1], k)]

(* Chain is where some such walk ends. *)
LEMMA ChainDef == Chain = (CHOOSE f : IsWalk(f))[Cardinality(Node)]
  BY DEF Chain, IsWalk, Extend

(* The walk of Chain along a ring meets its blocks in order and stops at   *)
(* the list head, or before a block that is not yet linked forward.        *)
LEMMA ChainIsRing ==
  ASSUME Typed, NEW c \in Seq(Node), HasRing(c)
  PROVE  Chain = c
<1>0. PICK j \in 1 .. Len(c) + 1 : Ring(c, j)
  BY DEF HasRing
<1> DEFINE N == Len(c)
           M == Cardinality(Node)
           V(k) == IF k < N THEN k ELSE N
           W == [k \in 0 .. M |-> Prefix(c, V(k))]
<1>1. N \in Nat /\ M \in Nat /\ N <= M
  BY <1>0, AtFacts, NodeFacts, RingIsShort DEF Ring
<1>2. Distinct(c) /\ NextLinks(c) /\ PacketAt(c, j)
  BY <1>0 DEF Ring
<1>3. /\ At(c, 0) = ListHead /\ At(c, N + 1) = ListHead
      /\ \A k \in 1 .. N : At(c, k) = c[k] /\ c[k] \in Node
      /\ \A k : At(c, k) \in {ListHead} \cup Node
  BY AtFacts
<1>4. ASSUME NEW k \in 0 .. N, k < N
      PROVE  /\ next[At(c, k)] = c[k + 1] /\ c[k + 1] \in Node
             /\ next[c[k + 1]] # NIL
  <2>1. k + 1 \in 1 .. N /\ k + 1 \in 0 .. N /\ k # N
    BY <1>1, <1>4
  <2>2. next[At(c, k)] = c[k + 1] /\ c[k + 1] \in Node /\ At(c, k + 1) = c[k + 1]
    BY <1>2, <1>3, <2>1 DEF NextLinks
  <2>3. next[At(c, k + 1)] = IF k + 1 = N /\ p.pc = "link3" THEN p.pos
                             ELSE At(c, (k + 1) + 1)
    BY <1>2, <2>1 DEF NextLinks
  <2>4. p.pc = "link3" => p.pos \in Node
    BY <1>2 DEF PacketAt, LinkPc
  <2>5. next[At(c, k + 1)] \in {ListHead} \cup Node
    BY <1>3, <2>3, <2>4
  <2> QED
    BY <2>2, <2>5, NodeFacts
<1>5. next[At(c, N)] \in Node => next[next[At(c, N)]] = NIL
  <2>1. N \in 0 .. N
    BY <1>1
  <2>2. next[At(c, N)] = IF p.pc = "link3" THEN p.pos ELSE ListHead
    BY <1>2, <1>3, <2>1 DEF NextLinks
  <2>3. p.pc = "link3" => next[p.pos] = NIL
    BY <1>2 DEF PacketAt, LinkPc
  <2> QED
    BY <2>2, <2>3, NodeFacts
<1>6. /\ \A k \in 0 .. N :
           /\ Prefix(c, k) \in Seq(Node) /\ Len(Prefix(c, k)) = k
           /\ (Prefix(c, k) = << >>) = (k = 0)
           /\ k # 0 => Prefix(c, k)[k] = c[k]
           /\ k < N => Append(Prefix(c, k), c[k + 1]) = Prefix(c, k + 1)
      /\ Prefix(c, N) = c /\ Prefix(c, 0) = << >>
  BY PrefixFacts
<1>7. \A k \in 0 .. N :
        LET w == Prefix(c, k) IN (IF w = << >> THEN ListHead ELSE w[Len(w)]) = At(c, k)
  <2> SUFFICES ASSUME NEW k \in 0 .. N
               PROVE  LET w == Prefix(c, k)
                      IN  (IF w = << >> THEN ListHead ELSE w[Len(w)]) = At(c, k)
    OBVIOUS
  <2>1. k = 0 \/ k \in 1 .. N
    BY <1>1
  <2> QED
    BY <1>3, <1>6, <2>1
<1> HIDE DEF N, M
<1>8. ASSUME NEW k \in 1 .. M
      PROVE  Extend(Prefix(c, V(k - 1)), k) = Prefix(c, V(k))
  <2>1. CASE k - 1 < N
    <3>1. k - 1 \in 0 .. N /\ V(k - 1) = k - 1 /\ V(k) = k /\ (k - 1) + 1 = k
          /\ ~ (k - 1 < k - 1)
      BY <1>1, <2>1
    <3>2. next[At(c, k - 1)] = c[k] /\ c[k] \in Node /\ next[c[k]] # NIL
      BY <1>4, <2>1, <3>1
    <3>3. Extend(Prefix(c, k - 1), k) = Append(Prefix(c, k - 1), c[k])
      BY <1>6, <1>7, <3>1, <3>2 DEF Extend
    <3>4. Append(Prefix(c, k - 1), c[k]) = Prefix(c, k)
      BY <1>6, <2>1, <3>1
    <3> QED
      BY <3>1, <3>3, <3>4
  <2>2. CASE ~ (k - 1 < N)
    <3>1. V(k - 1) = N /\ V(k) = N /\ N \in 0 .. N
      BY <1>1, <2>2
    <3>2. Extend(Prefix(c, N), k) = Prefix(c, N)
      BY <1>5, <1>6, <1>7, <3>1 DEF Extend
    <3> QED
      BY <3>1, <3>2
  <2> QED
    BY <2>1, <2>2
<1>9. V(0) = 0 /\ V(M) = N /\ M \in 0 .. M /\ 0 \in 0 .. M
  BY <1>1
<1> HIDE DEF V
<1>10. IsWalk(W)
  <2> SUFFICES ASSUME NEW k \in 0 .. M
               PROVE  Prefix(c, V(k)) = IF k = 0 THEN << >> ELSE Extend(W[k-1], k)
    BY DEF IsWalk, M
  <2>1. CASE k = 0
    BY <1>6, <1>9, <2>1
  <2>2. CASE k # 0
    <3>1. k \in 1 .. M /\ k - 1 \in 0 .. M
      BY <1>1, <2>2
    <3> QED
      BY <1>8, <2>2, <3>1
  <2> QED
    BY <2>1, <2>2
<1>11. PICK f : f = CHOOSE g : IsWalk(g)
  OBVIOUS
<1>12. f = [k \in 0 .. M |-> IF k = 0 THEN << >> ELSE Extend(f[k-1], k)]
  <2>1. IsWalk(f)
    BY <1>10, <1>11
  <2> QED
    BY <2>1 DEF IsWalk, M
<1>13. \A k \in 0 .. M : f[k] = W[k]
  <2> DEFINE T == {k \in 0 .. M : f[k] # W[k]}
  <2> SUFFICES ASSUME T # {} PROVE FALSE
    OBVIOUS
  <2>1. PICK x \in T : \A y \in T : x <= y
    <3>1. T \in SUBSET Nat
      BY <1>1
    <3> HIDE DEF T
    <3> QED
      BY <3>1, LeastNumber
  <2>2. x \in 0 .. M /\ f[x] # W[x]
    BY <2>1
  <2>3. CASE x = 0
    BY <1>6, <1>9, <1>12, <2>2, <2>3
  <2>4. CASE x # 0
    <3>1. x \in 1 .. M /\ x - 1 \in 0 .. M /\ ~ (x <= x - 1)
      BY <1>1, <2>2, <2>4
    <3>2. f[x - 1] = W[x - 1]
      BY <2>1, <3>1
    <3>3. f[x] = Extend(f[x - 1], x)
      BY <1>12, <2>2, <2>4
    <3>4. W[x - 1] = Prefix(c, V(x - 1)) /\ W[x] = Prefix(c, V(x))
      BY <2>2, <3>1
    <3> QED
      BY <1>8, <2>2, <3>1, <3>2, <3>3, <3>4
  <2> QED
    BY <2>3, <2>4
<1>14. f[M] = c
  <2>1. W[M] = Prefix(c, N)
    BY <1>9
  <2> QED
    BY <1>6, <1>9, <1>13, <2>1
<1>15. Chain = f[M]
  BY <1>11, ChainDef DEF M
<1> QED
  BY <1>14, <1>15

(* Between operations the list is a ring of exactly the blocks in use. *)
THEOREM ListWellLinked ==
  Spec /\ []Serial => []WellLinked
<1>1. ListInv => WellLinked
  <2> SUFFICES ASSUME ListInv, OutsideP, OutsideS
               PROVE  LET ring == {ListHead} \cup {Chain[k] : k \in 1 .. Len(Chain)}
                      IN  /\ ring = {ListHead} \cup live
                          /\ \A n \in ring : next[n] \in ring /\ prev[next[n]] = n
    BY DEF WellLinked
  <2>1. PICK c \in Seq(Node) : HasRing(c)
    BY DEF ListInv, Closed
  <2>2. PICK j \in 1 .. Len(c) + 1 : Ring(c, j)
    BY <2>1 DEF HasRing
  <2>3. Chain = c
    BY <2>1, ChainIsRing DEF ListInv
  <2>4. live = Blocks(c)
    BY <2>2 DEF Ring, Distinct, Extra, OutsideP, OutsideS, LinkPc
  <2>5. /\ \A k \in 0 .. Len(c) : next[At(c, k)] = At(c, k + 1)
        /\ \A k \in 1 .. Len(c) + 1 : prev[At(c, k)] = At(c, k - 1)
    BY <2>2 DEF Ring, NextLinks, PrevLinks, OutsideP, OutsideS
  <2>6. /\ Len(c) \in Nat /\ At(c, 0) = ListHead
        /\ \A k \in 1 .. Len(c) : At(c, k) = c[k]
    BY AtFacts
  <2>7. \A k : At(c, k) \in {ListHead} \cup Blocks(c)
    BY DEF At, Blocks
  <2>8. \A n \in {ListHead} \cup Blocks(c) : \E k \in 0 .. Len(c) : n = At(c, k)
    <3>1. 0 \in 0 .. Len(c) /\ \A k \in 1 .. Len(c) : k \in 0 .. Len(c)
      BY <2>6
    <3> QED
      BY <2>6, <3>1 DEF Blocks
  <2>9. \A k \in 0 .. Len(c) : k + 1 \in 1 .. Len(c) + 1 /\ (k + 1) - 1 = k
    BY <2>6
  <2>10. \A n \in {ListHead} \cup Blocks(c) :
           next[n] \in {ListHead} \cup Blocks(c) /\ prev[next[n]] = n
    <3> SUFFICES ASSUME NEW n \in {ListHead} \cup Blocks(c)
                 PROVE  next[n] \in {ListHead} \cup Blocks(c) /\ prev[next[n]] = n
      OBVIOUS
    <3>1. PICK k \in 0 .. Len(c) : n = At(c, k)
      BY <2>8
    <3>2. next[n] = At(c, k + 1) /\ prev[At(c, k + 1)] = At(c, (k + 1) - 1)
      BY <2>5, <2>9, <3>1
    <3> QED
      BY <2>7, <2>9, <3>1, <3>2
  <2> QED
    BY <2>3, <2>4, <2>10 DEF Blocks
<1> QED
  BY <1>1, ListInvariance, PTL

-----------------------------------------------------------------------------
(* The table that the list represents, and the one on the ring c. *)
TableOf == [k \in 1 .. Len(Chain) |-> data[Chain[k]]]
On(c) == [k \in 1 .. Len(c) |-> data[c[k]]]

(* They are the same. *)
Represented == \A e \in Seq(Node) : Typed /\ HasRing(e) => TableOf = On(e)

(* The walk of Chain meets the blocks of the ring, in this and, as it is a *)
(* fact about every state, in the next state of a step.                    *)
LEMMA TableIsOnRing == Represented
  BY ChainIsRing DEF Represented, TableOf, On

(* The entries of the ring. *)
LEMMA OnFacts ==
  ASSUME Typed, NEW c \in Seq(Node), NEW j \in 1 .. Len(c) + 1, Ring(c, j)
  PROVE  /\ \A k \in 1 .. Len(c) : c[k] \in live /\ data[c[k]] \in EntryType
         /\ On(c) \in Seq(EntryType) /\ Len(On(c)) = Len(c) /\ DOMAIN On(c) = 1 .. Len(c)
         /\ \A k \in 1 .. Len(c) : On(c)[k] = data[c[k]]
<1>1. Len(c) \in Nat
  BY AtFacts
<1>2. \A k \in 1 .. Len(c) : c[k] \in live /\ data[c[k]] \in EntryType
  BY AtFacts DEF Ring, Distinct, Typed
<1>3. On(c) \in [1 .. Len(c) -> EntryType]
  BY <1>2 DEF On
<1> QED
  BY <1>1, <1>2, <1>3 DEF On

(* The third write of list_insert is the insertion: the source of the      *)
(* frame was not in the table, and is its last entry now.                  *)
LEMMA Link3Inserts ==
  ASSUME Typed, Typed', Serial, NEW c \in Seq(Node), NEW j \in 1 .. Len(c) + 1, Ring(c, j),
         NEW d \in Seq(Node), d = Append(c, p.pos), HasRing(d)', Link3
  PROVE  \E mac \in MAC, iface \in Iface : Table!Insert(mac, iface)
<1>1. p.pc = "link3" /\ UNCHANGED <<data, idle>>
  BY DEF Link3
<1>2. /\ p.frame \in FrameType /\ p.pos \in Node /\ data[p.pos] = NewEntry
      /\ \A k \in 1 .. Len(c) : data[c[k]].mac # p.frame.src
      /\ p.pos \in live
  BY <1>1 DEF Typed, Ring, PacketAt, LinkPc, Distinct, Extra
<1>3. p.frame.src \in MAC /\ p.frame.in \in Iface /\ NewEntry \in EntryType
  BY <1>2 DEF FrameType, Typed
<1>4. TableOf = On(c)
  BY TableIsOnRing DEF HasRing, Represented
<1>5. TableOf' = On(d)'
  <2>1. Represented'
    BY TableIsOnRing, PTL
  <2> QED
    BY <2>1 DEF Represented
<1>6. /\ On(c) \in Seq(EntryType) /\ Len(On(c)) = Len(c) /\ DOMAIN On(c) = 1 .. Len(c)
      /\ \A k \in 1 .. Len(c) : On(c)[k] = data[c[k]]
  BY OnFacts
<1>7. On(d)' = Append(On(c), NewEntry)
  <2>1. Len(c) \in Nat
    BY AtFacts
  <2>2. /\ Len(d) = Len(c) + 1 /\ d[Len(c) + 1] = p.pos
        /\ \A k \in 1 .. Len(c) : d[k] = c[k]
    BY <1>2, AppendProperties
  <2>3. \A k \in 1 .. Len(c) + 1 : k \in 1 .. Len(c) \/ k = Len(c) + 1
    BY <2>1
  <2> DEFINE a == Append(On(c), NewEntry)
             b == [k \in 1 .. Len(c) + 1 |-> data[d[k]]]
  <2>4. /\ a \in Seq(EntryType) /\ Len(a) = Len(c) + 1 /\ a[Len(c) + 1] = NewEntry
        /\ \A k \in 1 .. Len(c) : a[k] = data[c[k]]
    BY <1>3, <1>6, AppendProperties
  <2>5. \A k \in 1 .. Len(c) + 1 : b[k] = a[k]
    <3> HIDE DEF a
    <3> QED
      BY <1>2, <2>2, <2>3, <2>4
  <2>6. b = a
    <3>1. a = [k \in 1 .. Len(c) + 1 |-> a[k]]
      <4> HIDE DEF a
      <4> QED
        BY <2>4
    <3> HIDE DEF a
    <3> QED
      BY <2>5, <3>1
  <2> QED
    BY <1>1, <2>2, <2>6 DEF On
<1>8. PICK m \in MAC, i \in Iface : m = p.frame.src /\ i = p.frame.in
  BY <1>3
<1>9. Table!Matching(m) = {}
  <2>1. Table!Matching(m) = {k \in DOMAIN On(c) : On(c)[k].mac = m}
    BY <1>4 DEF Table!Matching, TableOf
  <2> QED
    BY <1>2, <1>6, <1>8, <2>1
<1>10. Table!insert_mac_port(m, i)
  <2>1. TableOf' = Append(TableOf, [mac |-> m, iface |-> i, age |-> 0])
    BY <1>4, <1>5, <1>7, <1>8 DEF NewEntry
  <2> QED
    BY <2>1 DEF Table!insert_mac_port, TableOf
<1>11. Table!Insert(m, i)
  BY <1>1, <1>9, <1>10 DEF Table!Insert, Table!lookup_port
<1> QED
  BY <1>11


(* RemoveAt keeps what is before position i and moves up the rest. *)
LEMMA RemovalMovesUp ==
  ASSUME NEW S, NEW t \in Seq(S), NEW i \in 1 .. Len(t)
  PROVE  Table!RemoveAt(t, i) = [k \in 1 .. Len(t) - 1 |-> IF k < i THEN t[k] ELSE t[k+1]]
<1> DEFINE l == SubSeq(t, 1, i - 1)
           r == SubSeq(t, i + 1, Len(t))
<1>1. Len(t) \in Nat /\ i \in Nat
  BY LenProperties
<1>2. l \in Seq(S) /\ Len(l) = i - 1 /\ \A k \in 1 .. i - 1 : l[k] = t[k]
  BY <1>1, SMT
<1>3. r \in Seq(S) /\ Len(r) = Len(t) - i /\ \A k \in 1 .. Len(t) - i : r[k] = t[i + k]
  BY <1>1, SMT
<1>4. Table!RemoveAt(t, i) = l \o r
  BY DEF Table!RemoveAt
<1>5. /\ Len(l \o r) = Len(l) + Len(r) /\ l \o r \in Seq(S)
      /\ \A k \in 1 .. Len(l) + Len(r) :
           (l \o r)[k] = IF k <= Len(l) THEN l[k] ELSE r[k - Len(l)]
  BY <1>2, <1>3, ConcatProperties
<1> HIDE DEF l, r
<1>6. Len(l) + Len(r) = Len(t) - 1
  BY <1>1, <1>2, <1>3
<1>7. ASSUME NEW k \in 1 .. Len(t) - 1
      PROVE  (l \o r)[k] = IF k < i THEN t[k] ELSE t[k+1]
  <2>1. CASE k < i
    <3>1. k <= Len(l) /\ k \in 1 .. i - 1
      BY <1>1, <1>2, <2>1
    <3> QED
      BY <1>2, <1>5, <1>6, <2>1, <3>1
  <2>2. CASE ~ (k < i)
    <3>1. ~ (k <= Len(l)) /\ k - Len(l) \in 1 .. Len(t) - i /\ i + (k - Len(l)) = k + 1
      BY <1>1, <1>2, <2>2
    <3> QED
      BY <1>3, <1>5, <1>6, <2>2, <3>1
  <2> QED
    BY <2>1, <2>2
<1>8. l \o r = [k \in 1 .. Len(t) - 1 |-> (l \o r)[k]]
  <2>1. PICK u \in Seq(S) : u = l \o r
    BY <1>5
  <2>2. Len(u) = Len(t) - 1
    BY <1>5, <1>6, <2>1
  <2>3. u = [k \in 1 .. Len(t) - 1 |-> u[k]]
    BY <2>2
  <2> QED
    BY <2>1, <2>3
<1> QED
  BY <1>4, <1>7, <1>8

(* The aged entries of the table are those the sweep would remove. *)
LEMMA AgedOnRing ==
  ASSUME Typed, NEW c \in Seq(Node), NEW j \in 1 .. Len(c) + 1, Ring(c, j)
  PROVE  Table!Aged = {k \in 1 .. Len(c) : AgedEntry(c[k])}
<1>1. TableOf = On(c)
  BY TableIsOnRing DEF HasRing, Represented
<1>2. DOMAIN On(c) = 1 .. Len(c) /\ \A k \in 1 .. Len(c) : On(c)[k] = data[c[k]]
  BY OnFacts
<1>3. Table!Aged = {k \in DOMAIN On(c) : On(c)[k].age >= MAC_PORT_TIMEOUT}
  BY <1>1 DEF Table!Aged, TableOf
<1> QED
  BY <1>2, <1>3 DEF AgedEntry

(* The second write of list_delete_entry is the sweep of the first aged    *)
(* entry of the table.                                                     *)
LEMMA Unlink2Sweeps ==
  ASSUME Typed, Typed', Serial, NEW c \in Seq(Node), NEW j \in 1 .. Len(c), Ring(c, j),
         NEW d \in Seq(Node), d = Without(c, j), HasRing(d)', Unlink2
  PROVE  Table!Sweep
<1>1. s.pc = "unlink2" /\ idle' = 0 /\ data' = data
  BY DEF Unlink2
<1>2. /\ idle > 0 /\ AgedEntry(c[j])
      /\ \A k \in 1 .. Len(c) : k < j => ~ AgedEntry(c[k])
  BY <1>1 DEF Ring, SweeperAt, SweepPc
<1>3. Len(c) \in Nat /\ j \in Nat /\ j \in 1 .. Len(c) + 1
  BY AtFacts
<1>4. Table!Aged = {k \in 1 .. Len(c) : AgedEntry(c[k])}
  BY <1>3, AgedOnRing
<1>5. j \in Table!Aged /\ \A k \in Table!Aged : k \in Nat /\ j <= k
  BY <1>2, <1>3, <1>4
<1>6. Table!Aged # {} /\ Table!Min(Table!Aged) = j
  <2> DEFINE S == Table!Aged
  <2> HIDE DEF S
  <2>1. j \in S /\ \A k \in S : k \in Nat /\ j <= k
    BY <1>5 DEF S
  <2>2. \A x \in S : (\A k \in S : x <= k) => x = j
    BY <1>3, <2>1
  <2>3. Table!Min(S) = j
    BY <2>1, <2>2 DEF Table!Min
  <2> QED
    BY <2>1, <2>3 DEF S
<1>7. TableOf = On(c)
  BY <1>3, TableIsOnRing DEF HasRing, Represented
<1>8. TableOf' = On(d)'
  <2>1. Represented'
    BY TableIsOnRing, PTL
  <2> QED
    BY <2>1 DEF Represented
<1>9. /\ On(c) \in Seq(EntryType) /\ Len(On(c)) = Len(c)
      /\ \A k \in 1 .. Len(c) : On(c)[k] = data[c[k]]
  BY <1>3, OnFacts
<1>10. Table!RemoveAt(On(c), j) =
         [k \in 1 .. Len(c) - 1 |-> IF k < j THEN On(c)[k] ELSE On(c)[k + 1]]
  BY <1>9, RemovalMovesUp
<1>11. On(d)' = Table!RemoveAt(On(c), j)
  <2>1. /\ Len(d) = Len(c) - 1
        /\ \A k \in 1 .. Len(c) - 1 : d[k] = IF k < j THEN c[k] ELSE c[k + 1]
    BY WithoutFacts
  <2>2. \A k \in 1 .. Len(c) - 1 : k \in 1 .. Len(c) /\ k + 1 \in 1 .. Len(c)
    BY <1>3
  <2>3. \A k \in 1 .. Len(c) - 1 :
          data[d[k]] = IF k < j THEN On(c)[k] ELSE On(c)[k + 1]
    BY <1>9, <2>1, <2>2
  <2>4. On(d)' = [k \in 1 .. Len(c) - 1 |-> data[d[k]]]
    BY <1>1, <2>1 DEF On
  <2> QED
    BY <1>10, <2>3, <2>4
<1>12. TableOf' = Table!RemoveAt(TableOf, Table!Min(Table!Aged))
  BY <1>6, <1>7, <1>8, <1>11
<1>13. Table!sweep_aged_mac_port_entry
  BY <1>6, <1>12 DEF Table!sweep_aged_mac_port_entry, TableOf
<1> QED
  BY <1>1, <1>2, <1>13 DEF Table!Sweep

(* A sweep that reaches the list head again has found no aged entry. *)
LEMMA EndOfWalkSweeps ==
  ASSUME Typed, Serial, NEW c \in Seq(Node), NEW j \in 1 .. Len(c) + 1, Ring(c, j),
         SweepBody, s.pos = ListHead, TableOf' = TableOf
  PROVE  Table!Sweep
<1>1. s.pc = "body" /\ idle' = 0
  BY DEF SweepBody
<1>2. /\ s.pos = At(c, j) /\ idle > 0
      /\ \A k \in 1 .. Len(c) : k < j => ~ AgedEntry(c[k])
  BY <1>1 DEF Ring, SweeperAt, SweepPc
<1>3. Len(c) \in Nat
  BY AtFacts
<1>4. ~ (j <= Len(c))
  <2>1. j <= Len(c) => j \in 1 .. Len(c)
    BY <1>3
  <2> QED
    BY <1>2, <2>1, AtFacts
<1>5. \A k \in 1 .. Len(c) : k < j
  BY <1>3, <1>4
<1>6. Table!Aged = {}
  BY <1>2, <1>5, AgedOnRing
<1>7. Table!sweep_aged_mac_port_entry
  BY <1>6 DEF Table!sweep_aged_mac_port_entry, TableOf
<1> QED
  BY <1>1, <1>2, <1>7 DEF Table!Sweep

(* A second that passes for the list passes for the table. *)
LEMMA TickTicks ==
  ASSUME Typed, Typed', NEW c \in Seq(Node), NEW j \in 1 .. Len(c) + 1, Ring(c, j),
         HasRing(c)', Tick
  PROVE  Table!Tick
<1>1. idle < SweepPeriod /\ idle' = idle + 1
  BY DEF Tick
<1>2. \A n \in live : data'[n] = IF data[n].age < AgeCap
                                 THEN [data[n] EXCEPT !.age = @ + 1] ELSE data[n]
  BY TickKeeps
<1>3. TableOf = On(c)
  BY TableIsOnRing DEF HasRing, Represented
<1>4. TableOf' = On(c)'
  <2>1. Represented'
    BY TableIsOnRing, PTL
  <2> QED
    BY <2>1 DEF Represented
<1>5. /\ \A k \in 1 .. Len(c) : c[k] \in live /\ data[c[k]] \in EntryType
      /\ DOMAIN On(c) = 1 .. Len(c)
      /\ \A k \in 1 .. Len(c) : On(c)[k] = data[c[k]]
  BY OnFacts
<1>6. Table!AgeCap = AgeCap /\ AgeCap \in Nat
  <2>1. PICK m \in Nat : m = SweepPeriod * Cardinality(MAC)
    <3>1. Cardinality(MAC) \in Nat
      BY TableAssumption, FS_CardinalityType
    <3> QED
      BY <3>1, NodeFacts
  <2>2. Table!AgeCap = (MAC_PORT_TIMEOUT + m - 1) + 1 /\ AgeCap = MAC_PORT_TIMEOUT + m
    <3>1. Table!Cardinality(MAC) = Cardinality(MAC)
      BY DEF Table!Cardinality, Cardinality, Table!IsFiniteSet, IsFiniteSet
    <3> QED
      BY <2>1, <3>1 DEF Table!AgeCap, Table!MaxAge, AgeCap
  <2> QED
    BY <2>2, NodeFacts
<1>7. ASSUME NEW k \in 1 .. Len(c)
      PROVE  data'[c[k]] = [data[c[k]] EXCEPT !.age = Table!Older(@)]
  <2>1. PICK e \in EntryType : e = data[c[k]]
    BY <1>5
  <2>2. data'[c[k]] = IF e.age < AgeCap THEN [e EXCEPT !.age = e.age + 1] ELSE e
    BY <1>2, <1>5, <2>1
  <2>3. e.age \in 0 .. AgeCap
    BY DEF EntryType
  <2>4. CASE e.age < AgeCap
    <3>1. Table!Older(e.age) = e.age + 1
      BY <1>6, <2>4 DEF Table!Older
    <3> QED
      BY <2>1, <2>2, <2>4, <3>1
  <2>5. CASE ~ (e.age < AgeCap)
    <3>1. e.age = AgeCap
      BY <1>6, <2>3, <2>5
    <3>2. Table!Older(e.age) = e.age
      BY <1>6, <2>5, <3>1 DEF Table!Older
    <3>3. [e EXCEPT !.age = e.age] = e
      BY DEF EntryType
    <3> QED
      BY <2>1, <2>2, <2>5, <3>2, <3>3
  <2> QED
    BY <2>4, <2>5
<1>8. On(c)' = [k \in DOMAIN On(c) |-> [On(c)[k] EXCEPT !.age = Table!Older(@)]]
  <2>1. On(c)' = [k \in 1 .. Len(c) |-> data'[c[k]]]
    BY DEF On
  <2> QED
    BY <1>5, <1>7, <2>1
<1>9. TableOf' = [k \in DOMAIN TableOf |-> [TableOf[k] EXCEPT !.age = Table!Older(@)]]
  BY <1>3, <1>4, <1>8
<1> QED
  BY <1>1, <1>9 DEF Table!Tick, TableOf

(* Every other step leaves the entries of the ring as they are. *)
LEMMA OtherStepsKeepData ==
  ASSUME Typed, Serial, NEW c \in Seq(Node), NEW j \in 1 .. Len(c) + 1, Ring(c, j),
         [Next]_vars, ~ Tick
  PROVE  \A k \in 1 .. Len(c) : data'[c[k]] = data[c[k]]
<1>1. data \in [Node -> Payload]
  BY DEF Typed, TypeOK
<1>2. \A k \in 1 .. Len(c) : c[k] \in Blocks(c) /\ c[k] \in Node
  BY AtFacts
<1>3. CASE \E n \in Node : Malloc(n)
  <2>1. PICK n \in Node : Malloc(n)
    BY <1>3
  <2>2. n \notin live /\ data' = [data EXCEPT ![n] = NewEntry]
    BY <2>1 DEF Malloc
  <2> QED
    BY <1>1, <1>2, <2>2 DEF Ring, Distinct
<1>4. CASE Free
  <2>1. s.pc = "free" /\ data' = [data EXCEPT ![s.pos] = Unset] /\ p.pc \notin LinkPc
    BY <1>4 DEF Free, Serial, OutsideP, OutsideS, LinkPc
  <2>2. s.pos \notin Blocks(c)
    BY <2>1 DEF Ring, Distinct, Extra
  <2> QED
    BY <1>1, <1>2, <2>1, <2>2
<1>5. CASE ~ (\E n \in Node : Malloc(n)) /\ ~ Free
  <2>1. UNCHANGED data
    BY <1>5 DEF Next, Packet, Sweeper, Recv, StartSrc, lookup_dst, lookup_src, WalkNext,
                WalkBody, Return, Link1, Link2, Link3, Link4, StartSweep, SweepNext,
                SweepBody, Unlink1, Unlink2, vars
  <2> QED
    BY <2>1
<1> QED
  BY <1>3, <1>4, <1>5

(* Nor do they touch the time since the last sweep. *)
LEMMA OtherStepsKeepIdle ==
  ASSUME [Next]_vars, ~ Tick, ~ Unlink2, ~ (SweepBody /\ s.pos = ListHead)
  PROVE  idle' = idle
  BY DEF Next, Packet, Sweeper, Recv, StartSrc, lookup_dst, lookup_src, WalkNext,
         WalkBody, Return, Malloc, Link1, Link2, Link3, Link4, StartSweep, SweepNext,
         SweepBody, Unlink1, Free, vars

(* The pointer writes of operations that do not overlap act as the atomic  *)
(* operations of the forwarding database, each at a single one of them.    *)
THEOREM ListImplementsTable ==
  Spec /\ []Serial => ImplementsTable
<1>1. Init => Table!TableInit
  <2> SUFFICES ASSUME Init PROVE Table!TableInit
    OBVIOUS
  <2>1. << >> \in Seq(Node) /\ Len(<< >>) = 0 /\ 1 .. 0 = {}
    OBVIOUS
  <2>2. TableOf = On(<< >>)
    BY <2>1, InitEmpty, TableIsOnRing DEF Represented
  <2>3. On(<< >>) = << >>
    BY <2>1 DEF On
  <2> QED
    BY <2>2, <2>3 DEF Table!TableInit, TableOf, Init
<1>2. ListInv /\ Serial' /\ [Next]_vars => [Table!TableNext]_(Table!tableVars)
  <2> SUFFICES ASSUME ListInv, Serial', [Next]_vars
               PROVE  Table!TableNext \/ (TableOf' = TableOf /\ idle' = idle)
    BY DEF Table!tableVars, TableOf
  <2>1. PICK c \in Seq(Node) : HasRing(c)
    BY DEF ListInv, Closed
  <2>2. PICK j \in 1 .. Len(c) + 1 : Ring(c, j)
    BY <2>1 DEF HasRing
  <2>3. Typed /\ Serial
    BY DEF ListInv
  <2>4. /\ Typed' /\ Serial'
        /\ Link3 => \E d \in Seq(Node) : d = Append(c, p.pos) /\ HasRing(d)'
        /\ Unlink2 => /\ j \in 1 .. Len(c) /\ Without(c, j) \in Seq(Node)
                      /\ HasRing(Without(c, j))'
        /\ ~ Link3 /\ ~ Unlink2 => HasRing(c)'
    BY <2>2, <2>3, StepRing
  <2>5. CASE Link3
    <3>1. PICK d \in Seq(Node) : d = Append(c, p.pos) /\ HasRing(d)'
      BY <2>4, <2>5
    <3> QED
      BY <2>2, <2>3, <2>4, <2>5, <3>1, Link3Inserts DEF Table!TableNext
  <2>6. CASE Unlink2
    <3>1. j \in 1 .. Len(c) /\ Without(c, j) \in Seq(Node) /\ HasRing(Without(c, j))'
      BY <2>4, <2>6
    <3>2. Table!Sweep
      BY <2>2, <2>3, <2>4, <2>6, <3>1, Unlink2Sweeps
    <3> QED
      BY <3>2 DEF Table!TableNext
  <2>7. CASE Tick
    <3>1. ~ Link3 /\ ~ Unlink2
      BY <2>7 DEF Tick, Link3, Unlink2, OutsideP, OutsideS
    <3>2. Table!Tick
      BY <2>2, <2>3, <2>4, <2>7, <3>1, TickTicks
    <3> QED
      BY <3>2 DEF Table!TableNext
  <2>8. CASE ~ Link3 /\ ~ Unlink2 /\ ~ Tick
    <3>1. TableOf = On(c)
      BY <2>1, <2>3, TableIsOnRing DEF Represented
    <3>2. TableOf' = On(c)'
      <4>1. Represented'
        BY TableIsOnRing, PTL
      <4> QED
        BY <2>4, <2>8, <4>1 DEF Represented
    <3>3. \A k \in 1 .. Len(c) : data'[c[k]] = data[c[k]]
      BY <2>2, <2>3, <2>8, OtherStepsKeepData
    <3>4. TableOf' = TableOf
      BY <3>1, <3>2, <3>3 DEF On
    <3>5. CASE SweepBody /\ s.pos = ListHead
      <4>1. Table!Sweep
        BY <2>2, <2>3, <3>4, <3>5, EndOfWalkSweeps
      <4> QED
        BY <4>1 DEF Table!TableNext
    <3>6. CASE ~ (SweepBody /\ s.pos = ListHead)
      BY <2>8, <3>4, <3>6, OtherStepsKeepIdle
    <3> QED
      BY <3>5, <3>6
  <2> QED
    BY <2>5, <2>6, <2>7, <2>8
<1> QED
  BY <1>1, <1>2, ListInvariance, PTL DEF Spec, ImplementsTable, Table!TableSpec
=============================================================================
