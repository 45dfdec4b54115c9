--------------------------- MODULE NatHashProofs ---------------------------
(***************************************************************************)
(* Proofs about the hash-bucket version of the address translator, for any *)
(* hash function and any number of buckets.                                *)
(***************************************************************************)
EXTENDS NatHash, NatPacketsProofs, SequenceTheorems

Bucket == 0 .. HASH_8BITS - 1
ThreadType == [pc : {"created", "walk", "remove", "done"}, now : 0 .. MaxTime,
               i : Bucket, pos : 0 .. Len(copies), q : 0 .. Len(copies)]

(* The types, with those of the two threads. *)
Typed ==
  /\ TypeOK
  /\ th \in ThreadType
  /\ stall \in Nat
  /\ main.pc \in {"insert", "copy", "translate"} =>
       main \in [pc : {"insert", "copy", "translate"}, pkt : Packet,
                 map : 0 .. Len(copies), new : BOOLEAN]
  /\ main.pc = "copy" => main.map = Len(copies) /\ main.map # 0

(* The walk of the timeout thread is at a copy of its bucket and knows one *)
(* behind it, or has come to the end.                                      *)
Walking ==
  th.pc \in {"walk", "remove"} =>
    /\ \A c \in {th.pos, th.q} \ {0} : c \in linked /\ copies[c].bucket = th.i
    /\ th.pos = 0 => th.q = 0
    /\ th.q # 0 => th.pos < th.q
    /\ th.pc = "remove" => th.pos # 0

(* No copy was stamped in the future, and the walk has not lasted longer   *)
(* than it may be held up.                                                 *)
Timely ==
  /\ \A c \in DOMAIN copies : copies[c].time <= clock
  /\ th.pc \in {"walk", "remove"} => clock - th.now <= stall

(* Nothing has been taken out of the buckets. *)
Whole == th.pc # "remove" /\ linked = DOMAIN copies

(* Every mapping has a copy where the search for its source looks. *)
SourceCopied ==
  \A c \in DOMAIN copies : \E d \in DOMAIN copies :
    /\ copies[d].inner = copies[c].inner
    /\ copies[d].bucket = hash[copies[c].inner]

(* It has one where the search for its port looks, unless that is yet to   *)
(* be inserted.                                                            *)
PortCopied ==
  \A c \in DOMAIN copies \ Inserted : \E d \in DOMAIN copies :
    /\ copies[d].ext = copies[c].ext
    /\ copies[d].bucket = nat_hash(external_ip, copies[c].ext)

(* A source has one port, and a port of the pool one source. *)
OneToOne ==
  \A c, d \in DOMAIN copies :
    /\ copies[c].inner = copies[d].inner => copies[c].ext = copies[d].ext
    /\ copies[c].ext = copies[d].ext /\ copies[c].ext # htons(NoPort) =>
         copies[c].inner = copies[d].inner

(* The ports in use are marked in the pool. *)
Marked ==
  \A c \in DOMAIN copies : htons(copies[c].ext) \in assigned_ports \cup {NoPort}

Copied == Whole /\ SourceCopied /\ PortCopied /\ OneToOne /\ Marked

(* What the packet thread has found out about its packet. *)
Outward == get_packet_direction(main.pkt) = "DIR_OUT"
Found ==
  /\ main.pc = "insert" =>
       /\ Outward /\ ~ main.new
       /\ \A c \in DOMAIN copies : copies[c].inner # main.pkt.src
  /\ main.pc = "copy" => main.new
  /\ main.pc \in {"copy", "translate"} /\ main.new =>
       /\ Outward /\ main.map # 0
       /\ \A c \in DOMAIN copies :
            copies[c].inner = main.pkt.src <=> c \in Inserted
       /\ main.pc = "translate" =>
            /\ Len(copies) = main.map + 1
            /\ copies[Len(copies)].bucket =
                 nat_hash(external_ip, copies[Len(copies)].ext)
  /\ main.pc = "translate" /\ ~ main.new =>
       /\ main.map = IF Outward THEN nat_lookup_internal(main.pkt.src)
                                ELSE nat_lookup_external(main.pkt.dst.port)
       /\ Outward => main.map # 0
  /\ main.pc = "crashed" =>
       \A c \in DOMAIN copies : copies[c].ext # main.pkt.dst.port

(* The last two hold unless the timeout thread is held up for a whole      *)
(* timeout.                                                                *)
Held == Prompt => Copied /\ Found

HashInv == Typed /\ Walking /\ Timely /\ Held
-----------------------------------------------------------------------------
(* The copies are numbered from 1. *)
LEMMA CopiesProperties ==
  ASSUME TypeOK
  PROVE  /\ copies \in Seq(Copy)
         /\ Len(copies) \in Nat /\ DOMAIN copies = 1 .. Len(copies)
         /\ linked \in SUBSET (Nat \ {0}) /\ linked \subseteq 1 .. Len(copies)
         /\ \A c \in 1 .. Len(copies) : copies[c] \in Copy
<1>1. copies \in Seq(Copy) /\ linked \subseteq DOMAIN copies
  BY DEF TypeOK
<1>2. Len(copies) \in Nat /\ DOMAIN copies = 1 .. Len(copies)
  BY <1>1, LenProperties
<1>3. \A c \in 1 .. Len(copies) : copies[c] \in Copy
  BY <1>1, ElementOfSeq
<1> QED
  BY <1>1, <1>2, <1>3

(* A copy in the buckets or the end of a list is the number of a copy or 0. *)
LEMMA EntryOrEnd ==
  ASSUME TypeOK, NEW c \in linked \cup {0}
  PROVE  c \in 0 .. Len(copies) /\ c \in Nat
<1>1. CASE c \in linked
  BY <1>1, CopiesProperties
<1>2. CASE c = 0
  BY <1>2, CopiesProperties
<1> QED
  BY <1>1, <1>2

(* The search for a port finds a copy with this port in its bucket, if     *)
(* there is one.                                                           *)
LEMMA ExternalSearch ==
  ASSUME TypeOK, NEW port
  PROVE  /\ nat_lookup_external(port) \in linked \cup {0}
         /\ nat_lookup_external(port) # 0 =>
              /\ nat_lookup_external(port) \in linked
              /\ copies[nat_lookup_external(port)].ext = port
         /\ \A c \in linked :
              copies[c].bucket = nat_hash(external_ip, port) /\ copies[c].ext = port
                => nat_lookup_external(port) # 0
<1> DEFINE S == {c \in linked : /\ copies[c].bucket = nat_hash(external_ip, port)
                                /\ copies[c].ext = port}
<1>1. S \in SUBSET (Nat \ {0})
  BY CopiesProperties
<1>2. nat_lookup_external(port) = First(S)
  BY DEF nat_lookup_external
<1>3. (First(S) = 0 <=> S = {}) /\ (S # {} => First(S) \in S)
  <2> HIDE DEF S
  <2> QED
    BY <1>1, FirstProperties
<1> QED
  BY <1>2, <1>3

(* The search for a source finds a copy with this source in its bucket, if *)
(* there is one.                                                           *)
LEMMA InternalSearch ==
  ASSUME TypeOK, NEW e
  PROVE  /\ nat_lookup_internal(e) \in linked \cup {0}
         /\ nat_lookup_internal(e) # 0 =>
              /\ nat_lookup_internal(e) \in linked
              /\ copies[nat_lookup_internal(e)].inner = e
         /\ \A c \in linked :
              copies[c].bucket = nat_hash(e.ip, e.port) /\ copies[c].inner = e
                => nat_lookup_internal(e) # 0
<1> DEFINE S == {c \in linked : /\ copies[c].bucket = nat_hash(e.ip, e.port)
                                /\ copies[c].inner = e}
<1>1. S \in SUBSET (Nat \ {0})
  BY CopiesProperties
<1>2. nat_lookup_internal(e) = First(S)
  BY DEF nat_lookup_internal
<1>3. (First(S) = 0 <=> S = {}) /\ (S # {} => First(S) \in S)
  <2> HIDE DEF S
  <2> QED
    BY <1>1, FirstProperties
<1> QED
  BY <1>2, <1>3

(* What a walk finds behind a copy is one of the bucket, further on, or    *)
(* the end.                                                                *)
LEMMA BehindType ==
  ASSUME TypeOK, NEW i, NEW pos \in Nat
  PROVE  /\ Behind(i, pos) \in linked \cup {0}
         /\ Behind(i, pos) # 0 =>
              /\ Behind(i, pos) \in linked
              /\ pos < Behind(i, pos) /\ copies[Behind(i, pos)].bucket = i
<1> DEFINE S == {c \in linked : copies[c].bucket = i /\ c > pos}
<1>1. S \in SUBSET (Nat \ {0})
  BY CopiesProperties
<1>2. Behind(i, pos) = First(S)
  BY DEF Behind
<1>3. \A c \in S : c \in linked /\ pos < c /\ copies[c].bucket = i
  BY CopiesProperties
<1> HIDE DEF S
<1>4. (First(S) = 0 <=> S = {}) /\ (S # {} => First(S) \in S)
  BY <1>1, FirstProperties
<1> QED
  BY <1>2, <1>3, <1>4

(* A new walk at a copy of bucket i, or at its end. *)
LEMMA FromProperties ==
  ASSUME Typed, NEW i \in Bucket, NEW pos \in linked \cup {0},
         pos # 0 => copies[pos].bucket = i
  PROVE  /\ From(i, pos) \in ThreadType
         /\ From(i, pos).pc = "walk" /\ From(i, pos).now = th.now
         /\ From(i, pos).i = i /\ From(i, pos).pos = pos
         /\ From(i, pos).q = IF pos = 0 THEN 0 ELSE Behind(i, pos)
         /\ From(i, pos).q \in linked \cup {0}
         /\ pos = 0 => From(i, pos).q = 0
         /\ From(i, pos).q # 0 =>
              /\ From(i, pos).q \in linked
              /\ pos < From(i, pos).q /\ copies[From(i, pos).q].bucket = i
<1> DEFINE q == IF pos = 0 THEN 0 ELSE Behind(i, pos)
<1>1. pos \in 0 .. Len(copies) /\ pos \in Nat
  BY EntryOrEnd DEF Typed
<1>2. /\ Behind(i, pos) \in linked \cup {0}
      /\ Behind(i, pos) # 0 =>
           /\ Behind(i, pos) \in linked
           /\ pos < Behind(i, pos) /\ copies[Behind(i, pos)].bucket = i
  BY <1>1, BehindType DEF Typed
<1>3. /\ q \in linked \cup {0} /\ (pos = 0 => q = 0)
      /\ q # 0 => q \in linked /\ pos < q /\ copies[q].bucket = i
  BY <1>2
<1>4. From(i, pos) = [th EXCEPT !.pc = "walk", !.i = i, !.pos = pos, !.q = q]
  BY DEF From
<1> HIDE DEF q
<1>5. q \in 0 .. Len(copies)
  BY <1>3, EntryOrEnd DEF Typed
<1>6. /\ From(i, pos) \in ThreadType
      /\ From(i, pos).pc = "walk" /\ From(i, pos).now = th.now
      /\ From(i, pos).i = i /\ From(i, pos).pos = pos /\ From(i, pos).q = q
  BY <1>1, <1>4, <1>5 DEF Typed, ThreadType
<1> QED
  BY <1>3, <1>6 DEF q

(* The port assigned to a mapping is free, or it is the one that stands    *)
(* for an exhausted pool.                                                  *)
LEMMA AssignedPort ==
  ASSUME TypeOK
  PROVE  /\ NoPort \in Port /\ NoPort \notin PoolRange
         /\ assign_external_port \in Port
         /\ \/ assign_external_port \in PoolRange \ assigned_ports
            \/ assign_external_port = NoPort
<1>1. ByteBase \in Nat \ {0, 1} /\ 0 \in 0 .. ByteBase * ByteBase - 1
  BY BaseAssumption
<1>2. NoPort \in Port /\ NoPort \notin PoolRange /\ PoolRange \subseteq Port
  BY <1>1, PortAssumption DEF NoPort, Port
<1>3. Port \subseteq Nat
  BY <1>1 DEF Port
<1>4. FreePorts \in SUBSET Nat /\ FreePorts \subseteq PoolRange \ assigned_ports
  BY <1>2, <1>3 DEF FreePorts
<1>5. FreePorts # {} => Min(FreePorts) \in FreePorts
  BY <1>4, MinProperties
<1> QED
  BY <1>2, <1>4, <1>5 DEF assign_external_port
-----------------------------------------------------------------------------
(* The copies of before are still there, but for the time they hold. *)
Kept ==
  \A c \in 1 .. Len(copies) :
    /\ copies'[c].inner = copies[c].inner /\ copies'[c].ext = copies[c].ext
    /\ copies'[c].bucket = copies[c].bucket
    /\ copies'[c].time \in {copies[c].time, clock}

(* Stamping a copy changes nothing but its time. *)
LEMMA StampProperties ==
  ASSUME Typed, NEW m \in 1 .. Len(copies), NEW s,
         s = [copies EXCEPT ![m].time = clock]
  PROVE  /\ s \in Seq(Copy) /\ Len(s) = Len(copies)
         /\ \A c \in 1 .. Len(copies) :
              /\ s[c].inner = copies[c].inner /\ s[c].ext = copies[c].ext
              /\ s[c].bucket = copies[c].bucket
              /\ s[c].time \in {copies[c].time, clock}
<1> DEFINE e == [copies[m] EXCEPT !.time = clock]
<1>1. copies \in Seq(Copy) /\ copies[m] \in Copy /\ clock \in 0 .. MaxTime
  BY CopiesProperties DEF Typed, TypeOK
<1>2. /\ e \in Copy /\ e.inner = copies[m].inner /\ e.ext = copies[m].ext
      /\ e.bucket = copies[m].bucket /\ e.time = clock
  BY <1>1 DEF Copy
<1>3. s = [copies EXCEPT ![m] = e]
  BY <1>1
<1> HIDE DEF e
<1>4. /\ s \in Seq(Copy) /\ Len(s) = Len(copies)
      /\ \A c \in 1 .. Len(copies) : s[c] = IF c = m THEN e ELSE copies[c]
  BY <1>1, <1>2, <1>3, ExceptSeq
<1> QED
  BY <1>2, <1>4

(* The first copy of a new mapping, for the source of the packet. *)
FirstCopy == [inner |-> main.pkt.src, ext |-> htons(assign_external_port),
              bucket |-> nat_hash(main.pkt.src.ip, main.pkt.src.port), time |-> 0]

(* The bucket of an endpoint is one of the buckets. *)
LEMMA HashType ==
  ASSUME NEW e \in Endpoint
  PROVE  /\ nat_hash(e.ip, e.port) = hash[e] /\ hash[e] \in Bucket
         /\ \A port \in Port : nat_hash(external_ip, port) \in Bucket
<1>1. [ip |-> e.ip, port |-> e.port] = e
  BY DEF Endpoint
<1>2. \A port \in Port : [ip |-> external_ip, port |-> port] \in Endpoint
  BY DEF Endpoint, Address
<1> QED
  BY <1>1, <1>2, HashAssumption DEF nat_hash, Bucket

(* It is added behind all the others. *)
LEMMA InsertInternalProperties ==
  ASSUME Typed, InsertInternal
  PROVE  /\ main.pkt \in Packet /\ main.pkt.src \in Endpoint
         /\ FirstCopy \in Copy
         /\ FirstCopy.bucket = hash[main.pkt.src]
         /\ copies' \in Seq(Copy) /\ Len(copies') = Len(copies) + 1
         /\ \A c \in 1 .. Len(copies) : copies'[c] = copies[c]
         /\ copies'[Len(copies) + 1] = FirstCopy
         /\ linked' = linked \cup {Len(copies) + 1}
         /\ main'.pc = "copy" /\ main'.pkt = main.pkt
         /\ main'.map = Len(copies) + 1 /\ main'.new = TRUE
         /\ main' \in [pc : {"insert", "copy", "translate"}, pkt : Packet,
                       map : 0 .. Len(copies'), new : BOOLEAN]
<1>1. main.pkt \in Packet /\ main.pkt.src \in Endpoint
  BY DEF InsertInternal, Typed, TypeOK, Packet
<1>2. htons(assign_external_port) \in Port /\ 0 \in 0 .. MaxTime
  BY AssignedPort, HtonsProperties, TimeAssumption DEF Typed
<1>3. nat_hash(main.pkt.src.ip, main.pkt.src.port) \in Bucket
      /\ nat_hash(main.pkt.src.ip, main.pkt.src.port) = hash[main.pkt.src]
  BY <1>1, HashType
<1>4. FirstCopy \in Copy /\ FirstCopy.bucket = hash[main.pkt.src]
  BY <1>1, <1>2, <1>3 DEF FirstCopy, Copy, Bucket
<1>5. copies' = Append(copies, FirstCopy) /\ linked' = linked \cup {Len(copies')}
  BY DEF InsertInternal, FirstCopy
<1>6. copies \in Seq(Copy) /\ Len(copies) \in Nat
  BY CopiesProperties DEF Typed
<1> HIDE DEF FirstCopy
<1>7. /\ copies' \in Seq(Copy) /\ Len(copies') = Len(copies) + 1
      /\ \A c \in 1 .. Len(copies) : copies'[c] = copies[c]
      /\ copies'[Len(copies) + 1] = FirstCopy
  BY <1>4, <1>5, <1>6, AppendProperties
<1>8. main \in [pc : {"insert", "copy", "translate"}, pkt : Packet,
                map : 0 .. Len(copies), new : BOOLEAN]
  BY DEF InsertInternal, Typed
<1>9. main' = [main EXCEPT !.pc = "copy", !.map = Len(copies'), !.new = TRUE]
  BY DEF InsertInternal
<1>10. /\ main'.pc = "copy" /\ main'.pkt = main.pkt
       /\ main'.map = Len(copies') /\ main'.new = TRUE
       /\ main' \in [pc : {"insert", "copy", "translate"}, pkt : Packet,
                     map : {Len(copies')}, new : BOOLEAN]
  BY <1>8, <1>9
<1>11. Len(copies') \in 0 .. Len(copies')
  BY <1>6, <1>7
<1>12. main' \in [pc : {"insert", "copy", "translate"}, pkt : Packet,
                  map : 0 .. Len(copies'), new : BOOLEAN]
  BY <1>10, <1>11
<1> QED
  BY <1>1, <1>4, <1>5, <1>7, <1>10, <1>12

(* The second copy is added behind the first, for the port. *)
LEMMA InsertExternalProperties ==
  ASSUME Typed, InsertExternal
  PROVE  /\ main.map \in 1 .. Len(copies)
         /\ copies' \in Seq(Copy) /\ Len(copies') = Len(copies) + 1
         /\ Kept
         /\ copies'[Len(copies) + 1].inner = copies[main.map].inner
         /\ copies'[Len(copies) + 1].ext = copies[main.map].ext
         /\ copies'[Len(copies) + 1].bucket =
              nat_hash(external_ip, copies[main.map].ext)
         /\ copies'[Len(copies) + 1].time = copies[main.map].time
         /\ linked' = linked \cup {Len(copies) + 1}
         /\ main'.pc = "translate" /\ main'.pkt = main.pkt
         /\ main'.map = main.map /\ main'.new = main.new
         /\ main' \in [pc : {"insert", "copy", "translate"}, pkt : Packet,
                       map : 0 .. Len(copies'), new : BOOLEAN]
<1> DEFINE m == copies[main.map]
           s == [copies EXCEPT ![main.map].time = clock]
           e == SecondCopy(m)
<1>1. copies \in Seq(Copy) /\ Len(copies) \in Nat
  BY CopiesProperties DEF Typed
<1>2. main.map \in 1 .. Len(copies)
  BY <1>1 DEF InsertExternal, Typed
<1>3. m \in Copy
  BY <1>2, CopiesProperties DEF Typed
<1>4. /\ e \in Copy /\ e.inner = m.inner /\ e.ext = m.ext /\ e.time = m.time
      /\ e.bucket = nat_hash(external_ip, m.ext)
  <2>1. nat_hash(external_ip, m.ext) \in Bucket
    BY <1>3, HashType DEF Copy
  <2> HIDE DEF m
  <2> QED
    BY <1>3, <2>1 DEF SecondCopy, Copy, Bucket
<1>5. /\ s \in Seq(Copy) /\ Len(s) = Len(copies)
      /\ \A c \in 1 .. Len(copies) :
           /\ s[c].inner = copies[c].inner /\ s[c].ext = copies[c].ext
           /\ s[c].bucket = copies[c].bucket
           /\ s[c].time \in {copies[c].time, clock}
  BY <1>2, StampProperties
<1>6. copies' = Append(s, e) /\ linked' = linked \cup {Len(copies')}
  BY DEF InsertExternal
<1> HIDE DEF m, s, e
<1>7. /\ copies' \in Seq(Copy) /\ Len(copies') = Len(copies) + 1
      /\ \A c \in 1 .. Len(copies) : copies'[c] = s[c]
      /\ copies'[Len(copies) + 1] = e
  BY <1>4, <1>5, <1>6, AppendProperties
<1>8. Kept
  BY <1>5, <1>7 DEF Kept
<1>9. main \in [pc : {"insert", "copy", "translate"}, pkt : Packet,
                map : 0 .. Len(copies), new : BOOLEAN]
      /\ main' = [main EXCEPT !.pc = "translate"]
  BY DEF InsertExternal, Typed
<1>10. /\ main'.pc = "translate" /\ main'.pkt = main.pkt
       /\ main'.map = main.map /\ main'.new = main.new
       /\ main' \in [pc : {"insert", "copy", "translate"}, pkt : Packet,
                     map : 0 .. Len(copies), new : BOOLEAN]
  BY <1>9
<1>11. 0 .. Len(copies) \subseteq 0 .. Len(copies')
  BY <1>1, <1>7
<1>12. main' \in [pc : {"insert", "copy", "translate"}, pkt : Packet,
                  map : 0 .. Len(copies'), new : BOOLEAN]
  BY <1>10, <1>11
<1> QED
  BY <1>2, <1>4, <1>6, <1>7, <1>8, <1>10, <1>12 DEF m

(* A translated packet stamps the copy it used. *)
LEMMA TranslateProperties ==
  ASSUME Typed, Translate
  PROVE  /\ main.map \in 1 .. Len(copies) /\ main.pkt \in Packet
         /\ copies' \in Seq(Copy) /\ Len(copies') = Len(copies)
         /\ Kept
         /\ sent' \in Packet
<1>1. main.map \in 1 .. Len(copies) /\ main.pkt \in Packet
  BY CopiesProperties DEF Translate, Typed, TypeOK
<1> DEFINE s == [copies EXCEPT ![main.map].time = clock]
<1>2. copies' = s
  BY DEF Translate
<1>3. /\ copies' \in Seq(Copy) /\ Len(copies') = Len(copies) /\ Kept
  <2>1. /\ s \in Seq(Copy) /\ Len(s) = Len(copies)
        /\ \A c \in 1 .. Len(copies) :
             /\ s[c].inner = copies[c].inner /\ s[c].ext = copies[c].ext
             /\ s[c].bucket = copies[c].bucket
             /\ s[c].time \in {copies[c].time, clock}
    BY <1>1, StampProperties
  <2> HIDE DEF s
  <2> QED
    BY <1>2, <2>1 DEF Kept
<1>4. copies[main.map] \in Copy /\ external_ip \in Address
  BY <1>1, CopiesProperties DEF Typed, Address
<1>5. sent' \in Packet
  BY <1>1, <1>4 DEF Translate, Translated, Packet, Endpoint, Copy
<1> QED
  BY <1>1, <1>3, <1>5

(* Whatever happens, the copies of before are still there. *)
LEMMA StepKeeps ==
  ASSUME Typed, [Next]_vars
  PROVE  Kept /\ Len(copies') \in Nat /\ Len(copies) <= Len(copies')
<1>1. Len(copies) \in Nat
  BY CopiesProperties DEF Typed
<1>2. CASE InsertInternal
  BY <1>1, <1>2, InsertInternalProperties DEF Kept
<1>3. CASE InsertExternal
  BY <1>1, <1>3, InsertExternalProperties
<1>4. CASE Translate
  BY <1>1, <1>4, TranslateProperties
<1>5. CASE copies' = copies
  BY <1>1, <1>5 DEF Kept
<1> QED
  BY <1>2, <1>3, <1>4, <1>5
     DEF Next, Recv, PacketThread, Lookup, Crash, TimeoutThread, StartTimeout, Keep,
         FreePort, Remove, NextBucket, Tick, vars, table
-----------------------------------------------------------------------------
(* nat_table_init leaves empty buckets. *)
LEMMA HashInit == Init => HashInv
<1> SUFFICES ASSUME Init PROVE HashInv
  OBVIOUS
<1>1. copies = << >> /\ copies \in Seq(Copy) /\ Len(copies) = 0 /\ DOMAIN copies = {}
  BY EmptySeq DEF Init
<1>2. stall \in Nat /\ 0 \in 0 .. MaxTime /\ 0 \in Bucket
  BY TimeAssumption, HashAssumption DEF Init, Bucket
<1>3. TypeOK
  BY <1>1, <1>2 DEF Init, TypeOK, Idle, None, Bucket
<1>4. Typed
  BY <1>1, <1>2, <1>3 DEF Init, Typed, ThreadType, Idle
<1>5. Walking /\ Timely
  BY <1>1 DEF Init, Walking, Timely
<1>6. Copied /\ Found
  BY <1>1 DEF Init, Copied, Whole, SourceCopied, PortCopied, OneToOne, Marked, Found, Idle
<1> QED
  BY <1>4, <1>5, <1>6 DEF HashInv, Held

(* What the timeout thread does next, in its bucket or the one after it. *)
LEMMA TimeoutStep ==
  ASSUME Typed, Walking, TimeoutThread
  PROVE  /\ UNCHANGED <<copies, main, sent, clock, stall>>
         /\ th' \in ThreadType
         /\ linked \ {th.pos} \subseteq linked' /\ linked' \subseteq linked
         /\ Walking'
         /\ th'.pc \in {"walk", "remove"} =>
              \/ th.pc \in {"walk", "remove"} /\ th'.now = th.now
              \/ th'.now = clock
<1>0. TypeOK
  BY DEF Typed
<1>1. UNCHANGED <<copies, main, sent, clock, stall>>
  BY DEF TimeoutThread, StartTimeout, Keep, FreePort, Remove, NextBucket, table
<1>2. th \in ThreadType /\ clock \in 0 .. MaxTime /\ HASH_8BITS \in Nat \ {0}
      /\ linked \in SUBSET (Nat \ {0})
  BY <1>0, CopiesProperties, HashAssumption DEF Typed, TypeOK
<1>3. CASE StartTimeout
  <2>1. 0 \in Bucket /\ 0 \in Nat
    BY <1>2 DEF Bucket
  <2> DEFINE p == Behind(0, 0)
             f == From(0, p)
  <2>2. p \in linked \cup {0} /\ (p # 0 => p \in linked /\ copies[p].bucket = 0)
    BY <1>0, <2>1, BehindType
  <2> HIDE DEF p
  <2>3. /\ f \in ThreadType /\ f.pc = "walk" /\ f.i = 0 /\ f.pos = p
        /\ f.q \in linked \cup {0} /\ (p = 0 => f.q = 0)
        /\ f.q # 0 => f.q \in linked /\ p < f.q /\ copies[f.q].bucket = 0
    BY <2>1, <2>2, FromProperties
  <2>4. th' = [f EXCEPT !.now = clock] /\ linked' = linked
    BY <1>3 DEF StartTimeout, table, p
  <2> HIDE DEF f
  <2>5. /\ th' \in ThreadType /\ th'.pc = "walk" /\ th'.i = 0 /\ th'.pos = p
        /\ th'.q = f.q /\ th'.now = clock
    BY <1>2, <2>3, <2>4 DEF ThreadType
  <2>6. Walking'
    BY <1>1, <2>2, <2>3, <2>4, <2>5 DEF Walking
  <2> QED
    BY <1>1, <2>4, <2>5, <2>6
<1>4. CASE Keep \/ Remove
  <2> DEFINE f == From(th.i, th.q)
  <2>1. th' = f /\ th.pc \in {"walk", "remove"} /\ th.pos # 0
        /\ linked \ {th.pos} \subseteq linked' /\ linked' \subseteq linked
    BY <1>4 DEF Keep, Remove, Advance, table, Walking
  <2>2. /\ th.q \in linked \cup {0} /\ th.i \in Bucket
        /\ th.q # 0 => copies[th.q].bucket = th.i /\ th.pos < th.q
        /\ th.q \in Nat /\ th.pos \in Nat
    BY <1>2, <2>1, CopiesProperties DEF Walking, ThreadType
  <2>3. /\ f \in ThreadType /\ f.pc = "walk" /\ f.i = th.i /\ f.pos = th.q
        /\ f.now = th.now
        /\ f.q \in linked \cup {0} /\ (th.q = 0 => f.q = 0)
        /\ f.q # 0 => f.q \in linked /\ th.q < f.q /\ copies[f.q].bucket = th.i
    BY <2>2, FromProperties
  <2> HIDE DEF f
  <2>4. th.q # 0 => th.q # th.pos
    BY <2>2
  <2>5. f.q # 0 => f.q # th.pos
    <3>1. f.q \in Nat
      BY <2>3, EntryOrEnd, <1>0
    <3> QED
      BY <2>2, <2>3, <3>1
  <2>6. Walking'
    BY <1>1, <2>1, <2>2, <2>3, <2>4, <2>5 DEF Walking
  <2> QED
    BY <1>1, <2>1, <2>3, <2>6
<1>5. CASE FreePort
  <2>1. linked' = linked /\ th.pc = "walk" /\ th.pos # 0
        /\ th' = [th EXCEPT !.pc = "remove"]
    BY <1>5 DEF FreePort
  <2>2. /\ th' \in ThreadType /\ th'.pc = "remove" /\ th'.pos = th.pos
        /\ th'.q = th.q /\ th'.i = th.i /\ th'.now = th.now
    BY <1>2, <2>1 DEF ThreadType
  <2>3. Walking'
    BY <1>1, <2>1, <2>2 DEF Walking
  <2> QED
    BY <1>1, <2>1, <2>2, <2>3
<1>6. CASE NextBucket /\ th.i < HASH_8BITS - 1
  <2> DEFINE i == th.i + 1
             p == Behind(i, 0)
             f == From(i, p)
  <2>1. i \in Bucket /\ 0 \in Nat
    BY <1>2, <1>6 DEF ThreadType, Bucket
  <2>2. th' = f /\ linked' = linked /\ th.pc = "walk"
    BY <1>6 DEF NextBucket, table
  <2> HIDE DEF i
  <2>3. p \in linked \cup {0} /\ (p # 0 => p \in linked /\ copies[p].bucket = i)
    BY <1>0, <2>1, BehindType
  <2> HIDE DEF p
  <2>4. /\ f \in ThreadType /\ f.pc = "walk" /\ f.i = i /\ f.pos = p
        /\ f.now = th.now
        /\ f.q \in linked \cup {0} /\ (p = 0 => f.q = 0)
        /\ f.q # 0 => f.q \in linked /\ p < f.q /\ copies[f.q].bucket = i
    BY <2>1, <2>3, FromProperties
  <2> HIDE DEF f
  <2>5. Walking'
    BY <1>1, <2>2, <2>3, <2>4 DEF Walking
  <2> QED
    BY <1>1, <2>2, <2>4, <2>5
<1>7. CASE NextBucket /\ ~ (th.i < HASH_8BITS - 1)
  <2>1. th' = [th EXCEPT !.pc = "done"] /\ linked' = linked
    BY <1>7 DEF NextBucket, table
  <2>2. th' \in ThreadType /\ th'.pc = "done"
    BY <1>2, <2>1 DEF ThreadType
  <2> QED
    BY <1>1, <2>1, <2>2 DEF Walking
<1> QED
  BY <1>3, <1>4, <1>5, <1>6, <1>7 DEF TimeoutThread

(* With more copies, a walk still is one. *)
LEMMA MoreCopies ==
  ASSUME Typed, th' = th, Len(copies') \in Nat, Len(copies) <= Len(copies')
  PROVE  th' \in ThreadType'
<1>1. Len(copies) \in Nat
  BY CopiesProperties DEF Typed
<1>2. 0 .. Len(copies) \subseteq 0 .. Len(copies')
  BY <1>1
<1> QED
  BY <1>2 DEF Typed, ThreadType

(* Every step keeps the types. *)
LEMMA TypedStep ==
  ASSUME HashInv, [Next]_vars
  PROVE  Typed'
<1> USE DEF HashInv
<1>0. TypeOK /\ th \in ThreadType /\ stall \in Nat
  BY DEF Typed
<1>1. /\ Len(copies) \in Nat /\ DOMAIN copies = 1 .. Len(copies)
      /\ linked \subseteq 1 .. Len(copies)
  BY <1>0, CopiesProperties
<1>2. Kept /\ Len(copies') \in Nat /\ Len(copies) <= Len(copies')
  BY StepKeeps
<1>3. ASSUME NEW pkt \in Arrivals, Recv(pkt)
      PROVE  Typed'
  <2>1. main'.pc = "lookup" /\ main'.pkt \in Packet /\ sent' = None
        /\ UNCHANGED <<copies, linked, assigned_ports, th, clock, stall>>
    BY <1>3, ArrivalsArePackets DEF Recv, table
  <2> QED
    BY <2>1 DEF Typed, TypeOK, ThreadType
<1>4. CASE Lookup
  <2>1. main.pkt \in Packet
        /\ UNCHANGED <<copies, linked, assigned_ports, th, sent, clock, stall>>
    BY <1>4 DEF Lookup, Typed, TypeOK, table
  <2>2. PICK map \in {nat_lookup_external(main.pkt.dst.port),
                      nat_lookup_internal(main.pkt.src)},
             pc \in {"insert", "translate"} :
          main' = [pc |-> pc, pkt |-> main.pkt, map |-> map, new |-> FALSE]
    BY <1>4 DEF Lookup
  <2>3. map \in linked \cup {0}
    BY <1>0, <2>2, ExternalSearch, InternalSearch
  <2>4. map \in 0 .. Len(copies)
    BY <1>0, <2>3, EntryOrEnd
  <2>5. main' \in [pc : {"insert", "copy", "translate"}, pkt : Packet,
                   map : 0 .. Len(copies), new : BOOLEAN]
        /\ main'.pc \in {"insert", "translate"}
    BY <2>1, <2>2, <2>4
  <2> QED
    BY <2>1, <2>5 DEF Typed, TypeOK, ThreadType
<1>5. CASE InsertInternal
  <2>1. /\ copies' \in Seq(Copy) /\ Len(copies') = Len(copies) + 1
        /\ linked' = linked \cup {Len(copies) + 1}
        /\ main'.pc = "copy" /\ main'.map = Len(copies')
        /\ main' \in [pc : {"insert", "copy", "translate"}, pkt : Packet,
                      map : 0 .. Len(copies'), new : BOOLEAN]
    BY <1>5, InsertInternalProperties
  <2>2. linked' \subseteq DOMAIN copies'
    <3>1. DOMAIN copies' = 1 .. Len(copies) + 1
      BY <2>1, LenProperties
    <3>2. linked' = linked \cup {Len(copies) + 1}
      BY <2>1
    <3>3. linked \subseteq 1 .. Len(copies) + 1 /\ Len(copies) + 1 \in 1 .. Len(copies) + 1
      BY <1>1
    <3> QED
      BY <3>1, <3>2, <3>3
  <2>3. assigned_ports' \subseteq PoolRange
    BY <1>0, <1>5, AssignedPort DEF InsertInternal, TypeOK
  <2>4. UNCHANGED <<th, sent, clock, stall>>
    BY <1>5 DEF InsertInternal
  <2>5. th' \in ThreadType'
    BY <1>2, <2>4, MoreCopies
  <2>6. Len(copies') # 0
    BY <1>1, <2>1
  <2> QED
    BY <1>0, <2>1, <2>2, <2>3, <2>4, <2>5, <2>6 DEF Typed, TypeOK, ThreadType, Bucket
<1>6. CASE InsertExternal
  <2>1. /\ copies' \in Seq(Copy) /\ Len(copies') = Len(copies) + 1
        /\ linked' = linked \cup {Len(copies) + 1}
        /\ main'.pc = "translate"
        /\ main' \in [pc : {"insert", "copy", "translate"}, pkt : Packet,
                      map : 0 .. Len(copies'), new : BOOLEAN]
    BY <1>6, InsertExternalProperties
  <2>2. linked' \subseteq DOMAIN copies'
    <3>1. DOMAIN copies' = 1 .. Len(copies) + 1
      BY <2>1, LenProperties
    <3>2. linked' = linked \cup {Len(copies) + 1}
      BY <2>1
    <3>3. linked \subseteq 1 .. Len(copies) + 1 /\ Len(copies) + 1 \in 1 .. Len(copies) + 1
      BY <1>1
    <3> QED
      BY <3>1, <3>2, <3>3
  <2>3. UNCHANGED <<assigned_ports, th, sent, clock, stall>>
    BY <1>6 DEF InsertExternal
  <2>4. th' \in ThreadType'
    BY <1>2, <2>3, MoreCopies
  <2> QED
    BY <1>0, <2>1, <2>2, <2>3, <2>4 DEF Typed, TypeOK, ThreadType, Bucket
<1>7. CASE Translate
  <2>1. /\ copies' \in Seq(Copy) /\ Len(copies') = Len(copies)
        /\ sent' \in Packet
    BY <1>7, TranslateProperties
  <2>2. UNCHANGED <<linked, assigned_ports, th, clock, stall>> /\ main'.pc = "idle"
    BY <1>7 DEF Translate, Idle
  <2>3. linked' \subseteq DOMAIN copies'
    BY <1>1, <2>1, <2>2, LenProperties
  <2>4. th' \in ThreadType'
    BY <1>2, <2>2, MoreCopies
  <2> QED
    BY <1>0, <2>1, <2>2, <2>3, <2>4 DEF Typed, TypeOK, ThreadType, Bucket
<1>8. CASE Crash
  <2>1. UNCHANGED <<copies, linked, assigned_ports, th, sent, clock, stall>>
        /\ main' = [main EXCEPT !.pc = "crashed"] /\ main.pc = "translate"
    BY <1>8 DEF Crash, table
  <2>2. main'.pc = "crashed" /\ main'.pkt = main.pkt /\ main.pkt \in Packet
    BY <2>1 DEF Typed
  <2> QED
    BY <2>1, <2>2 DEF Typed, TypeOK, ThreadType
<1>9. CASE TimeoutThread
  <2>1. /\ UNCHANGED <<copies, main, sent, clock, stall>> /\ th' \in ThreadType
        /\ linked' \subseteq linked
    BY <1>9, TimeoutStep
  <2>2. assigned_ports' \subseteq PoolRange
    BY <1>0, <1>9 DEF TimeoutThread, StartTimeout, Keep, FreePort, free_port, Remove,
                      NextBucket, table, TypeOK
  <2>3. th' \in ThreadType'
    BY <2>1 DEF ThreadType
  <2> QED
    BY <2>1, <2>2, <2>3 DEF Typed, TypeOK, ThreadType, Bucket
<1>10. CASE Tick
  <2>1. clock' \in 0 .. MaxTime
    BY <1>0, <1>10, TimeAssumption DEF Tick, TypeOK
  <2>2. UNCHANGED <<copies, linked, assigned_ports, main, th, sent, stall>>
    BY <1>10 DEF Tick, table
  <2> QED
    BY <2>1, <2>2 DEF Typed, TypeOK, ThreadType
<1>11. CASE UNCHANGED vars
  BY <1>11 DEF vars, table, Typed, TypeOK, ThreadType
<1> QED
  BY <1>3, <1>4, <1>5, <1>6, <1>7, <1>8, <1>9, <1>10, <1>11 DEF Next, PacketThread

(* The packet thread adds to the buckets and takes nothing out of them. *)
LEMMA PacketThreadAdds ==
  ASSUME Typed, [Next]_vars, ~ TimeoutThread
  PROVE  th' = th /\ linked \subseteq linked' /\ stall' = stall
<1>1. CASE InsertInternal
  BY <1>1, InsertInternalProperties DEF InsertInternal
<1>2. CASE InsertExternal
  BY <1>2, InsertExternalProperties DEF InsertExternal
<1> QED
  BY <1>1, <1>2 DEF Next, Recv, PacketThread, Lookup, Translate, Crash, Tick, vars, table

(* The copy that a walk goes on to is behind the one it leaves, so it is   *)
(* still there when that one has been removed.                             *)
LEMMA WalkingStep ==
  ASSUME HashInv, [Next]_vars
  PROVE  Walking'
<1> USE DEF HashInv
<1>1. CASE TimeoutThread
  BY <1>1, TimeoutStep
<1>2. CASE ~ TimeoutThread
  <2>1. th' = th /\ linked \subseteq linked'
    BY <1>2, PacketThreadAdds
  <2>2. \A c \in linked : copies'[c].bucket = copies[c].bucket
    BY StepKeeps, CopiesProperties DEF Kept, Typed
  <2> QED
    BY <2>1, <2>2 DEF Walking
<1> QED
  BY <1>1, <1>2

(* Time passes for all alike. *)
LEMMA TimelyStep ==
  ASSUME HashInv, [Next]_vars
  PROVE  Timely'
<1> USE DEF HashInv
<1>0. TypeOK /\ TypeOK'
  BY TypedStep DEF Typed
<1>1. /\ clock \in Nat /\ stall \in Nat /\ th.now \in Nat
      /\ Len(copies) \in Nat
      /\ \A c \in 1 .. Len(copies) : copies[c].time \in Nat /\ copies[c].time <= clock
  <2>1. clock \in Nat /\ stall \in Nat /\ th.now \in Nat
    BY TimeAssumption DEF Typed, TypeOK, ThreadType
  <2>2. \A c \in 1 .. Len(copies) : copies[c].time \in Nat
    BY <1>0, CopiesProperties, TimeAssumption DEF Copy
  <2> QED
    BY <1>0, <2>1, <2>2, CopiesProperties DEF Timely
<1>2. DOMAIN copies' = 1 .. Len(copies') /\ Len(copies') \in Nat
  <2>1. copies' \in Seq(Copy)
    BY <1>0 DEF TypeOK
  <2> QED
    BY <2>1, LenProperties
<1>3. clock' \in Nat /\ clock <= clock'
  BY <1>1 DEF Next, Recv, PacketThread, Lookup, InsertInternal, InsertExternal, Translate,
              Crash, TimeoutThread, StartTimeout, Keep, FreePort, Remove, NextBucket, Tick,
              vars
<1>4. \A c \in 1 .. Len(copies) : copies'[c].time <= clock'
  <2>1. \A c \in 1 .. Len(copies) : copies'[c].time \in {copies[c].time, clock}
    BY StepKeeps DEF Kept
  <2> QED
    BY <1>1, <1>3, <2>1
<1>5. \A c \in DOMAIN copies' : copies'[c].time <= clock'
  <2>1. CASE Len(copies') = Len(copies)
    BY <1>2, <1>4, <2>1
  <2>2. CASE InsertInternal
    <3>1. Len(copies') = Len(copies) + 1 /\ copies'[Len(copies) + 1].time = 0
      BY <2>2, InsertInternalProperties DEF FirstCopy
    <3> QED
      BY <1>1, <1>2, <1>3, <1>4, <3>1
  <2>3. CASE InsertExternal
    <3>1. /\ Len(copies') = Len(copies) + 1 /\ main.map \in 1 .. Len(copies)
          /\ copies'[Len(copies) + 1].time = copies[main.map].time
      BY <2>3, InsertExternalProperties
    <3>2. copies'[Len(copies) + 1].time <= clock'
      BY <1>1, <1>3, <3>1
    <3> QED
      BY <1>1, <1>2, <1>4, <3>1, <3>2
  <2>4. Translate => Len(copies') = Len(copies)
    BY TranslateProperties
  <2> QED
    BY <2>1, <2>2, <2>3, <2>4
       DEF Next, Recv, PacketThread, Lookup, Crash, TimeoutThread, StartTimeout, Keep,
           FreePort, Remove, NextBucket, Tick, vars, table
<1>6. th'.pc \in {"walk", "remove"} => clock' - th'.now <= stall'
  <2>1. CASE TimeoutThread
    <3>1. /\ clock' = clock /\ stall' = stall
          /\ th'.pc \in {"walk", "remove"} =>
               \/ th.pc \in {"walk", "remove"} /\ th'.now = th.now
               \/ th'.now = clock
      BY <2>1, TimeoutStep
    <3> QED
      BY <1>1, <3>1 DEF Timely
  <2>2. CASE Tick
    BY <1>1, <2>2 DEF Tick
  <2>3. CASE ~ TimeoutThread /\ ~ Tick
    <3>1. th' = th /\ stall' = stall
      BY <2>3, PacketThreadAdds
    <3>2. clock' = clock
      BY <2>3 DEF Next, Recv, PacketThread, Lookup, InsertInternal, InsertExternal,
                  Translate, Crash, vars
    <3> QED
      BY <3>1, <3>2 DEF Timely
  <2> QED
    BY <2>1, <2>2, <2>3
<1> QED
  BY <1>5, <1>6 DEF Timely
-----------------------------------------------------------------------------
(* The test of the walk subtracts the wrong way round, and no connection   *)
(* is ever seen as finished: nothing expires unless it was stamped a whole *)
(* timeout after the walk began.                                           *)
LEMMA PromptNeverExpires ==
  ASSUME HashInv, Prompt, th.pc = "walk", th.pos # 0
  PROVE  ~ Expired
<1>1. th.pos \in linked /\ TypeOK
  BY DEF HashInv, Walking, Typed
<1>2. copies[th.pos].time \in Nat /\ copies[th.pos].time <= clock
  BY <1>1, CopiesProperties, TimeAssumption DEF HashInv, Timely, Copy
<1>3. /\ clock \in Nat /\ th.now \in Nat /\ stall \in Nat
      /\ clock - th.now <= stall
  BY TimeAssumption DEF HashInv, Typed, TypeOK, ThreadType, Timely
<1>4. ~ (copies[th.pos].time - th.now >= TCP_TIMEOUT)
  BY <1>2, <1>3, TimeAssumption DEF Prompt
<1>5. ~ is_flow_finished
  BY DEF is_flow_finished, conn
<1> QED
  BY <1>4, <1>5 DEF Expired

(* A prompt timeout thread only walks. *)
LEMMA PromptTimeoutThread ==
  ASSUME HashInv, Prompt, TimeoutThread
  PROVE  UNCHANGED <<table, main, sent, clock, stall>> /\ th'.pc # "remove"
<1>1. ~ FreePort /\ ~ Remove
  BY PromptNeverExpires DEF FreePort, Remove, HashInv, Held, Copied, Whole
<1>2. StartTimeout \/ Keep \/ NextBucket
  BY <1>1 DEF TimeoutThread
<1>3. UNCHANGED <<table, main, sent, clock, stall>>
  BY <1>2 DEF StartTimeout, Keep, NextBucket
<1>4. \A i, pos : From(i, pos).pc = "walk"
  BY DEF From, HashInv, Typed, ThreadType
<1>5. th'.pc # "remove"
  <2>1. CASE StartTimeout
    <3>1. th' = [From(0, Behind(0, 0)) EXCEPT !.now = clock]
      BY <2>1 DEF StartTimeout
    <3>2. th'.pc = From(0, Behind(0, 0)).pc
      BY <3>1 DEF From, HashInv, Typed, ThreadType
    <3> QED
      BY <1>4, <3>2
  <2>2. CASE Keep
    BY <1>4, <2>2 DEF Keep, Advance
  <2>3. CASE NextBucket
    <3>1. [th EXCEPT !.pc = "done"].pc = "done"
      BY DEF HashInv, Typed, ThreadType
    <3> QED
      BY <1>4, <2>3, <3>1 DEF NextBucket
  <2> QED
    BY <1>2, <2>1, <2>2, <2>3
<1> QED
  BY <1>3, <1>5

(* The searches look at nothing but the sources, ports and buckets. *)
LEMMA SameSearch ==
  ASSUME Typed, linked' = linked, Kept
  PROVE  /\ \A port : nat_lookup_external(port)' = nat_lookup_external(port)
         /\ \A e : nat_lookup_internal(e)' = nat_lookup_internal(e)
<1>1. \A c \in linked : /\ copies'[c].inner = copies[c].inner
                        /\ copies'[c].ext = copies[c].ext
                        /\ copies'[c].bucket = copies[c].bucket
  BY CopiesProperties DEF Typed, Kept
<1>2. ASSUME NEW port
      PROVE  nat_lookup_external(port)' = nat_lookup_external(port)
  <2>1. {c \in linked' : /\ copies'[c].bucket = nat_hash(external_ip, port)
                         /\ copies'[c].ext = port} =
        {c \in linked : /\ copies[c].bucket = nat_hash(external_ip, port)
                        /\ copies[c].ext = port}
    BY <1>1
  <2> QED
    BY <2>1 DEF nat_lookup_external, nat_hash
<1>3. ASSUME NEW e
      PROVE  nat_lookup_internal(e)' = nat_lookup_internal(e)
  <2>1. {c \in linked' : /\ copies'[c].bucket = nat_hash(e.ip, e.port)
                         /\ copies'[c].inner = e} =
        {c \in linked : /\ copies[c].bucket = nat_hash(e.ip, e.port)
                        /\ copies[c].inner = e}
    BY <1>1
  <2> QED
    BY <2>1 DEF nat_lookup_internal, nat_hash
<1> QED
  BY <1>2, <1>3

(* A copy behind all the others hides none of them from a search. *)
LEMMA MoreSearch ==
  ASSUME Typed, NEW n, n = Len(copies) + 1, linked' = linked \cup {n}, Kept
  PROVE  /\ \A port : nat_lookup_external(port)' =
              IF nat_lookup_external(port) # 0 THEN nat_lookup_external(port)
              ELSE IF /\ copies'[n].bucket = nat_hash(external_ip, port)
                      /\ copies'[n].ext = port
              THEN n ELSE 0
         /\ \A e : nat_lookup_internal(e)' =
              IF nat_lookup_internal(e) # 0 THEN nat_lookup_internal(e)
              ELSE IF /\ copies'[n].bucket = nat_hash(e.ip, e.port)
                      /\ copies'[n].inner = e
              THEN n ELSE 0
<1>1. \A c \in linked : /\ copies'[c].inner = copies[c].inner
                        /\ copies'[c].ext = copies[c].ext
                        /\ copies'[c].bucket = copies[c].bucket
  BY CopiesProperties DEF Typed, Kept
<1>2. /\ n \in Nat \ {0} /\ linked \in SUBSET (Nat \ {0})
      /\ \A c \in linked : c < n
  BY CopiesProperties DEF Typed
<1>3. \A S \in SUBSET linked :
        /\ First(S \cup {n}) = IF S = {} THEN n ELSE First(S)
        /\ First(S) = 0 <=> S = {}
  BY <1>2, FirstOfMore, FirstProperties
<1>4. ASSUME NEW port
      PROVE  nat_lookup_external(port)' =
               IF nat_lookup_external(port) # 0 THEN nat_lookup_external(port)
               ELSE IF /\ copies'[n].bucket = nat_hash(external_ip, port)
                       /\ copies'[n].ext = port
               THEN n ELSE 0
  <2> DEFINE S == {c \in linked : /\ copies[c].bucket = nat_hash(external_ip, port)
                                  /\ copies[c].ext = port}
             T == {c \in linked' : /\ copies'[c].bucket = nat_hash(external_ip, port)
                                   /\ copies'[c].ext = port}
             M == /\ copies'[n].bucket = nat_hash(external_ip, port)
                  /\ copies'[n].ext = port
  <2>1. T = IF M THEN S \cup {n} ELSE S
    BY <1>1
  <2>2. nat_lookup_external(port) = First(S) /\ nat_lookup_external(port)' = First(T)
    BY DEF nat_lookup_external, nat_hash
  <2>3. S \in SUBSET linked
    OBVIOUS
  <2> HIDE DEF S, T
  <2> QED
    BY <1>3, <2>1, <2>2, <2>3
<1>5. ASSUME NEW e
      PROVE  nat_lookup_internal(e)' =
               IF nat_lookup_internal(e) # 0 THEN nat_lookup_internal(e)
               ELSE IF /\ copies'[n].bucket = nat_hash(e.ip, e.port)
                       /\ copies'[n].inner = e
               THEN n ELSE 0
  <2> DEFINE S == {c \in linked : /\ copies[c].bucket = nat_hash(e.ip, e.port)
                                  /\ copies[c].inner = e}
             T == {c \in linked' : /\ copies'[c].bucket = nat_hash(e.ip, e.port)
                                   /\ copies'[c].inner = e}
             M == /\ copies'[n].bucket = nat_hash(e.ip, e.port)
                  /\ copies'[n].inner = e
  <2>1. T = IF M THEN S \cup {n} ELSE S
    BY <1>1
  <2>2. nat_lookup_internal(e) = First(S) /\ nat_lookup_internal(e)' = First(T)
    BY DEF nat_lookup_internal, nat_hash
  <2>3. S \in SUBSET linked
    OBVIOUS
  <2> HIDE DEF S, T
  <2> QED
    BY <1>3, <2>1, <2>2, <2>3
<1> QED
  BY <1>4, <1>5
-----------------------------------------------------------------------------
(* A step that leaves the buckets and the pool alone, but for the times,   *)
(* and begins no mapping.                                                  *)
LEMMA CopiedIfKept ==
  ASSUME Typed, Typed', Copied, Kept, Len(copies') = Len(copies),
         linked' = linked, assigned_ports' = assigned_ports,
         th'.pc # "remove", Inserted' = Inserted
  PROVE  Copied'
<1>1. DOMAIN copies = 1 .. Len(copies) /\ DOMAIN copies' = 1 .. Len(copies)
  <2>1. copies' \in Seq(Copy)
    BY DEF Typed, TypeOK
  <2> QED
    BY <2>1, CopiesProperties, LenProperties DEF Typed
<1>2. \A c \in DOMAIN copies : /\ copies'[c].inner = copies[c].inner
                               /\ copies'[c].ext = copies[c].ext
                               /\ copies'[c].bucket = copies[c].bucket
  BY <1>1 DEF Kept
<1>3. Whole'
  BY <1>1 DEF Copied, Whole
<1>4. SourceCopied'
  BY <1>1, <1>2 DEF Copied, SourceCopied
<1>5. PortCopied'
  BY <1>1, <1>2 DEF Copied, PortCopied, nat_hash
<1>6. OneToOne'
  BY <1>1, <1>2 DEF Copied, OneToOne, htons, NoPort
<1>7. Marked'
  BY <1>1, <1>2 DEF Copied, Marked, htons, NoPort
<1> QED
  BY <1>3, <1>4, <1>5, <1>6, <1>7 DEF Copied

(* The first copy of a mapping goes where the search for its source looks, *)
(* with a port that no other has.                                          *)
LEMMA CopiedInsertInternal ==
  ASSUME HashInv, Prompt, InsertInternal
  PROVE  Copied'
<1>n. PICK n : n = Len(copies) + 1
  OBVIOUS
<1>p. PICK port : port = assign_external_port
  OBVIOUS
<1>s. PICK src : src = main.pkt.src
  OBVIOUS
<1>1. Copied /\ Found /\ Typed /\ TypeOK
  BY DEF HashInv, Held, Typed
<1>2. /\ copies' \in Seq(Copy) /\ Len(copies') = n
      /\ \A c \in 1 .. Len(copies) : copies'[c] = copies[c]
      /\ copies'[n] = FirstCopy /\ FirstCopy.bucket = hash[src]
      /\ linked' = linked \cup {n}
      /\ main'.pc = "copy" /\ main'.map = n /\ main'.new = TRUE
  BY <1>1, <1>n, <1>s, InsertInternalProperties
<1>3. FirstCopy.inner = src /\ FirstCopy.ext = htons(port)
  BY <1>s, <1>p DEF FirstCopy
<1>4. Len(copies) \in Nat /\ DOMAIN copies = 1 .. Len(copies)
  BY <1>1, CopiesProperties
<1>5. DOMAIN copies' = 1 .. n /\ 1 .. n = (1 .. Len(copies)) \cup {n}
      /\ n \notin 1 .. Len(copies)
  BY <1>2, <1>4, <1>n, LenProperties
<1>6. main.pc = "insert" /\ Inserted = {} /\ Inserted' = {n, n + 1}
  BY <1>2 DEF InsertInternal, Inserted
<1>7. \A c \in DOMAIN copies : copies[c].inner # src
  BY <1>1, <1>6, <1>s DEF Found
<1>8. /\ port \in Port /\ port \notin assigned_ports
      /\ port \in PoolRange \/ port = NoPort
  BY <1>1, <1>p, AssignedPort DEF TypeOK
<1>9. htons(htons(port)) = port
  BY <1>8, HtonsProperties
<1>10. assigned_ports' = assigned_ports \cup ({port} \ {NoPort})
  BY <1>p DEF InsertInternal
<1>11. DOMAIN copies' = DOMAIN copies \cup {n}
       /\ \A c \in DOMAIN copies : copies'[c] = copies[c]
  BY <1>2, <1>4, <1>5
<1>12. Whole'
  BY <1>1, <1>2, <1>11 DEF Copied, Whole, InsertInternal
<1>13. SourceCopied'
  BY <1>1, <1>2, <1>3, <1>11 DEF Copied, SourceCopied
<1>14. PortCopied'
  <2>1. DOMAIN copies' \ Inserted' \subseteq DOMAIN copies \ Inserted
    BY <1>6, <1>11
  <2> QED
    BY <1>1, <1>11, <2>1 DEF Copied, PortCopied, nat_hash
<1>15. \A c \in DOMAIN copies : copies[c].ext = htons(port) => port = NoPort
  BY <1>1, <1>8, <1>9 DEF Copied, Marked
<1>16. OneToOne'
  <2>1. copies'[n].inner = src /\ copies'[n].ext = htons(port)
    BY <1>2, <1>3
  <2>2. ASSUME NEW c \in DOMAIN copies, NEW d \in DOMAIN copies
        PROVE  /\ copies'[c].inner = copies'[d].inner => copies'[c].ext = copies'[d].ext
               /\ copies'[c].ext = copies'[d].ext /\ copies'[c].ext # htons(NoPort) =>
                    copies'[c].inner = copies'[d].inner
    BY <1>1, <1>11 DEF Copied, OneToOne
  <2>3. ASSUME NEW c \in DOMAIN copies
        PROVE  /\ copies'[c].inner # copies'[n].inner
               /\ copies'[c].ext = copies'[n].ext => copies'[c].ext = htons(NoPort)
    BY <1>7, <1>11, <1>15, <2>1
  <2> QED
    BY <1>11, <2>2, <2>3 DEF OneToOne, htons, NoPort
<1>17. Marked'
  <2>1. htons(copies'[n].ext) \in assigned_ports' \cup {NoPort}
    BY <1>2, <1>3, <1>9, <1>10
  <2>2. ASSUME NEW c \in DOMAIN copies
        PROVE  htons(copies'[c].ext) \in assigned_ports' \cup {NoPort}
    BY <1>1, <1>10, <1>11 DEF Copied, Marked
  <2> QED
    BY <1>11, <2>1, <2>2 DEF Marked, htons, NoPort
<1> QED
  BY <1>12, <1>13, <1>14, <1>16, <1>17 DEF Copied

(* The second goes where the search for the port looks, and is like the    *)
(* first.                                                                  *)
LEMMA CopiedInsertExternal ==
  ASSUME HashInv, Prompt, InsertExternal
  PROVE  Copied'
<1>m. PICK m : m = main.map
  OBVIOUS
<1>n. PICK n : n = Len(copies) + 1
  OBVIOUS
<1>1. Copied /\ Found /\ Typed /\ TypeOK
  BY DEF HashInv, Held, Typed
<1>2. /\ copies' \in Seq(Copy) /\ Len(copies') = n /\ Kept
      /\ copies'[n].inner = copies[m].inner /\ copies'[n].ext = copies[m].ext
      /\ linked' = linked \cup {n} /\ m \in 1 .. Len(copies)
      /\ main'.pc = "translate" /\ main'.map = m /\ main'.new = main.new
  BY <1>1, <1>m, <1>n, InsertExternalProperties
<1>3. Len(copies) \in Nat /\ DOMAIN copies = 1 .. Len(copies)
  BY <1>1, CopiesProperties
<1>4. DOMAIN copies' = 1 .. n /\ 1 .. n = (1 .. Len(copies)) \cup {n}
  BY <1>2, <1>3, <1>n, LenProperties
<1>5. main.pc = "copy" /\ main.new /\ m = Len(copies)
  BY <1>1, <1>m DEF InsertExternal, Found, Typed
<1>6. Inserted = {m, m + 1} /\ Inserted' = {m, m + 1} /\ n = m + 1
  BY <1>2, <1>5, <1>m, <1>n DEF Inserted
<1>7. /\ DOMAIN copies' = DOMAIN copies \cup {n} /\ m \in DOMAIN copies
      /\ \A c \in DOMAIN copies : /\ copies'[c].inner = copies[c].inner
                                  /\ copies'[c].ext = copies[c].ext
                                  /\ copies'[c].bucket = copies[c].bucket
  BY <1>2, <1>3, <1>4 DEF Kept
<1>8. UNCHANGED <<th, assigned_ports>>
  BY DEF InsertExternal
<1>9. \A c \in DOMAIN copies' : \E d \in DOMAIN copies :
        copies'[c].inner = copies[d].inner /\ copies'[c].ext = copies[d].ext
  BY <1>2, <1>7
<1>10. Whole'
  BY <1>1, <1>2, <1>7, <1>8 DEF Copied, Whole
<1>11. SourceCopied'
  <2> SUFFICES ASSUME NEW c \in DOMAIN copies'
               PROVE  \E d \in DOMAIN copies' :
                        /\ copies'[d].inner = copies'[c].inner
                        /\ copies'[d].bucket = hash[copies'[c].inner]
    BY DEF SourceCopied
  <2>1. PICK k \in DOMAIN copies : copies'[c].inner = copies[k].inner
    BY <1>9
  <2>2. PICK d \in DOMAIN copies : /\ copies[d].inner = copies[k].inner
                                   /\ copies[d].bucket = hash[copies[k].inner]
    BY <1>1 DEF Copied, SourceCopied
  <2> QED
    BY <1>7, <2>1, <2>2
<1>12. PortCopied'
  <2>1. DOMAIN copies' \ Inserted' \subseteq DOMAIN copies \ Inserted
    BY <1>6, <1>7
  <2> QED
    BY <1>1, <1>7, <2>1 DEF Copied, PortCopied, nat_hash
<1>13. OneToOne'
  <2> SUFFICES ASSUME NEW c \in DOMAIN copies', NEW d \in DOMAIN copies'
               PROVE  /\ copies'[c].inner = copies'[d].inner =>
                           copies'[c].ext = copies'[d].ext
                      /\ copies'[c].ext = copies'[d].ext /\ copies'[c].ext # htons(NoPort)
                           => copies'[c].inner = copies'[d].inner
    BY DEF OneToOne, htons, NoPort
  <2>1. PICK k \in DOMAIN copies :
          copies'[c].inner = copies[k].inner /\ copies'[c].ext = copies[k].ext
    BY <1>9
  <2>2. PICK l \in DOMAIN copies :
          copies'[d].inner = copies[l].inner /\ copies'[d].ext = copies[l].ext
    BY <1>9
  <2> QED
    BY <1>1, <2>1, <2>2 DEF Copied, OneToOne
<1>14. Marked'
  <2> SUFFICES ASSUME NEW c \in DOMAIN copies'
               PROVE  htons(copies'[c].ext) \in assigned_ports' \cup {NoPort}
    BY DEF Marked, htons, NoPort
  <2>1. PICK k \in DOMAIN copies : copies'[c].ext = copies[k].ext
    BY <1>9
  <2> QED
    BY <1>1, <1>8, <2>1 DEF Copied, Marked
<1> QED
  BY <1>10, <1>11, <1>12, <1>13, <1>14 DEF Copied

(* When the first packet of a mapping is sent, both its copies are there. *)
LEMMA CopiedTranslate ==
  ASSUME HashInv, Prompt, Translate, Typed'
  PROVE  Copied'
<1>1. Copied /\ Found /\ Typed /\ TypeOK
  BY DEF HashInv, Held, Typed
<1>2. Kept /\ Len(copies') = Len(copies)
  BY <1>1, TranslateProperties
<1>3. UNCHANGED <<linked, assigned_ports, th>> /\ main.pc = "translate"
      /\ main'.pc = "idle"
  BY DEF Translate, Idle
<1>4. Inserted' = {}
  BY <1>3 DEF Inserted
<1>5. CASE Inserted = {}
  BY <1>1, <1>2, <1>3, <1>4, <1>5, CopiedIfKept DEF Copied, Whole
<1>6. CASE Inserted # {}
  <2>m. PICK m : m = Len(copies)
    OBVIOUS
  <2>1. main.new /\ Inserted = {main.map, main.map + 1} /\ main.map \in 0 .. Len(copies)
    BY <1>1, <1>3, <1>6 DEF Inserted, TypeOK
  <2>2. /\ \A c \in DOMAIN copies : copies[c].inner = main.pkt.src <=> c \in Inserted
        /\ m = main.map + 1
        /\ copies[m].bucket = nat_hash(external_ip, copies[m].ext)
    BY <1>1, <1>3, <2>1, <2>m DEF Found
  <2>3. DOMAIN copies = 1 .. Len(copies) /\ DOMAIN copies' = 1 .. Len(copies)
        /\ Len(copies) \in Nat
    <3>1. copies' \in Seq(Copy)
      BY DEF Typed, TypeOK
    <3> QED
      BY <1>1, <1>2, <3>1, CopiesProperties, LenProperties
  <2>4. m \in DOMAIN copies /\ m \in Inserted
    BY <2>1, <2>2, <2>3, <2>m
  <2>5. \A c \in DOMAIN copies : /\ copies'[c].inner = copies[c].inner
                                 /\ copies'[c].ext = copies[c].ext
                                 /\ copies'[c].bucket = copies[c].bucket
    BY <1>2, <2>3 DEF Kept
  <2>6. \A c \in Inserted \cap DOMAIN copies : copies[c].ext = copies[m].ext
    BY <1>1, <2>2, <2>4 DEF Copied, OneToOne
  <2>7. \A c \in DOMAIN copies : \E d \in DOMAIN copies :
          /\ copies[d].ext = copies[c].ext
          /\ copies[d].bucket = nat_hash(external_ip, copies[c].ext)
    BY <1>1, <2>2, <2>4, <2>6 DEF Copied, PortCopied
  <2>8. PortCopied'
    BY <1>4, <2>3, <2>5, <2>7 DEF PortCopied, nat_hash
  <2>9. Whole' /\ SourceCopied'
    BY <1>1, <1>3, <2>3, <2>5 DEF Copied, Whole, SourceCopied
  <2>10. OneToOne'
    BY <1>1, <2>3, <2>5 DEF Copied, OneToOne, htons, NoPort
  <2>11. Marked'
    BY <1>1, <1>3, <2>3, <2>5 DEF Copied, Marked, htons, NoPort
  <2> QED
    BY <2>8, <2>9, <2>10, <2>11 DEF Copied
<1> QED
  BY <1>5, <1>6

(* The other steps leave the table as it is, unless the timeout thread is  *)
(* held up for a whole timeout.                                            *)
LEMMA OtherSteps ==
  ASSUME HashInv, Prompt, [Next]_vars,
         ~ InsertInternal, ~ InsertExternal, ~ Translate
  PROVE  /\ UNCHANGED <<table, stall>> /\ th'.pc # "remove" /\ Inserted' = Inserted
<1>1. Copied /\ Found /\ Typed
  BY DEF HashInv, Held
<1>2. CASE TimeoutThread
  BY <1>2, PromptTimeoutThread DEF Inserted
<1>3. CASE Tick \/ UNCHANGED vars
  BY <1>1, <1>3 DEF Tick, vars, Inserted, Copied, Whole
<1>4. CASE \E pkt \in Arrivals : Recv(pkt)
  BY <1>1, <1>4 DEF Recv, Inserted, Copied, Whole
<1>5. CASE Lookup
  <2>1. main.pc = "lookup" /\ main'.new = FALSE
    BY <1>5 DEF Lookup
  <2> QED
    BY <1>1, <1>5, <2>1 DEF Lookup, Inserted, Copied, Whole
<1>6. CASE Crash
  <2>1. main.pc = "translate" /\ main.map = 0 /\ ~ main.new
    BY <1>1, <1>6 DEF Crash, Found
  <2>2. main'.pc = "crashed"
    BY <1>1, <1>6 DEF Crash, Typed
  <2> QED
    BY <1>1, <1>6, <2>1, <2>2 DEF Crash, Inserted, Copied, Whole
<1> QED
  BY <1>2, <1>3, <1>4, <1>5, <1>6 DEF Next, PacketThread

(* So the copies stay in order in every step. *)
LEMMA CopiedStep ==
  ASSUME HashInv, Prompt, [Next]_vars, Typed'
  PROVE  Copied'
<1>1. CASE InsertInternal
  BY <1>1, CopiedInsertInternal
<1>2. CASE InsertExternal
  BY <1>2, CopiedInsertExternal
<1>3. CASE Translate
  BY <1>3, CopiedTranslate
<1>4. CASE ~ InsertInternal /\ ~ InsertExternal /\ ~ Translate
  <2>1. UNCHANGED <<copies, linked, assigned_ports>> /\ th'.pc # "remove"
        /\ Inserted' = Inserted
    BY <1>4, OtherSteps DEF table
  <2>2. Kept /\ Typed /\ Copied
    BY StepKeeps DEF HashInv, Held
  <2> QED
    BY <2>1, <2>2, CopiedIfKept
<1> QED
  BY <1>1, <1>2, <1>3, <1>4

(* Where nothing was removed, a search that fails shows that there is no   *)
(* mapping for the source.                                                 *)
LEMMA SourceUnknown ==
  ASSUME Typed, Copied, NEW e, nat_lookup_internal(e) = 0
  PROVE  \A c \in DOMAIN copies : copies[c].inner # e
<1> SUFFICES ASSUME NEW c \in DOMAIN copies, copies[c].inner = e
             PROVE  FALSE
  OBVIOUS
<1>1. PICK d \in DOMAIN copies : copies[d].inner = e /\ copies[d].bucket = hash[e]
  BY DEF Copied, SourceCopied
<1>2. e \in Endpoint
  BY CopiesProperties DEF Typed, Copy
<1>3. copies[d].bucket = nat_hash(e.ip, e.port) /\ d \in linked
  BY <1>1, <1>2, HashType DEF Copied, Whole
<1> QED
  BY <1>1, <1>3, InternalSearch DEF Typed

(* Nor is there one for the port, but for the one that is being inserted. *)
LEMMA PortUnknown ==
  ASSUME Typed, Copied, NEW port, nat_lookup_external(port) = 0
  PROVE  \A c \in DOMAIN copies \ Inserted : copies[c].ext # port
<1> SUFFICES ASSUME NEW c \in DOMAIN copies \ Inserted, copies[c].ext = port
             PROVE  FALSE
  OBVIOUS
<1>1. PICK d \in DOMAIN copies : /\ copies[d].ext = port
                                 /\ copies[d].bucket = nat_hash(external_ip, port)
  BY DEF Copied, PortCopied
<1>2. d \in linked
  BY DEF Copied, Whole
<1> QED
  BY <1>1, <1>2, ExternalSearch DEF Typed

(* The packet thread goes by what it found, and that stays so. *)
LEMMA FoundStep ==
  ASSUME HashInv, Prompt, [Next]_vars
  PROVE  Found'
<1>1. Copied /\ Found /\ Typed /\ TypeOK
  BY DEF HashInv, Held, Typed
<1>2. Len(copies) \in Nat /\ DOMAIN copies = 1 .. Len(copies)
  BY <1>1, CopiesProperties
<1>3. CASE \E pkt \in Arrivals : Recv(pkt)
  <2>1. main'.pc = "lookup"
    BY <1>3 DEF Recv
  <2> QED
    BY <2>1 DEF Found
<1>4. CASE Lookup
  <2>1. /\ main.pc = "lookup" /\ UNCHANGED <<copies, linked>>
        /\ main'.pc \in {"insert", "translate"}
        /\ main'.pkt = main.pkt /\ main'.new = FALSE
        /\ main'.map = IF Outward THEN nat_lookup_internal(main.pkt.src)
                                  ELSE nat_lookup_external(main.pkt.dst.port)
        /\ main'.pc = "insert" <=> main'.map = 0 /\ Outward
    BY <1>4 DEF Lookup, table, Outward, get_packet_direction
  <2>2. Outward' = Outward
    BY <2>1 DEF Outward, get_packet_direction
  <2>3. /\ nat_lookup_internal(main.pkt.src)' = nat_lookup_internal(main.pkt.src)
        /\ nat_lookup_external(main.pkt.dst.port)' =
             nat_lookup_external(main.pkt.dst.port)
    BY <2>1 DEF nat_lookup_internal, nat_lookup_external, nat_hash
  <2>4. main'.pc = "insert" => \A c \in DOMAIN copies : copies[c].inner # main.pkt.src
    BY <1>1, <2>1, SourceUnknown
  <2> QED
    BY <2>1, <2>2, <2>3, <2>4 DEF Found
<1>5. CASE InsertInternal
  <2>n. PICK n : n = Len(copies) + 1
    OBVIOUS
  <2>1. /\ main'.pc = "copy" /\ main'.pkt = main.pkt /\ main'.map = n /\ main'.new = TRUE
        /\ copies' \in Seq(Copy) /\ Len(copies') = n
        /\ \A c \in 1 .. Len(copies) : copies'[c] = copies[c]
        /\ copies'[n] = FirstCopy
    BY <1>1, <1>5, <2>n, InsertInternalProperties
  <2>2. DOMAIN copies' = DOMAIN copies \cup {n} /\ n # 0
        /\ n \notin DOMAIN copies /\ n + 1 \notin DOMAIN copies
    BY <1>2, <2>n, <2>1, LenProperties
  <2>3. Inserted' = {n, n + 1}
    BY <2>1 DEF Inserted
  <2>4. /\ Outward /\ \A c \in DOMAIN copies : copies[c].inner # main.pkt.src
    BY <1>1, <1>5 DEF Found, InsertInternal
  <2>5. copies'[n].inner = main.pkt.src
    BY <2>1 DEF FirstCopy
  <2>6. \A c \in DOMAIN copies' : copies'[c].inner = main.pkt.src <=> c \in {n, n + 1}
    BY <1>2, <2>1, <2>2, <2>4, <2>5
  <2>7. Outward'
    BY <2>1, <2>4 DEF Outward, get_packet_direction
  <2> QED
    BY <2>1, <2>2, <2>3, <2>6, <2>7 DEF Found
<1>6. CASE InsertExternal
  <2>n. PICK n : n = Len(copies) + 1
    OBVIOUS
  <2>m. PICK m : m = main.map
    OBVIOUS
  <2>1. /\ main'.pc = "translate" /\ main'.pkt = main.pkt
        /\ main'.map = m /\ main'.new = main.new
        /\ copies' \in Seq(Copy) /\ Len(copies') = n /\ Kept
        /\ copies'[n].inner = copies[m].inner /\ copies'[n].ext = copies[m].ext
        /\ copies'[n].bucket = nat_hash(external_ip, copies[m].ext)
    BY <1>1, <1>6, <2>n, <2>m, InsertExternalProperties
  <2>2. main.pc = "copy" /\ main.new /\ m = Len(copies) /\ m # 0 /\ n = m + 1
    BY <1>1, <1>6, <2>n, <2>m DEF InsertExternal, Found, Typed
  <2>3. DOMAIN copies' = DOMAIN copies \cup {n} /\ m \in DOMAIN copies
    BY <1>2, <2>n, <2>1, <2>2, LenProperties
  <2>4. Inserted = {m, n} /\ Inserted' = {m, n}
    BY <2>1, <2>2, <2>m DEF Inserted
  <2>5. /\ Outward
        /\ \A c \in DOMAIN copies : copies[c].inner = main.pkt.src <=> c \in Inserted
    BY <1>1, <2>2 DEF Found
  <2>6. \A c \in DOMAIN copies : copies'[c].inner = copies[c].inner
    BY <1>2, <2>1 DEF Kept
  <2>7. \A c \in DOMAIN copies' : copies'[c].inner = main.pkt.src <=> c \in {m, n}
    BY <2>1, <2>3, <2>4, <2>5, <2>6
  <2>8. Outward'
    BY <2>1, <2>5 DEF Outward, get_packet_direction
  <2>9. copies'[n].bucket = nat_hash(external_ip, copies'[n].ext)
    BY <2>1
  <2> QED
    BY <2>1, <2>2, <2>4, <2>7, <2>8, <2>9 DEF Found, nat_hash
<1>7. CASE Translate
  <2>1. main'.pc = "idle"
    BY <1>7 DEF Translate, Idle
  <2> QED
    BY <2>1 DEF Found
<1>8. CASE Crash
  <2>1. /\ main.pc = "translate" /\ main.map = 0 /\ UNCHANGED copies
        /\ main'.pc = "crashed" /\ main'.pkt = main.pkt
    BY <1>1, <1>8 DEF Crash, table, Typed
  <2>2. ~ main.new /\ nat_lookup_external(main.pkt.dst.port) = 0
    BY <1>1, <2>1 DEF Found
  <2>3. Inserted = {}
    BY <2>2 DEF Inserted
  <2>4. \A c \in DOMAIN copies : copies[c].ext # main.pkt.dst.port
    BY <1>1, <2>2, <2>3, PortUnknown
  <2> QED
    BY <2>1, <2>4 DEF Found
<1>9. CASE TimeoutThread \/ Tick \/ UNCHANGED vars
  <2>1. UNCHANGED <<copies, linked, main>>
    BY <1>9, PromptTimeoutThread DEF Tick, vars, table
  <2> QED
    BY <1>1, <2>1 DEF Found, Outward, get_packet_direction, Inserted,
                      nat_lookup_internal, nat_lookup_external, nat_hash
<1> QED
  BY <1>3, <1>4, <1>5, <1>6, <1>7, <1>8, <1>9 DEF Next, PacketThread

(* Each of these parts of the invariant is kept by every step. *)
LEMMA HashStep ==
  ASSUME HashInv, [Next]_vars
  PROVE  HashInv'
<1>1. Typed' /\ Walking' /\ Timely'
  BY TypedStep, WalkingStep, TimelyStep
<1>2. stall' = stall
  BY DEF Next, Recv, PacketThread, Lookup, InsertInternal, InsertExternal, Translate,
         Crash, TimeoutThread, StartTimeout, Keep, FreePort, Remove, NextBucket, Tick, vars
<1>3. Held'
  <2> SUFFICES ASSUME Prompt' PROVE Copied' /\ Found'
    BY DEF Held
  <2>1. Prompt
    BY <1>2 DEF Prompt
  <2> QED
    BY <1>1, <2>1, CopiedStep, FoundStep
<1> QED
  BY <1>1, <1>3 DEF HashInv

(* The invariant that the results below rest on. *)
THEOREM HashInvariance == Spec => []HashInv
<1>1. Init => HashInv
  BY HashInit
<1>2. HashInv /\ [Next]_vars => HashInv'
  BY HashStep
<1> QED
  BY <1>1, <1>2, PTL DEF Spec

(* The buckets, the pool and both threads hold what their types say, for   *)
(* any hash function, pool and bounds.                                     *)
THEOREM HashTypeCorrect == Spec => []TypeOK
<1>1. HashInv => TypeOK
  BY DEF HashInv, Typed
<1> QED
  BY <1>1, HashInvariance, PTL

(* The NULL dereference of do_translation is reached only by a packet to a *)
(* port that was never given out, whichever endpoints share a bucket.      *)
THEOREM HashCrashOnlyUnknown == Spec => []CrashOnlyUnknown
<1>1. HashInv => CrashOnlyUnknown
  BY DEF HashInv, Held, Found, CrashOnlyUnknown, Alive
<1> QED
  BY <1>1, HashInvariance, PTL

-----------------------------------------------------------------------------
(* The bindings that the buckets represent, and the packet in hand. *)
Bindings == [e \in Bound |-> copies[nat_lookup_internal(e)].ext]
Owners == [port \in Given |-> copies[nat_lookup_external(port)].inner]
InHand == IF main.pc = "idle" THEN None ELSE main.pkt

(* The searches find every source and port there is a mapping for. *)
AllFound ==
  /\ Bound = {copies[c].inner : c \in linked \ Inserted}
  /\ Given = {copies[c].ext : c \in linked \ Inserted}
  /\ \A e \in Bound : /\ nat_lookup_internal(e) \in linked
                      /\ nat_lookup_internal(e) # 0
                      /\ copies[nat_lookup_internal(e)].inner = e
  /\ \A port \in Given : /\ nat_lookup_external(port) \in linked
                         /\ nat_lookup_external(port) # 0
                         /\ copies[nat_lookup_external(port)].ext = port

(* They do as long as every mapping has its copies. *)
LEMMA CopiesAreFound == Typed /\ Copied => AllFound
<1> SUFFICES ASSUME Typed, Copied PROVE AllFound
  OBVIOUS
<1>1. linked = DOMAIN copies
  BY DEF Copied, Whole
<1>2. \A c \in linked \ Inserted : nat_lookup_internal(copies[c].inner) # 0
  BY <1>1, SourceUnknown
<1>3. \A c \in linked \ Inserted : nat_lookup_external(copies[c].ext) # 0
  BY <1>1, PortUnknown
<1>4. Bound = {copies[c].inner : c \in linked \ Inserted}
  BY <1>2 DEF Bound
<1>5. Given = {copies[c].ext : c \in linked \ Inserted}
  BY <1>3 DEF Given
<1>6. \A e \in Bound : nat_lookup_internal(e) # 0
  BY DEF Bound
<1>7. \A port \in Given : nat_lookup_external(port) # 0
  BY DEF Given
<1> QED
  BY <1>4, <1>5, <1>6, <1>7, InternalSearch, ExternalSearch DEF AllFound, Typed

(* The reply to a translated packet comes back to the host that sent it,   *)
(* for any hash function: the external copy is where the search for the    *)
(* reply looks.                                                            *)
THEOREM HashReplyReachesSender == Spec => []ReplyReachesSender
<1>1. HashInv => ReplyReachesSender
  <2> SUFFICES ASSUME HashInv, Prompt, NEW e \in DOMAIN Bindings
               PROVE  /\ Bindings[e] \in DOMAIN Owners
                      /\ Bindings[e] # htons(NoPort) => Owners[Bindings[e]] = e
    BY DEF ReplyReachesSender, B!RepliesReturn, Bindings, Owners
  <2>1. Typed /\ Copied /\ AllFound
    BY CopiesAreFound DEF HashInv, Held
  <2>2. linked = DOMAIN copies /\ OneToOne
    BY <2>1 DEF Copied, Whole
  <2>3. PICK c \in linked \ Inserted : copies[c].inner = e
    BY <2>1 DEF Bindings, AllFound
  <2> DEFINE j == nat_lookup_internal(e)
             p == copies[c].ext
             l == nat_lookup_external(p)
  <2>4. j \in linked /\ copies[j].inner = e /\ Bindings[e] = copies[j].ext
    BY <2>1 DEF Bindings, AllFound
  <2>5. copies[j].ext = p
    BY <2>2, <2>3, <2>4 DEF OneToOne
  <2>6. p \in Given
    BY <2>1, <2>3 DEF AllFound
  <2>7. l \in linked /\ copies[l].ext = p
    BY <2>1, <2>6 DEF AllFound
  <2>8. Owners[p] = copies[l].inner /\ p \in DOMAIN Owners
    BY <2>6 DEF Owners
  <2> HIDE DEF j, l
  <2>9. p # htons(NoPort) => copies[l].inner = e
    BY <2>2, <2>3, <2>7 DEF OneToOne
  <2> QED
    BY <2>4, <2>5, <2>8, <2>9
<1> QED
  BY <1>1, HashInvariance, PTL

(* A mapping that is being inserted changes no binding, and nor does a     *)
(* step that leaves the sources, ports and buckets alone.                  *)
LEMMA SameBindings ==
  ASSUME AllFound, AllFound', Typed, Kept, linked' \ Inserted' = linked \ Inserted,
         \A e : nat_lookup_internal(e) # 0 =>
                  nat_lookup_internal(e)' = nat_lookup_internal(e),
         \A port : nat_lookup_external(port) # 0 =>
                     nat_lookup_external(port)' = nat_lookup_external(port)
  PROVE  Bindings' = Bindings /\ Owners' = Owners
<1>1. \A c \in linked : copies'[c].inner = copies[c].inner /\ copies'[c].ext = copies[c].ext
  BY CopiesProperties DEF Typed, Kept
<1>2. Bound' = Bound /\ Given' = Given
  <2>1. /\ Bound' = {copies'[c].inner : c \in linked' \ Inserted'}
        /\ Given' = {copies'[c].ext : c \in linked' \ Inserted'}
    BY DEF AllFound
  <2>2. /\ Bound = {copies[c].inner : c \in linked \ Inserted}
        /\ Given = {copies[c].ext : c \in linked \ Inserted}
    BY DEF AllFound
  <2> QED
    BY <1>1, <2>1, <2>2
<1>3. \A e \in Bound : copies'[nat_lookup_internal(e)'].ext = copies[nat_lookup_internal(e)].ext
  BY <1>1 DEF AllFound
<1>4. \A port \in Given : copies'[nat_lookup_external(port)'].inner =
                            copies[nat_lookup_external(port)].inner
  BY <1>1 DEF AllFound
<1>5. Bindings' = [e \in Bound' |-> copies'[nat_lookup_internal(e)'].ext]
  BY DEF Bindings
<1>6. Owners' = [port \in Given' |-> copies'[nat_lookup_external(port)'].inner]
  BY DEF Owners
<1> QED
  BY <1>2, <1>3, <1>4, <1>5, <1>6 DEF Bindings, Owners

(* Every step but the sending of the first packet of a mapping is one of   *)
(* these.                                                                  *)
LEMMA BindingsStay ==
  ASSUME HashInv, Prompt, [Next]_vars, ~ (Translate /\ main.new)
  PROVE  Bindings' = Bindings /\ Owners' = Owners
<1>1. Typed /\ Copied /\ Found /\ Typed' /\ Copied'
  BY TypedStep, CopiedStep DEF HashInv, Held
<1>2. AllFound /\ AllFound'
  <2>1. AllFound
    BY <1>1, CopiesAreFound
  <2>2. (Typed /\ Copied => AllFound)'
    BY CopiesAreFound, PTL
  <2> QED
    BY <1>1, <2>1, <2>2
<1>3. Kept
  BY <1>1, StepKeeps
<1>4. linked \subseteq 1 .. Len(copies) /\ Len(copies) \in Nat
  BY <1>1, CopiesProperties DEF Typed
<1>5. CASE InsertInternal
  <2>n. PICK n : n = Len(copies) + 1
    OBVIOUS
  <2>1. linked' = linked \cup {n} /\ main'.pc = "copy" /\ main'.map = n /\ main'.new = TRUE
    BY <1>1, <1>5, <2>n, InsertInternalProperties
  <2>2. Inserted = {} /\ Inserted' = {n, n + 1}
    BY <1>5, <2>1 DEF Inserted, InsertInternal
  <2>3. n \notin linked /\ n + 1 \notin linked
    BY <1>4, <2>n
  <2>4. linked' \ Inserted' = linked \ Inserted
    BY <2>1, <2>2, <2>3
  <2>5. /\ \A e : nat_lookup_internal(e) # 0 =>
                    nat_lookup_internal(e)' = nat_lookup_internal(e)
        /\ \A port : nat_lookup_external(port) # 0 =>
                       nat_lookup_external(port)' = nat_lookup_external(port)
    BY <1>1, <1>3, <2>n, <2>1, MoreSearch
  <2> QED
    BY <1>1, <1>2, <1>3, <2>4, <2>5, SameBindings
<1>6. CASE InsertExternal
  <2>n. PICK n : n = Len(copies) + 1
    OBVIOUS
  <2>m. PICK m : m = main.map
    OBVIOUS
  <2>1. /\ linked' = linked \cup {n} /\ main'.pc = "translate" /\ main'.map = m
        /\ main'.new = main.new
    BY <1>1, <1>6, <2>n, <2>m, InsertExternalProperties
  <2>2. main.pc = "copy" /\ main.new /\ n = m + 1
    BY <1>1, <1>6, <2>n, <2>m DEF InsertExternal, Found, Typed
  <2>3. Inserted = {m, n} /\ Inserted' = {m, n}
    BY <2>1, <2>2, <2>m DEF Inserted
  <2>4. linked' \ Inserted' = linked \ Inserted
    BY <2>1, <2>3
  <2>5. /\ \A e : nat_lookup_internal(e) # 0 =>
                    nat_lookup_internal(e)' = nat_lookup_internal(e)
        /\ \A port : nat_lookup_external(port) # 0 =>
                       nat_lookup_external(port)' = nat_lookup_external(port)
    BY <1>1, <1>3, <2>n, <2>1, MoreSearch
  <2> QED
    BY <1>1, <1>2, <1>3, <2>4, <2>5, SameBindings
<1>7. CASE ~ InsertInternal /\ ~ InsertExternal
  <2>1. linked' = linked /\ Inserted' = Inserted
    <3>1. CASE Translate
      BY <3>1 DEF Translate, Idle, Inserted
    <3>2. CASE ~ Translate
      BY <1>7, <3>2, OtherSteps DEF table
    <3> QED
      BY <3>1, <3>2
  <2> QED
    BY <1>1, <1>2, <1>3, <2>1, SameSearch, SameBindings
<1> QED
  BY <1>5, <1>6, <1>7

(* The packet of a mapping that was just inserted, and what the bindings   *)
(* know of it.                                                             *)
LEMMA NewMapping ==
  ASSUME HashInv, Prompt, Translate, main.new,
         NEW src, src = main.pkt.src, NEW ext, ext = copies[main.map].ext
  PROVE  /\ InHand = main.pkt /\ InHand # None /\ main.pkt.dst.ip # external_ip
         /\ src \notin DOMAIN Bindings
         /\ ext \notin DOMAIN Owners \/ ext = htons(NoPort)
         /\ main.map \in linked /\ copies[main.map].inner = src
         /\ \A c \in linked : copies[c].inner = src <=> c \in Inserted
<1>1. Typed /\ Copied /\ Found /\ AllFound /\ main.pc = "translate"
  BY CopiesAreFound DEF HashInv, Held, Translate
<1>2. linked = DOMAIN copies /\ OneToOne
  BY <1>1 DEF Copied, Whole
<1>3. /\ Outward /\ Inserted = {main.map, main.map + 1}
      /\ \A c \in DOMAIN copies : copies[c].inner = src <=> c \in Inserted
  BY <1>1 DEF Found, Inserted
<1>4. main.pkt \in Packet /\ main.map \in DOMAIN copies
  BY <1>1, TranslateProperties, CopiesProperties DEF Typed
<1>5. InHand = main.pkt /\ InHand # None /\ main.pkt.dst.ip # external_ip
  BY <1>1, <1>3, <1>4, PacketNotNone DEF InHand, Outward, get_packet_direction
<1>6. src \notin DOMAIN Bindings
  BY <1>1, <1>2, <1>3 DEF Bindings, AllFound
<1>7. ext \notin DOMAIN Owners \/ ext = htons(NoPort)
  <2> SUFFICES ASSUME ext \in DOMAIN Owners, ext # htons(NoPort)
               PROVE  FALSE
    OBVIOUS
  <2>1. PICK c \in linked \ Inserted : copies[c].ext = ext
    BY <1>1 DEF Owners, AllFound
  <2>2. copies[c].inner = copies[main.map].inner
    BY <1>2, <1>4, <2>1 DEF OneToOne
  <2> QED
    BY <1>2, <1>3, <1>4, <2>1, <2>2
<1> QED
  BY <1>2, <1>3, <1>4, <1>5, <1>6, <1>7

(* Once it is sent, the source and the port are bound to each other,       *)
(* unless the port is the one that is shared.                              *)
LEMMA NewBindings ==
  ASSUME HashInv, Prompt, Translate, main.new,
         NEW src, src = main.pkt.src, NEW ext, ext = copies[main.map].ext
  PROVE  /\ Bindings' = B!Extend(Bindings, src, ext)
         /\ Owners' = B!Extend(Owners, ext, src)
<1>m. PICK m : m = main.map
  OBVIOUS
<1>I. PICK I : I = Inserted
  OBVIOUS
<1>0. [Next]_vars
  BY DEF Next, PacketThread
<1>1. Typed /\ Copied /\ Found /\ Typed' /\ Copied'
  BY <1>0, TypedStep, CopiedStep DEF HashInv, Held
<1>2. AllFound /\ AllFound'
  <2>1. AllFound
    BY <1>1, CopiesAreFound
  <2>2. (Typed /\ Copied => AllFound)'
    BY CopiesAreFound, PTL
  <2> QED
    BY <1>1, <2>1, <2>2
<1>3. linked' = linked /\ Kept /\ Inserted' = {} /\ linked = DOMAIN copies /\ OneToOne
  BY <1>0, <1>1, StepKeeps DEF Translate, Idle, Inserted, Copied, Whole
<1>4. /\ \A e : nat_lookup_internal(e)' = nat_lookup_internal(e)
      /\ \A port : nat_lookup_external(port)' = nat_lookup_external(port)
  BY <1>1, <1>3, SameSearch
<1>5. \A c \in linked : copies'[c].inner = copies[c].inner /\ copies'[c].ext = copies[c].ext
  BY <1>1, <1>3, CopiesProperties DEF Typed, Kept
<1>6. /\ src \notin DOMAIN Bindings /\ m \in linked /\ copies[m].inner = src
      /\ copies[m].ext = ext
      /\ \A c \in linked : copies[c].inner = src <=> c \in I
  BY <1>m, <1>I, NewMapping
<1>7. \A c \in linked : c \in I => copies[c].ext = ext
  BY <1>3, <1>6 DEF OneToOne
<1>8. /\ Bound = {copies[c].inner : c \in linked \ I}
      /\ Given = {copies[c].ext : c \in linked \ I}
      /\ Bound' = {copies[c].inner : c \in linked}
      /\ Given' = {copies[c].ext : c \in linked}
  BY <1>2, <1>3, <1>5, <1>I DEF AllFound
<1>9. Bound' = Bound \cup {src} /\ Given' = Given \cup {ext}
  BY <1>6, <1>7, <1>8
<1>10. \A e \in Bound' : /\ nat_lookup_internal(e) \in linked
                         /\ copies[nat_lookup_internal(e)].inner = e
  BY <1>2, <1>3, <1>4, <1>5 DEF AllFound
<1>11. \A port \in Given' : /\ nat_lookup_external(port) \in linked
                            /\ copies[nat_lookup_external(port)].ext = port
  BY <1>2, <1>3, <1>4, <1>5 DEF AllFound
<1>12. Bindings' = [e \in Bound' |-> copies[nat_lookup_internal(e)].ext]
  <2>1. Bindings' = [e \in Bound' |-> copies'[nat_lookup_internal(e)'].ext]
    BY DEF Bindings
  <2> QED
    BY <1>4, <1>5, <1>10, <2>1
<1>13. Owners' = [port \in Given' |-> copies[nat_lookup_external(port)].inner]
  <2>1. Owners' = [port \in Given' |-> copies'[nat_lookup_external(port)'].inner]
    BY DEF Owners
  <2> QED
    BY <1>4, <1>5, <1>11, <2>1
<1>14. copies[nat_lookup_internal(src)].ext = ext
  BY <1>6, <1>7, <1>9, <1>10
<1>15. ext \notin Given => copies[nat_lookup_external(ext)].inner = src
  BY <1>6, <1>8, <1>9, <1>11
<1>16. src \notin Bound
  BY <1>6 DEF Bindings
<1>17. Bindings' = B!Extend(Bindings, src, ext)
  BY <1>9, <1>12, <1>14, <1>16 DEF B!Extend, Bindings
<1>18. Owners' = B!Extend(Owners, ext, src)
  BY <1>9, <1>13, <1>15 DEF B!Extend, Owners
<1> QED
  BY <1>17, <1>18

(* Sending the first packet of a mapping is the making of a binding. *)
LEMMA FirstPacketBinds ==
  ASSUME HashInv, Prompt, Translate, main.new
  PROVE  \E port \in DOMAIN Owners' : B!Bind(port)
<1>1. PICK src : src = main.pkt.src
  OBVIOUS
<1>2. PICK ext : ext = copies[main.map].ext
  OBVIOUS
<1>3. /\ InHand = main.pkt /\ InHand # None /\ InHand.dst.ip # external_ip
      /\ src \notin DOMAIN Bindings
      /\ ext \notin DOMAIN Owners \/ ext = htons(NoPort)
  BY <1>1, <1>2, NewMapping
<1>4. Bindings' = B!Extend(Bindings, src, ext) /\ Owners' = B!Extend(Owners, ext, src)
  BY <1>1, <1>2, NewBindings
<1>5. /\ sent' = [InHand EXCEPT !.src = [ip |-> external_ip, port |-> ext]]
      /\ InHand' = None /\ src = InHand.src
  BY <1>1, <1>2, <1>3 DEF Translate, Translated, get_packet_direction, InHand, Idle
<1>6. B!Bind(ext)
  BY <1>3, <1>4, <1>5 DEF B!Bind, B!Assign, B!Inward, B!Masked, B!Extend, InHand, Bindings, Owners
<1>7. ext \in DOMAIN Owners'
  BY <1>4 DEF B!Extend
<1> QED
  BY <1>6, <1>7

(* The packets after it follow the binding, in either direction. *)
LEMMA PacketFollows ==
  ASSUME HashInv, Prompt, Translate, ~ main.new
  PROVE  B!Inbound \/ B!Outbound
<1>1. Typed /\ Copied /\ Found /\ AllFound /\ main.pc = "translate" /\ main.map # 0
  BY CopiesAreFound DEF HashInv, Held, Translate
<1>2. main.pkt \in Packet
  BY <1>1, TranslateProperties
<1>3. InHand = main.pkt /\ InHand # None /\ InHand' = None
  BY <1>1, <1>2, PacketNotNone DEF InHand, Translate, Idle
<1>4. Bindings' = Bindings /\ Owners' = Owners
  BY BindingsStay DEF Next, PacketThread
<1>5. linked \ Inserted = linked
  BY DEF Inserted
<1>6. CASE main.pkt.dst.ip = external_ip
  <2>1. main.map = nat_lookup_external(main.pkt.dst.port)
    BY <1>1, <1>6 DEF Found, Outward, get_packet_direction
  <2>2. main.map \in linked /\ copies[main.map].ext = main.pkt.dst.port
    BY <1>1, <2>1, ExternalSearch DEF Typed
  <2>3. main.pkt.dst.port \in Given
    BY <1>1, <1>5, <2>2 DEF AllFound
  <2>4. InHand.dst.port \in DOMAIN Owners
        /\ Owners[InHand.dst.port] = copies[main.map].inner
    BY <1>3, <2>1, <2>3 DEF Owners
  <2>5. sent' = [InHand EXCEPT !.dst = Owners[InHand.dst.port]]
    BY <1>3, <1>6, <2>4 DEF Translate, Translated, get_packet_direction
  <2> QED
    BY <1>3, <1>4, <1>6, <2>4, <2>5 DEF B!Inbound, B!Inward, InHand, Bindings, Owners
<1>7. CASE main.pkt.dst.ip # external_ip
  <2>1. main.map = nat_lookup_internal(main.pkt.src)
    BY <1>1, <1>7 DEF Found, Outward, get_packet_direction
  <2>2. main.map \in linked /\ copies[main.map].inner = main.pkt.src
    BY <1>1, <2>1, InternalSearch DEF Typed
  <2>3. main.pkt.src \in Bound
    BY <1>1, <1>5, <2>2 DEF AllFound
  <2>4. InHand.src \in DOMAIN Bindings /\ Bindings[InHand.src] = copies[main.map].ext
    BY <1>3, <2>1, <2>3 DEF Bindings
  <2>5. sent' = [InHand EXCEPT !.src =
                   [ip |-> external_ip, port |-> Bindings[InHand.src]]]
    BY <1>3, <1>7, <2>4 DEF Translate, Translated, get_packet_direction
  <2> QED
    BY <1>3, <1>4, <1>7, <2>4, <2>5
       DEF B!Outbound, B!Inward, B!Masked, InHand, Bindings, Owners
<1> QED
  BY <1>6, <1>7

(* Every step of the two threads is one of the abstract translator, or     *)
(* changes nothing it speaks of.                                           *)
LEMMA RefinementStep ==
  ASSUME HashInv, Prompt, [Next]_vars
  PROVE  B!Step
<1>1. ASSUME NEW pkt \in Arrivals, Recv(pkt)
      PROVE  B!Arrive
  <2>1. InHand = None /\ InHand' = pkt /\ sent' = None
    BY <1>1 DEF Recv, InHand
  <2>2. pkt # None
    BY ArrivalsArePackets, PacketNotNone
  <2>3. Bindings' = Bindings /\ Owners' = Owners
    <3>1. ~ Translate
      BY <1>1 DEF Recv, Translate
    <3> QED
      BY <3>1, BindingsStay
  <2> QED
    BY <2>1, <2>2, <2>3 DEF B!Arrive, InHand, Bindings, Owners
<1>2. CASE Translate
  <2>1. B!Inbound \/ B!Outbound \/ \E port \in DOMAIN Owners' : B!Bind(port)
    BY <1>2, FirstPacketBinds, PacketFollows
  <2> QED
    BY <2>1 DEF B!Step, B!Next, B!Known, Owners
<1>3. CASE /\ ~ Translate
           /\ \/ Lookup \/ InsertInternal \/ InsertExternal \/ Crash
              \/ TimeoutThread \/ Tick \/ UNCHANGED vars
  <2>1. Typed
    BY DEF HashInv
  <2>2. InHand' = InHand /\ sent' = sent
    <3>1. CASE Lookup
      BY <3>1 DEF Lookup, InHand
    <3>2. CASE InsertInternal
      BY <2>1, <3>2, InsertInternalProperties DEF InsertInternal, InHand
    <3>3. CASE InsertExternal
      BY <2>1, <3>3, InsertExternalProperties DEF InsertExternal, InHand
    <3>4. CASE Crash
      BY <2>1, <3>4 DEF Crash, Typed, InHand
    <3>5. CASE TimeoutThread \/ Tick \/ UNCHANGED vars
      BY <3>5, PromptTimeoutThread DEF Tick, vars, InHand
    <3> QED
      BY <1>3, <3>1, <3>2, <3>3, <3>4, <3>5
  <2>3. Bindings' = Bindings /\ Owners' = Owners
    BY <1>3, BindingsStay
  <2> QED
    BY <2>2, <2>3 DEF B!Step, B!vars, InHand, Bindings, Owners
<1>4. B!Arrive => B!Step
  BY DEF B!Step, B!Next, B!Known
<1> QED
  BY <1>1, <1>2, <1>3, <1>4 DEF Next, PacketThread

(* The two threads of nat_new_2.c implement the abstract translator, as    *)
(* those of nat.c do, for any hash function and number of buckets, unless  *)
(* the timeout thread is held up for a whole timeout.                      *)
THEOREM HashImplementsBindings == Spec => ImplementsBindings
<1>1. Init => B!Init
  <2> SUFFICES ASSUME Init PROVE B!Init
    OBVIOUS
  <2>1. DOMAIN Bindings = {} /\ DOMAIN Owners = {} /\ InHand = None /\ sent = None
    BY DEF Init, Bindings, Owners, Bound, Given, InHand, Idle
  <2> QED
    BY <2>1 DEF B!Init, Bindings, Owners, InHand
<1>2. HashInv /\ [Next]_vars => [Prompt => B!Step]_vars
  BY RefinementStep
<1> QED
  BY <1>1, <1>2, HashInvariance, PTL DEF Spec, ImplementsBindings
=============================================================================
