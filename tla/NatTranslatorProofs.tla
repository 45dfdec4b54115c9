------------------------ MODULE NatTranslatorProofs ------------------------
(***************************************************************************)
(* Proofs about the address translator of nat.c.                           *)
(***************************************************************************)
EXTENDS NatTranslator, NatPacketsProofs, SequenceTheorems

(* The types, with those of the variables of the timeout thread. *)
Typed ==
  /\ TypeOK
  /\ th \in [pc : {"created", "walk", "remove", "done"}, now : 0 .. MaxTime,
             pos : 0 .. Len(maps), q : 0 .. Len(maps)]
  /\ stall \in Nat

(* The walk of the timeout thread is at an entry of the list and knows one *)
(* behind it, or has come to the end.                                      *)
Walking ==
  th.pc \in {"walk", "remove"} =>
    /\ {th.pos, th.q} \subseteq linked \cup {0}
    /\ th.pos = 0 => th.q = 0
    /\ th.q # 0 => th.pos < th.q
    /\ th.pc = "remove" => th.pos # 0

(* No mapping is of the future, and the walk has not lasted longer than it *)
(* may be held up.                                                         *)
Timely ==
  /\ \A k \in DOMAIN maps : maps[k].time <= clock
  /\ th.pc \in {"walk", "remove"} => clock - th.now <= stall

(* Unless the timeout thread is held up for a whole timeout, it removes    *)
(* nothing, and what a search has found is what it would find now.         *)
Untouched ==
  Prompt => /\ th.pc # "remove"
            /\ linked = DOMAIN maps
            /\ main.pc = "translate" =>
                 main.map = nat_get_mapping_from_packet(main.pkt)

NatInv == Typed /\ Walking /\ Timely /\ Untouched /\ PoolMatchesTable
-----------------------------------------------------------------------------
(* The mappings are numbered from 1. *)
LEMMA MapsProperties ==
  ASSUME TypeOK
  PROVE  /\ Len(maps) \in Nat /\ DOMAIN maps = 1 .. Len(maps)
         /\ linked \in SUBSET (Nat \ {0}) /\ linked \subseteq 1 .. Len(maps)
         /\ \A k \in 1 .. Len(maps) : maps[k] \in Mapping
<1>1. maps \in Seq(Mapping) /\ linked \subseteq DOMAIN maps
  BY DEF TypeOK
<1>2. Len(maps) \in Nat /\ DOMAIN maps = 1 .. Len(maps)
  BY <1>1, LenProperties
<1>3. \A k \in 1 .. Len(maps) : maps[k] \in Mapping
  BY <1>1, ElementOfSeq
<1> QED
  BY <1>1, <1>2, <1>3

(* An entry of the list or the end of it is a number of a mapping or 0. *)
LEMMA EntryOrEnd ==
  ASSUME TypeOK, NEW k \in linked \cup {0}
  PROVE  k \in 0 .. Len(maps) /\ k \in Nat
<1>1. CASE k \in linked
  BY <1>1, MapsProperties
<1>2. CASE k = 0
  BY <1>2, MapsProperties
<1> QED
  BY <1>1, <1>2

(* A search finds an entry of the list or nothing. *)
LEMMA LookupType ==
  ASSUME TypeOK, NEW pkt
  PROVE  nat_get_mapping_from_packet(pkt) \in linked \cup {0}
<1> DEFINE E == {k \in linked : maps[k].ext = pkt.dst.port}
           I == {k \in linked : maps[k].ip = pkt.src.ip /\ maps[k].port = pkt.src.port}
<1>1. E \in SUBSET (Nat \ {0}) /\ I \in SUBSET (Nat \ {0})
  BY MapsProperties
<1>2. E \subseteq linked /\ I \subseteq linked
  OBVIOUS
<1>3. nat_get_mapping_from_packet(pkt) \in {First(E), First(I)}
  BY DEF nat_get_mapping_from_packet, nat_lookup_external, nat_lookup_internal
<1> HIDE DEF E, I
<1>4. First(E) \in E \cup {0} /\ First(I) \in I \cup {0}
  BY <1>1, FirstProperties
<1> QED
  BY <1>2, <1>3, <1>4

(* What a walk finds behind an entry is an entry further on, or the end. *)
LEMMA BehindType ==
  ASSUME TypeOK, NEW pos \in Nat
  PROVE  /\ Behind(pos) \in linked \cup {0}
         /\ Behind(pos) # 0 => pos < Behind(pos)
<1> DEFINE S == {k \in linked : k > pos}
<1>1. S \in SUBSET (Nat \ {0})
  BY MapsProperties
<1>2. Behind(pos) = First(S)
  BY DEF Behind
<1>3. \A k \in S : k \in linked /\ pos < k
  BY MapsProperties
<1> HIDE DEF S
<1>4. First(S) \in S \cup {0}
  BY <1>1, FirstProperties
<1> QED
  BY <1>2, <1>3, <1>4

(* The port assigned to a mapping is free, or it is the one that stands    *)
(* for an exhausted pool.                                                  *)
LEMMA AssignedPort ==
  ASSUME TypeOK
  PROVE  /\ NoPort \in Port /\ NoPort \notin PoolRange
         /\ assign_external_port \in Port
         /\ \/ assign_external_port \in PoolRange \ assigned_ports
            \/ assign_external_port = NoPort
<1>1. ByteBase \in Nat \ {0, 1} /\ ByteBase * ByteBase - 1 \in 0 .. ByteBase * ByteBase - 1
  BY BaseAssumption
<1>2. NoPort \in Port /\ NoPort \notin PoolRange /\ PoolRange \subseteq Port
  BY <1>1, PortAssumption DEF NoPort, Port
<1>3. Port \subseteq Nat
  BY <1>1 DEF Port
<1>4. FreePorts \in SUBSET Nat /\ FreePorts \subseteq PoolRange \ assigned_ports
  BY <1>2, <1>3 DEF FreePorts
<1>5. FreePorts # {} => Min(FreePorts) \in FreePorts
  BY <1>4, MinProperties
<1> QED
  BY <1>2, <1>4, <1>5 DEF assign_external_port

(* The mapping that nat_insert_mapping makes. *)
NewMapping == [ip |-> main.pkt.src.ip, port |-> main.pkt.src.port,
               ext |-> htons(assign_external_port), time |-> clock]

(* It is added at the end of the list. *)
LEMMA InsertProperties ==
  ASSUME Typed, InsertMapping
  PROVE  /\ NewMapping \in Mapping
         /\ maps' \in Seq(Mapping) /\ Len(maps') = Len(maps) + 1
         /\ \A k \in 1 .. Len(maps) : maps'[k] = maps[k]
         /\ maps'[Len(maps) + 1] = NewMapping
         /\ linked' = linked \cup {Len(maps) + 1}
<1>1. main.pkt \in Packet
  BY DEF Typed, TypeOK, InsertMapping
<1>2. main.pkt.src.ip \in Address /\ main.pkt.src.port \in Port
  BY <1>1 DEF Packet, Endpoint
<1>3. htons(assign_external_port) \in Port /\ clock \in 0 .. MaxTime
  BY AssignedPort, HtonsProperties DEF Typed, TypeOK
<1>4. NewMapping \in Mapping
  BY <1>2, <1>3 DEF NewMapping, Mapping
<1>5. maps' = Append(maps, NewMapping) /\ linked' = linked \cup {Len(maps) + 1}
  BY DEF InsertMapping, nat_insert_mapping, NewMapping
<1>6. maps \in Seq(Mapping)
  BY DEF Typed, TypeOK
<1> QED
  BY <1>4, <1>5, <1>6, AppendProperties

-----------------------------------------------------------------------------
(* nat_table_init leaves an empty table. *)
LEMMA NatInit == Init => NatInv
<1> SUFFICES ASSUME Init PROVE NatInv
  OBVIOUS
<1>1. maps = << >> /\ maps \in Seq(Mapping) /\ Len(maps) = 0 /\ DOMAIN maps = {}
  BY EmptySeq DEF Init
<1>2. stall \in Nat /\ MaxTime \in Nat
  BY TimeAssumption DEF Init
<1>3. TypeOK
  BY <1>1, <1>2 DEF Init, TypeOK, Idle, None
<1>4. Typed
  BY <1>1, <1>2, <1>3 DEF Init, Typed
<1>5. Walking /\ Timely /\ Untouched
  BY <1>1 DEF Init, Walking, Timely, Untouched, Idle
<1>6. PoolMatchesTable
  BY DEF Init, PoolMatchesTable
<1> QED
  BY <1>4, <1>5, <1>6 DEF NatInv

(* What the timeout thread does next keeps its type. *)
LEMMA AdvanceType ==
  ASSUME Typed, Walking, th.pc \in {"walk", "remove"}
  PROVE  /\ Advance \in [pc : {"created", "walk", "remove", "done"},
                         now : 0 .. MaxTime,
                         pos : 0 .. Len(maps), q : 0 .. Len(maps)]
         /\ Advance.pc = "walk" /\ Advance.pos = th.q /\ Advance.now = th.now
         /\ Advance.q = IF th.q = 0 THEN 0 ELSE Behind(th.q)
<1>1. th.q \in 0 .. Len(maps) /\ Len(maps) \in Nat /\ th.q \in Nat
  BY MapsProperties DEF Typed
<1>2. Behind(th.q) \in 0 .. Len(maps)
  BY <1>1, BehindType, MapsProperties DEF Typed
<1> QED
  BY <1>1, <1>2 DEF Typed, Advance

(* Every step keeps the types. *)
LEMMA TypedStep ==
  ASSUME NatInv, [Next]_vars
  PROVE  Typed'
<1> USE DEF NatInv
<1>1. /\ Len(maps) \in Nat /\ DOMAIN maps = 1 .. Len(maps)
      /\ \A k \in 1 .. Len(maps) : maps[k] \in Mapping
      /\ linked \subseteq 1 .. Len(maps)
  BY MapsProperties DEF Typed
<1>2. ASSUME NEW pkt \in Arrivals, Recv(pkt)
      PROVE  Typed'
  <2>1. main'.pc = "lookup" /\ main'.pkt \in Packet
    BY <1>2, ArrivalsArePackets DEF Recv
  <2> QED
    BY <1>2, <2>1 DEF Recv, table, Typed, TypeOK
<1>3. ASSUME NEW src \in Sources, EchoReply(src)
      PROVE  Typed'
  <2>1. sent' \in Packet
    BY <1>3, ArrivalsArePackets DEF EchoReply
  <2> QED
    BY <1>3, <2>1 DEF EchoReply, table, Typed, TypeOK
<1>4. CASE Lookup
  <2>1. /\ main'.pc = "translate" /\ main'.pkt = main.pkt /\ main.pkt \in Packet
        /\ main'.map = nat_get_mapping_from_packet(main.pkt)
    BY <1>4 DEF Lookup, Typed, TypeOK
  <2>2. nat_get_mapping_from_packet(main.pkt) \in 0 .. Len(maps)
    <3>1. nat_get_mapping_from_packet(main.pkt) \in linked \cup {0}
      BY LookupType DEF Typed
    <3> QED
      BY <3>1, EntryOrEnd DEF Typed
  <2> QED
    BY <1>4, <2>1, <2>2 DEF Lookup, table, Typed, TypeOK
<1>5. CASE TranslateIn
  <2>1. main.pkt \in Packet /\ main.map \in 1 .. Len(maps)
    BY <1>1, <1>5 DEF TranslateIn, Typed, TypeOK
  <2>2. maps[main.map].ip \in Address /\ maps[main.map].port \in Port
    BY <1>1, <2>1 DEF Mapping
  <2>3. sent' \in Packet
    BY <1>5, <2>1, <2>2 DEF TranslateIn, Packet, Endpoint
  <2> QED
    BY <1>5, <2>3 DEF TranslateIn, table, Idle, Typed, TypeOK
<1>6. CASE TranslateOut
  <2>1. main.pkt \in Packet /\ main.map \in 1 .. Len(maps)
    BY <1>1, <1>6 DEF TranslateOut, Typed, TypeOK
  <2>2. maps[main.map].ext \in Port /\ external_ip \in Address
    BY <1>1, <2>1 DEF Mapping, Address
  <2>3. sent' \in Packet
    BY <1>6, <2>1, <2>2 DEF TranslateOut, External, Packet, Endpoint
  <2> QED
    BY <1>6, <2>3 DEF TranslateOut, table, Idle, Typed, TypeOK
<1>7. CASE InsertMapping
  <2>1. /\ maps' \in Seq(Mapping) /\ Len(maps') = Len(maps) + 1
        /\ linked' = linked \cup {Len(maps) + 1}
    BY <1>7, InsertProperties
  <2>2. DOMAIN maps' = 1 .. Len(maps) + 1
    BY <2>1, LenProperties
  <2>3. linked' \subseteq DOMAIN maps' /\ freed' \subseteq DOMAIN maps'
    BY <1>1, <1>7, <2>1, <2>2 DEF InsertMapping, Typed, TypeOK
  <2>4. assigned_ports' \subseteq PoolRange
    BY <1>7, AssignedPort DEF InsertMapping, nat_insert_mapping, Marked, Typed, TypeOK
  <2>5. sent' \in Packet /\ main'.pc = "idle"
    BY <1>7 DEF InsertMapping, Idle, Typed, TypeOK
  <2>6. /\ th' = th /\ clock' = clock /\ stall' = stall
    BY <1>7 DEF InsertMapping
  <2>7. th.pos \in 0 .. Len(maps') /\ th.q \in 0 .. Len(maps')
    BY <1>1, <2>1 DEF Typed
  <2>8. th \in [pc : {"created", "walk", "remove", "done"}, now : 0 .. MaxTime,
                pos : 0 .. Len(maps'), q : 0 .. Len(maps')]
    BY <2>7 DEF Typed
  <2> QED
    BY <2>1, <2>3, <2>4, <2>5, <2>6, <2>7, <2>8 DEF Typed, TypeOK
<1>8. CASE StartTimeout
  <2>1. /\ Behind(0) \in 0 .. Len(maps)
        /\ Behind(0) # 0 => Behind(Behind(0)) \in 0 .. Len(maps)
    <3>1. Behind(0) \in linked \cup {0}
      BY BehindType DEF Typed
    <3>2. Behind(0) \in Nat
      BY <3>1, EntryOrEnd DEF Typed
    <3>3. Behind(Behind(0)) \in linked \cup {0}
      BY <3>2, BehindType DEF Typed
    <3> QED
      BY <3>1, <3>3, EntryOrEnd DEF Typed
  <2>2. clock \in 0 .. MaxTime
    BY DEF Typed, TypeOK
  <2>3. th' \in [pc : {"created", "walk", "remove", "done"}, now : 0 .. MaxTime,
                 pos : 0 .. Len(maps), q : 0 .. Len(maps)]
    BY <1>1, <1>8, <2>1, <2>2 DEF StartTimeout
  <2> QED
    BY <1>8, <2>3 DEF StartTimeout, table, Typed, TypeOK
<1>9. CASE Keep \/ Remove
  <2>1. th' = Advance /\ th.pc \in {"walk", "remove"}
    BY <1>9 DEF Keep, Remove
  <2>2. th' \in [pc : {"created", "walk", "remove", "done"}, now : 0 .. MaxTime,
                 pos : 0 .. Len(maps), q : 0 .. Len(maps)]
    BY <2>1, AdvanceType
  <2>3. th.pc = "remove" => th.pos \in linked
    BY DEF Walking
  <2> QED
    BY <1>9, <2>2, <2>3 DEF Keep, Remove, table, Typed, TypeOK
<1>10. CASE FreePort \/ EndTimeout
  <2>1. th' \in [pc : {"created", "walk", "remove", "done"}, now : 0 .. MaxTime,
                 pos : 0 .. Len(maps), q : 0 .. Len(maps)]
    BY <1>10 DEF FreePort, EndTimeout, Typed
  <2> QED
    BY <1>10, <2>1 DEF FreePort, EndTimeout, free_port, table, Typed, TypeOK
<1>11. CASE Tick
  <2>1. clock' \in 0 .. MaxTime
    BY <1>11, TimeAssumption DEF Tick, Typed, TypeOK
  <2> QED
    BY <1>11, <2>1 DEF Tick, table, Typed, TypeOK
<1>12. CASE UNCHANGED vars
  BY <1>12 DEF vars, table, Typed, TypeOK
<1> QED
  BY <1>2, <1>3, <1>4, <1>5, <1>6, <1>7, <1>8, <1>9, <1>10, <1>11, <1>12
     DEF Next, Arrival, PacketThread, TimeoutThread

(* Nothing but the timeout thread moves its walk or takes entries from the *)
(* list.                                                                   *)
LEMMA PacketThreadKeepsWalk ==
  ASSUME Typed, Arrival \/ PacketThread \/ Tick \/ UNCHANGED vars
  PROVE  th' = th /\ stall' = stall /\ linked \subseteq linked'
<1>1. CASE InsertMapping
  BY <1>1, InsertProperties DEF InsertMapping
<1> QED
  BY <1>1 DEF Arrival, Recv, EchoReply, PacketThread, Lookup, TranslateIn,
              TranslateOut, Tick, vars, table

(* The entry that the walk turns to next is behind the one it leaves, so   *)
(* it is still there when that one has been removed.                       *)
LEMMA WalkingStep ==
  ASSUME NatInv, [Next]_vars
  PROVE  Walking'
<1> USE DEF NatInv
<1>1. linked \in SUBSET (Nat \ {0})
  BY MapsProperties DEF Typed
<1>2. CASE Arrival \/ PacketThread \/ Tick \/ UNCHANGED vars
  BY <1>2, PacketThreadKeepsWalk DEF Walking
<1>3. CASE StartTimeout
  <2>1. linked' = linked /\ th'.pc = "walk" /\ th'.pos = Behind(0)
        /\ th'.q = IF Behind(0) = 0 THEN 0 ELSE Behind(Behind(0))
    BY <1>3 DEF StartTimeout, table
  <2>2. Behind(0) \in linked \cup {0}
    BY BehindType DEF Typed
  <2>3. Behind(0) \in Nat
    BY <2>2, EntryOrEnd DEF Typed
  <2>4. /\ Behind(Behind(0)) \in linked \cup {0}
        /\ Behind(Behind(0)) # 0 => Behind(0) < Behind(Behind(0))
    BY <2>3, BehindType DEF Typed
  <2> QED
    BY <2>1, <2>2, <2>4 DEF Walking
<1>4. CASE Keep \/ Remove
  <2>1. th' = Advance /\ th.pc \in {"walk", "remove"} /\ th.pos # 0
    BY <1>4 DEF Keep, Remove, Walking
  <2>2. /\ th'.pc = "walk" /\ th'.pos = th.q
        /\ th'.q = IF th.q = 0 THEN 0 ELSE Behind(th.q)
    BY <2>1, AdvanceType
  <2>3. th.q \in Nat /\ th.pos \in Nat /\ th.q \in linked \cup {0}
        /\ (th.q # 0 => th.pos < th.q)
    BY <1>1, <2>1 DEF Walking, Typed
  <2>4. /\ Behind(th.q) \in linked \cup {0}
        /\ Behind(th.q) # 0 => th.q < Behind(th.q)
    BY <2>3, BehindType DEF Typed
  <2>5. linked \ {th.pos} \subseteq linked'
    BY <1>4 DEF Keep, Remove, table
  <2>6. th.q # 0 => th.q # th.pos /\ Behind(th.q) # th.pos
    BY <1>1, <2>1, <2>3, <2>4
  <2> QED
    BY <2>2, <2>3, <2>4, <2>5, <2>6 DEF Walking
<1>5. CASE FreePort \/ EndTimeout
  <2>1. linked' = linked
    BY <1>5 DEF FreePort, EndTimeout, table
  <2>2. th'.pos = th.pos /\ th'.q = th.q /\ th.pc = "walk"
        /\ (\/ th'.pc = "remove" /\ th.pos # 0
            \/ th'.pc = "done")
    BY <1>5 DEF FreePort, EndTimeout, Typed
  <2> QED
    BY <2>1, <2>2 DEF Walking
<1> QED
  BY <1>2, <1>3, <1>4, <1>5 DEF Next, TimeoutThread

(* Time passes for all alike. *)
LEMMA TimelyStep ==
  ASSUME NatInv, [Next]_vars
  PROVE  Timely'
<1> USE DEF NatInv
<1>1. /\ Len(maps) \in Nat /\ DOMAIN maps = 1 .. Len(maps)
      /\ clock \in Nat /\ stall \in Nat /\ th.now \in Nat
      /\ \A k \in DOMAIN maps : maps[k].time \in Nat /\ maps[k].time <= clock
  <2>1. clock \in Nat /\ stall \in Nat /\ th.now \in Nat
    BY TimeAssumption DEF Typed, TypeOK
  <2>2. \A k \in DOMAIN maps : maps[k].time \in Nat
    BY MapsProperties, TimeAssumption DEF Typed, Mapping
  <2> QED
    BY <2>1, <2>2, MapsProperties DEF Typed, Timely
<1>2. CASE InsertMapping
  <2>1. /\ maps' \in Seq(Mapping) /\ Len(maps') = Len(maps) + 1
        /\ \A k \in 1 .. Len(maps) : maps'[k] = maps[k]
        /\ maps'[Len(maps) + 1].time = clock
    BY <1>2, InsertProperties DEF NewMapping
  <2>2. DOMAIN maps' = 1 .. Len(maps) + 1
    BY <2>1, LenProperties
  <2>3. clock' = clock /\ th' = th /\ stall' = stall
    BY <1>2 DEF InsertMapping
  <2> QED
    BY <1>1, <2>1, <2>2, <2>3 DEF Timely
<1>3. CASE Arrival \/ Lookup \/ TranslateIn \/ TranslateOut \/ UNCHANGED vars
  BY <1>3 DEF Arrival, Recv, EchoReply, Lookup, TranslateIn, TranslateOut, vars,
              table, Timely
<1>4. CASE Tick
  BY <1>1, <1>4 DEF Tick, table, Timely
<1>5. CASE StartTimeout
  BY <1>1, <1>5 DEF StartTimeout, table, Timely
<1>6. CASE Keep \/ Remove
  <2>1. th.pc \in {"walk", "remove"} /\ th' = Advance
    BY <1>6 DEF Keep, Remove
  <2>2. th'.now = th.now
    BY <2>1, AdvanceType
  <2>3. UNCHANGED <<maps, clock, stall>>
    BY <1>6 DEF Keep, Remove, table
  <2> QED
    BY <2>1, <2>2, <2>3 DEF Timely
<1>7. CASE FreePort \/ EndTimeout
  <2>1. th.pc = "walk" /\ th'.now = th.now
    BY <1>7 DEF FreePort, EndTimeout, Typed
  <2>2. UNCHANGED <<maps, clock, stall>>
    BY <1>7 DEF FreePort, EndTimeout, table
  <2> QED
    BY <2>1, <2>2 DEF Timely
<1> QED
  BY <1>2, <1>3, <1>4, <1>5, <1>6, <1>7 DEF Next, PacketThread, TimeoutThread

(* The test of the walk subtracts the wrong way round: it can be true only *)
(* for a mapping inserted a whole timeout after the walk began.            *)
LEMMA PromptNeverExpires ==
  ASSUME NatInv, Prompt, th.pc = "walk", th.pos # 0
  PROVE  ~ Expired
<1>1. th.pos \in DOMAIN maps
  BY DEF NatInv, Walking, Typed, TypeOK
<1>2. maps[th.pos].time \in Nat /\ maps[th.pos].time <= clock
  BY <1>1, MapsProperties DEF NatInv, Typed, Timely, Mapping
<1>3. /\ clock \in Nat /\ th.now \in Nat /\ stall \in Nat
      /\ clock - th.now <= stall
  BY TimeAssumption DEF NatInv, Typed, TypeOK, Timely
<1> QED
  BY <1>2, <1>3, TimeAssumption DEF Prompt, Expired

(* A prompt timeout thread only walks. *)
LEMMA PromptTimeoutThread ==
  ASSUME NatInv, Prompt, TimeoutThread
  PROVE  /\ StartTimeout \/ Keep \/ EndTimeout
         /\ UNCHANGED <<table, main, sent, clock, stall>>
         /\ th'.pc # "remove"
<1>1. ~ FreePort /\ ~ Remove
  BY PromptNeverExpires DEF FreePort, Remove, NatInv, Untouched
<1>2. StartTimeout \/ Keep \/ EndTimeout
  BY <1>1 DEF TimeoutThread
<1>3. Keep => th'.pc = "walk"
  BY AdvanceType DEF Keep, NatInv
<1>4. (StartTimeout => th'.pc = "walk") /\ (EndTimeout => th'.pc = "done")
  BY DEF StartTimeout, EndTimeout, NatInv, Typed
<1> QED
  BY <1>2, <1>3, <1>4 DEF StartTimeout, Keep, EndTimeout

(* What a search finds depends on the table and the packet only. *)
LEMMA SameTableSameMapping ==
  ASSUME UNCHANGED <<maps, linked>>, main'.pkt = main.pkt
  PROVE  nat_get_mapping_from_packet(main.pkt)' =
           nat_get_mapping_from_packet(main.pkt)
  BY DEF nat_get_mapping_from_packet, nat_lookup_external, nat_lookup_internal,
         get_packet_direction

(* A step of anyone else leaves the mapping that was found in place. *)
LEMMA UntouchedStep ==
  ASSUME NatInv, [Next]_vars
  PROVE  Untouched'
<1> SUFFICES ASSUME Prompt'
             PROVE  /\ th'.pc # "remove"
                    /\ linked' = DOMAIN maps'
                    /\ main'.pc = "translate" =>
                         main'.map = nat_get_mapping_from_packet(main.pkt)'
  BY DEF Untouched
<1>1. stall' = stall /\ Prompt
  BY DEF Next, Arrival, Recv, EchoReply, PacketThread, Lookup, TranslateIn,
         InsertMapping, TranslateOut, TimeoutThread, StartTimeout, Keep,
         FreePort, Remove, EndTimeout, Tick, vars, Prompt
<1>2. /\ th.pc # "remove" /\ linked = DOMAIN maps
      /\ main.pc = "translate" => main.map = nat_get_mapping_from_packet(main.pkt)
  BY <1>1 DEF NatInv, Untouched
<1>3. CASE InsertMapping
  <2>1. /\ maps' \in Seq(Mapping) /\ Len(maps') = Len(maps) + 1
        /\ linked' = linked \cup {Len(maps) + 1}
    BY <1>3, InsertProperties DEF NatInv
  <2>2. DOMAIN maps' = 1 .. Len(maps) + 1 /\ DOMAIN maps = 1 .. Len(maps)
        /\ Len(maps) \in Nat
    BY <2>1, LenProperties, MapsProperties DEF NatInv, Typed
  <2>3. linked' = DOMAIN maps'
    BY <1>2, <2>1, <2>2
  <2>4. main'.pc = "idle" /\ th' = th
    BY <1>3 DEF InsertMapping, Idle
  <2> QED
    BY <1>2, <2>3, <2>4
<1>4. CASE Lookup
  <2>1. /\ UNCHANGED <<maps, linked, th>> /\ main'.pkt = main.pkt
        /\ main'.map = nat_get_mapping_from_packet(main.pkt)
    BY <1>4 DEF Lookup, table
  <2> QED
    BY <1>2, <2>1, SameTableSameMapping
<1>5. CASE Arrival \/ TranslateIn \/ TranslateOut
  <2>1. UNCHANGED <<maps, linked, th>> /\ (main' = main \/ main'.pc # "translate")
    BY <1>5 DEF Arrival, Recv, EchoReply, TranslateIn, TranslateOut, Idle, table
  <2> QED
    BY <1>2, <2>1, SameTableSameMapping
<1>6. CASE TimeoutThread
  <2>1. UNCHANGED <<maps, linked, main>> /\ th'.pc # "remove"
    BY <1>1, <1>6, PromptTimeoutThread DEF table
  <2> QED
    BY <1>2, <2>1, SameTableSameMapping
<1>7. CASE Tick \/ UNCHANGED vars
  <2>1. UNCHANGED <<maps, linked, main, th>>
    BY <1>7 DEF Tick, vars, table
  <2> QED
    BY <1>2, <2>1, SameTableSameMapping
<1> QED
  BY <1>3, <1>4, <1>5, <1>6, <1>7 DEF Next, PacketThread

(* A port that is assigned is marked, and was held by no mapping before.   *)
LEMMA PoolStep ==
  ASSUME NatInv, [Next]_vars
  PROVE  PoolMatchesTable'
<1> DEFINE Held == {k \in linked : maps[k].ext # htons(NoPort)}
<1> SUFFICES ASSUME Prompt'
             PROVE  /\ assigned_ports' = {htons(maps'[k].ext) : k \in Held'}
                    /\ \A k, l \in Held' : maps'[k].ext = maps'[l].ext => k = l
  BY DEF PoolMatchesTable
<1>1. stall' = stall /\ Prompt
  BY DEF Next, Arrival, Recv, EchoReply, PacketThread, Lookup, TranslateIn,
         InsertMapping, TranslateOut, TimeoutThread, StartTimeout, Keep,
         FreePort, Remove, EndTimeout, Tick, vars, Prompt
<1>2. /\ assigned_ports = {htons(maps[k].ext) : k \in Held}
      /\ \A k, l \in Held : maps[k].ext = maps[l].ext => k = l
  BY <1>1 DEF NatInv, PoolMatchesTable
<1>3. CASE InsertMapping
  <2> DEFINE n == Len(maps) + 1
             port == assign_external_port
  <2>1. /\ \A k \in 1 .. Len(maps) : maps'[k] = maps[k]
        /\ maps'[n] = NewMapping /\ linked' = linked \cup {n}
    BY <1>3, InsertProperties DEF NatInv
  <2>2. Len(maps) \in Nat /\ linked \subseteq 1 .. Len(maps) /\ n \notin linked
    BY MapsProperties DEF NatInv, Typed
  <2>3. NewMapping.ext = htons(port)
    BY DEF NewMapping
  <2>4. assigned_ports' = assigned_ports \cup ({port} \ {NoPort})
    BY <1>3 DEF InsertMapping, nat_insert_mapping, Marked
  <2>5. /\ port \in Port /\ NoPort \in Port
        /\ port \in PoolRange \ assigned_ports \/ port = NoPort
    BY AssignedPort DEF NatInv, Typed
  <2>6. htons(htons(port)) = port /\ (htons(port) = htons(NoPort) => port = NoPort)
    BY <2>5, HtonsProperties
  <2> HIDE DEF n, port
  <2>7. \A k \in linked : maps'[k] = maps[k]
    BY <2>1, <2>2
  <2>8. CASE port = NoPort
    <3>1. Held' = Held
      BY <2>1, <2>2, <2>3, <2>7, <2>8
    <3> QED
      BY <1>2, <2>4, <2>7, <2>8, <3>1
  <2>9. CASE port # NoPort
    <3>1. Held' = Held \cup {n}
      BY <2>1, <2>2, <2>3, <2>6, <2>7, <2>9
    <3>2. \A k \in Held : maps[k].ext # htons(port)
      BY <1>2, <2>5, <2>6, <2>9
    <3>3. {htons(maps'[k].ext) : k \in Held'} =
            {htons(maps[k].ext) : k \in Held} \cup {port}
      BY <2>1, <2>3, <2>6, <2>7, <3>1
    <3> QED
      BY <1>2, <2>1, <2>3, <2>4, <2>7, <2>9, <3>1, <3>2, <3>3
  <2> QED
    BY <2>8, <2>9
<1>4. CASE UNCHANGED <<maps, linked, assigned_ports>>
  BY <1>2, <1>4
<1> QED
  BY <1>1, <1>3, <1>4, PromptTimeoutThread
     DEF Next, Arrival, Recv, EchoReply, PacketThread, Lookup, TranslateIn,
         TranslateOut, Tick, vars, table
-----------------------------------------------------------------------------
(* The invariant of the translator, for any hosts, ports and pool. *)
THEOREM NatInvariance == Spec => []NatInv
<1>1. NatInv /\ [Next]_vars => NatInv'
  BY TypedStep, WalkingStep, TimelyStep, UntouchedStep, PoolStep DEF NatInv
<1> QED
  BY <1>1, NatInit, PTL DEF Spec

(* The variables of nat.c keep their types: every port that is stored or   *)
(* sent fits into a u16, every number of a mapping denotes one.            *)
THEOREM NatTypeCorrect == Spec => []TypeOK
<1>1. NatInv => TypeOK
  BY DEF NatInv, Typed
<1> QED
  BY <1>1, NatInvariance, PTL

(* Whatever the pool and however many mappings there are: the pool marks   *)
(* the ports that mappings hold, and no two hold the same.                 *)
THEOREM NatPoolMatchesTable == Spec => []PoolMatchesTable
<1>1. NatInv => PoolMatchesTable
  BY DEF NatInv
<1> QED
  BY <1>1, NatInvariance, PTL

(* The timeout thread never frees the mapping that do_translation holds,   *)
(* unless it is held up for a whole timeout.                               *)
THEOREM NatMappingInUse == Spec => []MappingInUse
<1>1. NatInv => MappingInUse
  <2> SUFFICES ASSUME NatInv, Prompt, main.pc = "translate", main.map # 0
               PROVE  main.map \in linked
    BY DEF MappingInUse
  <2> QED
    BY MapsProperties DEF NatInv, Typed, TypeOK, Untouched
<1> QED
  BY <1>1, NatInvariance, PTL
-----------------------------------------------------------------------------
(* The search for the source of a mapping finds one with that source. *)
LEMMA InternalSearch ==
  ASSUME TypeOK, NEW k \in linked
  PROVE  /\ nat_lookup_internal(maps[k].ip, maps[k].port) \in linked
         /\ Inner(nat_lookup_internal(maps[k].ip, maps[k].port)) = Inner(k)
<1> DEFINE S == {j \in linked : maps[j].ip = maps[k].ip /\ maps[j].port = maps[k].port}
<1>1. S \in SUBSET (Nat \ {0}) /\ k \in S
  BY MapsProperties
<1>2. First(S) \in S
  <2> HIDE DEF S
  <2> QED
    BY <1>1, FirstProperties
<1>3. nat_lookup_internal(maps[k].ip, maps[k].port) = First(S)
  BY DEF nat_lookup_internal
<1> QED
  BY <1>2, <1>3 DEF Inner

(* The search for the port of a mapping finds one with that port. *)
LEMMA ExternalSearch ==
  ASSUME TypeOK, NEW k \in linked
  PROVE  /\ nat_lookup_external(maps[k].ext) \in linked
         /\ maps[nat_lookup_external(maps[k].ext)].ext = maps[k].ext
<1> DEFINE S == {j \in linked : maps[j].ext = maps[k].ext}
<1>1. S \in SUBSET (Nat \ {0}) /\ k \in S
  BY MapsProperties
<1>2. First(S) \in S
  <2> HIDE DEF S
  <2> QED
    BY <1>1, FirstProperties
<1>3. nat_lookup_external(maps[k].ext) = First(S)
  BY DEF nat_lookup_external
<1> QED
  BY <1>2, <1>3

(* The bindings that the table represents. *)
Bindings == [e \in {Inner(i) : i \in linked} |->
               maps[nat_lookup_internal(e.ip, e.port)].ext]
Owners == [port \in {maps[i].ext : i \in linked} |->
             Inner(nat_lookup_external(port))]

(* The reply to a translated packet comes back to the host that sent it,   *)
(* for any hosts, ports and pool.                                          *)
THEOREM NatReplyReachesSender == Spec => []ReplyReachesSender
<1>1. NatInv => ReplyReachesSender
  <2> SUFFICES ASSUME NatInv, Prompt, NEW e \in DOMAIN Bindings
               PROVE  /\ Bindings[e] \in DOMAIN Owners
                      /\ Bindings[e] # htons(NoPort) => Owners[Bindings[e]] = e
    BY DEF ReplyReachesSender, B!RepliesReturn, Bindings, Owners
  <2>1. PICK k \in linked : e = Inner(k)
    BY DEF Bindings
  <2> DEFINE j == nat_lookup_internal(maps[k].ip, maps[k].port)
             l == nat_lookup_external(maps[j].ext)
  <2>2. j \in linked /\ Inner(j) = e
    BY <2>1, InternalSearch DEF NatInv, Typed
  <2>3. Bindings[e] = maps[j].ext
    BY <2>1 DEF Bindings, Inner
  <2> HIDE DEF j
  <2>4. l \in linked /\ maps[l].ext = maps[j].ext
    BY <2>2, ExternalSearch DEF NatInv, Typed
  <2>5. maps[j].ext \in DOMAIN Owners /\ Owners[maps[j].ext] = Inner(l)
    BY <2>2 DEF Owners
  <2> HIDE DEF l
  <2>6. maps[j].ext # htons(NoPort) => l = j
    BY <2>2, <2>4 DEF NatInv, PoolMatchesTable
  <2> QED
    BY <2>2, <2>3, <2>5, <2>6
<1> QED
  BY <1>1, NatInvariance, PTL
-----------------------------------------------------------------------------
(* The packet that the abstract translator has in hand. *)
InHand == IF main.pc = "idle" THEN None ELSE main.pkt

(* Steps that leave the table alone leave the bindings alone. *)
LEMMA SameTableSameBindings ==
  ASSUME UNCHANGED <<maps, linked>>
  PROVE  Bindings' = Bindings /\ Owners' = Owners
  BY DEF Bindings, Owners, Inner, nat_lookup_internal, nat_lookup_external

(* A mapping at the end of the list hides none from a search for a source. *)
LEMMA InsertInternal ==
  ASSUME Typed, InsertMapping, NEW e \in Endpoint
  PROVE  nat_lookup_internal(e.ip, e.port)' =
           IF nat_lookup_internal(e.ip, e.port) # 0
           THEN nat_lookup_internal(e.ip, e.port)
           ELSE IF e = main.pkt.src THEN Len(maps) + 1 ELSE 0
<1> DEFINE n == Len(maps) + 1
           S == {k \in linked : maps[k].ip = e.ip /\ maps[k].port = e.port}
           T == {k \in linked' : maps'[k].ip = e.ip /\ maps'[k].port = e.port}
<1>1. /\ \A k \in 1 .. Len(maps) : maps'[k] = maps[k]
      /\ maps'[n] = NewMapping /\ linked' = linked \cup {n}
  BY InsertProperties
<1>2. Len(maps) \in Nat /\ linked \subseteq 1 .. Len(maps)
  BY MapsProperties DEF Typed
<1>3. main.pkt.src \in Endpoint
  BY DEF Typed, TypeOK, InsertMapping, Packet
<1>4. (NewMapping.ip = e.ip /\ NewMapping.port = e.port) <=> e = main.pkt.src
  BY <1>3 DEF NewMapping, Endpoint
<1>5. \A k \in linked : maps'[k] = maps[k]
  BY <1>1, <1>2
<1>6. T = IF e = main.pkt.src THEN S \cup {n} ELSE S
  BY <1>1, <1>4, <1>5
<1>7. S \in SUBSET (Nat \ {0}) /\ n \in Nat \ {0} /\ \A k \in S : k < n
  <2>1. S \subseteq 1 .. Len(maps)
    BY <1>2
  <2> HIDE DEF S
  <2> QED
    BY <1>2, <2>1
<1>8. /\ nat_lookup_internal(e.ip, e.port) = First(S)
      /\ nat_lookup_internal(e.ip, e.port)' = First(T)
  BY DEF nat_lookup_internal
<1> HIDE DEF S, T, n
<1>9. First(S \cup {n}) = IF S = {} THEN n ELSE First(S)
  BY <1>7, FirstOfMore
<1>10. First(S) = 0 <=> S = {}
  BY <1>7, FirstProperties
<1> QED
  BY <1>6, <1>8, <1>9, <1>10 DEF n

(* Nor from a search for a port. *)
LEMMA InsertExternal ==
  ASSUME Typed, InsertMapping, NEW p
  PROVE  nat_lookup_external(p)' =
           IF nat_lookup_external(p) # 0
           THEN nat_lookup_external(p)
           ELSE IF p = htons(assign_external_port) THEN Len(maps) + 1 ELSE 0
<1> DEFINE n == Len(maps) + 1
           S == {k \in linked : maps[k].ext = p}
           T == {k \in linked' : maps'[k].ext = p}
<1>1. /\ \A k \in 1 .. Len(maps) : maps'[k] = maps[k]
      /\ maps'[n] = NewMapping /\ linked' = linked \cup {n}
  BY InsertProperties
<1>2. Len(maps) \in Nat /\ linked \subseteq 1 .. Len(maps)
  BY MapsProperties DEF Typed
<1>3. NewMapping.ext = htons(assign_external_port)
  BY DEF NewMapping
<1>4. \A k \in linked : maps'[k] = maps[k]
  BY <1>1, <1>2
<1>5. T = IF p = htons(assign_external_port) THEN S \cup {n} ELSE S
  BY <1>1, <1>3, <1>4
<1>6. S \in SUBSET (Nat \ {0}) /\ n \in Nat \ {0} /\ \A k \in S : k < n
  <2>1. S \subseteq 1 .. Len(maps)
    BY <1>2
  <2> HIDE DEF S
  <2> QED
    BY <1>2, <2>1
<1>7. nat_lookup_external(p) = First(S) /\ nat_lookup_external(p)' = First(T)
  BY DEF nat_lookup_external
<1> HIDE DEF S, T, n
<1>8. First(S \cup {n}) = IF S = {} THEN n ELSE First(S)
  BY <1>6, FirstOfMore
<1>9. First(S) = 0 <=> S = {}
  BY <1>6, FirstProperties
<1> QED
  BY <1>5, <1>7, <1>8, <1>9 DEF n

(* A search finds something exactly for the sources and ports that are     *)
(* bound.                                                                  *)
LEMMA FoundIfBound ==
  ASSUME TypeOK
  PROVE  /\ \A e \in Endpoint :
              nat_lookup_internal(e.ip, e.port) # 0 <=> e \in DOMAIN Bindings
         /\ \A e \in Endpoint : e \in DOMAIN Bindings =>
              /\ nat_lookup_internal(e.ip, e.port) \in linked
              /\ Bindings[e] = maps[nat_lookup_internal(e.ip, e.port)].ext
         /\ \A p : nat_lookup_external(p) # 0 <=> p \in DOMAIN Owners
         /\ \A p \in DOMAIN Owners :
              /\ nat_lookup_external(p) \in linked
              /\ Owners[p] = Inner(nat_lookup_external(p))
<1>1. linked \in SUBSET (Nat \ {0}) /\ \A k \in linked : maps[k] \in Mapping
  BY MapsProperties
<1>2. ASSUME NEW e \in Endpoint
      PROVE  /\ nat_lookup_internal(e.ip, e.port) # 0 <=> e \in DOMAIN Bindings
             /\ e \in DOMAIN Bindings =>
                  /\ nat_lookup_internal(e.ip, e.port) \in linked
                  /\ Bindings[e] = maps[nat_lookup_internal(e.ip, e.port)].ext
  <2> DEFINE S == {k \in linked : maps[k].ip = e.ip /\ maps[k].port = e.port}
  <2>1. S \in SUBSET (Nat \ {0}) /\ S \subseteq linked
    BY <1>1
  <2>2. S # {} <=> e \in DOMAIN Bindings
    <3>1. \A k \in linked :
            (maps[k].ip = e.ip /\ maps[k].port = e.port) <=> e = Inner(k)
      BY DEF Inner, Endpoint
    <3> QED
      BY <3>1 DEF Bindings
  <2>3. nat_lookup_internal(e.ip, e.port) = First(S)
    BY DEF nat_lookup_internal
  <2> HIDE DEF S
  <2>4. (First(S) = 0 <=> S = {}) /\ (S # {} => First(S) \in S)
    BY <2>1, FirstProperties
  <2>5. e \in DOMAIN Bindings => Bindings[e] = maps[nat_lookup_internal(e.ip, e.port)].ext
    BY DEF Bindings
  <2> QED
    BY <2>1, <2>2, <2>3, <2>4, <2>5
<1>3. ASSUME NEW p
      PROVE  /\ nat_lookup_external(p) # 0 <=> p \in DOMAIN Owners
             /\ p \in DOMAIN Owners =>
                  /\ nat_lookup_external(p) \in linked
                  /\ Owners[p] = Inner(nat_lookup_external(p))
  <2> DEFINE S == {k \in linked : maps[k].ext = p}
  <2>1. S \in SUBSET (Nat \ {0}) /\ S \subseteq linked
    BY <1>1
  <2>2. S # {} <=> p \in DOMAIN Owners
    BY DEF Owners
  <2>3. nat_lookup_external(p) = First(S)
    BY DEF nat_lookup_external
  <2> HIDE DEF S
  <2>4. (First(S) = 0 <=> S = {}) /\ (S # {} => First(S) \in S)
    BY <2>1, FirstProperties
  <2>5. p \in DOMAIN Owners => Owners[p] = Inner(nat_lookup_external(p))
    BY DEF Owners
  <2> QED
    BY <2>1, <2>2, <2>3, <2>4, <2>5
<1> QED
  BY <1>2, <1>3

(* The mapping that was found, and what it means for the bindings. *)
LEMMA FoundMapping ==
  ASSUME NatInv, Prompt, main.pc = "translate"
  PROVE  /\ main.pkt \in Packet /\ main.pkt.src \in Endpoint
         /\ InHand = main.pkt /\ InHand # None
         /\ main.map = IF main.pkt.dst.ip = external_ip
                       THEN nat_lookup_external(main.pkt.dst.port)
                       ELSE nat_lookup_internal(main.pkt.src.ip, main.pkt.src.port)
<1>1. main.pkt \in Packet
  BY DEF NatInv, Typed, TypeOK
<1>2. main.map = nat_get_mapping_from_packet(main.pkt)
  BY DEF NatInv, Untouched
<1>3. InHand = main.pkt
  BY DEF InHand
<1> QED
  BY <1>1, <1>2, <1>3, PacketNotNone
     DEF nat_get_mapping_from_packet, get_packet_direction, Packet

(* An inserted mapping binds the source of the packet, unless it is bound  *)
(* already, and leaves the other bindings alone.                           *)
LEMMA InsertBindings ==
  ASSUME NatInv, InsertMapping,
         NEW src, src = main.pkt.src,
         NEW ext, ext = htons(assign_external_port)
  PROVE  /\ Bindings' = B!Extend(Bindings, src, ext)
         /\ Owners' = B!Extend(Owners, ext, src)
<1>n. PICK n : n = Len(maps) + 1
  OBVIOUS
<1> USE DEF NatInv
<1>1. /\ \A k \in 1 .. Len(maps) : maps'[k] = maps[k]
      /\ maps'[n] = NewMapping /\ linked' = linked \cup {n}
  BY <1>n, InsertProperties
<1>2. Len(maps) \in Nat /\ linked \subseteq 1 .. Len(maps) /\ n \notin linked
  BY <1>n, MapsProperties DEF Typed
<1>3. src \in Endpoint
  BY DEF Typed, TypeOK, InsertMapping, Packet
<1>4. \A k \in linked : maps'[k] = maps[k] /\ Inner(k)' = Inner(k)
  BY <1>1, <1>2 DEF Inner
<1>5. maps'[n].ext = ext /\ Inner(n)' = src
  BY <1>1, <1>3 DEF Inner, NewMapping, Endpoint
<1>6. \A k \in linked : Inner(k) \in Endpoint
  BY MapsProperties DEF Typed, Inner, Mapping, Endpoint
<1>7. TypeOK
  BY DEF Typed
<1>8. Bindings' = B!Extend(Bindings, src, ext)
  <2>1. DOMAIN Bindings' = DOMAIN Bindings \cup {src}
    BY <1>1, <1>4, <1>5 DEF Bindings
  <2>2. DOMAIN Bindings \subseteq Endpoint
    BY <1>6 DEF Bindings
  <2>3. ASSUME NEW e \in DOMAIN Bindings
        PROVE  Bindings'[e] = Bindings[e]
    <3>1. /\ nat_lookup_internal(e.ip, e.port) # 0
          /\ nat_lookup_internal(e.ip, e.port) \in linked
          /\ Bindings[e] = maps[nat_lookup_internal(e.ip, e.port)].ext
      BY <1>7, <2>2, FoundIfBound
    <3>2. nat_lookup_internal(e.ip, e.port)' = nat_lookup_internal(e.ip, e.port)
      BY <2>2, <3>1, InsertInternal
    <3>3. Bindings'[e] = maps'[nat_lookup_internal(e.ip, e.port)'].ext
      BY <2>1 DEF Bindings
    <3> QED
      BY <1>4, <3>1, <3>2, <3>3
  <2>4. src \notin DOMAIN Bindings => Bindings'[src] = ext
    <3> SUFFICES ASSUME src \notin DOMAIN Bindings
                 PROVE  Bindings'[src] = ext
      OBVIOUS
    <3>1. nat_lookup_internal(src.ip, src.port) = 0
      BY <1>3, <1>7, FoundIfBound
    <3>2. nat_lookup_internal(src.ip, src.port)' = n
      BY <1>3, <3>1, <1>n, InsertInternal
    <3>3. Bindings'[src] = maps'[nat_lookup_internal(src.ip, src.port)'].ext
      BY <2>1 DEF Bindings
    <3> QED
      BY <1>5, <3>2, <3>3
  <2>5. Bindings' = [e \in DOMAIN Bindings' |-> Bindings'[e]]
    BY DEF Bindings
  <2> QED
    BY <2>1, <2>3, <2>4, <2>5 DEF B!Extend
<1>9. Owners' = B!Extend(Owners, ext, src)
  <2>1. DOMAIN Owners' = DOMAIN Owners \cup {ext}
    BY <1>1, <1>4, <1>5 DEF Owners
  <2>2. ASSUME NEW p \in DOMAIN Owners
        PROVE  Owners'[p] = Owners[p]
    <3>1. /\ nat_lookup_external(p) # 0 /\ nat_lookup_external(p) \in linked
          /\ Owners[p] = Inner(nat_lookup_external(p))
      BY <1>7, FoundIfBound
    <3>2. nat_lookup_external(p)' = nat_lookup_external(p)
      BY <3>1, InsertExternal
    <3>3. Owners'[p] = Inner(nat_lookup_external(p))'
      BY <2>1 DEF Owners
    <3> QED
      BY <1>4, <3>1, <3>2, <3>3 DEF Inner
  <2>3. ext \notin DOMAIN Owners => Owners'[ext] = src
    <3> SUFFICES ASSUME ext \notin DOMAIN Owners
                 PROVE  Owners'[ext] = src
      OBVIOUS
    <3>1. nat_lookup_external(ext) = 0
      BY <1>7, FoundIfBound
    <3>2. nat_lookup_external(ext)' = n
      BY <3>1, <1>n, InsertExternal
    <3>3. Owners'[ext] = Inner(nat_lookup_external(ext))'
      BY <2>1 DEF Owners
    <3> QED
      BY <1>5, <3>2, <3>3 DEF Inner
  <2>4. Owners' = [p \in DOMAIN Owners' |-> Owners'[p]]
    BY DEF Owners
  <2> QED
    BY <2>1, <2>2, <2>3, <2>4 DEF B!Extend
<1> QED
  BY <1>8, <1>9

(* The port of a new mapping leads nowhere yet: the pool marks the ports   *)
(* of all the others.                                                      *)
LEMMA NewPortUnowned ==
  ASSUME NatInv, Prompt, htons(assign_external_port) # htons(NoPort)
  PROVE  htons(assign_external_port) \notin DOMAIN Owners
<1> SUFFICES ASSUME NEW k \in linked, maps[k].ext = htons(assign_external_port)
             PROVE  FALSE
  BY DEF Owners
<1>1. /\ assign_external_port \in Port
      /\ assign_external_port \notin assigned_ports
  BY AssignedPort DEF NatInv, Typed
<1>2. htons(maps[k].ext) = assign_external_port
  BY <1>1, HtonsProperties
<1>3. htons(maps[k].ext) \in assigned_ports
  BY DEF NatInv, PoolMatchesTable
<1> QED
  BY <1>1, <1>2, <1>3

(* The insertion of a mapping is the making of a binding. *)
LEMMA InsertBinds ==
  ASSUME NatInv, Prompt, InsertMapping
  PROVE  \E port \in DOMAIN Owners' : B!Assign(port)
<1>1. PICK src : src = main.pkt.src
  OBVIOUS
<1>2. PICK ext : ext = htons(assign_external_port)
  OBVIOUS
<1>3. main.pc = "translate" /\ main.map = 0
  BY DEF InsertMapping
<1>4. /\ InHand = main.pkt /\ InHand # None /\ src \in Endpoint
      /\ IF main.pkt.dst.ip = external_ip
         THEN nat_lookup_external(main.pkt.dst.port) = 0
         ELSE nat_lookup_internal(src.ip, src.port) = 0
  BY <1>1, <1>3, FoundMapping
<1>5. IF InHand.dst.ip = external_ip
      THEN InHand.dst.port \notin DOMAIN Owners
      ELSE InHand.src \notin DOMAIN Bindings
  BY <1>1, <1>4, FoundIfBound DEF NatInv, Typed
<1>6. ext \notin DOMAIN Owners \/ ext = htons(NoPort)
  BY <1>2, NewPortUnowned
<1>7. Bindings' = B!Extend(Bindings, src, ext) /\ Owners' = B!Extend(Owners, ext, src)
  BY <1>1, <1>2, InsertBindings
<1>8. InHand' = None /\ src = InHand.src
  BY <1>1, <1>4 DEF InsertMapping, InHand, Idle
<1>9. B!Assign(ext)
  BY <1>4, <1>5, <1>6, <1>7, <1>8
     DEF B!Assign, B!Inward, B!Extend, InHand, Bindings, Owners
<1>10. ext \in DOMAIN Owners'
  BY <1>7 DEF B!Extend
<1> QED
  BY <1>9, <1>10

(* Rewriting the destination of a packet follows the owner of the port. *)
LEMMA TranslateInFollows ==
  ASSUME NatInv, Prompt, TranslateIn
  PROVE  B!Inbound
<1>1. /\ main.pc = "translate" /\ main.map # 0
      /\ main.pkt.dst.ip = external_ip
  BY DEF TranslateIn, get_packet_direction
<1>2. /\ InHand = main.pkt /\ InHand # None
      /\ main.map = nat_lookup_external(main.pkt.dst.port)
  BY <1>1, FoundMapping
<1>3. /\ InHand.dst.port \in DOMAIN Owners
      /\ Owners[InHand.dst.port] = Inner(main.map)
  BY <1>1, <1>2, FoundIfBound DEF NatInv, Typed
<1>4. sent' = [InHand EXCEPT !.dst = Owners[InHand.dst.port]] /\ InHand' = None
  BY <1>2, <1>3 DEF TranslateIn, InHand, Idle, Inner
<1>5. Bindings' = Bindings /\ Owners' = Owners
  BY SameTableSameBindings DEF TranslateIn, table
<1> QED
  BY <1>1, <1>2, <1>3, <1>4, <1>5 DEF B!Inbound, B!Inward, InHand, Bindings, Owners

(* Rewriting the source of a packet follows the binding of the sender. *)
LEMMA TranslateOutFollows ==
  ASSUME NatInv, Prompt, TranslateOut
  PROVE  B!Outbound
<1>1. /\ main.pc = "translate" /\ main.map # 0
      /\ main.pkt.dst.ip # external_ip
  BY DEF TranslateOut, get_packet_direction
<1>2. /\ InHand = main.pkt /\ InHand # None /\ InHand.src \in Endpoint
      /\ main.map = nat_lookup_internal(main.pkt.src.ip, main.pkt.src.port)
  BY <1>1, FoundMapping
<1>3. /\ InHand.src \in DOMAIN Bindings
      /\ Bindings[InHand.src] = maps[main.map].ext
  BY <1>1, <1>2, FoundIfBound DEF NatInv, Typed
<1>4. /\ sent' = [InHand EXCEPT !.src =
                    [ip |-> external_ip, port |-> Bindings[InHand.src]]]
      /\ InHand' = None
  BY <1>2, <1>3 DEF TranslateOut, External, InHand, Idle
<1>5. Bindings' = Bindings /\ Owners' = Owners
  BY SameTableSameBindings DEF TranslateOut, table
<1> QED
  BY <1>1, <1>2, <1>3, <1>4, <1>5
     DEF B!Outbound, B!Inward, B!Masked, InHand, Bindings, Owners

(* Every step of the two threads is one of the abstract translator, or     *)
(* changes nothing it speaks of.                                           *)
LEMMA RefinementStep ==
  ASSUME NatInv, Prompt, [Next]_vars
  PROVE  B!KeepStep
<1>1. ASSUME NEW pkt \in Arrivals, Recv(pkt)
      PROVE  B!Arrive
  <2>1. InHand = None /\ InHand' = pkt /\ sent' = None
    BY <1>1 DEF Recv, InHand
  <2>2. pkt # None
    BY ArrivalsArePackets, PacketNotNone
  <2>3. Bindings' = Bindings /\ Owners' = Owners
    BY <1>1, SameTableSameBindings DEF Recv, table
  <2> QED
    BY <2>1, <2>2, <2>3 DEF B!Arrive, InHand, Bindings, Owners
<1>2. ASSUME NEW src \in Sources, EchoReply(src)
      PROVE  B!Answer
  <2>1. InHand = None /\ InHand' = InHand /\ sent'.proto = "ICMP"
    BY <1>2 DEF EchoReply, InHand
  <2>2. sent' # None
    BY <1>2, ArrivalsArePackets, PacketNotNone DEF EchoReply
  <2>3. Bindings' = Bindings /\ Owners' = Owners
    BY <1>2, SameTableSameBindings DEF EchoReply, table
  <2> QED
    BY <2>1, <2>2, <2>3 DEF B!Answer, InHand, Bindings, Owners
<1>3. CASE Lookup \/ TimeoutThread \/ Tick \/ UNCHANGED vars
  <2>1. UNCHANGED <<maps, linked, sent>>
    BY <1>3, PromptTimeoutThread DEF Lookup, Tick, vars, table
  <2>2. InHand' = InHand
    BY <1>3, PromptTimeoutThread DEF Lookup, Tick, vars, InHand
  <2>3. Bindings' = Bindings /\ Owners' = Owners
    BY <2>1, SameTableSameBindings
  <2> QED
    BY <2>1, <2>2, <2>3 DEF B!KeepStep, B!vars, InHand, Bindings, Owners
<1>4. CASE InsertMapping
  <2>1. B!KeepNext
    BY <1>4, InsertBinds DEF B!KeepNext, Owners
  <2> QED
    BY <2>1 DEF B!KeepStep
<1>5. CASE TranslateIn
  BY <1>5, TranslateInFollows DEF B!KeepStep, B!KeepNext, B!Known
<1>6. CASE TranslateOut
  BY <1>6, TranslateOutFollows DEF B!KeepStep, B!KeepNext, B!Known
<1>7. B!Arrive \/ B!Answer => B!KeepStep
  BY DEF B!KeepStep, B!KeepNext, B!Known
<1> QED
  BY <1>1, <1>2, <1>3, <1>4, <1>5, <1>6, <1>7 DEF Next, Arrival, PacketThread

(* The two threads of nat.c keep the bindings of the abstract translator,  *)
(* unless the timeout thread is held up for a whole timeout: for any       *)
(* hosts, ports and pool, no binding changes or is given to two hosts, and *)
(* every packet that finds one follows it.                                 *)
THEOREM NatKeepsBindings == Spec => KeepsBindings
<1>1. Init => B!Init
  <2> SUFFICES ASSUME Init PROVE B!Init
    OBVIOUS
  <2>1. DOMAIN Bindings = {} /\ DOMAIN Owners = {} /\ InHand = None /\ sent = None
    BY DEF Init, Bindings, Owners, InHand, Idle
  <2> QED
    BY <2>1 DEF B!Init, Bindings, Owners, InHand
<1>2. NatInv /\ [Next]_vars => [Prompt => B!KeepStep]_vars
  BY RefinementStep
<1> QED
  BY <1>1, <1>2, NatInvariance, PTL DEF Spec, KeepsBindings
=============================================================================
