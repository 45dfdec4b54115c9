---------------------------- MODULE MacPortMap ----------------------------
(***************************************************************************)
(* The forwarding database of the switch (switch_stack/mac.c): the table   *)
(* mac_port_map, the operations the packet thread performs on it and the   *)
(* thread that sweeps aged entries out of it.                              *)
(*                                                                         *)
(* insert_mac_port always appends to hash_table[0] and every walk visits   *)
(* all 256 buckets in order, so the table is one list; it is modelled as a *)
(* sequence.  Each operation is one step here, as the mutex declared in    *)
(* mac.h would make it; mac.c takes that mutex in none of the three.       *)
(*                                                                         *)
(* The code stores in an entry the second of its insertion (visited) and   *)
(* only ever uses now - visited.  The entry here holds that difference as  *)
(* its age, which Tick increments.                                         *)
(***************************************************************************)
EXTENDS Naturals, FiniteSets, SequencesExt

CONSTANTS
  MAC,               \* the unicast addresses of the hosts
  Iface,             \* the interfaces
  MAC_PORT_TIMEOUT,  \* the age at which an entry is swept (30 in mac.h)
  SweepPeriod        \* at most this many seconds pass between two sweeps

ASSUME MacAssumption == IsFiniteSet(MAC)
ASSUME IfaceAssumption == 0 \notin Iface
ASSUME TimeoutAssumption == MAC_PORT_TIMEOUT \in Nat \ {0}
ASSUME PeriodAssumption == SweepPeriod \in Nat \ {0}

VARIABLES
  mac_port_map,      \* the list of entries, oldest insertion first
  idle               \* seconds since the sweeping thread last swept

tableVars == <<mac_port_map, idle>>

(* No interface: the NULL that lookup_port returns for an unknown address. *)
NULL == 0

(***************************************************************************)
(* The largest age an entry reaches (AgeBound below), and the value above  *)
(* it at which the age counter saturates.                                  *)
(***************************************************************************)
MaxAge == MAC_PORT_TIMEOUT + SweepPeriod * Cardinality(MAC) - 1
AgeCap == MaxAge + 1
Older(age) == IF age < AgeCap THEN age + 1 ELSE AgeCap

Entry == [mac : MAC, iface : Iface, age : 0 .. AgeCap]
-----------------------------------------------------------------------------
(* Variant: entries are aged one second after the timeout. *)
AgedTooLate ==
  {k \in DOMAIN mac_port_map : mac_port_map[k].age > MAC_PORT_TIMEOUT}

(* The positions a walk of the list stops at: memcmp finds the address, or *)
(* the entry has reached the timeout.                                      *)
Matching(mac) == {k \in DOMAIN mac_port_map : mac_port_map[k].mac = mac}
Aged == {k \in DOMAIN mac_port_map : mac_port_map[k].age >= MAC_PORT_TIMEOUT}

lookup_port(mac) ==
  IF Matching(mac) = {} THEN NULL
                        ELSE mac_port_map[Min(Matching(mac))].iface

insert_mac_port(mac, iface) ==
  mac_port_map' = Append(mac_port_map,
                         [mac |-> mac, iface |-> iface, age |-> 0])

(* Variant: the walk starts behind the first entry. *)
SweepSkipsHead ==
  mac_port_map' = IF Aged \ {1} = {} THEN mac_port_map
                  ELSE RemoveAt(mac_port_map, Min(Aged \ {1}))

(* The walk returns after the first aged entry it removes.  The number the *)
(* call returns, the index of that entry's interface, is only logged.      *)
sweep_aged_mac_port_entry ==
  mac_port_map' = IF Aged = {} THEN mac_port_map
                               ELSE RemoveAt(mac_port_map, Min(Aged))
-----------------------------------------------------------------------------
TableInit ==
  /\ mac_port_map = << >>
  /\ idle = 0

(* handle_packet inserts an address only after lookup_port missed it. *)
Insert(mac, iface) ==
  /\ lookup_port(mac) = NULL
  /\ insert_mac_port(mac, iface)
  /\ UNCHANGED idle

(* One turn of sweeping_mac_port_thread: sleep(1), then sweep. *)
Sweep ==
  /\ idle > 0
  /\ sweep_aged_mac_port_entry
  /\ idle' = 0

(* The clock time(NULL) reads advances by a second. *)
Tick ==
  /\ idle < SweepPeriod
  /\ idle' = idle + 1
  /\ mac_port_map' = [k \in DOMAIN mac_port_map |->
                        [mac_port_map[k] EXCEPT !.age = Older(@)]]

TableNext ==
  \/ \E mac \in MAC, iface \in Iface : Insert(mac, iface)
  \/ Sweep
  \/ Tick

TableSpec == TableInit /\ [][TableNext]_tableVars
-----------------------------------------------------------------------------
TableTypeOK ==
  /\ mac_port_map \in Seq(Entry)
  /\ idle \in 0 .. SweepPeriod

(* No address is in the table twice, whichever way the lookups and inserts *)
(* of the packet thread interleave with the sweeps.                        *)
UniqueMacs ==
  \A j, k \in DOMAIN mac_port_map :
    mac_port_map[j].mac = mac_port_map[k].mac => j = k

(* The list is in insertion order, oldest entry first: the first aged      *)
(* entry a sweep meets is the oldest one of the table.                     *)
OldestFirst ==
  \A j, k \in DOMAIN mac_port_map :
    j <= k => mac_port_map[j].age >= mac_port_map[k].age

(* A sweep removes one entry only, so an aged entry waits for the ones     *)
(* ahead of it: the later its position, the less it can have aged so far.  *)
Backlog ==
  \A k \in DOMAIN mac_port_map :
    LET age == mac_port_map[k].age
    IN  age >= MAC_PORT_TIMEOUT =>
          age + SweepPeriod * k <= MaxAge + idle

(* Every entry is swept before one sweeping period per host of the network *)
(* has passed since its timeout, although sweep_aged_mac_port_entry        *)
(* removes a single entry a call and many can age in the same second.      *)
AgeBound ==
  \A k \in DOMAIN mac_port_map : mac_port_map[k].age <= MaxAge

(* The strengthening of AgeBound that every operation preserves. *)
TableInv == TableTypeOK /\ UniqueMacs /\ OldestFirst /\ Backlog
=============================================================================
