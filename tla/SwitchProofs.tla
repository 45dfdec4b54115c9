---------------------------- MODULE SwitchProofs ----------------------------
(***************************************************************************)
(* Proofs about the forwarding database and the switch.  The argument for  *)
(* AgeBound: the list is oldest first, so a sweep always removes the first *)
(* entry and every other entry moves up one position; an entry at position *)
(* k of a table with at most one entry per address needs k more sweeps,    *)
(* and Backlog says that the age it has left allows for them.  The two     *)
(* threads of the switch use the database as TableSpec allows, so its      *)
(* theorems hold of the switch, and a settled host receives its frames.    *)
(***************************************************************************)
EXTENDS Switch, TLAPS, FiniteSetTheorems, SequenceTheorems, WellFoundedInduction

(* Removing position i keeps what is before it and shifts the rest. *)
LEMMA RemoveAtProperties ==
  ASSUME NEW S, NEW s \in Seq(S), NEW i \in 1 .. Len(s)
  PROVE  /\ RemoveAt(s, i) \in Seq(S)
         /\ Len(RemoveAt(s, i)) = Len(s) - 1
         /\ \A k \in 1 .. Len(s) - 1 :
              RemoveAt(s, i)[k] = IF k < i THEN s[k] ELSE s[k+1]
<1> DEFINE l == SubSeq(s, 1, i-1)
           r == SubSeq(s, i+1, Len(s))
<1>1. Len(s) \in Nat /\ i \in Nat
  BY LenProperties
<1>2. /\ l \in Seq(S) /\ Len(l) = i - 1
      /\ \A k \in 1 .. i-1 : l[k] = s[k]
  BY <1>1, SMT
<1>3. /\ r \in Seq(S) /\ Len(r) = Len(s) - i
      /\ \A k \in 1 .. Len(s)-i : r[k] = s[i+k]
  BY <1>1, SMT
<1>4. /\ l \o r \in Seq(S) /\ Len(l \o r) = Len(l) + Len(r)
      /\ \A k \in 1 .. Len(l) + Len(r) :
           (l \o r)[k] = IF k <= Len(l) THEN l[k] ELSE r[k - Len(l)]
  BY <1>2, <1>3, ConcatProperties
<1> HIDE DEF l, r
<1>5. ASSUME NEW k \in 1 .. Len(s) - 1
      PROVE  (l \o r)[k] = IF k < i THEN s[k] ELSE s[k+1]
  <2>1. CASE k < i
    BY <1>1, <1>2, <1>3, <1>4, <2>1
  <2>2. CASE ~(k < i)
    <3>1. k - Len(l) \in 1 .. Len(s) - i /\ i + (k - Len(l)) = k + 1
      BY <1>1, <1>2, <2>2
    <3>2. (l \o r)[k] = r[k - Len(l)]
      BY <1>1, <1>2, <1>3, <1>4, <2>2
    <3> QED
      BY <1>3, <2>2, <3>1, <3>2
  <2> QED
    BY <2>1, <2>2
<1>6. RemoveAt(s, i) = l \o r
  BY DEF RemoveAt, l, r
<1>7. Len(l \o r) = Len(s) - 1
  BY <1>1, <1>2, <1>3, <1>4
<1> QED
  BY <1>4, <1>5, <1>6, <1>7

(* The first position of a nonempty set of positions. *)
LEMMA MinProperties ==
  ASSUME NEW S \in SUBSET Nat, S # {}
  PROVE  Min(S) \in S /\ \A k \in S : Min(S) <= k
<1> DEFINE R == {ss \in Nat \X Nat : ss[1] < ss[2]}
<1>1. IsWellFoundedOn(R, Nat)
  BY NatLessThanWellFounded DEF OpToRel
<1> HIDE DEF R
<1>2. PICK x \in S : \A y \in S : ~ (<<y, x>> \in R)
  BY <1>1, WFMin
<1>3. ASSUME NEW y \in S
      PROVE  x <= y
  <2>1. SUFFICES ~ (y < x)
    OBVIOUS
  <2>2. SUFFICES ASSUME y < x PROVE FALSE
    OBVIOUS
  <2>3. <<y, x>> \in Nat \X Nat /\ <<y, x>>[1] < <<y, x>>[2]
    BY <2>2
  <2>4. <<y, x>> \in R
    BY <2>3, Zenon DEF R
  <2> QED
    BY <1>2, <2>4
<1> QED
  BY <1>3 DEF Min
-----------------------------------------------------------------------------
(* The bounds are natural numbers and the cap is above the timeout. *)
LEMMA BoundsType ==
  /\ Cardinality(MAC) \in Nat
  /\ MAC_PORT_TIMEOUT \in Nat \ {0}
  /\ SweepPeriod \in Nat \ {0}
  /\ SweepPeriod * Cardinality(MAC) \in Nat
  /\ MaxAge \in Nat /\ AgeCap \in Nat
  /\ AgeCap = MAC_PORT_TIMEOUT + SweepPeriod * Cardinality(MAC)
  /\ AgeCap = MaxAge + 1
<1>1. Cardinality(MAC) \in Nat
  BY MacAssumption, FS_CardinalityType
<1>2. SweepPeriod * Cardinality(MAC) \in Nat
  BY <1>1, PeriodAssumption
<1> QED
  BY <1>1, <1>2, TimeoutAssumption, PeriodAssumption DEF MaxAge, AgeCap

(* A larger position needs at least as many sweeping periods. *)
LEMMA PeriodMonotone ==
  ASSUME NEW j \in Nat, NEW k \in Nat
  PROVE  /\ j <= k => SweepPeriod * j <= SweepPeriod * k
         /\ SweepPeriod * (k + 1) = SweepPeriod * k + SweepPeriod
         /\ SweepPeriod * k \in Nat
  BY PeriodAssumption

(* The ageing of an entry stays within its type. *)
LEMMA OlderType ==
  ASSUME NEW age \in 0 .. AgeCap
  PROVE  /\ Older(age) \in 0 .. AgeCap
         /\ age <= Older(age) /\ Older(age) <= age + 1
         /\ \A b \in 0 .. AgeCap : age <= b => Older(age) <= Older(b)
  BY BoundsType DEF Older

(* A table without duplicates has at most one entry per host. *)
LEMMA LengthBound ==
  ASSUME mac_port_map \in Seq(Entry), UniqueMacs
  PROVE  Len(mac_port_map) \in Nat /\ Len(mac_port_map) <= Cardinality(MAC)
<1> DEFINE n == Len(mac_port_map)
           f == [k \in 1 .. n |-> mac_port_map[k].mac]
<1>1. n \in Nat /\ DOMAIN mac_port_map = 1 .. n
  BY LenProperties
<1>2. \A k \in 1 .. n : mac_port_map[k] \in Entry
  BY <1>1, ElementOfSeq
<1>3. f \in [1 .. n -> MAC]
  BY <1>2 DEF Entry
<1>4. IsFiniteSet(1 .. n) /\ Cardinality(1 .. n) = n
  <2>1. \A m \in Nat :
          /\ IsFiniteSet(1 .. m)
          /\ Cardinality(1 .. m) = IF 1 > m THEN 0 ELSE m - 1 + 1
    BY FS_Interval
  <2>2. n \in Nat
    BY <1>1
  <2> HIDE DEF n
  <2> QED
    BY <2>1, <2>2
<1>5. ASSUME Cardinality(MAC) < Cardinality(1 .. n)
      PROVE  FALSE
  <2>1. PICK x, y \in 1 .. n : x # y /\ f[x] = f[y]
    <3> HIDE DEF f
    <3> QED
      BY <1>3, <1>4, <1>5, MacAssumption, FS_PigeonHole
  <2>2. x \in DOMAIN mac_port_map /\ y \in DOMAIN mac_port_map
    BY <1>1
  <2> QED
    BY <2>1, <2>2 DEF UniqueMacs
<1> QED
  BY <1>1, <1>4, <1>5, BoundsType

(* What the walk of lookup_port finds. *)
LEMMA LookupProperties ==
  ASSUME mac_port_map \in Seq(Entry), NEW mac
  PROVE  /\ (lookup_port(mac) = NULL) <=> (Matching(mac) = {})
         /\ Matching(mac) # {} =>
              \E k \in Matching(mac) : lookup_port(mac) = mac_port_map[k].iface
<1>1. Len(mac_port_map) \in Nat /\ DOMAIN mac_port_map = 1 .. Len(mac_port_map)
  BY LenProperties
<1>2. Matching(mac) \in SUBSET Nat
  BY <1>1 DEF Matching
<1>3. Matching(mac) # {} => Min(Matching(mac)) \in Matching(mac)
  BY <1>2, MinProperties
<1>4. \A k \in Matching(mac) : mac_port_map[k].iface # NULL
  <2> SUFFICES ASSUME NEW k \in Matching(mac)
               PROVE  mac_port_map[k].iface # NULL
    OBVIOUS
  <2>1. mac_port_map[k] \in Entry
    BY <1>1, ElementOfSeq DEF Matching
  <2> QED
    BY <2>1, IfaceAssumption DEF Entry, NULL
<1> QED
  BY <1>3, <1>4 DEF lookup_port
-----------------------------------------------------------------------------
(* The empty table satisfies the invariant. *)
LEMMA TableInitInv == TableInit => TableInv
<1> SUFFICES ASSUME TableInit PROVE TableInv
  OBVIOUS
<1>1. DOMAIN mac_port_map = {}
  BY DEF TableInit
<1>2. TableTypeOK
  BY PeriodAssumption DEF TableInit, TableTypeOK
<1> QED
  BY <1>1, <1>2 DEF TableInv, UniqueMacs, OldestFirst, Backlog

(* Inserting an address that lookup_port misses. *)
LEMMA InsertInv ==
  ASSUME TableInv, NEW mac \in MAC, NEW iface \in Iface, Insert(mac, iface)
  PROVE  TableInv'
<1> DEFINE n == Len(mac_port_map)
           e == [mac |-> mac, iface |-> iface, age |-> 0]
<1> USE DEF TableInv, TableTypeOK
<1>1. n \in Nat /\ DOMAIN mac_port_map = 1 .. n
  BY LenProperties
<1>2. e \in Entry
  BY BoundsType DEF Entry
<1>3. mac_port_map' = Append(mac_port_map, e) /\ idle' = idle
  BY DEF Insert, insert_mac_port
<1>4. /\ mac_port_map' \in Seq(Entry)
      /\ DOMAIN mac_port_map' = 1 .. n + 1
      /\ \A k \in 1 .. n : mac_port_map'[k] = mac_port_map[k]
      /\ mac_port_map'[n+1] = e
  BY <1>1, <1>2, <1>3, AppendProperties
<1>5. \A k \in 1 .. n : mac_port_map[k] \in Entry
  BY <1>1, ElementOfSeq
<1>6. \A k \in 1 .. n : mac_port_map[k].mac # mac
  BY <1>1, LookupProperties DEF Insert, Matching
<1> HIDE DEF e
<1>7. e.mac = mac /\ e.age = 0
  BY DEF e
<1>8. UniqueMacs'
  BY <1>1, <1>4, <1>6, <1>7 DEF UniqueMacs
<1>9. OldestFirst'
  <2> SUFFICES ASSUME NEW j \in 1 .. n+1, NEW k \in 1 .. n+1, j <= k
               PROVE  mac_port_map'[j].age >= mac_port_map'[k].age
    BY <1>4 DEF OldestFirst
  <2>1. CASE k = n+1 /\ j \in 1 .. n
    BY <1>4, <1>5, <1>7, <2>1 DEF Entry
  <2>2. CASE k = n+1 /\ j = n+1
    BY <1>4, <1>7, <2>2
  <2>3. CASE k \in 1 .. n /\ j \in 1 .. n
    BY <1>1, <1>4, <2>3 DEF OldestFirst
  <2> QED
    BY <1>1, <2>1, <2>2, <2>3
<1>10. Backlog'
  <2> SUFFICES ASSUME NEW k \in 1 .. n+1,
                      mac_port_map'[k].age >= MAC_PORT_TIMEOUT
               PROVE  mac_port_map'[k].age + SweepPeriod * k <= MaxAge + idle'
    BY <1>4 DEF Backlog, MaxAge
  <2>1. k \in 1 .. n
    BY <1>1, <1>4, <1>7, BoundsType
  <2> QED
    BY <1>1, <1>3, <1>4, <2>1 DEF Backlog
<1> QED
  BY <1>3, <1>4, <1>8, <1>9, <1>10

(* A sweep finds the oldest entry first, so it removes position 1 or       *)
(* nothing.                                                                *)
LEMMA SweepRemovesHead ==
  ASSUME TableInv, Aged # {}
  PROVE  Min(Aged) = 1 /\ 1 \in DOMAIN mac_port_map
<1> USE DEF TableInv, TableTypeOK
<1>1. /\ Len(mac_port_map) \in Nat
      /\ DOMAIN mac_port_map = 1 .. Len(mac_port_map)
  BY LenProperties
<1>2. Aged \in SUBSET Nat
  BY <1>1 DEF Aged
<1>3. Min(Aged) \in Aged /\ \A k \in Aged : Min(Aged) <= k
  BY <1>2, MinProperties
<1>4. Min(Aged) \in 1 .. Len(mac_port_map) /\ 1 \in 1 .. Len(mac_port_map)
  BY <1>1, <1>3 DEF Aged
<1>5. /\ mac_port_map[1] \in Entry
      /\ mac_port_map[Min(Aged)] \in Entry
  BY <1>4, ElementOfSeq
<1>6. mac_port_map[1].age >= mac_port_map[Min(Aged)].age
  BY <1>1, <1>4 DEF OldestFirst
<1>7. mac_port_map[1].age >= MAC_PORT_TIMEOUT
  <2>1. mac_port_map[Min(Aged)].age >= MAC_PORT_TIMEOUT
    BY <1>3 DEF Aged
  <2>2. /\ mac_port_map[1].age \in 0 .. AgeCap
        /\ mac_port_map[Min(Aged)].age \in 0 .. AgeCap
    BY <1>5 DEF Entry
  <2> DEFINE first == mac_port_map[1].age
             least == mac_port_map[Min(Aged)].age
  <2>3. /\ first \in 0 .. AgeCap /\ least \in 0 .. AgeCap
        /\ first >= least /\ least >= MAC_PORT_TIMEOUT
    BY <1>6, <2>1, <2>2
  <2>4. AgeCap \in Nat /\ MAC_PORT_TIMEOUT \in Nat
    BY BoundsType
  <2> HIDE DEF first, least
  <2>5. first >= MAC_PORT_TIMEOUT
    BY <2>3, <2>4
  <2> QED
    BY <2>5 DEF first
<1>8. 1 \in Aged
  BY <1>1, <1>4, <1>7 DEF Aged
<1> QED
  BY <1>1, <1>3, <1>4, <1>8

(* Such a sweep moves every other entry up by one position. *)
LEMMA SweepShifts ==
  ASSUME TableInv, Sweep, Aged # {}
  PROVE  /\ mac_port_map' \in Seq(Entry)
         /\ DOMAIN mac_port_map' = 1 .. Len(mac_port_map) - 1
         /\ \A k \in 1 .. Len(mac_port_map) - 1 :
              mac_port_map'[k] = mac_port_map[k+1]
<1> DEFINE n == Len(mac_port_map)
<1>1. n \in Nat /\ DOMAIN mac_port_map = 1 .. n
  BY LenProperties DEF TableInv, TableTypeOK
<1>2. Min(Aged) = 1 /\ 1 \in 1 .. n
  BY <1>1, SweepRemovesHead
<1>3. mac_port_map' = RemoveAt(mac_port_map, 1)
  BY <1>2 DEF Sweep, sweep_aged_mac_port_entry
<1>4. /\ RemoveAt(mac_port_map, 1) \in Seq(Entry)
      /\ Len(RemoveAt(mac_port_map, 1)) = n - 1
      /\ \A k \in 1 .. n - 1 :
           RemoveAt(mac_port_map, 1)[k] =
             IF k < 1 THEN mac_port_map[k] ELSE mac_port_map[k+1]
  BY <1>2, RemoveAtProperties DEF TableInv, TableTypeOK
<1>5. \A k \in 1 .. n - 1 : ~ (k < 1)
  BY <1>1
<1>6. Len(mac_port_map') = n - 1 /\ mac_port_map' \in Seq(Entry)
  BY <1>3, <1>4
<1>7. DOMAIN mac_port_map' = 1 .. n - 1
  BY <1>6, LenProperties
<1> HIDE DEF n
<1>8. \A k \in 1 .. n - 1 : mac_port_map'[k] = mac_port_map[k+1]
  BY <1>3, <1>4, <1>5, Zenon
<1> QED
  BY <1>6, <1>7, <1>8 DEF n

(* A turn of the sweeping thread. *)
LEMMA SweepInv ==
  ASSUME TableInv, Sweep
  PROVE  TableInv'
<1> DEFINE n == Len(mac_port_map)
<1> USE DEF TableInv, TableTypeOK
<1>1. n \in Nat /\ DOMAIN mac_port_map = 1 .. n
  BY LenProperties
<1>2. idle' = 0 /\ idle \in 0 .. SweepPeriod /\ idle' \in 0 .. SweepPeriod
  BY BoundsType DEF Sweep
<1>3. \A k \in 1 .. n : mac_port_map[k] \in Entry
  BY <1>1, ElementOfSeq
<1>4. CASE Aged = {}
  <2>1. mac_port_map' = mac_port_map
    BY <1>4 DEF Sweep, sweep_aged_mac_port_entry
  <2>2. UniqueMacs' /\ OldestFirst'
    BY <2>1 DEF UniqueMacs, OldestFirst
  <2>3. Backlog'
    BY <1>4, <2>1 DEF Backlog, Aged
  <2> QED
    BY <1>2, <2>1, <2>2, <2>3
<1>5. CASE Aged # {}
  <2>3. /\ mac_port_map' \in Seq(Entry)
        /\ \A k \in 1 .. n - 1 : mac_port_map'[k] = mac_port_map[k+1]
    BY <1>5, SweepShifts
  <2>4. DOMAIN mac_port_map' = 1 .. n - 1
    BY <1>5, SweepShifts
  <2>5. UniqueMacs'
    <3> SUFFICES ASSUME NEW j \in 1 .. n-1, NEW k \in 1 .. n-1,
                        mac_port_map'[j].mac = mac_port_map'[k].mac
                 PROVE  j = k
      BY <2>4 DEF UniqueMacs
    <3>1. j + 1 \in 1 .. n /\ k + 1 \in 1 .. n
      BY <1>1
    <3>2. mac_port_map[j+1].mac = mac_port_map[k+1].mac
      BY <2>3
    <3> QED
      BY <1>1, <3>1, <3>2 DEF UniqueMacs
  <2>6. OldestFirst'
    <3> SUFFICES ASSUME NEW j \in 1 .. n-1, NEW k \in 1 .. n-1, j <= k
                 PROVE  mac_port_map'[j].age >= mac_port_map'[k].age
      BY <2>4 DEF OldestFirst
    <3>1. j + 1 \in 1 .. n /\ k + 1 \in 1 .. n /\ j + 1 <= k + 1
      BY <1>1
    <3> QED
      BY <1>1, <2>3, <3>1 DEF OldestFirst
  <2>7. Backlog'
    <3> SUFFICES ASSUME NEW k \in 1 .. n-1,
                        mac_port_map'[k].age >= MAC_PORT_TIMEOUT
                 PROVE  mac_port_map'[k].age + SweepPeriod * k <= MaxAge + idle'
      BY <2>4 DEF Backlog, MaxAge
    <3> DEFINE age == mac_port_map[k+1].age
    <3>1. k + 1 \in 1 .. n /\ k \in Nat
      BY <1>1
    <3>2. mac_port_map'[k].age = age
      BY <2>3
    <3>3. age \in Nat
      <4>1. mac_port_map[k+1] \in Entry
        BY <1>3, <3>1
      <4> QED
        BY <4>1, BoundsType DEF Entry
    <3>4. age + SweepPeriod * (k+1) <= MaxAge + idle
      BY <1>1, <3>1, <3>2 DEF Backlog
    <3>5. /\ SweepPeriod * (k+1) = SweepPeriod * k + SweepPeriod
          /\ SweepPeriod * k \in Nat
      BY <3>1, PeriodMonotone
    <3> HIDE DEF age
    <3> QED
      BY <1>2, <3>2, <3>3, <3>4, <3>5, BoundsType
  <2> QED
    BY <1>2, <2>3, <2>5, <2>6, <2>7
<1> QED
  BY <1>4, <1>5

(* What is in the table after a sweep was in it before. *)
LEMMA SweepKeepsEntries ==
  ASSUME TableInv, Sweep
  PROVE  \A k \in DOMAIN mac_port_map' :
           \E j \in DOMAIN mac_port_map : mac_port_map'[k] = mac_port_map[j]
<1>1. CASE Aged = {}
  BY <1>1 DEF Sweep, sweep_aged_mac_port_entry
<1>2. CASE Aged # {}
  <2> SUFFICES ASSUME NEW k \in DOMAIN mac_port_map'
               PROVE  \E j \in DOMAIN mac_port_map :
                        mac_port_map'[k] = mac_port_map[j]
    OBVIOUS
  <2>1. /\ Len(mac_port_map) \in Nat
        /\ DOMAIN mac_port_map = 1 .. Len(mac_port_map)
    BY LenProperties DEF TableInv, TableTypeOK
  <2>2. k + 1 \in DOMAIN mac_port_map /\ mac_port_map'[k] = mac_port_map[k+1]
    BY <1>2, <2>1, SweepShifts
  <2> QED
    BY <2>2
<1> QED
  BY <1>1, <1>2

(* A second leaves every entry in its place and ages it. *)
LEMMA TickEntries ==
  ASSUME TableInv, Tick
  PROVE  /\ DOMAIN mac_port_map = 1 .. Len(mac_port_map)
         /\ DOMAIN mac_port_map' = DOMAIN mac_port_map
         /\ mac_port_map' \in Seq(Entry)
         /\ \A k \in DOMAIN mac_port_map :
              /\ mac_port_map[k].mac \in MAC
              /\ mac_port_map[k].age \in 0 .. AgeCap
              /\ mac_port_map'[k].mac = mac_port_map[k].mac
              /\ mac_port_map'[k].iface = mac_port_map[k].iface
              /\ mac_port_map'[k].age = Older(mac_port_map[k].age)
<1> DEFINE n == Len(mac_port_map)
<1> USE DEF TableInv, TableTypeOK
<1>1. n \in Nat /\ DOMAIN mac_port_map = 1 .. n
  BY LenProperties
<1>2. \A k \in 1 .. n : /\ mac_port_map[k] \in Entry
                        /\ mac_port_map[k].mac \in MAC
                        /\ mac_port_map[k].age \in 0 .. AgeCap
  <2>1. \A k \in 1 .. n : mac_port_map[k] \in Entry
    BY <1>1, ElementOfSeq
  <2> QED
    BY <2>1 DEF Entry
<1>3. mac_port_map' = [k \in 1 .. n |->
                         [mac_port_map[k] EXCEPT !.age = Older(@)]]
  BY <1>1 DEF Tick
<1>4. \A k \in 1 .. n : /\ mac_port_map'[k] \in Entry
                        /\ mac_port_map'[k].mac = mac_port_map[k].mac
                        /\ mac_port_map'[k].iface = mac_port_map[k].iface
                        /\ mac_port_map'[k].age = Older(mac_port_map[k].age)
  <2> SUFFICES ASSUME NEW k \in 1 .. n
               PROVE  /\ mac_port_map'[k] \in Entry
                      /\ mac_port_map'[k].mac = mac_port_map[k].mac
                      /\ mac_port_map'[k].iface = mac_port_map[k].iface
                      /\ mac_port_map'[k].age = Older(mac_port_map[k].age)
    OBVIOUS
  <2>1. mac_port_map'[k] = [mac_port_map[k] EXCEPT !.age = Older(@)]
    BY <1>3
  <2>2. Older(mac_port_map[k].age) \in 0 .. AgeCap
    BY <1>2, OlderType
  <2>3. mac_port_map[k] \in Entry
    BY <1>2
  <2> QED
    BY <2>1, <2>2, <2>3 DEF Entry
<1>5. DOMAIN mac_port_map' = 1 .. n /\ mac_port_map' \in Seq(Entry)
  <2>1. mac_port_map' \in [1 .. n -> Entry]
    BY <1>3, <1>4
  <2> QED
    BY <1>1, <2>1, IsASeq
<1> QED
  BY <1>1, <1>2, <1>4, <1>5

(* A second passes. *)
LEMMA TickInv ==
  ASSUME TableInv, Tick
  PROVE  TableInv'
<1> DEFINE n == Len(mac_port_map)
<1> USE DEF TableInv, TableTypeOK
<1>1. n \in Nat /\ DOMAIN mac_port_map = 1 .. n
  BY LenProperties
<1>3. /\ idle' = idle + 1 /\ idle \in Nat
      /\ idle' \in 0 .. SweepPeriod
  BY BoundsType DEF Tick
<1>6. /\ DOMAIN mac_port_map' = 1 .. n /\ mac_port_map' \in Seq(Entry)
      /\ \A k \in 1 .. n : mac_port_map[k].age \in 0 .. AgeCap
      /\ \A k \in 1 .. n :
           /\ mac_port_map'[k].mac = mac_port_map[k].mac
           /\ mac_port_map'[k].age = Older(mac_port_map[k].age)
  BY <1>1, TickEntries
<1>7. UniqueMacs'
  BY <1>1, <1>6 DEF UniqueMacs
<1>8. OldestFirst'
  <2> SUFFICES ASSUME NEW j \in 1 .. n, NEW k \in 1 .. n, j <= k
               PROVE  mac_port_map'[j].age >= mac_port_map'[k].age
    BY <1>6 DEF OldestFirst
  <2>1. mac_port_map[j].age >= mac_port_map[k].age
    BY <1>1 DEF OldestFirst
  <2>2. Older(mac_port_map[k].age) <= Older(mac_port_map[j].age)
    BY <1>6, <2>1, OlderType, BoundsType
  <2>3. /\ Older(mac_port_map[k].age) \in 0 .. AgeCap
        /\ Older(mac_port_map[j].age) \in 0 .. AgeCap
    BY <1>6, OlderType
  <2> QED
    BY <1>6, <2>2, <2>3, BoundsType
<1>9. Backlog'
  <2> SUFFICES ASSUME NEW k \in 1 .. n,
                      mac_port_map'[k].age >= MAC_PORT_TIMEOUT
               PROVE  mac_port_map'[k].age + SweepPeriod * k <= MaxAge + idle'
    BY <1>6 DEF Backlog, MaxAge
  <2> DEFINE age == mac_port_map[k].age
             new == mac_port_map'[k].age
  <2>1. age \in Nat /\ new \in Nat /\ new <= age + 1
    <3>1. age \in 0 .. AgeCap /\ new = Older(age)
      BY <1>6
    <3> HIDE DEF age, new
    <3> QED
      BY <3>1, OlderType, BoundsType
  <2>2. SweepPeriod * k \in Nat
    BY <1>1, PeriodMonotone
  <2>3. CASE age >= MAC_PORT_TIMEOUT
    <3>1. age + SweepPeriod * k <= MaxAge + idle
      BY <1>1, <2>3 DEF Backlog
    <3> DEFINE behind == SweepPeriod * k
    <3>2. behind \in Nat /\ MaxAge \in Nat /\ age + behind <= MaxAge + idle
      BY <2>2, <3>1, BoundsType
    <3> HIDE DEF age, new, behind
    <3>3. new + behind <= MaxAge + idle'
      BY <1>3, <2>1, <3>2
    <3> QED
      BY <3>3 DEF new, behind
  <2>4. CASE ~ (age >= MAC_PORT_TIMEOUT)
    <3>1. k <= Cardinality(MAC) /\ k \in Nat
      BY <1>1, LengthBound, BoundsType
    <3>2. SweepPeriod * k <= SweepPeriod * Cardinality(MAC)
      BY <3>1, PeriodMonotone, BoundsType
    <3> DEFINE behind == SweepPeriod * k
               all == SweepPeriod * Cardinality(MAC)
    <3>3. /\ behind \in Nat /\ all \in Nat /\ behind <= all
          /\ MaxAge \in Nat /\ MAC_PORT_TIMEOUT \in Nat
          /\ MaxAge + 1 = MAC_PORT_TIMEOUT + all
      BY <2>2, <3>2, BoundsType
    <3> HIDE DEF age, new, behind, all
    <3>4. new + behind <= MaxAge + idle'
      BY <1>3, <2>1, <2>4, <3>3
    <3> QED
      BY <3>4 DEF new, behind
  <2> QED
    BY <2>3, <2>4
<1> QED
  BY <1>3, <1>6, <1>7, <1>8, <1>9

(* Every step of the table preserves the invariant. *)
LEMMA TableNextInv ==
  ASSUME TableInv, [TableNext]_tableVars
  PROVE  TableInv'
<1>1. CASE \E mac \in MAC, iface \in Iface : Insert(mac, iface)
  BY <1>1, InsertInv
<1>2. CASE Sweep
  BY <1>2, SweepInv
<1>3. CASE Tick
  BY <1>3, TickInv
<1>4. CASE UNCHANGED tableVars
  BY <1>4 DEF tableVars, TableInv, TableTypeOK, UniqueMacs, OldestFirst,
              Backlog
<1> QED
  BY <1>1, <1>2, <1>3, <1>4 DEF TableNext

(* The forwarding database keeps its type, has no duplicate addresses, is  *)
(* in insertion order and never falls behind with its sweeps.              *)
THEOREM TableInvariance == TableSpec => []TableInv
<1>1. TableInit => TableInv
  BY TableInitInv
<1>2. TableInv /\ [TableNext]_tableVars => TableInv'
  BY TableNextInv
<1> QED
  BY <1>1, <1>2, PTL DEF TableSpec

(* insert_mac_port never adds an address the table already has, although   *)
(* it does not check and sweeps happen between the lookup and the insert.  *)
THEOREM TableUniqueMacs == TableSpec => []UniqueMacs
<1>1. TableInv => UniqueMacs
  BY DEF TableInv
<1> QED
  BY <1>1, TableInvariance, PTL

(* The invariant bounds the age of every entry. *)
LEMMA InvImpliesAgeBound == TableInv => AgeBound
<1> SUFFICES ASSUME TableInv, NEW k \in DOMAIN mac_port_map
             PROVE  mac_port_map[k].age <= MaxAge
  BY DEF AgeBound
<1> DEFINE age == mac_port_map[k].age
<1>1. k \in 1 .. Len(mac_port_map) /\ Len(mac_port_map) \in Nat
  BY LenProperties DEF TableInv, TableTypeOK
<1>2. age \in Nat
  <2>1. mac_port_map[k] \in Entry
    BY <1>1, ElementOfSeq DEF TableInv, TableTypeOK
  <2> QED
    BY <2>1, BoundsType DEF Entry
<1>3. CASE ~ (age >= MAC_PORT_TIMEOUT)
  <2> HIDE DEF age
  <2>1. age <= MaxAge
    BY <1>2, <1>3, BoundsType
  <2> QED
    BY <2>1 DEF age
<1>4. CASE age >= MAC_PORT_TIMEOUT
  <2>1. age + SweepPeriod * k <= MaxAge + idle
    BY <1>4 DEF TableInv, Backlog
  <2>2. SweepPeriod * 1 <= SweepPeriod * k /\ SweepPeriod * k \in Nat
    BY <1>1, PeriodMonotone
  <2>3. idle \in Nat /\ idle <= SweepPeriod
    BY BoundsType DEF TableInv, TableTypeOK
  <2> HIDE DEF age
  <2>4. age <= MaxAge
    BY <1>2, <2>1, <2>2, <2>3, BoundsType
  <2> QED
    BY <2>4 DEF age
<1> QED
  BY <1>3, <1>4

(* No entry outlives its timeout by more than one sweeping period per      *)
(* host, although a sweep removes one entry only: for every number of      *)
(* hosts, every timeout and every sweeping period.                         *)
THEOREM TableAgeBound == TableSpec => []AgeBound
  BY InvImpliesAgeBound, TableInvariance, PTL

-----------------------------------------------------------------------------
(* The frame in work has a host as its source and an interface it came in. *)
LEMMA CurType ==
  ASSUME TypeOK, pc # "recv"
  PROVE  cur \in Frame /\ cur.src \in MAC /\ cur.in \in Iface
  BY DEF TypeOK, Frame

(* A frame is not the absence of one. *)
LEMMA FrameIsNotNoFrame == \A f \in Frame : f # NoFrame
  BY GroupAssumption DEF Frame, NoFrame

(* lookup_port misses an address no entry has. *)
LEMMA NoEntryMisses ==
  ASSUME NEW mac, \A k \in DOMAIN mac_port_map' : mac_port_map'[k].mac # mac
  PROVE  lookup_port(mac)' = NULL
  BY DEF lookup_port, Matching

(* Neither a sweep nor the clock makes lookup_port find a missed address. *)
LEMMA MissKept ==
  ASSUME TableInv, Sweep \/ Tick, NEW mac, lookup_port(mac) = NULL
  PROVE  lookup_port(mac)' = NULL
<1>1. \A k \in DOMAIN mac_port_map : mac_port_map[k].mac # mac
  BY LookupProperties DEF TableInv, TableTypeOK, Matching
<1>2. \A k \in DOMAIN mac_port_map' :
        \E j \in DOMAIN mac_port_map :
          mac_port_map'[k].mac = mac_port_map[j].mac
  BY SweepKeepsEntries, TickEntries
<1> QED
  BY <1>1, <1>2, NoEntryMisses
-----------------------------------------------------------------------------
(* Resetting the history of one host keeps its type. *)
LEMMA ResetType ==
  ASSUME NEW q \in [MAC -> 0 .. AgeCap], NEW m
  PROVE  [q EXCEPT ![m] = 0] \in [MAC -> 0 .. AgeCap]
<1>1. 0 \in 0 .. AgeCap
  BY BoundsType
<1> DEFINE S == 0 .. AgeCap
<1> HIDE DEF S
<1>2. ASSUME q \in [MAC -> S], 0 \in S
      PROVE  [q EXCEPT ![m] = 0] \in [MAC -> S]
  BY <1>2
<1> QED
  BY <1>1, <1>2 DEF S

(* The initial state satisfies the invariant. *)
LEMMA SwitchInitInv == Init => SwitchInv
<1> SUFFICES ASSUME Init PROVE SwitchInv
  OBVIOUS
<1>1. TableInv
  BY TableInitInv DEF Init
<1>2. TypeOK
  BY <1>1, BoundsType DEF Init, TypeOK, TableInv
<1>3. DOMAIN mac_port_map = {}
  BY DEF Init, TableInit
<1> QED
  BY <1>1, <1>2, <1>3 DEF Init, SwitchInv, MissStillMisses, StaleAge

(* The steps of the switch, seen from the database, are steps of TableNext *)
(* or leave the database alone.                                            *)
LEMMA SwitchTableStep ==
  ASSUME SwitchInv, [Next]_vars
  PROVE  [TableNext]_tableVars
<1>1. CASE Learn
  <2>1. lookup_port(cur.src) = NULL
    BY <1>1 DEF Learn, SwitchInv, MissStillMisses
  <2>2. cur.src \in MAC /\ cur.in \in Iface
    BY <1>1, CurType DEF Learn, SwitchInv
  <2>3. Insert(cur.src, cur.in)
    BY <1>1, <2>1 DEF Learn, Insert
  <2> QED
    BY <2>2, <2>3 DEF TableNext
<1>2. CASE SweepThread
  BY <1>2 DEF SweepThread, TableNext
<1>3. CASE Clock
  BY <1>3 DEF Clock, TableNext
<1>4. CASE ~ (Learn \/ SweepThread \/ Clock)
  BY <1>4 DEF Next, PacketThread, Recv, Enter, Forward, KnownSource,
              NewSource, Move, tableVars, vars
<1> QED
  BY <1>1, <1>2, <1>3, <1>4

(* Every step keeps the type invariant. *)
LEMMA SwitchTypeStep ==
  ASSUME SwitchInv, [Next]_vars
  PROVE  TypeOK'
<1>1. TableTypeOK'
  BY SwitchTableStep, TableNextInv DEF SwitchInv, TableInv
<1> USE FrameIsNotNoFrame DEF SwitchInv
<1>2. ASSUME NEW m \in MAC, NEW d \in MAC \cup Group, NEW in \in Iface,
             Recv(m, d, in)
      PROVE  TypeOK'
  <2>1. cur' \in Frame
    BY <1>2 DEF Recv, Enter, TypeOK, Frame
  <2> QED
    BY <1>1, <1>2, <2>1 DEF Recv, Enter, TypeOK
<1>3. CASE Forward
  <2>1. tx' \in SUBSET Iface
    <3>1. CASE lookup_port(cur.dst) = NULL
      BY <1>3, <3>1 DEF Forward, broadcast_packet, iface_send_packet
    <3>2. CASE lookup_port(cur.dst) # NULL
      <4>1. PICK k \in Matching(cur.dst) :
                   lookup_port(cur.dst) = mac_port_map[k].iface
        BY <3>2, LookupProperties DEF TableInv, TableTypeOK
      <4>2. /\ DOMAIN mac_port_map = 1 .. Len(mac_port_map)
            /\ k \in DOMAIN mac_port_map
        BY LenProperties DEF TableInv, TableTypeOK, Matching
      <4>3. mac_port_map[k] \in Entry
        BY <4>2, ElementOfSeq DEF TableInv, TableTypeOK
      <4>4. mac_port_map[k].iface \in Iface
        BY <4>3 DEF Entry
      <4> QED
        BY <1>3, <3>2, <4>1, <4>4 DEF Forward, iface_send_packet
    <3> QED
      BY <3>1, <3>2
  <2> QED
    BY <1>1, <1>3, <2>1 DEF Forward, TypeOK
<1>4. CASE KnownSource
  BY <1>1, <1>4 DEF KnownSource, Done, TypeOK
<1>5. CASE NewSource
  BY <1>1, <1>5 DEF NewSource, TypeOK
<1>6. CASE Learn
  <2>1. quiet' \in [MAC -> 0 .. AgeCap]
    BY <1>6, ResetType DEF Learn, TypeOK
  <2> QED
    BY <1>1, <1>6, <2>1 DEF Learn, Done, TypeOK
<1>7. CASE SweepThread
  BY <1>1, <1>7 DEF SweepThread, TypeOK
<1>8. CASE Clock
  <2>1. \A m \in MAC : quiet[m] \in 0 .. AgeCap
    BY DEF TypeOK
  <2>2. \A m \in MAC : Older(quiet[m]) \in 0 .. AgeCap
    BY <2>1, OlderType
  <2>3. quiet' \in [MAC -> 0 .. AgeCap]
    BY <1>8, <2>2 DEF Clock
  <2> QED
    BY <1>1, <1>8, <2>3 DEF Clock, TypeOK
<1>9. ASSUME NEW m \in Mobile, NEW iface \in Iface, Move(m, iface)
      PROVE  TypeOK'
  <2>1. quiet' \in [MAC -> 0 .. AgeCap]
    BY <1>9, ResetType DEF Move, TypeOK
  <2>2. attach' \in [MAC -> Iface]
    BY <1>9 DEF Move, TypeOK
  <2> QED
    BY <1>1, <1>9, <2>1, <2>2 DEF Move, TypeOK
<1>10. CASE UNCHANGED vars
  BY <1>1, <1>10 DEF vars, TypeOK
<1> QED
  BY <1>2, <1>3, <1>4, <1>5, <1>6, <1>7, <1>8, <1>9, <1>10
     DEF Next, PacketThread

(* What the packet thread missed, it still misses when it inserts: only    *)
(* it inserts.                                                             *)
LEMMA SwitchMissStep ==
  ASSUME SwitchInv, [Next]_vars
  PROVE  MissStillMisses'
<1> USE DEF SwitchInv
<1>1. CASE SweepThread \/ Clock
  <2> SUFFICES ASSUME pc = "insert"
               PROVE  lookup_port(cur.src)' = NULL
    BY <1>1 DEF SweepThread, Clock, MissStillMisses
  <2>1. lookup_port(cur.src) = NULL /\ cur' = cur /\ (Sweep \/ Tick)
    BY <1>1 DEF MissStillMisses, SweepThread, Clock
  <2>2. \A mac : lookup_port(mac) = NULL => lookup_port(mac)' = NULL
    BY <2>1, MissKept
  <2> QED
    BY <2>1, <2>2 DEF lookup_port, Matching
<1>2. CASE ~ (SweepThread \/ Clock)
  <2>1. CASE pc' # "insert"
    BY <2>1 DEF MissStillMisses
  <2>2. CASE pc' = "insert"
    <3>1. /\ mac_port_map' = mac_port_map /\ cur' = cur
          /\ lookup_port(cur.src) = NULL
      BY <1>2, <2>2 DEF Next, PacketThread, Recv, Enter, Forward, KnownSource,
                        NewSource, Unknown, Learn, Done, Move, vars,
                        MissStillMisses
    <3> QED
      BY <3>1 DEF MissStillMisses, lookup_port, Matching
  <2> QED
    BY <2>1, <2>2
<1> QED
  BY <1>1, <1>2

(* An entry that is wrong about its host is no younger than what made it   *)
(* wrong.                                                                  *)
LEMMA SwitchStaleStep ==
  ASSUME SwitchInv, [Next]_vars
  PROVE  StaleAge'
<1> DEFINE Stale(k) == mac_port_map[k].iface # attach[mac_port_map[k].mac]
<1> USE DEF SwitchInv
<1>1. /\ Len(mac_port_map) \in Nat
      /\ DOMAIN mac_port_map = 1 .. Len(mac_port_map)
  BY LenProperties DEF TableInv, TableTypeOK
<1>2. \A k \in DOMAIN mac_port_map : /\ mac_port_map[k].mac \in MAC
                                     /\ mac_port_map[k].age \in Nat
  <2> SUFFICES ASSUME NEW k \in DOMAIN mac_port_map
               PROVE  /\ mac_port_map[k].mac \in MAC
                      /\ mac_port_map[k].age \in Nat
    OBVIOUS
  <2>1. mac_port_map[k] \in Entry
    BY <1>1, ElementOfSeq DEF TableInv, TableTypeOK
  <2> QED
    BY <2>1, BoundsType DEF Entry
<1>3. \A m \in MAC : quiet[m] \in 0 .. AgeCap
  BY DEF TypeOK
<1>4. \A k \in DOMAIN mac_port_map :
        Stale(k) => quiet[mac_port_map[k].mac] <= mac_port_map[k].age
  BY DEF StaleAge
<1>5. CASE Learn
  <2> DEFINE n == Len(mac_port_map)
             e == [mac |-> cur.src, iface |-> cur.in, age |-> 0]
  <2>1. cur.src \in MAC /\ cur.in \in Iface
    BY <1>5, CurType DEF Learn
  <2>2. e \in Entry
    BY <2>1, BoundsType DEF Entry
  <2>3. mac_port_map' = Append(mac_port_map, e) /\ attach' = attach
    BY <1>5 DEF Learn, insert_mac_port
  <2>4. /\ DOMAIN mac_port_map' = 1 .. n + 1
        /\ \A k \in 1 .. n : mac_port_map'[k] = mac_port_map[k]
        /\ mac_port_map'[n+1] = e
    BY <1>1, <2>2, <2>3, AppendProperties DEF TableInv, TableTypeOK
  <2>5. \A m \in MAC : quiet'[m] = quiet[m] \/ quiet'[m] = 0
    BY <1>5, <2>1 DEF Learn, TypeOK
  <2>6. attach[cur.src] # cur.in => quiet'[cur.src] = 0
    BY <1>5, <2>1 DEF Learn, TypeOK
  <2> SUFFICES ASSUME NEW k \in 1 .. n + 1, Stale(k)'
               PROVE  quiet'[mac_port_map'[k].mac] <= mac_port_map'[k].age
    BY <2>4 DEF StaleAge
  <2>7. CASE k = n + 1
    BY <2>3, <2>4, <2>6, <2>7
  <2>8. CASE k \in 1 .. n
    <3>1. mac_port_map'[k] = mac_port_map[k] /\ Stale(k)
      BY <2>3, <2>4, <2>8
    <3>2. quiet[mac_port_map[k].mac] <= mac_port_map[k].age
      BY <1>1, <1>4, <2>8, <3>1
    <3>3. /\ mac_port_map[k].mac \in MAC /\ mac_port_map[k].age \in Nat
      BY <1>1, <1>2, <2>8
    <3> QED
      BY <2>5, <3>1, <3>2, <3>3
  <2> QED
    BY <1>1, <2>7, <2>8
<1>6. CASE SweepThread
  <2>1. attach' = attach /\ quiet' = quiet
    BY <1>6 DEF SweepThread
  <2>2. \A k \in DOMAIN mac_port_map' :
          \E j \in DOMAIN mac_port_map : mac_port_map'[k] = mac_port_map[j]
    BY <1>6, SweepKeepsEntries DEF SweepThread
  <2> QED
    BY <1>4, <2>1, <2>2 DEF StaleAge
<1>7. CASE Clock
  <2> SUFFICES ASSUME NEW k \in DOMAIN mac_port_map', Stale(k)'
               PROVE  quiet'[mac_port_map'[k].mac] <= mac_port_map'[k].age
    BY DEF StaleAge
  <2> DEFINE m == mac_port_map[k].mac
             age == mac_port_map[k].age
  <2>1. /\ k \in DOMAIN mac_port_map /\ m \in MAC
        /\ age \in 0 .. AgeCap
        /\ mac_port_map'[k].mac = m
        /\ mac_port_map'[k].iface = mac_port_map[k].iface
        /\ mac_port_map'[k].age = Older(age)
    BY <1>7, TickEntries DEF Clock
  <2>2. attach' = attach /\ quiet'[m] = Older(quiet[m])
    BY <1>7, <2>1 DEF Clock
  <2>3. quiet[m] <= age /\ quiet[m] \in 0 .. AgeCap
    BY <1>3, <1>4, <2>1, <2>2
  <2> HIDE DEF m, age
  <2>4. Older(quiet[m]) <= Older(age)
    BY <2>1, <2>3, OlderType
  <2> QED
    BY <2>1, <2>2, <2>4
<1>8. ASSUME NEW m \in Mobile, NEW iface \in Iface, Move(m, iface)
      PROVE  StaleAge'
  <2> SUFFICES ASSUME NEW k \in DOMAIN mac_port_map', Stale(k)'
               PROVE  quiet'[mac_port_map'[k].mac] <= mac_port_map'[k].age
    BY DEF StaleAge
  <2>1. mac_port_map' = mac_port_map /\ k \in DOMAIN mac_port_map
    BY <1>8 DEF Move
  <2>2. mac_port_map[k].mac \in MAC /\ mac_port_map[k].age \in Nat
    BY <1>2, <2>1
  <2>3. CASE mac_port_map[k].mac = m
    <3>1. quiet'[m] = 0
      BY <1>8, <2>2, <2>3 DEF Move, TypeOK
    <3> QED
      BY <2>1, <2>2, <2>3, <3>1
  <2>4. CASE mac_port_map[k].mac # m
    <3>1. /\ quiet'[mac_port_map[k].mac] = quiet[mac_port_map[k].mac]
          /\ attach'[mac_port_map[k].mac] = attach[mac_port_map[k].mac]
      BY <1>8, <2>2, <2>4 DEF Move, TypeOK
    <3> QED
      BY <1>4, <2>1, <3>1
  <2> QED
    BY <2>3, <2>4
<1>9. CASE UNCHANGED <<mac_port_map, attach, quiet>>
  BY <1>9 DEF StaleAge
<1> QED
  BY <1>5, <1>6, <1>7, <1>8, <1>9
     DEF Next, PacketThread, Recv, Enter, Forward, KnownSource, NewSource, vars

(* The invariant holds in every state of the switch. *)
THEOREM SwitchInvariance == Spec => []SwitchInv
<1>1. Init => SwitchInv
  BY SwitchInitInv
<1>2. SwitchInv /\ [Next]_vars => SwitchInv'
  <2> SUFFICES ASSUME SwitchInv, [Next]_vars
               PROVE  SwitchInv'
    OBVIOUS
  <2>1. TableInv'
    BY SwitchTableStep, TableNextInv DEF SwitchInv
  <2> QED
    BY <2>1, SwitchTypeStep, SwitchMissStep, SwitchStaleStep DEF SwitchInv
<1> QED
  BY <1>1, <1>2, PTL DEF Spec

(* The variables of the switch keep their types. *)
THEOREM SwitchTypeCorrect == Spec => []TypeOK
<1>1. SwitchInv => TypeOK
  BY DEF SwitchInv
<1> QED
  BY <1>1, SwitchInvariance, PTL

(* The packet thread and the sweeping thread together implement the        *)
(* database that TableSpec promises.                                       *)
THEOREM SwitchImplementsTable == Spec => ImplementsTable
<1>1. Init => TableInit
  BY DEF Init
<1>2. SwitchInv /\ [Next]_vars => [TableNext]_tableVars
  BY SwitchTableStep
<1> QED
  BY <1>1, <1>2, SwitchInvariance, PTL DEF Spec, ImplementsTable, TableSpec

(* In the running switch no address is in the table twice. *)
THEOREM SwitchUniqueMacs == Spec => []UniqueMacs
  BY SwitchImplementsTable, TableUniqueMacs, PTL DEF ImplementsTable

(* In the running switch every entry is swept within the bound. *)
THEOREM SwitchAgeBound == Spec => []AgeBound
  BY SwitchImplementsTable, TableAgeBound, PTL DEF ImplementsTable

(* A frame to a host that has been settled for longer than an entry lives  *)
(* reaches the segment of that host.                                       *)
THEOREM SwitchDelivers == Spec => SettledDelivery
<1> DEFINE Delivers ==
             (/\ pc = "lookup_dst" /\ pc' = "lookup_src"
              /\ cur.dst \in MAC /\ quiet[cur.dst] > MaxAge)
             => attach[cur.dst] \in tx' \cup {cur.in}
<1>1. SwitchInv /\ [Next]_vars => [Delivers]_vars
  <2> SUFFICES ASSUME SwitchInv, Next,
                      pc = "lookup_dst", pc' = "lookup_src",
                      cur.dst \in MAC, quiet[cur.dst] > MaxAge
               PROVE  attach[cur.dst] \in tx' \cup {cur.in}
    BY DEF vars
  <2>1. Forward
    BY DEF Next, PacketThread, Recv, Enter, Forward, KnownSource, NewSource,
           Learn, Done, SweepThread, Clock, Move
  <2>2. attach[cur.dst] \in Iface /\ quiet[cur.dst] \in 0 .. AgeCap
    BY DEF SwitchInv, TypeOK
  <2>3. CASE lookup_port(cur.dst) = NULL
    BY <2>1, <2>2, <2>3 DEF Forward, broadcast_packet, iface_send_packet
  <2>4. CASE lookup_port(cur.dst) # NULL
    <3>1. PICK k \in Matching(cur.dst) :
                 lookup_port(cur.dst) = mac_port_map[k].iface
      BY <2>4, LookupProperties DEF SwitchInv, TableInv, TableTypeOK
    <3>2. k \in DOMAIN mac_port_map /\ mac_port_map[k].mac = cur.dst
      BY DEF Matching
    <3>3. mac_port_map[k].age <= MaxAge
      BY <3>2, InvImpliesAgeBound DEF SwitchInv, AgeBound
    <3>4. mac_port_map[k].age \in 0 .. AgeCap
      <4>1. DOMAIN mac_port_map = 1 .. Len(mac_port_map)
        BY LenProperties DEF SwitchInv, TableInv, TableTypeOK
      <4>2. mac_port_map[k] \in Entry
        BY <3>2, <4>1, ElementOfSeq DEF SwitchInv, TableInv, TableTypeOK
      <4> QED
        BY <4>2 DEF Entry
    <3>5. ~ (quiet[cur.dst] <= mac_port_map[k].age)
      BY <2>2, <3>3, <3>4, BoundsType
    <3>6. mac_port_map[k].iface = attach[cur.dst]
      BY <3>2, <3>5 DEF SwitchInv, StaleAge
    <3> QED
      BY <2>1, <2>4, <3>1, <3>6 DEF Forward, iface_send_packet
  <2> QED
    BY <2>3, <2>4
<1> QED
  BY <1>1, SwitchInvariance, PTL DEF Spec, SettledDelivery
=============================================================================
