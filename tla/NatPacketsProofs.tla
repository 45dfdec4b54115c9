------------------------- MODULE NatPacketsProofs -------------------------
(***************************************************************************)
(* Facts about ports, searches and packets that the proofs about the two   *)
(* versions of the address translator share.                               *)
(***************************************************************************)
EXTENDS NatPackets, TLAPS, WellFoundedInduction

(* A nonempty set of natural numbers has a least element. *)
LEMMA MinProperties ==
  ASSUME NEW S \in SUBSET Nat, S # {}
  PROVE  Min(S) \in S /\ \A k \in S : Min(S) <= k
<1> DEFINE R == {ss \in Nat \X Nat : ss[1] < ss[2]}
<1>1. IsWellFoundedOn(R, Nat)
  BY NatLessThanWellFounded DEF OpToRel
<1> HIDE DEF R
<1>2. PICK x \in S : \A y \in S : ~ (<<y, x>> \in R)
  BY <1>1, WFMin
<1>3. ASSUME NEW y \in S
      PROVE  x <= y
  <2>1. SUFFICES ~ (y < x)
    OBVIOUS
  <2>2. SUFFICES ASSUME y < x PROVE FALSE
    OBVIOUS
  <2>3. <<y, x>> \in Nat \X Nat /\ <<y, x>>[1] < <<y, x>>[2]
    BY <2>2
  <2>4. <<y, x>> \in R
    BY <2>3, Zenon DEF R
  <2> QED
    BY <1>2, <2>4
<1> QED
  BY <1>3 DEF Min

(* A number is known by its two digits. *)
LEMMA TwoDigits ==
  ASSUME NEW b \in Nat \ {0, 1}, NEW x \in 0 .. b - 1, NEW y \in 0 .. b - 1
  PROVE  /\ x * b + y \in 0 .. b * b - 1
         /\ (x * b + y) % b = y
         /\ (x * b + y) \div b = x
  OBVIOUS

(* Every number of two digits has them. *)
LEMMA Digits ==
  ASSUME NEW b \in Nat \ {0, 1}, NEW p \in 0 .. b * b - 1
  PROVE  /\ p % b \in 0 .. b - 1
         /\ p \div b \in 0 .. b - 1
         /\ p = (p \div b) * b + (p % b)
  OBVIOUS

(* Swapping the bytes of a port twice gives the port back. *)
LEMMA HtonsProperties ==
  ASSUME NEW port \in Port
  PROVE  htons(port) \in Port /\ htons(htons(port)) = port
<1> DEFINE x == port \div ByteBase
           y == port % ByteBase
<1>1. ByteBase \in Nat \ {0, 1} /\ port \in 0 .. ByteBase * ByteBase - 1
  BY BaseAssumption DEF Port
<1>2. x \in 0 .. ByteBase - 1 /\ y \in 0 .. ByteBase - 1 /\ port = x * ByteBase + y
  BY <1>1, Digits
<1>3. htons(port) = y * ByteBase + x
  BY DEF htons
<1> HIDE DEF x, y
<1>4. /\ y * ByteBase + x \in 0 .. ByteBase * ByteBase - 1
      /\ (y * ByteBase + x) % ByteBase = x
      /\ (y * ByteBase + x) \div ByteBase = y
  BY <1>1, <1>2, TwoDigits
<1> QED
  BY <1>2, <1>3, <1>4 DEF htons, Port

(* So different ports are different in network byte order too. *)
LEMMA HtonsInjective ==
  ASSUME NEW p1 \in Port, NEW p2 \in Port, htons(p1) = htons(p2)
  PROVE  p1 = p2
  BY HtonsProperties
-----------------------------------------------------------------------------
(* A search finds the first match, if there is one. *)
LEMMA FirstProperties ==
  ASSUME NEW S \in SUBSET (Nat \ {0})
  PROVE  /\ First(S) \in Nat
         /\ First(S) = 0 <=> S = {}
         /\ S # {} => First(S) \in S /\ \A k \in S : First(S) <= k
<1>1. S \in SUBSET Nat
  OBVIOUS
<1>2. S # {} => Min(S) \in S /\ \A k \in S : Min(S) <= k
  BY <1>1, MinProperties
<1> QED
  BY <1>2 DEF First

(* A match at the end of the list hides none before it. *)
LEMMA FirstOfMore ==
  ASSUME NEW S \in SUBSET (Nat \ {0}), NEW n \in Nat \ {0},
         \A k \in S : k < n
  PROVE  First(S \cup {n}) = IF S = {} THEN n ELSE First(S)
<1> DEFINE f == First(S)
           g == First(S \cup {n})
<1>1. S \cup {n} \in SUBSET (Nat \ {0})
  OBVIOUS
<1>2. g \in Nat /\ g \in S \cup {n} /\ \A k \in S \cup {n} : g <= k
  BY <1>1, FirstProperties
<1>3. S # {} => f \in S /\ \A k \in S : f <= k
  BY FirstProperties
<1> HIDE DEF f, g
<1>4. CASE S = {}
  BY <1>2, <1>4 DEF g
<1>5. CASE S # {}
  <2>1. f \in S /\ f \in Nat /\ f < n /\ g <= f
    BY <1>2, <1>3, <1>5
  <2>2. g \in S
    BY <1>2, <2>1
  <2>3. f <= g
    BY <1>3, <1>5, <2>2
  <2>4. f = g
    BY <1>2, <2>1, <2>3
  <2> QED
    BY <1>5, <2>4 DEF f, g
<1> QED
  BY <1>4, <1>5
-----------------------------------------------------------------------------
(* The packets that hosts send and the echo replies are packets. *)
LEMMA ArrivalsArePackets ==
  /\ Arrivals \subseteq Packet
  /\ \A src \in Sources :
       [src |-> [ip |-> IF src.ip \in Inside THEN internal_ip ELSE external_ip,
                 port |-> 0], dst |-> src, proto |-> "ICMP"] \in Packet
<1>1. 0 \in Port
  BY BaseAssumption DEF Port
<1>2. Sources \subseteq Endpoint /\ Targets \subseteq Endpoint
  BY PortAssumption DEF Sources, Targets, Endpoint, Address
<1>3. external_ip \in Address /\ internal_ip \in Address
  BY DEF Address
<1> QED
  BY <1>1, <1>2, <1>3 DEF Arrivals, Packet, Endpoint

(* A packet is not the value that stands for none. *)
LEMMA PacketNotNone ==
  ASSUME NEW pkt \in Packet
  PROVE  pkt # None
<1>1. "proto" \in DOMAIN pkt /\ "proto" \notin DOMAIN None
  BY DEF Packet, None
<1> QED
  BY <1>1
=============================================================================
