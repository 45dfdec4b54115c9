----------------------------- MODULE NatProofs -----------------------------
(***************************************************************************)
(* Proofs about what an address translator promises: that its bindings     *)
(* lead back (NatBindings), and that the checksums it recalculates are     *)
(* those that a receiver expects (Checksum).                               *)
(***************************************************************************)
EXTENDS Checksum, TLAPS, SequenceTheorems, WellFoundedInduction

(* A nonempty set of natural numbers has a least element. *)
LEMMA LeastNumber ==
  ASSUME NEW T \in SUBSET Nat, T # {}
  PROVE  \E x \in T : \A y \in T : x <= y
<1> DEFINE R == OpToRel(<, Nat)
<1>1. IsWellFoundedOn(R, Nat)
  BY NatLessThanWellFounded
<1>2. \A x, y \in Nat : x < y => <<x, y>> \in R
  BY DEF OpToRel
<1> HIDE DEF R
<1>3. PICK x \in T : \A y \in T : ~ (<<y, x>> \in R)
  BY <1>1, WFMin
<1>4. \A y \in T : x \in Nat /\ y \in Nat /\ ~ (y < x)
  BY <1>2, <1>3
<1> QED
  BY <1>4

-----------------------------------------------------------------------------
(* The partial sums that the loop of checksum goes through, over the first *)
(* n of the words w.                                                       *)
Step(f, w, k) == IF k = 0 THEN 0 ELSE f[k - 1] + w[k]
IsSums(f, w, n) == f = [k \in 0 .. n |-> Step(f, w, k)]

(* The sum is the last of them. *)
LEMMA TotalDef ==
  ASSUME NEW w
  PROVE  Total(w) = (CHOOSE f : IsSums(f, w, Len(w)))[Len(w)]
  BY DEF Total, IsSums, Step

(* There are such partial sums. *)
LEMMA SumsExist ==
  ASSUME NEW w, NEW n \in Nat
  PROVE  \E f : IsSums(f, w, n)
<1> DEFINE T == {x \in Nat : ~ \E f : IsSums(f, w, x)}
<1>1. SUFFICES ASSUME T # {} PROVE FALSE
  OBVIOUS
<1>2. PICK x \in T : \A y \in T : x <= y
  <2>1. T \in SUBSET Nat
    OBVIOUS
  <2> HIDE DEF T
  <2> QED
    BY <1>1, <2>1, LeastNumber
<1>3. x \in Nat
  OBVIOUS
<1>4. CASE x = 0
  <2> DEFINE f == [k \in 0 .. 0 |-> 0]
  <2>1. \A k \in 0 .. 0 : Step(f, w, k) = 0
    BY DEF Step
  <2>2. IsSums(f, w, 0)
    BY <2>1 DEF IsSums
  <2> QED
    BY <1>4, <2>2
<1>5. CASE x # 0
  <2>1. x - 1 \in Nat /\ ~ (x <= x - 1)
    BY <1>3, <1>5
  <2>2. PICK g : IsSums(g, w, x - 1)
    BY <1>2, <2>1
  <2> DEFINE f == [k \in 0 .. x |-> IF k = x THEN g[x - 1] + w[x] ELSE g[k]]
  <2>3. ASSUME NEW k \in 0 .. x
        PROVE  f[k] = Step(f, w, k)
    <3>1. CASE k = x
      <4>1. x - 1 \in 0 .. x /\ x - 1 # x
        BY <1>3, <1>5
      <4>2. f[x - 1] = g[x - 1]
        BY <4>1
      <4> QED
        BY <1>5, <3>1, <4>2 DEF Step
    <3>2. CASE k # x
      <4>1. k \in 0 .. x - 1 /\ (k # 0 => k - 1 \in 0 .. x /\ k - 1 # x)
        BY <1>3, <3>2
      <4>2. f[k] = g[k] /\ (k # 0 => f[k - 1] = g[k - 1])
        BY <3>2, <4>1
      <4>3. g[k] = Step(g, w, k)
        BY <2>2, <4>1 DEF IsSums
      <4> QED
        BY <4>2, <4>3 DEF Step
    <3> QED
      BY <3>1, <3>2
  <2>4. IsSums(f, w, x)
    BY <2>3 DEF IsSums
  <2> QED
    BY <2>4
<1> QED
  BY <1>4, <1>5

(* So the sum of some words is the last of their partial sums, each of     *)
(* which is the one before it and the next word.                           *)
LEMMA TotalIsSum ==
  ASSUME NEW w \in Seq(Nat)
  PROVE  \E f : /\ Total(w) = f[Len(w)] /\ f[0] = 0
                /\ \A k \in 1 .. Len(w) : f[k] = f[k - 1] + w[k]
                /\ \A k \in 0 .. Len(w) : f[k] \in Nat
<1>1. Len(w) \in Nat
  OBVIOUS
<1>2. PICK f : IsSums(f, w, Len(w)) /\ Total(w) = f[Len(w)]
  BY <1>1, SumsExist, TotalDef
<1>3. f[0] = 0 /\ \A k \in 1 .. Len(w) : f[k] = f[k - 1] + w[k]
  <2>1. \A k \in 0 .. Len(w) : f[k] = Step(f, w, k)
    BY <1>2 DEF IsSums
  <2>2. 0 \in 0 .. Len(w) /\ \A k \in 1 .. Len(w) : k \in 0 .. Len(w) /\ k # 0
    BY <1>1
  <2> QED
    BY <2>1, <2>2 DEF Step
<1>4. \A k \in 0 .. Len(w) : f[k] \in Nat
  <2> DEFINE T == {x \in Nat : x \in 0 .. Len(w) /\ f[x] \notin Nat}
  <2>1. SUFFICES ASSUME T # {} PROVE FALSE
    BY <1>1
  <2>2. PICK x \in T : \A y \in T : x <= y
    <3>1. T \in SUBSET Nat
      OBVIOUS
    <3> HIDE DEF T
    <3> QED
      BY <2>1, <3>1, LeastNumber
  <2>3. x # 0 /\ x \in 0 .. Len(w) /\ f[x] \notin Nat
    BY <1>3
  <2>4. x \in 1 .. Len(w) /\ x - 1 \in 0 .. Len(w) /\ x - 1 \in Nat /\ ~ (x <= x - 1)
    BY <1>1, <2>3
  <2>5. f[x - 1] \in Nat
    BY <2>2, <2>4
  <2>6. w[x] \in Nat
    BY <2>4
  <2> QED
    BY <1>3, <2>3, <2>4, <2>5, <2>6
<1> QED
  BY <1>2, <1>3, <1>4

(* No word exceeds b, so n of them do not exceed n * b. *)
LEMMA TotalBound ==
  ASSUME NEW b \in Nat, NEW w \in Seq(0 .. b)
  PROVE  Total(w) \in Nat /\ Total(w) <= Len(w) * b
<1>1. w \in Seq(Nat) /\ Len(w) \in Nat /\ \A k \in 1 .. Len(w) : w[k] \in 0 .. b
  OBVIOUS
<1>2. PICK f : /\ Total(w) = f[Len(w)] /\ f[0] = 0
               /\ \A k \in 1 .. Len(w) : f[k] = f[k - 1] + w[k]
               /\ \A k \in 0 .. Len(w) : f[k] \in Nat
  BY <1>1, TotalIsSum
<1> DEFINE T == {x \in Nat : x \in 0 .. Len(w) /\ ~ (f[x] <= x * b)}
<1>3. T = {}
  <2>1. SUFFICES ASSUME T # {} PROVE FALSE
    OBVIOUS
  <2>2. PICK x \in T : \A y \in T : x <= y
    <3>1. T \in SUBSET Nat
      OBVIOUS
    <3> HIDE DEF T
    <3> QED
      BY <2>1, <3>1, LeastNumber
  <2>3. x \in Nat /\ x \in 0 .. Len(w) /\ ~ (f[x] <= x * b)
    OBVIOUS
  <2>4. x # 0
    BY <1>2, <2>3
  <2>5. x \in 1 .. Len(w) /\ x - 1 \in 0 .. Len(w) /\ x - 1 \in Nat /\ ~ (x <= x - 1)
    BY <1>1, <2>3, <2>4
  <2>6. f[x - 1] <= (x - 1) * b
    BY <2>2, <2>5
  <2>7. f[x] = f[x - 1] + w[x] /\ w[x] \in Nat /\ w[x] <= b /\ f[x - 1] \in Nat
    BY <1>1, <1>2, <2>5
  <2>8. (x - 1) * b + b = x * b /\ (x - 1) * b \in Nat /\ x * b \in Nat
    BY <2>3, <2>5
  <2> QED
    BY <2>3, <2>6, <2>7, <2>8
<1>4. Len(w) \in 0 .. Len(w)
  BY <1>1
<1> QED
  BY <1>1, <1>2, <1>3, <1>4

(* Adding c to one word adds c to the sum. *)
LEMMA TotalOfMore ==
  ASSUME NEW v \in Seq(Nat), NEW w \in Seq(Nat), Len(v) = Len(w), NEW c \in Nat,
         NEW p \in 1 .. Len(v), w[p] = v[p] + c,
         \A k \in 1 .. Len(v) : k # p => w[k] = v[k]
  PROVE  Total(w) = Total(v) + c
<1>1. /\ Len(v) \in Nat /\ p \in Nat /\ p # 0
      /\ \A k \in 1 .. Len(v) : v[k] \in Nat /\ w[k] \in Nat
  <2>1. Len(v) \in Nat
    OBVIOUS
  <2>2. \A k \in 1 .. Len(v) : v[k] \in Nat
    OBVIOUS
  <2>3. \A k \in 1 .. Len(w) : w[k] \in Nat
    OBVIOUS
  <2> QED
    BY <2>1, <2>2, <2>3
<1>2. PICK f : /\ Total(v) = f[Len(v)] /\ f[0] = 0
               /\ \A k \in 1 .. Len(v) : f[k] = f[k - 1] + v[k]
               /\ \A k \in 0 .. Len(v) : f[k] \in Nat
  BY TotalIsSum
<1>3. PICK g : /\ Total(w) = g[Len(v)] /\ g[0] = 0
               /\ \A k \in 1 .. Len(v) : g[k] = g[k - 1] + w[k]
               /\ \A k \in 0 .. Len(v) : g[k] \in Nat
  BY TotalIsSum
<1> DEFINE Gap(x) == IF x < p THEN 0 ELSE c
           T == {x \in Nat : x \in 0 .. Len(v) /\ g[x] # f[x] + Gap(x)}
<1>4. T = {}
  <2>1. SUFFICES ASSUME T # {} PROVE FALSE
    OBVIOUS
  <2>2. PICK x \in T : \A y \in T : x <= y
    <3>1. T \in SUBSET Nat
      OBVIOUS
    <3> HIDE DEF T
    <3> QED
      BY <2>1, <3>1, LeastNumber
  <2>3. x \in Nat /\ x \in 0 .. Len(v) /\ g[x] # f[x] + Gap(x)
    OBVIOUS
  <2>4. x # 0
    BY <1>1, <1>2, <1>3, <2>3
  <2>5. x \in 1 .. Len(v) /\ x - 1 \in 0 .. Len(v) /\ x - 1 \in Nat /\ ~ (x <= x - 1)
    BY <1>1, <2>3, <2>4
  <2>6. g[x - 1] = f[x - 1] + Gap(x - 1)
    BY <2>2, <2>5
  <2>7. /\ f[x] = f[x - 1] + v[x] /\ g[x] = g[x - 1] + w[x]
        /\ f[x - 1] \in Nat /\ v[x] \in Nat /\ w[x] \in Nat
    BY <1>1, <1>2, <1>3, <2>5
  <2>8. w[x] = IF x = p THEN v[x] + c ELSE v[x]
    BY <2>5
  <2>9. Gap(x) = IF x = p THEN Gap(x - 1) + c ELSE Gap(x - 1)
    BY <1>1, <2>3
  <2>10. Gap(x - 1) \in Nat
    OBVIOUS
  <2> HIDE DEF Gap, T
  <2>11. CASE x = p
    <3>1. w[x] = v[x] + c /\ Gap(x) = Gap(x - 1) + c
      BY <2>8, <2>9, <2>11
    <3>2. g[x] = (f[x - 1] + Gap(x - 1)) + (v[x] + c)
      BY <2>6, <2>7, <3>1
    <3>3. f[x] + Gap(x) = (f[x - 1] + v[x]) + (Gap(x - 1) + c)
      BY <2>7, <3>1
    <3>4. \A n1, n2, n3 \in Nat : (n1 + n2) + (n3 + c) = (n1 + n3) + (n2 + c)
      OBVIOUS
    <3>5. g[x] = f[x] + Gap(x)
      BY <2>7, <2>10, <3>2, <3>3, <3>4
    <3> QED
      BY <2>3, <3>5
  <2>12. CASE x # p
    <3>1. w[x] = v[x] /\ Gap(x) = Gap(x - 1)
      BY <2>8, <2>9, <2>12
    <3>2. g[x] = (f[x - 1] + Gap(x - 1)) + v[x]
      BY <2>6, <2>7, <3>1
    <3>3. f[x] + Gap(x) = (f[x - 1] + v[x]) + Gap(x - 1)
      BY <2>7, <3>1
    <3>4. \A n1, n2, n3 \in Nat : (n1 + n2) + n3 = (n1 + n3) + n2
      OBVIOUS
    <3>5. g[x] = f[x] + Gap(x)
      BY <2>7, <2>10, <3>2, <3>3, <3>4
    <3> QED
      BY <2>3, <3>5
  <2> QED
    BY <2>11, <2>12
<1>5. Len(v) \in 0 .. Len(v) /\ ~ (Len(v) < p)
  BY <1>1
<1> QED
  BY <1>1, <1>2, <1>3, <1>4, <1>5

(* The sum of an odd byte, or of none. *)
LEMMA TotalOfOdd ==
  ASSUME NEW b \in Nat, NEW odd \in Odd(0 .. b)
  PROVE  Total(odd) \in 0 .. b /\ (odd = << >> => Total(odd) = 0)
<1>1. odd \in Seq(Nat) /\ (odd = << >> => Len(odd) = 0)
      /\ \/ Len(odd) = 0
         \/ Len(odd) = 1 /\ odd[1] \in 0 .. b
  <2>1. CASE odd = << >>
    BY <2>1
  <2>2. CASE \E x \in 0 .. b : odd = <<x>>
    <3>1. PICK x \in 0 .. b : odd = <<x>>
      BY <2>2
    <3>2. x \in Nat
      OBVIOUS
    <3> QED
      BY <3>1, <3>2
  <2> QED
    BY <2>1, <2>2 DEF Odd
<1>2. PICK f : /\ Total(odd) = f[Len(odd)] /\ f[0] = 0
               /\ \A k \in 1 .. Len(odd) : f[k] = f[k - 1] + odd[k]
               /\ \A k \in 0 .. Len(odd) : f[k] \in Nat
  BY <1>1, TotalIsSum
<1>3. CASE Len(odd) = 0
  BY <1>1, <1>2, <1>3
<1>4. CASE Len(odd) = 1
  <2>1. 1 \in 1 .. Len(odd) /\ odd[1] \in 0 .. b
    BY <1>1, <1>4
  <2>2. f[1] = f[1 - 1] + odd[1] /\ 1 - 1 = 0
    BY <1>2, <2>1
  <2> QED
    BY <1>2, <1>4, <2>1, <2>2
<1> QED
  BY <1>1, <1>3, <1>4

(* The sum of six words, as of an IP header. *)
LEMMA TotalOfSix ==
  ASSUME NEW w \in Seq(Nat), Len(w) = 6
  PROVE  Total(w) = w[1] + w[2] + w[3] + w[4] + w[5] + w[6]
<1>1. PICK f : /\ Total(w) = f[Len(w)] /\ f[0] = 0
               /\ \A k \in 1 .. Len(w) : f[k] = f[k - 1] + w[k]
  BY TotalIsSum
<1>2. /\ f[1] = f[1 - 1] + w[1] /\ f[2] = f[2 - 1] + w[2] /\ f[3] = f[3 - 1] + w[3]
      /\ f[4] = f[4 - 1] + w[4] /\ f[5] = f[5 - 1] + w[5] /\ f[6] = f[6 - 1] + w[6]
  BY <1>1
<1>3. /\ f[1] = f[0] + w[1] /\ f[2] = f[1] + w[2] /\ f[3] = f[2] + w[3]
      /\ f[4] = f[3] + w[4] /\ f[5] = f[4] + w[5] /\ f[6] = f[5] + w[6]
  BY <1>2
<1>4. /\ w[1] \in Nat /\ w[2] \in Nat /\ w[3] \in Nat
      /\ w[4] \in Nat /\ w[5] \in Nat /\ w[6] \in Nat
  <2>1. \A k \in 1 .. Len(w) : w[k] \in Nat
    BY ElementOfSeq
  <2> QED
    BY <2>1
<1> QED
  BY <1>1, <1>3, <1>4
-----------------------------------------------------------------------------
(* Division with a remainder. *)
LEMMA Division ==
  ASSUME NEW n \in Nat, NEW m \in Nat \ {0}
  PROVE  /\ n % m \in 0 .. m - 1 /\ n \div m \in Nat
         /\ n = (n \div m) * m + (n % m)
<1>1. n % m \in 0 .. m - 1
  OBVIOUS
<1>2. n \div m \in Int
  OBVIOUS
<1>3. n = m * (n \div m) + (n % m)
  OBVIOUS
<1>4. \A k \in Int : k < 0 => m * k <= 0 - m
  OBVIOUS
<1> QED
  BY <1>1, <1>2, <1>3, <1>4

(* The remainder is what is left of a multiple. *)
LEMMA Remainder ==
  ASSUME NEW q \in Nat, NEW m \in Nat \ {0}, NEW r \in 0 .. m - 1
  PROVE  /\ (q * m + r) % m = r
         /\ (q * m + r) \div m = q
  OBVIOUS

(* The width of a sum may be cut before or after an addition. *)
LEMMA CutTwice ==
  ASSUME NEW a \in Nat, NEW b \in Nat, NEW m \in Nat \ {0}
  PROVE  ((a % m) + b) % m = (a + b) % m
<1> DEFINE q == a \div m
           r == a % m
           q2 == (r + b) \div m
           r2 == (r + b) % m
<1>1. q \in Nat /\ r \in Nat /\ a = q * m + r
  BY Division
<1>2. r + b \in Nat
  BY <1>1
<1>3. q2 \in Nat /\ r2 \in 0 .. m - 1 /\ r + b = q2 * m + r2
  BY <1>2, Division
<1> HIDE DEF q, r, q2, r2
<1>4. a + b = (q + q2) * m + r2 /\ q + q2 \in Nat
  BY <1>1, <1>3
<1>5. (a + b) % m = r2
  <2>1. PICK k \in Nat : k = q + q2
    BY <1>4
  <2>2. (k * m + r2) % m = r2
    BY <1>3, Remainder
  <2> QED
    BY <1>4, <2>1, <2>2
<1> QED
  BY <1>5 DEF r2, r

-----------------------------------------------------------------------------
(* How the widths compare, as far as the proofs need it. *)
LEMMA Widths ==
  /\ ByteBase \in Nat /\ W16 \in Nat /\ W32 \in Nat /\ W32 = W16 * W16
  /\ 9 <= W16 /\ ByteBase < W16 /\ 9 * W16 <= W32
<1>1. ByteBase \in Nat /\ 3 <= ByteBase
  BY ChecksumAssumption
<1>2. W16 \in Nat /\ 3 * ByteBase <= W16
  BY <1>1 DEF W16
<1>3. 9 <= W16 /\ ByteBase < W16
  BY <1>1, <1>2
<1>4. W32 = W16 * W16
  BY DEF W32
<1>5. \A n \in Nat : 9 <= n => n * n \in Nat /\ 9 * n <= n * n
  OBVIOUS
<1> QED
  BY <1>1, <1>2, <1>3, <1>4, <1>5

(* Folding the carries keeps the remainder modulo W16 - 1. *)
LEMMA FoldedFacts ==
  ASSUME NEW sum \in U32
  PROVE  \E q \in Nat, e \in {0, 1}, f \in U16 :
           Folded(sum) = e * W16 + f /\ sum = q * (W16 - 1) + f
<1> DEFINE hi == sum \div W16
           lo == sum % W16
           s == hi + lo
<1>0. /\ W16 \in Nat \ {0} /\ W32 = W16 * W16 /\ 9 <= W16
      /\ sum \in Nat /\ sum < W32
  BY Widths DEF U32
<1>1. hi \in Nat /\ lo \in 0 .. W16 - 1 /\ sum = hi * W16 + lo
  BY <1>0, Division
<1>2. hi < W16
  <2>1. hi * W16 < W16 * W16
    <3> HIDE DEF hi, lo
    <3>1. hi * W16 \in Nat
      BY <1>0, <1>1
    <3> QED
      BY <1>0, <1>1, <3>1
  <2>2. \A m, n \in Nat : m * n < n * n => m < n
    OBVIOUS
  <2> HIDE DEF hi, lo
  <2> QED
    BY <1>0, <1>1, <2>1, <2>2
<1>3. Folded(sum) = s + (s \div W16)
  BY DEF Folded
<1> HIDE DEF hi, lo
<1>4. s \in Nat /\ sum = hi * (W16 - 1) + s
  BY <1>0, <1>1
<1>5. CASE s < W16
  <2>1. s \in 0 .. W16 - 1 /\ s = 0 * W16 + s
    BY <1>0, <1>4, <1>5
  <2>2. s \div W16 = 0
    BY <1>0, <2>1, Remainder
  <2>3. Folded(sum) = 0 * W16 + s
    BY <1>0, <1>3, <1>4, <2>2
  <2> HIDE DEF s
  <2> QED
    BY <1>1, <1>4, <2>1, <2>3 DEF U16
<1>6. CASE ~ (s < W16)
  <2> DEFINE f == s - (W16 - 1)
  <2>1. s - W16 \in 0 .. W16 - 1 /\ f \in 0 .. W16 - 1 /\ s = 1 * W16 + (s - W16)
    BY <1>0, <1>1, <1>2, <1>6
  <2>2. s \div W16 = 1
    BY <1>0, <2>1, Remainder
  <2>3. Folded(sum) = 1 * W16 + f
    BY <1>0, <1>3, <1>4, <2>2
  <2>4. sum = (hi + 1) * (W16 - 1) + f /\ hi + 1 \in Nat
    <3>1. (hi + 1) * (W16 - 1) = hi * (W16 - 1) + (W16 - 1)
      BY <1>0, <1>1
    <3>2. hi * (W16 - 1) \in Nat
      BY <1>0, <1>1
    <3> HIDE DEF s
    <3> QED
      BY <1>0, <1>1, <1>4, <3>1, <3>2
  <2> HIDE DEF s, f
  <2> QED
    BY <2>1, <2>3, <2>4 DEF U16
<1> QED
  BY <1>5, <1>6

(* The sum before the odd byte is added, cut to a u16. *)
Early(words, sum) == Folded((sum + Total(words)) % W32) % W16

(* The checksum that the code computes is the complement of this sum and   *)
(* the odd byte, without the carry.                                        *)
LEMMA ChecksumValue ==
  ASSUME NEW words \in Seq(U16), NEW odd \in Odd(0 .. ByteBase - 1), NEW sum \in Nat
  PROVE  /\ Early(words, sum) \in U16 /\ Total(words) \in Nat /\ Total(odd) \in Nat
         /\ Total(odd) < ByteBase
         /\ \E q \in Nat : (sum + Total(words)) % W32 = q * (W16 - 1) + Early(words, sum)
         /\ checksum(words, odd, sum)
              = (W16 - 1) - (IF Early(words, sum) + Total(odd) >= W16
                             THEN Early(words, sum) + Total(odd) - W16
                             ELSE Early(words, sum) + Total(odd))
<1> DEFINE S == (sum + Total(words)) % W32
           o == Total(odd)
<1>0. /\ W16 \in Nat \ {0} /\ W32 \in Nat \ {0} /\ 9 <= W16 /\ 9 * W16 <= W32
      /\ ByteBase \in Nat /\ ByteBase < W16 /\ 3 <= ByteBase
  BY Widths, ChecksumAssumption
<1>1. Total(words) \in Nat
  BY <1>0, TotalBound DEF U16
<1>2. o \in Nat /\ o < ByteBase
  <2>1. ByteBase - 1 \in Nat
    BY <1>0
  <2>2. o \in 0 .. ByteBase - 1
    BY <2>1, TotalOfOdd
  <2> QED
    BY <1>0, <2>2
<1>3. S \in U32
  <2>1. sum + Total(words) \in Nat
    BY <1>1
  <2> QED
    BY <1>0, <2>1, Division DEF U32
<1>4. checksum(words, odd, sum) = Complement((Folded(S) + o) % W32)
  BY DEF checksum
<1>5. Early(words, sum) = Folded(S) % W16
  BY DEF Early
<1> HIDE DEF S, o
<1>6. PICK q \in Nat, e \in {0, 1}, f \in U16 :
        Folded(S) = e * W16 + f /\ S = q * (W16 - 1) + f
  BY <1>3, FoldedFacts
<1>7. Early(words, sum) = f
  <2>1. e \in Nat /\ f \in 0 .. W16 - 1
    BY DEF U16
  <2>2. (e * W16 + f) % W16 = f
    BY <1>0, <2>1, Remainder
  <2> QED
    BY <1>5, <1>6, <2>2
<1>8. f \in Nat /\ f < W16
  BY <1>0 DEF U16
<1> DEFINE h == IF f + o >= W16 THEN f + o - W16 ELSE f + o
<1>9. (Folded(S) + o) % W32 = e * W16 + (f + o)
  <2>1. e * W16 + (f + o) \in 0 .. W32 - 1 /\ Folded(S) + o = 0 * W32 + (e * W16 + (f + o))
    <3>1. CASE e = 0
      BY <1>0, <1>2, <1>6, <1>8, <3>1
    <3>2. CASE e = 1
      BY <1>0, <1>2, <1>6, <1>8, <3>2
    <3> QED
      BY <3>1, <3>2
  <2> DEFINE n == e * W16 + (f + o)
  <2>2. n \in 0 .. W32 - 1 /\ Folded(S) + o = 0 * W32 + n
    BY <2>1
  <2> HIDE DEF n
  <2>3. (0 * W32 + n) % W32 = n
    BY <1>0, <2>2, Remainder
  <2>4. (Folded(S) + o) % W32 = n
    BY <2>2, <2>3
  <2> QED
    BY <2>4 DEF n
<1>10. (e * W16 + (f + o)) % W16 = h
  <2>1. CASE f + o >= W16
    <3>1. h \in 0 .. W16 - 1 /\ e * W16 + (f + o) = (e + 1) * W16 + h /\ e + 1 \in Nat
      BY <1>0, <1>2, <1>8, <2>1
    <3> HIDE DEF h
    <3>2. ((e + 1) * W16 + h) % W16 = h
      BY <1>0, <3>1, Remainder
    <3> QED
      BY <3>1, <3>2
  <2>2. CASE ~ (f + o >= W16)
    <3>1. h \in 0 .. W16 - 1 /\ e * W16 + (f + o) = e * W16 + h /\ e \in Nat
      BY <1>0, <1>2, <1>8, <2>2
    <3> HIDE DEF h
    <3>2. (e * W16 + h) % W16 = h
      BY <1>0, <3>1, Remainder
    <3> QED
      BY <3>1, <3>2
  <2> QED
    BY <2>1, <2>2
<1>11. checksum(words, odd, sum) = (W16 - 1) - h
  BY <1>4, <1>9, <1>10 DEF Complement
<1> QED
  BY <1>1, <1>2, <1>6, <1>7, <1>11 DEF S, o

(* Cutting the initial sum to a u32 changes nothing. *)
LEMMA ChecksumCut ==
  ASSUME NEW words, NEW odd, NEW sum \in Nat, Total(words) \in Nat
  PROVE  checksum(words, odd, sum % W32) = checksum(words, odd, sum)
<1>1. W32 \in Nat \ {0}
  BY Widths
<1>2. ((sum % W32) + Total(words)) % W32 = (sum + Total(words)) % W32
  BY <1>1, CutTwice
<1> QED
  BY <1>2 DEF checksum

(* What the receiver adds up is good exactly if no carry was lost: every   *)
(* lost carry, of which there are at most three, makes it one too large.   *)
LEMMA SumVerifies ==
  ASSUME NEW words \in Seq(U16), NEW odd \in Odd(0 .. ByteBase - 1), NEW sum \in Nat,
         sum + Total(words) < 3 * W32
  PROVE  Verifies(sum + Total(words) + checksum(words, odd, sum) + Total(odd))
           <=> /\ sum + Total(words) < W32
               /\ Early(words, sum) + Total(odd) < W16
<1> DEFINE n == sum + Total(words)
           c == checksum(words, odd, sum)
           o == Total(odd)
           f == Early(words, sum)
           m == W16 - 1
           w == IF f + o >= W16 THEN 1 ELSE 0
<1>0. /\ W16 \in Nat \ {0} /\ W32 \in Nat \ {0} /\ 9 <= W16
      /\ W32 = W16 * W16 /\ m \in Nat \ {0} /\ 8 <= m /\ W16 = m + 1
  BY Widths
<1>1. n \in Nat /\ o \in Nat /\ f \in Nat /\ f < W16 /\ n < 3 * W32
  <2>1. /\ Total(words) \in Nat /\ o \in Nat /\ f \in U16
    BY ChecksumValue, Zenon
  <2> HIDE DEF f
  <2>2. f \in Nat /\ f < W16
    BY <1>0, <2>1 DEF U16
  <2> QED
    BY <2>1, <2>2
<1>2. PICK q \in Nat : n % W32 = q * m + f
  BY ChecksumValue
<1>3. c = m - (IF f + o >= W16 THEN f + o - W16 ELSE f + o)
  BY ChecksumValue
<1> HIDE DEF n, c, o, f, m
<1>4. c = m - (f + o) + w * W16 /\ w \in {0, 1}
  BY <1>0, <1>1, <1>3
<1> DEFINE r == n \div W32
<1>5. r \in Nat /\ n = r * W32 + (q * m + f)
  <2>1. r \in Nat /\ n = r * W32 + (n % W32)
    BY <1>0, <1>1, Division
  <2> QED
    BY <1>2, <2>1
<1>6. n % W32 \in 0 .. W32 - 1
  BY <1>0, <1>1, Division
<1> HIDE DEF r, w
<1>7. q * m + f \in Nat /\ q * m + f < W32
  BY <1>0, <1>2, <1>6
<1>8. r <= 2 /\ (r = 0 <=> n < W32)
  <2>1. CASE r = 0
    BY <1>0, <1>5, <1>7, <2>1
  <2>2. CASE r = 1
    BY <1>0, <1>5, <1>7, <2>2
  <2>3. CASE r = 2
    BY <1>0, <1>5, <1>7, <2>3
  <2>4. CASE r >= 3
    <3>1. \A k, l \in Nat : k >= 3 => k * l >= 3 * l
      OBVIOUS
    <3>2. r * W32 >= 3 * W32 /\ r * W32 \in Nat
      BY <1>0, <1>5, <2>4, <3>1
    <3> QED
      BY <1>0, <1>1, <1>5, <1>7, <3>2
  <2> QED
    BY <1>5, <2>1, <2>2, <2>3, <2>4
<1> DEFINE z == q + r * (m + 2) + 1 + w
<1>9. n + c + o = z * m + (r + w) /\ z \in Nat
  <2>1. n + c + o = r * W32 + q * m + m + w * W16
    <3>1. r * W32 \in Nat /\ q * m \in Nat /\ w * W16 \in Nat
      BY <1>0, <1>4, <1>5
    <3> QED
      BY <1>0, <1>1, <1>4, <1>5, <3>1
  <2>2. W32 = m * (m + 2) + 1
    BY <1>0
  <2>3. r * W32 = (r * (m + 2)) * m + r
    BY <1>0, <1>5, <2>2
  <2>4. w * W16 = w * m + w
    BY <1>0, <1>4
  <2>5. r * (m + 2) \in Nat /\ w \in Nat
    BY <1>0, <1>4, <1>5
  <2>6. \A x \in Nat : (q + x + 1 + w) * m = q * m + x * m + m + w * m
    BY <1>0, <2>5
  <2>7. z * m = q * m + (r * (m + 2)) * m + m + w * m
    BY <2>5, <2>6
  <2>8. q * m \in Nat /\ (r * (m + 2)) * m \in Nat /\ w * m \in Nat /\ z \in Nat
    BY <1>0, <2>5
  <2> QED
    BY <1>0, <1>5, <2>1, <2>3, <2>4, <2>5, <2>7, <2>8
<1> HIDE DEF z
<1>10. r + w \in 0 .. m - 1
  BY <1>0, <1>4, <1>5, <1>8
<1>11. (n + c + o) % m = r + w
  <2>1. (z * m + (r + w)) % m = r + w
    <3> DEFINE d == r + w
    <3>1. d \in 0 .. m - 1
      BY <1>10
    <3> HIDE DEF d
    <3>2. (z * m + d) % m = d
      BY <1>0, <1>9, <3>1, Remainder
    <3> QED
      BY <3>2 DEF d
  <2> QED
    BY <1>9, <2>1
<1>12. r + w = 0 <=> r = 0 /\ w = 0
  BY <1>4, <1>5
<1>13. w = 0 <=> f + o < W16
  BY <1>0, <1>1 DEF w
<1>14. Verifies(n + c + o) <=> r = 0 /\ w = 0
  BY <1>11, <1>12 DEF Verifies, m
<1> QED
  BY <1>8, <1>13, <1>14 DEF n, c, o, f

-----------------------------------------------------------------------------
(* The words of an IP header, as in IpWords. *)
HeaderWords(rest, c, saddr, daddr) ==
  <<rest, c, saddr % W16, saddr \div W16, daddr % W16, daddr \div W16>>

(* The checksum of an IP header verifies. *)
LEMMA HeaderVerifies ==
  ASSUME NEW rest \in U16, NEW saddr \in U32, NEW daddr \in U32, NEW c,
         c = checksum(HeaderWords(rest, 0, saddr, daddr), << >>, 0)
  PROVE  c \in U16 /\ Verifies(Total(HeaderWords(rest, c, saddr, daddr)))
<1> DEFINE v == HeaderWords(rest, 0, saddr, daddr)
           s1 == saddr % W16
           s2 == saddr \div W16
           d1 == daddr % W16
           d2 == daddr \div W16
<1>0. /\ W16 \in Nat \ {0} /\ 9 <= W16 /\ W32 = W16 * W16 /\ W32 \in Nat
      /\ 9 * W16 <= W32 /\ ByteBase \in Nat
  BY Widths
<1>1. ASSUME NEW a \in U32
      PROVE  a % W16 \in U16 /\ a \div W16 \in U16
  <2>1. a \in Nat /\ a < W16 * W16
    BY <1>0 DEF U32
  <2> DEFINE x == a \div W16
             y == a % W16
  <2>2. x \in Nat /\ y \in 0 .. W16 - 1 /\ a = x * W16 + y
    BY <1>0, <2>1, Division
  <2> HIDE DEF x, y
  <2>3. x * W16 \in Nat /\ x * W16 < W16 * W16
    BY <1>0, <2>1, <2>2
  <2>4. \A k, l \in Nat : k * l < l * l => k < l
    OBVIOUS
  <2>5. x < W16
    BY <1>0, <2>2, <2>3, <2>4
  <2>6. x \in U16 /\ y \in U16
    BY <1>0, <2>2, <2>5 DEF U16
  <2> QED
    BY <2>6 DEF x, y
<1>2. s1 \in U16 /\ s2 \in U16 /\ d1 \in U16 /\ d2 \in U16 /\ 0 \in U16
  BY <1>0, <1>1 DEF U16
<1>3. v = <<rest, 0, s1, s2, d1, d2>>
  BY DEF HeaderWords
<1>4. HeaderWords(rest, c, saddr, daddr) = <<rest, c, s1, s2, d1, d2>>
  BY DEF HeaderWords
<1> HIDE DEF v, s1, s2, d1, d2
<1>5. v \in Seq(U16)
  BY <1>2, <1>3
<1>6. << >> \in Odd(0 .. ByteBase - 1) /\ Total(<< >>) = 0
  <2>1. ByteBase - 1 \in Nat
    BY <1>0, ChecksumAssumption
  <2>2. << >> \in Odd(0 .. ByteBase - 1)
    BY DEF Odd
  <2> QED
    BY <2>1, <2>2, TotalOfOdd
<1>7. /\ Total(v) = rest + 0 + s1 + s2 + d1 + d2 /\ Total(v) \in Nat
      /\ Total(v) < W32
  <2>1. /\ rest \in Nat /\ 0 \in Nat /\ s1 \in Nat /\ s2 \in Nat /\ d1 \in Nat /\ d2 \in Nat
        /\ rest < W16 /\ s1 < W16 /\ s2 < W16 /\ d1 < W16 /\ d2 < W16
    BY <1>0, <1>2 DEF U16
  <2>2. Total(v) = rest + 0 + s1 + s2 + d1 + d2
    <3>1. /\ v \in Seq(Nat) /\ Len(v) = 6
          /\ v[1] = rest /\ v[2] = 0 /\ v[3] = s1 /\ v[4] = s2 /\ v[5] = d1 /\ v[6] = d2
      BY <1>3, <2>1
    <3> QED
      BY <3>1, TotalOfSix
  <2> QED
    BY <1>0, <2>1, <2>2
<1>8. Early(v, 0) \in U16 /\ c = (W16 - 1) - Early(v, 0)
  <2>1. /\ Early(v, 0) \in U16
        /\ c = (W16 - 1) - (IF Early(v, 0) + Total(<< >>) >= W16
                            THEN Early(v, 0) + Total(<< >>) - W16
                            ELSE Early(v, 0) + Total(<< >>))
    BY <1>5, <1>6, ChecksumValue DEF v
  <2> QED
    BY <1>0, <1>6, <2>1 DEF U16
<1>9. c \in U16 /\ c \in Nat
  BY <1>0, <1>8 DEF U16
<1>10. Total(HeaderWords(rest, c, saddr, daddr)) = 0 + Total(v) + c + Total(<< >>)
  <2>1. /\ rest \in Nat /\ s1 \in Nat /\ s2 \in Nat /\ d1 \in Nat /\ d2 \in Nat
    BY <1>0, <1>2 DEF U16
  <2>2. Total(<<rest, c, s1, s2, d1, d2>>) = rest + c + s1 + s2 + d1 + d2
    <3> DEFINE w == <<rest, c, s1, s2, d1, d2>>
    <3>1. /\ w \in Seq(Nat) /\ Len(w) = 6
          /\ w[1] = rest /\ w[2] = c /\ w[3] = s1 /\ w[4] = s2 /\ w[5] = d1 /\ w[6] = d2
      BY <1>9, <2>1
    <3> HIDE DEF w
    <3>2. Total(w) = rest + c + s1 + s2 + d1 + d2
      BY <3>1, TotalOfSix
    <3> QED
      BY <3>2 DEF w
  <2>3. Total(HeaderWords(rest, c, saddr, daddr)) = rest + c + s1 + s2 + d1 + d2
    BY <1>4, <2>2, Zenon
  <2> QED
    BY <1>6, <1>7, <1>9, <2>1, <2>3
<1>11. Verifies(0 + Total(v) + checksum(v, << >>, 0) + Total(<< >>))
  <2>1. 0 + Total(v) < W32 /\ 0 + Total(v) < 3 * W32
    BY <1>0, <1>7
  <2>2. Early(v, 0) + Total(<< >>) < W16
    BY <1>0, <1>6, <1>8 DEF U16
  <2> QED
    BY <1>5, <1>6, <2>1, <2>2, SumVerifies
<1> QED
  BY <1>9, <1>10, <1>11 DEF v

(* The words of a segment, as in TcpWords. *)
SegmentWords(sport, dport, rest, c, data) == <<sport, dport, rest, c>> \o data

(* The words other than the checksum. *)
OtherWord(sport, dport, rest, data, k) ==
  IF k <= 4 THEN <<sport, dport, rest>>[k] ELSE data[k - 4]

(* The sequence w is made of these words, with c for the checksum. *)
IsSegment(w, sport, dport, rest, c, data) ==
  /\ w \in Seq(U16) /\ w \in Seq(Nat) /\ Len(w) = 4 + Len(data)
  /\ Len(data) \in 0 .. MaxWords /\ w[4] = c
  /\ \A k \in 1 .. Len(w) : k # 4 => w[k] = OtherWord(sport, dport, rest, data, k)

(* They are words, not more than the length of a segment allows, and all   *)
(* but the fourth are the same for every checksum.                         *)
LEMMA SegmentFacts ==
  ASSUME NEW sport \in U16, NEW dport \in U16, NEW rest \in U16, NEW data \in Data(U16),
         NEW c \in U16
  PROVE  IsSegment(SegmentWords(sport, dport, rest, c, data), sport, dport, rest, c, data)
<1> DEFINE w == SegmentWords(sport, dport, rest, c, data)
           h == <<sport, dport, rest, c>>
           g == <<sport, dport, rest>>
<1>0. W16 \in Nat /\ MaxWords \in Nat
  BY Widths, ChecksumAssumption
<1>1. PICK n \in 0 .. MaxWords : data \in [1 .. n -> U16]
  BY DEF Data
<1>2. n \in Nat
  BY <1>0
<1>3. data \in Seq(U16) /\ Len(data) = n
  BY <1>1, <1>2
<1>4. h \in Seq(U16) /\ Len(h) = 4 /\ h[1] = g[1] /\ h[2] = g[2] /\ h[3] = g[3] /\ h[4] = c
  OBVIOUS
<1>5. w = h \o data
  BY DEF SegmentWords
<1> HIDE DEF h, g, w
<1>6. /\ w \in Seq(U16) /\ Len(w) = 4 + n
      /\ \A k \in 1 .. Len(w) : w[k] = IF k <= 4 THEN h[k] ELSE data[k - 4]
  <2>1. h \in Seq(U16) /\ data \in Seq(U16)
    BY <1>3, <1>4
  <2>2. /\ h \o data \in Seq(U16) /\ Len(h \o data) = Len(h) + Len(data)
        /\ \A k \in 1 .. Len(h) + Len(data) :
             (h \o data)[k] = IF k <= Len(h) THEN h[k] ELSE data[k - Len(h)]
    BY <2>1, ConcatProperties, Zenon
  <2>3. /\ w \in Seq(U16) /\ Len(w) = Len(h) + Len(data)
        /\ \A k \in 1 .. Len(h) + Len(data) :
             w[k] = IF k <= Len(h) THEN h[k] ELSE data[k - Len(h)]
    BY <1>5, <2>2, Zenon
  <2> QED
    BY <1>3, <1>4, <2>3
<1>7. \A k \in 1 .. Len(w) : k # 4 => w[k] = IF k <= 4 THEN g[k] ELSE data[k - 4]
  <2> SUFFICES ASSUME NEW k \in 1 .. Len(w), k # 4
               PROVE  w[k] = IF k <= 4 THEN g[k] ELSE data[k - 4]
    OBVIOUS
  <2>1. k \in Nat /\ k # 0 /\ w[k] = IF k <= 4 THEN h[k] ELSE data[k - 4]
    BY <1>2, <1>6
  <2>2. k = 1 \/ k = 2 \/ k = 3 \/ ~ (k <= 4)
    BY <2>1
  <2>3. CASE k = 1
    BY <1>4, <2>1, <2>3
  <2>4. CASE k = 2
    BY <1>4, <2>1, <2>4
  <2>5. CASE k = 3
    BY <1>4, <2>1, <2>5
  <2>6. CASE ~ (k <= 4)
    BY <2>1, <2>6
  <2> QED
    BY <2>2, <2>3, <2>4, <2>5, <2>6
<1>8. w \in Seq(Nat)
  <2>1. \A x \in U16 : x \in Nat
    BY <1>0 DEF U16
  <2>2. \A k \in 1 .. Len(w) : w[k] \in Nat
    BY <1>6, <2>1
  <2> QED
    BY <1>2, <1>6, <2>2
<1>9. w[4] = c
  <2>1. 4 \in 1 .. Len(w)
    BY <1>2, <1>6
  <2> QED
    BY <1>4, <1>6, <2>1
<1> QED
  BY <1>3, <1>6, <1>7, <1>8, <1>9 DEF g, w, OtherWord, IsSegment

(* So their sum stays below half of what a u32 holds. *)
LEMMA SegmentSum ==
  ASSUME NEW w \in Seq(U16), NEW n \in 0 .. MaxWords, Len(w) = 4 + n
  PROVE  Total(w) \in Nat /\ 2 * Total(w) < W32
<1>0. /\ W16 \in Nat /\ 9 <= W16 /\ W32 = W16 * W16 /\ W32 \in Nat
      /\ MaxWords \in Nat /\ 2 * (4 + MaxWords) + 1 < W16
  BY Widths, ChecksumAssumption
<1> DEFINE m == W16 - 1
           k == 4 + n
<1>1. m \in Nat /\ k \in Nat /\ 2 * k <= W16 /\ W16 = m + 1
  BY <1>0
<1>2. Total(w) \in Nat /\ Total(w) <= k * m
  <2>1. m \in Nat /\ w \in Seq(0 .. m)
    BY <1>1 DEF U16
  <2> HIDE DEF m
  <2> QED
    BY <2>1, TotalBound
<1> HIDE DEF m, k
<1>3. \A x, y, z \in Nat : x <= y => x * z <= y * z
  OBVIOUS
<1>4. (2 * k) * m <= W16 * m /\ k * m \in Nat /\ (2 * k) * m = 2 * (k * m)
  BY <1>0, <1>1, <1>3
<1>5. W16 * m < W16 * W16 /\ W16 * m \in Nat
  BY <1>0, <1>1
<1> QED
  BY <1>0, <1>2, <1>4, <1>5

(* The checksum of a segment is a u16 and verifies unless a carry is lost. *)
SegmentIsGood(sport, dport, rest, data, odd, pseudo) ==
  LET v == SegmentWords(sport, dport, rest, 0, data)
      c == checksum(v, odd, pseudo % W32)
  IN  /\ c \in U16
      /\ Verifies(pseudo + Total(SegmentWords(sport, dport, rest, c, data)) + Total(odd))
           <=> pseudo + Total(v) < W32 /\ Early(v, pseudo) + Total(odd) < W16

(* This is so for every segment. *)
LEMMA SegmentVerifies ==
  ASSUME NEW sport \in U16, NEW dport \in U16, NEW rest \in U16, NEW data \in Data(U16),
         NEW odd \in Odd(0 .. ByteBase - 1), NEW pseudo \in Nat,
         pseudo < 2 * W32 + 2 * W16
  PROVE  SegmentIsGood(sport, dport, rest, data, odd, pseudo)
<1> DEFINE v == SegmentWords(sport, dport, rest, 0, data)
           c == checksum(v, odd, pseudo % W32)
           w == SegmentWords(sport, dport, rest, c, data)
<1>0. /\ W16 \in Nat \ {0} /\ 9 <= W16 /\ W32 \in Nat /\ 9 * W16 <= W32 /\ 0 \in U16
      /\ ByteBase \in Nat /\ ByteBase < W16
  BY Widths DEF U16
<1>1. /\ v \in Seq(U16) /\ v \in Seq(Nat) /\ Len(v) = 4 + Len(data)
      /\ Len(data) \in 0 .. MaxWords /\ v[4] = 0
      /\ \A k \in 1 .. Len(v) :
           k # 4 => v[k] = OtherWord(sport, dport, rest, data, k)
  <2>1. IsSegment(v, sport, dport, rest, 0, data)
    BY <1>0, SegmentFacts
  <2> QED
    BY <2>1 DEF IsSegment
<1> HIDE DEF v
<1>2. Total(v) \in Nat /\ 2 * Total(v) < W32
  BY <1>1, SegmentSum
<1>3. pseudo + Total(v) < 3 * W32
  BY <1>0, <1>2
<1>4. c = checksum(v, odd, pseudo)
  BY <1>2, ChecksumCut
<1> HIDE DEF c
<1>5. /\ Early(v, pseudo) \in U16 /\ Total(odd) \in Nat /\ Total(odd) < ByteBase
      /\ c = (W16 - 1) - (IF Early(v, pseudo) + Total(odd) >= W16
                          THEN Early(v, pseudo) + Total(odd) - W16
                          ELSE Early(v, pseudo) + Total(odd))
  BY <1>1, <1>4, ChecksumValue, Zenon
<1>6. c \in U16 /\ c \in Nat
  BY <1>0, <1>5 DEF U16
<1>7. /\ w \in Seq(Nat) /\ Len(w) = Len(v) /\ w[4] = c
      /\ \A k \in 1 .. Len(w) :
           k # 4 => w[k] = OtherWord(sport, dport, rest, data, k)
  <2>1. IsSegment(w, sport, dport, rest, c, data)
    BY <1>6, SegmentFacts
  <2> HIDE DEF w
  <2> QED
    BY <1>1, <2>1 DEF IsSegment
<1> HIDE DEF w
<1>8. Total(w) = Total(v) + c
  <2>1. 4 \in 1 .. Len(v) /\ w[4] = v[4] + c
    <3>1. Len(data) \in Nat
      BY <1>1, ChecksumAssumption
    <3>2. Len(v) \in Nat /\ Len(v) >= 4
      BY <1>1, <3>1
    <3>3. v[4] = 0 /\ w[4] = c
      BY <1>1, <1>7
    <3> QED
      BY <1>6, <3>2, <3>3
  <2>2. \A k \in 1 .. Len(v) : k # 4 => w[k] = v[k]
    BY <1>1, <1>7
  <2> QED
    BY <1>1, <1>6, <1>7, <2>1, <2>2, TotalOfMore
<1>9. Verifies(pseudo + Total(v) + c + Total(odd))
        <=> pseudo + Total(v) < W32 /\ Early(v, pseudo) + Total(odd) < W16
  BY <1>1, <1>3, <1>4, SumVerifies
<1>10. pseudo + Total(w) + Total(odd) = pseudo + Total(v) + c + Total(odd)
  BY <1>2, <1>5, <1>6, <1>8
<1> QED
  BY <1>6, <1>9, <1>10 DEF w, v, c, SegmentIsGood

-----------------------------------------------------------------------------
(* The bytes of a u16, swapped, are a u16. *)
LEMMA HtonsWidth ==
  ASSUME NEW u \in U16
  PROVE  htons(u) \in U16
<1>0. ByteBase \in Nat \ {0} /\ W16 = ByteBase * ByteBase /\ u \in Nat /\ u < W16 /\ W16 \in Nat
  BY Widths, ChecksumAssumption DEF W16, U16
<1> DEFINE x == u \div ByteBase
           y == u % ByteBase
<1>1. x \in Nat /\ y \in 0 .. ByteBase - 1 /\ u = x * ByteBase + y
  BY <1>0, Division
<1>2. htons(u) = y * ByteBase + x
  BY DEF htons
<1> HIDE DEF x, y
<1>3. x * ByteBase \in Nat /\ x * ByteBase < ByteBase * ByteBase
  BY <1>0, <1>1
<1>4. \A k, l \in Nat : k * l < l * l => k < l
  OBVIOUS
<1>5. x < ByteBase
  BY <1>0, <1>1, <1>3, <1>4
<1>6. \A k, l, b \in Nat : k < b /\ l < b => k * b + l < b * b /\ k * b + l \in Nat
  <2> SUFFICES ASSUME NEW k \in Nat, NEW l \in Nat, NEW b \in Nat, k < b, l < b
               PROVE  k * b + l < b * b /\ k * b + l \in Nat
    OBVIOUS
  <2>1. \A m, n \in Nat : m <= n => m * b <= n * b
    OBVIOUS
  <2>2. b - 1 \in Nat /\ k * b <= (b - 1) * b /\ (b - 1) * b = b * b - b
    BY <2>1
  <2>3. k * b \in Nat /\ b * b \in Nat
    OBVIOUS
  <2> QED
    BY <2>2, <2>3
<1>7. y * ByteBase + x < W16 /\ y * ByteBase + x \in Nat
  BY <1>0, <1>1, <1>5, <1>6
<1> QED
  BY <1>0, <1>2, <1>7 DEF U16

(* The fields of the packet, in every state. *)
LEMMA Fields ==
  ASSUME TypeOK
  PROVE  /\ ip.rest \in U16 /\ ip.checksum \in U16 /\ ip.saddr \in U32 /\ ip.daddr \in U32
         /\ tcp.sport \in U16 /\ tcp.dport \in U16 /\ tcp.rest \in U16
         /\ tcp.checksum \in U16 /\ tcp.data \in Data(U16)
         /\ tcp.odd \in Odd(0 .. ByteBase - 1)
  BY DEF TypeOK

(* The sum of the pseudo header before it is cut to a u32. *)
LEMMA PseudoBound ==
  ASSUME TypeOK
  PROVE  Pseudo \in Nat /\ Pseudo < 2 * W32 + 2 * W16
<1>0. /\ W16 \in Nat /\ W32 \in Nat /\ 9 <= W16 /\ ByteBase < W16 /\ ByteBase \in Nat
      /\ MaxWords \in Nat /\ 2 * (4 + MaxWords) + 1 < W16 /\ 0 \in U16
      /\ IPPROTO_TCP \in 0 .. ByteBase - 1
  BY Widths, ChecksumAssumption DEF U16
<1>1. /\ ip.saddr \in Nat /\ ip.daddr \in Nat /\ ip.saddr < W32 /\ ip.daddr < W32
  BY <1>0, Fields DEF U32
<1>2. htons(IPPROTO_TCP) \in Nat /\ htons(IPPROTO_TCP) < W16
  <2>1. IPPROTO_TCP \in U16
    BY <1>0 DEF U16
  <2>2. htons(IPPROTO_TCP) \in U16
    BY <2>1, HtonsWidth
  <2> QED
    BY <1>0, <2>2 DEF U16
<1>3. htons(tcp_len) \in Nat /\ htons(tcp_len) < W16
  <2>1. Len(TcpWords(0)) = 4 + Len(tcp.data) /\ Len(tcp.data) \in 0 .. MaxWords
    <3>1. TcpWords(0) = SegmentWords(tcp.sport, tcp.dport, tcp.rest, 0, tcp.data)
      BY DEF TcpWords, SegmentWords
    <3>2. IsSegment(TcpWords(0), tcp.sport, tcp.dport, tcp.rest, 0, tcp.data)
      BY <1>0, <3>1, Fields, SegmentFacts
    <3> QED
      BY <3>2 DEF IsSegment
  <2>2. Len(tcp.odd) \in {0, 1}
    <3>1. tcp.odd \in Odd(0 .. ByteBase - 1)
      BY Fields
    <3> QED
      BY <3>1 DEF Odd
  <2>3. tcp_len \in U16
    <3> DEFINE n == Len(tcp.data)
               o == Len(tcp.odd)
    <3>1. tcp_len = 2 * (4 + n) + o
      BY <2>1 DEF tcp_len
    <3>2. n \in 0 .. MaxWords /\ o \in {0, 1}
      BY <2>1, <2>2
    <3> HIDE DEF n, o
    <3>3. 2 * (4 + n) + o \in 0 .. W16 - 1
      BY <1>0, <3>2
    <3> QED
      BY <3>1, <3>3 DEF U16
  <2>4. htons(tcp_len) \in U16
    BY <2>3, HtonsWidth
  <2> QED
    BY <1>0, <2>4 DEF U16
<1> QED
  BY <1>0, <1>1, <1>2, <1>3 DEF Pseudo

(* What the code computes for a packet of the right type. *)
LEMMA Computed ==
  ASSUME TypeOK
  PROVE  /\ ip_checksum \in U16 /\ Verifies(Total(IpWords(ip_checksum)))
         /\ tcp_checksum \in U16
         /\ Verifies(Pseudo + Total(TcpWords(tcp_checksum)) + Total(tcp.odd))
              <=> ~SumWraps /\ ~OddByteWraps
<1>1. ip_checksum \in U16 /\ Verifies(Total(IpWords(ip_checksum)))
  <2>1. \A c : IpWords(c) = HeaderWords(ip.rest, c, ip.saddr, ip.daddr)
    BY DEF IpWords, HeaderWords
  <2>2. ip_checksum = checksum(HeaderWords(ip.rest, 0, ip.saddr, ip.daddr), << >>, 0)
    BY <2>1 DEF ip_checksum
  <2> QED
    BY <2>1, <2>2, Fields, HeaderVerifies
<1>2. \A c : TcpWords(c) = SegmentWords(tcp.sport, tcp.dport, tcp.rest, c, tcp.data)
  BY DEF TcpWords, SegmentWords
<1> DEFINE v == TcpWords(0)
<1>3. /\ tcp_checksum \in U16
      /\ Verifies(Pseudo + Total(TcpWords(tcp_checksum)) + Total(tcp.odd))
           <=> Pseudo + Total(v) < W32 /\ Early(v, Pseudo) + Total(tcp.odd) < W16
  <2>1. SegmentIsGood(tcp.sport, tcp.dport, tcp.rest, tcp.data, tcp.odd, Pseudo)
    BY Fields, PseudoBound, SegmentVerifies
  <2>2. tcp_checksum = checksum(v, tcp.odd, Pseudo % W32)
    BY DEF tcp_checksum
  <2> QED
    BY <1>2, <2>1, <2>2 DEF SegmentIsGood
<1>4. /\ Total(v) \in Nat /\ Total(tcp.odd) \in Nat /\ Early(v, Pseudo) \in Nat
      /\ W16 \in Nat /\ W32 \in Nat /\ Pseudo \in Nat
  <2>1. 0 \in U16 /\ W16 \in Nat /\ W32 \in Nat
    BY Widths DEF U16
  <2>2. IsSegment(v, tcp.sport, tcp.dport, tcp.rest, 0, tcp.data)
    BY <1>2, <2>1, Fields, SegmentFacts
  <2>3. v \in Seq(U16)
    BY <2>2 DEF IsSegment
  <2> HIDE DEF v
  <2>4. Early(v, Pseudo) \in U16 /\ Total(v) \in Nat /\ Total(tcp.odd) \in Nat
    BY <2>3, Fields, PseudoBound, ChecksumValue
  <2> QED
    BY <2>1, <2>4, PseudoBound DEF U16
<1>5. SumWraps <=> ~ (Pseudo + Total(v) < W32)
  BY <1>4 DEF SumWraps
<1>6. OddByteWraps <=> ~ (Early(v, Pseudo) + Total(tcp.odd) < W16)
  BY <1>4 DEF OddByteWraps, Early
<1> QED
  BY <1>1, <1>3, <1>5, <1>6

-----------------------------------------------------------------------------
(* Larger sets of words and bytes have more payloads and odd bytes. *)
LEMMA Payloads ==
  /\ Data(Word) \subseteq Data(U16)
  /\ Odd(LastByte) \subseteq Odd(0 .. ByteBase - 1)
<1>1. Word \subseteq U16 /\ LastByte \subseteq 0 .. ByteBase - 1
  BY ChecksumAssumption
<1>2. \A n \in 0 .. MaxWords : [1 .. n -> Word] \subseteq [1 .. n -> U16]
  BY <1>1
<1> QED
  BY <1>1, <1>2 DEF Data, Odd

(* Every packet keeps the types of the headers, and the checksums that are *)
(* written into it fit their fields.                                       *)
LEMMA TypeStep == TypeOK /\ [Next]_vars => TypeOK'
<1> SUFFICES ASSUME TypeOK, [Next]_vars
             PROVE  TypeOK'
  OBVIOUS
<1>0. Addr \subseteq U32 /\ Word \subseteq U16
  BY ChecksumAssumption
<1>1. ASSUME NEW addr \in Addr, NEW port \in Word,
             TranslateIn(addr, port) \/ TranslateOut(addr, port)
      PROVE  TypeOK'
  <2>1. addr \in U32 /\ port \in U16
    BY <1>0
  <2> QED
    BY <1>1, <2>1 DEF TypeOK, TranslateIn, TranslateOut
<1>2. CASE IpChecksum
  BY <1>2, Computed DEF TypeOK, IpChecksum
<1>3. CASE TcpChecksum
  BY <1>3, Computed DEF TypeOK, TcpChecksum
<1>4. CASE NextHop
  BY <1>4 DEF TypeOK, NextHop
<1>5. CASE UNCHANGED vars
  BY <1>5 DEF TypeOK, vars
<1> QED
  BY <1>1, <1>2, <1>3, <1>4, <1>5 DEF Next

(* The headers of a packet have the widths of the code's types in every    *)
(* state: no sum that checksum returns is wider than its u16.              *)
THEOREM ChecksumTypeCorrect == Spec => []TypeOK
<1>1. Init => TypeOK
  <2>1. 0 \in U16 /\ 1 \in U16 /\ W16 - 2 \in U16
    BY Widths DEF U16
  <2>2. Addr \subseteq U32 /\ Word \subseteq U16
    BY ChecksumAssumption
  <2> QED
    BY <2>1, <2>2, Payloads DEF Init, TypeOK
<1> QED
  BY <1>1, TypeStep, PTL DEF Spec

(* From the step that computes it until the packet is translated again,    *)
(* the IP checksum is good.                                                *)
IpGood == pc \in {"tcp_checksum", "sent"} => Verifies(Total(IpWords(ip.checksum)))

(* Only the four steps of do_translation change where it is. *)
LEMMA IpGoodStep == TypeOK /\ IpGood /\ [Next]_vars => IpGood'
<1> SUFFICES ASSUME TypeOK, IpGood, [Next]_vars
             PROVE  IpGood'
  OBVIOUS
<1>1. CASE IpChecksum
  <2>1. ip'.checksum = ip_checksum
    BY <1>1 DEF IpChecksum, TypeOK
  <2>2. ip'.rest = ip.rest /\ ip'.saddr = ip.saddr /\ ip'.daddr = ip.daddr
    BY <1>1 DEF IpChecksum, TypeOK
  <2>3. IpWords(ip.checksum)' = IpWords(ip_checksum)
    BY <2>1, <2>2 DEF IpWords
  <2>4. Verifies(Total(IpWords(ip_checksum)))
    BY Computed
  <2>5. Verifies(Total(IpWords(ip.checksum)))'
    BY <2>3, <2>4 DEF Verifies, Total
  <2> QED
    BY <2>5 DEF IpGood
<1>2. CASE TcpChecksum
  BY <1>2 DEF TcpChecksum, IpGood, IpWords, Verifies, Total
<1>3. CASE UNCHANGED vars
  BY <1>3 DEF vars, IpGood, IpWords, Verifies, Total
<1>4. CASE pc' \notin {"tcp_checksum", "sent"}
  BY <1>4 DEF IpGood
<1> QED
  BY <1>1, <1>2, <1>3, <1>4 DEF Next, TranslateIn, TranslateOut, NextHop

(* Every packet that leaves the translator has a good IP checksum,         *)
(* whatever its addresses and whatever checksum it came with: five header  *)
(* words cannot overflow the u32 sum, and two foldings take every carry.   *)
THEOREM IpChecksumsVerify == Spec => []IpChecksumVerifies
<1>1. Init => IpGood
  BY DEF Init, IpGood
<1>2. IpGood => IpChecksumVerifies
  BY DEF IpGood, IpChecksumVerifies
<1> QED
  BY <1>1, <1>2, IpGoodStep, ChecksumTypeCorrect, PTL DEF Spec

(* The step that writes the TCP checksum leaves all that was summed up. *)
LEMMA TcpChecksumStep ==
  ASSUME TypeOK, TcpChecksum
  PROVE  TcpChecksumVerifies'
<1>1. /\ tcp'.sport = tcp.sport /\ tcp'.dport = tcp.dport /\ tcp'.rest = tcp.rest
      /\ tcp'.data = tcp.data /\ tcp'.odd = tcp.odd /\ tcp'.checksum = tcp_checksum
      /\ ip' = ip
  BY DEF TcpChecksum, TypeOK
<1>2. TcpWords(tcp.checksum)' = TcpWords(tcp_checksum) /\ TcpWords(0)' = TcpWords(0)
  BY <1>1 DEF TcpWords
<1>3. Pseudo' = Pseudo
  BY <1>1, <1>2 DEF Pseudo, tcp_len, htons
<1>4. /\ Total(TcpWords(tcp.checksum))' = Total(TcpWords(tcp_checksum))
      /\ Total(TcpWords(0))' = Total(TcpWords(0)) /\ Total(tcp.odd)' = Total(tcp.odd)
  BY <1>1, <1>2 DEF Total
<1>5. SumWraps' = SumWraps /\ OddByteWraps' = OddByteWraps
  BY <1>3, <1>4 DEF SumWraps, OddByteWraps, Folded
<1>6. Verifies(Pseudo + Total(TcpWords(tcp.checksum)) + Total(tcp.odd))'
        = Verifies(Pseudo + Total(TcpWords(tcp_checksum)) + Total(tcp.odd))
  BY <1>3, <1>4 DEF Verifies
<1> QED
  BY <1>5, <1>6, Computed DEF TcpChecksumVerifies

(* A packet leaves with a good TCP checksum exactly if no carry was lost.  *)
(* A carry out of the u32 sum or of the odd byte is worth one, and there   *)
(* are at most three of them, so they never cancel out: the receiver drops *)
(* every such packet.                                                      *)
THEOREM TcpChecksumsVerify == Spec => []TcpChecksumVerifies
<1>1. Init => TcpChecksumVerifies
  BY DEF Init, TcpChecksumVerifies
<1>2. TypeOK /\ TcpChecksumVerifies /\ [Next]_vars => TcpChecksumVerifies'
  <2> SUFFICES ASSUME TypeOK, TcpChecksumVerifies, [Next]_vars
               PROVE  TcpChecksumVerifies'
    OBVIOUS
  <2>1. CASE TcpChecksum
    BY <2>1, TcpChecksumStep
  <2>2. CASE UNCHANGED vars
    <3>1. pc' = pc /\ ip' = ip /\ tcp' = tcp
      BY <2>2 DEF vars
    <3>2. TcpWords(tcp.checksum)' = TcpWords(tcp.checksum) /\ TcpWords(0)' = TcpWords(0)
      BY <3>1 DEF TcpWords
    <3>3. Pseudo' = Pseudo
      BY <3>1, <3>2 DEF Pseudo, tcp_len, htons
    <3>4. /\ Total(TcpWords(tcp.checksum))' = Total(TcpWords(tcp.checksum))
          /\ Total(TcpWords(0))' = Total(TcpWords(0)) /\ Total(tcp.odd)' = Total(tcp.odd)
      BY <3>1, <3>2 DEF Total
    <3>5. SumWraps' = SumWraps /\ OddByteWraps' = OddByteWraps
      BY <3>3, <3>4 DEF SumWraps, OddByteWraps, Folded
    <3>6. Verifies(Pseudo + Total(TcpWords(tcp.checksum)) + Total(tcp.odd))'
            = Verifies(Pseudo + Total(TcpWords(tcp.checksum)) + Total(tcp.odd))
      BY <3>3, <3>4 DEF Verifies
    <3> QED
      BY <3>1, <3>5, <3>6 DEF TcpChecksumVerifies
  <2>3. CASE pc' # "sent"
    BY <2>3 DEF TcpChecksumVerifies
  <2> QED
    BY <2>1, <2>2, <2>3 DEF Next, TranslateIn, TranslateOut, IpChecksum, NextHop
<1> QED
  BY <1>1, <1>2, ChecksumTypeCorrect, PTL DEF Spec
-----------------------------------------------------------------------------
(* The promise itself, for any addresses, ports and bindings. *)
CONSTANTS external_ip, None, Spare
VARIABLES bind, owner, rcvd, sent

B == INSTANCE NatBindings

(* A binding that is made leaves the others alone and leads back to the    *)
(* host it is made for.                                                    *)
LEMMA BindReturns ==
  ASSUME B!RepliesReturn, NEW port, B!Assign(port)
  PROVE  B!RepliesReturn'
<1>1. /\ bind' = B!Extend(bind, rcvd.src, port)
      /\ owner' = B!Extend(owner, port, rcvd.src)
      /\ port \notin DOMAIN owner \/ port = Spare
  BY DEF B!Assign
<1>2. /\ DOMAIN bind' = DOMAIN bind \cup {rcvd.src}
      /\ \A e \in DOMAIN bind : bind'[e] = bind[e]
      /\ rcvd.src \notin DOMAIN bind => bind'[rcvd.src] = port
  BY <1>1 DEF B!Extend
<1>3. /\ DOMAIN owner' = DOMAIN owner \cup {port}
      /\ \A p \in DOMAIN owner : owner'[p] = owner[p]
      /\ port \notin DOMAIN owner => owner'[port] = rcvd.src
  BY <1>1 DEF B!Extend
<1>4. SUFFICES ASSUME NEW e \in DOMAIN bind'
               PROVE  /\ bind'[e] \in DOMAIN owner'
                      /\ bind'[e] # Spare => owner'[bind'[e]] = e
  BY DEF B!RepliesReturn
<1>5. CASE e \in DOMAIN bind
  BY <1>2, <1>3, <1>5 DEF B!RepliesReturn
<1>6. CASE e \notin DOMAIN bind
  BY <1>1, <1>2, <1>3, <1>6
<1> QED
  BY <1>5, <1>6

(* The reply to a packet sent under a port comes back to the host that     *)
(* sent it, for any number of hosts, ports and packets, whatever becomes   *)
(* of the packets that make the bindings.                                  *)
THEOREM RepliesAlwaysReturn == B!KeepSpec => []B!RepliesReturn
<1>1. B!Init => B!RepliesReturn
  BY DEF B!Init, B!RepliesReturn
<1>2. B!RepliesReturn /\ [B!KeepNext]_B!vars => B!RepliesReturn'
  <2> SUFFICES ASSUME B!RepliesReturn, [B!KeepNext]_B!vars
               PROVE  B!RepliesReturn'
    OBVIOUS
  <2>1. CASE UNCHANGED <<bind, owner>>
    BY <2>1 DEF B!RepliesReturn
  <2>2. CASE \E port \in DOMAIN owner' : B!Assign(port)
    BY <2>2, BindReturns
  <2> QED
    BY <2>1, <2>2 DEF B!KeepNext, B!Known, B!Arrive, B!Answer, B!Inbound, B!Outbound, B!vars
<1> QED
  BY <1>1, <1>2, PTL DEF B!KeepSpec

(* The whole promise includes that of the bindings: a version that also    *)
(* translates the packets that make them has the theorem above too.        *)
LEMMA PromiseKeepsBindings == B!Spec => B!KeepSpec
<1>1. [B!Next]_B!vars => [B!KeepNext]_B!vars
  BY DEF B!Next, B!KeepNext, B!Bind
<1> QED
  BY <1>1, PTL DEF B!Spec, B!KeepSpec
=============================================================================
