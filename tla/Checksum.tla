------------------------------ MODULE Checksum ------------------------------
(***************************************************************************)
(* The checksums that do_translation recalculates after it has rewritten a *)
(* packet (nat_stack/include/checksum.h, ip.h and tcp.h), in the order and *)
(* with the widths of the code, and what the receiver makes of them.       *)
(*                                                                         *)
(* A byte has ByteBase values (256 in the code), a u16 ByteBase^2 and a    *)
(* u32 ByteBase^4.  The header words that no translation changes are one   *)
(* word, rest.                                                             *)
(***************************************************************************)
EXTENDS Integers, Sequences

CONSTANTS
  ByteBase,
  Addr,        \* the u32 addresses considered
  Word,        \* the u16 values of the ports and the other words
  MaxWords,    \* bound on the words of the payload of a segment
  LastByte,    \* the values of the odd byte that may follow them
  IPPROTO_TCP

W16 == ByteBase * ByteBase
W32 == W16 * W16
U16 == 0 .. W16 - 1
U32 == 0 .. W32 - 1

ASSUME ChecksumAssumption ==
  /\ ByteBase \in Nat \ {0, 1, 2}
  /\ Addr \subseteq U32 /\ Word \subseteq U16 /\ MaxWords \in Nat
  /\ LastByte \cup {IPPROTO_TCP} \subseteq 0 .. ByteBase - 1
  /\ 2 * (4 + MaxWords) + 1 < W16        \* the length of a segment is a u16

VARIABLES
  pc,          \* where do_translation is
  ip,          \* the IP header
  tcp          \* the segment; odd is its last byte, or << >>

vars == <<pc, ip, tcp>>

(* The payloads over a set of words, and the odd bytes or their absence. *)
Data(words) == UNION {[1 .. n -> words] : n \in 0 .. MaxWords}
Odd(bytes) == {<<b>> : b \in bytes} \cup {<< >>}

htons(u) == (u % ByteBase) * ByteBase + (u \div ByteBase)
Total(words) ==
  LET Sum[k \in 0 .. Len(words)] == IF k = 0 THEN 0 ELSE Sum[k - 1] + words[k]
  IN  Sum[Len(words)]

(* The memory of the headers, read as words, with c for the checksum. *)
IpWords(c) == <<ip.rest, c, ip.saddr % W16, ip.saddr \div W16,
                ip.daddr % W16, ip.daddr \div W16>>
TcpWords(c) == <<tcp.sport, tcp.dport, tcp.rest, c>> \o tcp.data
-----------------------------------------------------------------------------
(* Variant: the carries are added once only. *)
FoldOnce(sum) == (sum \div W16) + (sum % W16)

Folded(sum) ==
  LET s == (sum \div W16) + (sum % W16) IN s + (s \div W16)

(* Variant: the result is not cut to a u16. *)
Wide(sum) == W32 - 1 - sum

(* (u16) ~sum *)
Complement(sum) == W16 - 1 - (sum % W16)

(* The odd byte is added last. *)
checksum(words, odd, sum) ==
  Complement((Folded((sum + Total(words)) % W32) + Total(odd)) % W32)

(* Variant: the checksum that the packet came with is not set aside. *)
OldIncluded == checksum(IpWords(ip.checksum), << >>, 0)

ip_checksum == checksum(IpWords(0), << >>, 0)

tcp_len == 2 * Len(TcpWords(0)) + Len(tcp.odd)
Pseudo == ip.saddr + ip.daddr + htons(IPPROTO_TCP) + htons(tcp_len)

tcp_checksum == checksum(TcpWords(0), tcp.odd, Pseudo % W32)
-----------------------------------------------------------------------------
(* Any packet, with whatever checksums it came with. *)
Init ==
  /\ pc = "translate"
  /\ ip \in [rest : Word, checksum : {0, W16 - 2}, saddr : Addr, daddr : Addr]
  /\ tcp \in [sport : Word, dport : Word, rest : Word, checksum : {0, 1},
              data : Data(Word), odd : Odd(LastByte)]

TranslateIn(addr, port) ==
  /\ pc = "translate"
  /\ ip' = [ip EXCEPT !.daddr = addr]
  /\ tcp' = [tcp EXCEPT !.dport = port]
  /\ pc' = "ip_checksum"

TranslateOut(addr, port) ==
  /\ pc = "translate"
  /\ ip' = [ip EXCEPT !.saddr = addr]
  /\ tcp' = [tcp EXCEPT !.sport = port]
  /\ pc' = "ip_checksum"

IpChecksum ==
  /\ pc = "ip_checksum"
  /\ ip' = [ip EXCEPT !.checksum = ip_checksum]
  /\ pc' = "tcp_checksum"
  /\ UNCHANGED tcp

TcpChecksum ==
  /\ pc = "tcp_checksum"
  /\ tcp' = [tcp EXCEPT !.checksum = tcp_checksum]
  /\ pc' = "sent"
  /\ UNCHANGED ip

(* The packet passes a translator again. *)
NextHop ==
  /\ pc = "sent"
  /\ pc' = "translate"
  /\ UNCHANGED <<ip, tcp>>

Next ==
  \/ \E addr \in Addr, port \in Word :
       TranslateIn(addr, port) \/ TranslateOut(addr, port)
  \/ IpChecksum \/ TcpChecksum \/ NextHop

Spec == Init /\ [][Next]_vars
-----------------------------------------------------------------------------
TypeOK ==
  /\ pc \in {"translate", "ip_checksum", "tcp_checksum", "sent"}
  /\ ip \in [rest : U16, checksum : U16, saddr : U32, daddr : U32]
  /\ tcp \in [sport : U16, dport : U16, rest : U16, checksum : U16,
              data : Data(U16), odd : Odd(0 .. ByteBase - 1)]

(* The test of a receiver: the one's complement sum of everything that was *)
(* summed up and of the checksum is zero.                                  *)
Verifies(total) == total % (W16 - 1) = 0

(* Every packet that leaves has a good IP checksum, whatever its addresses *)
(* and whatever checksum it came with.                                     *)
IpChecksumVerifies == pc = "sent" => Verifies(Total(IpWords(ip.checksum)))

(* The two additions of the code whose carry is lost: those to the u32 sum *)
(* (the addresses alone may pass 2^32) and the odd byte's, which is added  *)
(* when the carries have been folded already.                              *)
SumWraps == Pseudo + Total(TcpWords(0)) >= W32
OddByteWraps ==
  (Folded((Pseudo + Total(TcpWords(0))) % W32) % W16) + Total(tcp.odd) >= W16

(* A packet leaves with a good TCP checksum if no carry was lost, and with *)
(* a bad one, that its receiver drops, if one was.                         *)
TcpChecksumVerifies ==
  pc = "sent" =>
    (Verifies(Pseudo + Total(TcpWords(tcp.checksum)) + Total(tcp.odd))
       <=> ~SumWraps /\ ~OddByteWraps)
=============================================================================
