-------------------------------- MODULE Wire --------------------------------
(***************************************************************************)
(* How a router LSA and the LS update that carries it look on the wire:    *)
(* toRouterLSA and the constructor that reads it back (Packets.h), the     *)
(* frame that sendPacket puts around it, and the two checksums             *)
(* (create_osi_cksum, inet_cksum).                                         *)
(*                                                                         *)
(* A packet is a sequence of bytes.  A 32-bit word is the sequence of its  *)
(* four bytes in network order, so that htonl and ntohl are the identity   *)
(* on it; a 16-bit word is a number.                                       *)
(***************************************************************************)
EXTENDS Integers, Sequences, SequencesExt

Byte == 0..255
Word16 == {n \in Nat : n < 256 * 256}
Word32 == {w \in Seq(Byte) : Len(w) = 4}

Net16(n) == <<n \div 256, n % 256>>
Net32(n) == <<0, 0>> \o Net16(n)
Zero32 == <<0, 0, 0, 0>>

\* The words at offset k of d.
Host16(d, k) == 256 * d[k + 1] + d[k + 2]
Host32(d, k) == SubSeq(d, k + 1, k + 4)

\* d with the 16-bit word n at offset k.
Patched(d, k, n) == [d EXCEPT ![k + 1] = n \div 256, ![k + 2] = n % 256]

-----------------------------------------------------------------------------
(* The LSA's checksum. *)

\* C's remainder, which has the sign of the dividend.
CRem(a, b) == IF a >= 0 THEN a % b ELSE -((-a) % b)

\* The two sums of the loop: of the bytes, and of the sums so far.
Sums(d) ==
  LET s[k \in 0..Len(d)] ==
        IF k = 0 THEN [c0 |-> 0, c1 |-> 0]
        ELSE LET r == s[k - 1] IN [c0 |-> r.c0 + d[k], c1 |-> r.c1 + r.c0 + d[k]]
  IN  s[Len(d)]

\* The contents of the checksum field are ignored.
SumsBefore(d, offset) == Sums(Patched(d, offset, 0))

\* Mutant of RawX: the first check byte is computed for the place of the second.
RawXNext(left, c0, c1) == left * c0 - c1

\* The two check bytes before they are fitted into a byte each; left is the
\* number of bytes from the first of them to the end.
RawX(left, c0, c1) == left * c0 - c0 - c1

RawY(left, c0, c1) == c1 - left * c0 - 1

\* One is taken from a negative x (the low byte of a negative number is one more
\* than the number modulo 255) and one added to a y that is not negative (it has
\* been subtracted already); a zero becomes 255.
Fitted(n) == (IF CRem(n, 255) = 0 THEN 255 ELSE CRem(n, 255)) % 256
CheckX(left, c0, c1) ==
  LET x == RawX(left, c0, c1) IN Fitted(IF x < 0 THEN x - 1 ELSE x)
CheckY(left, c0, c1) ==
  LET y == RawY(left, c0, c1) IN Fitted(IF y >= 0 THEN y + 1 ELSE y)

create_osi_cksum(d, offset) ==
  LET s == SumsBefore(d, offset)
      c0 == s.c0 % 255
      c1 == s.c1 % 255
      left == Len(d) - offset
  IN  256 * CheckX(left, c0, c1) + CheckY(left, c0, c1)

\* What the receiver of an LSA computes: both sums over all bytes are 0.
OsiVerifies(d) == LET s == Sums(d) IN s.c0 % 255 = 0 /\ s.c1 % 255 = 0

\* The numbers for which a check byte is 255 where 1 would be right: the one
\* that was taken away has made it a multiple of 255.
SlipsX(left, c0, c1) == RawX(left, c0, c1) < 0 /\ (RawX(left, c0, c1) - 1) % 255 = 0
SlipsY(left, c0, c1) == RawY(left, c0, c1) < 0 /\ RawY(left, c0, c1) % 255 = 0

Slips(d, offset) ==
  LET s == SumsBefore(d, offset)
      left == Len(d) - offset
  IN  SlipsX(left, s.c0 % 255, s.c1 % 255) \/ SlipsY(left, s.c0 % 255, s.c1 % 255)

-----------------------------------------------------------------------------
(* The packet's checksum. *)

\* How many 16-bit words there are.
Words == 65536

\* The sum of the 16-bit words; every packet has an even length.
WordSum(d) ==
  LET s[k \in 0..(Len(d) \div 2)] ==
        IF k = 0 THEN 0 ELSE s[k - 1] + Host16(d, 2 * k - 2)
  IN  s[Len(d) \div 2]

\* The carries are added to the low word, twice.
Carried(sum) ==
  LET once == (sum \div Words) + (sum % Words) IN (once + (once \div Words)) % Words

\* The one's complement of what is left of a sum.
Complement(sum) == Words - 1 - Carried(sum)

inet_cksum(d) == Complement(WordSum(d))

\* What the receiver of a packet computes: the one's complement sum of all words,
\* checksum included, is 0.
InetVerifies(d) == WordSum(d) % (Words - 1) = 0

-----------------------------------------------------------------------------
(* Router LSAs. *)

HeaderLen == 24
LsaHeaderLen == 20
LinkLen == 12

\* Mutant of LinkBytes: the two addresses are swapped.
LinkBytesSwapped(k) == k.linkData \o k.linkId \o <<k.type, 0>> \o Net16(k.metric)

\* Bytes of a link: RouterLSALink.
LinkBytes(k) == k.linkId \o k.linkData \o <<k.type, 0>> \o Net16(k.metric)

\* Mutant of ReadLink: the metric is read where the type is.
ReadLinkShort(d, k) ==
  [linkId |-> Host32(d, k), linkData |-> Host32(d, k + 4), type |-> d[k + 9], metric |-> Host16(d, k + 8)]

ReadLink(d, k) ==
  [linkId |-> Host32(d, k), linkData |-> Host32(d, k + 4), type |-> d[k + 9], metric |-> Host16(d, k + 10)]

\* refresh: the number of links and the length are those of the list.
LsaLen(lsa) == LsaHeaderLen + 4 + LinkLen * Len(lsa.links)

\* The LSA without its checksum.  Age, options and sequence number are the
\* header constructor's; nothing changes them.
RawLsa(lsa) ==
  <<0, 100, 2, 1>> \o lsa.state_id \o lsa.ad_router \o <<128, 0, 0, 0>> \o <<0, 0>> \o Net16(LsaLen(lsa))
  \o <<0, 0>> \o Net16(Len(lsa.links))
  \o FlattenSeq([k \in 1..Len(lsa.links) |-> LinkBytes(lsa.links[k])])

\* The LSA checksum leaves out the age, the first two bytes.
Ageless(d) == SubSeq(d, 3, Len(d))

toRouterLSA(lsa) ==
  LET d == RawLsa(lsa) IN Patched(d, 16, create_osi_cksum(Ageless(d), 14))

\* RouterLSA(data): the receiver's copy.
RouterLSA(d) ==
  [state_id |-> Host32(d, 4), ad_router |-> Host32(d, 8),
   links |-> [k \in 1..Host16(d, LsaHeaderLen + 2) |-> ReadLink(d, LsaHeaderLen + 4 + LinkLen * (k - 1))]]

-----------------------------------------------------------------------------
(* Packets. *)

\* sendPacket: the header, with the checksum over all of it.
sendPacket(body, type, routerId) ==
  LET d == <<2, type>> \o Net16(HeaderLen + Len(body)) \o routerId \o Zero32
           \o <<0, 0, 0, 0>> \o Zero32 \o Zero32 \o body
  IN  Patched(d, 12, inet_cksum(d))

\* The answer to an LS request for one router LSA.
LSUpdatePacket(lsa, routerId) == sendPacket(Net32(1) \o toRouterLSA(lsa), 4, routerId)

\* The LSA in it, as the handler of LS updates finds it.
LsaOf(packet) == SubSeq(packet, HeaderLen + 5, Len(packet))
=============================================================================
