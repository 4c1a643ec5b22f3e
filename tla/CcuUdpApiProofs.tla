-------------------------- MODULE CcuUdpApiProofs --------------------------
(***************************************************************************)
(* Facts about the integer fields of the UDP interface and about the       *)
(* requests the host sends, for every value the fields can have.           *)
(***************************************************************************)
EXTENDS CohdaRequest, TLAPS

LEMMA SwapBytes ==
    ASSUME NEW hi \in Nat, hi < 256, NEW lo \in Nat, lo < 256
    PROVE  Swap16(hi * 256 + lo) = lo * 256 + hi
<1>1. (hi * 256 + lo) % 256 = lo
  OBVIOUS
<1>2. (hi * 256 + lo) \div 256 = hi
  OBVIOUS
<1> QED
  BY <1>1, <1>2 DEF Swap16

\* The byte order conversions are inverse to each other on 16 bits: what one
\* side of the interface writes with htons the other reads back with ntohs.
THEOREM SwapInvolution ==
    ASSUME NEW w \in uint16_t
    PROVE  Swap16(w) \in uint16_t /\ Swap16(Swap16(w)) = w
<1>1. PICK hi, lo \in Nat : hi < 256 /\ lo < 256 /\ w = hi * 256 + lo
  <2> w \in Nat /\ w < 65536
    BY DEF uint16_t
  <2>1. w \div 256 \in Nat /\ w \div 256 < 256
    OBVIOUS
  <2>2. w % 256 \in Nat /\ w % 256 < 256
    OBVIOUS
  <2>3. w = (w \div 256) * 256 + (w % 256)
    OBVIOUS
  <2> QED
    BY <2>1, <2>2, <2>3
<1>2. Swap16(w) = lo * 256 + hi
  BY <1>1, SwapBytes
<1>3. Swap16(lo * 256 + hi) = hi * 256 + lo
  BY <1>1, SwapBytes
<1> QED
  BY <1>1, <1>2, <1>3 DEF uint16_t

LEMMA NtohsRange ==
    ASSUME NEW w \in uint16_t
    PROVE  ntohs(w) \in uint16_t
BY SwapInvolution DEF ntohs

LEMMA HtonsRange ==
    ASSUME NEW n \in Nat
    PROVE  htons(n) \in uint16_t
<1>1. UInt16(n) \in uint16_t
  BY DEF UInt16, uint16_t
<1> QED
  BY <1>1, SwapInvolution DEF htons

LEMMA NtohsHtons ==
    ASSUME NEW n \in Nat
    PROVE  ntohs(htons(n)) = UInt16(n)
<1>1. UInt16(n) \in uint16_t
  BY DEF UInt16, uint16_t
<1> QED
  BY <1>1, SwapInvolution DEF htons, ntohs

\* A message length that counts the indication header leaves room for at most
\* 181 octets of body once it is narrowed to the octet of msg_length: a longer
\* body is never covered by the octet, whatever its length.
THEOREM ShortBodies ==
    ASSUME NEW p \in Nat, UInt8(UInt16(SizeofDataIndHdr + p)) >= p
    PROVE  p <= 181
<1>1. SizeofDataIndHdr = 74
  BY DEF SizeofDataIndHdr, SizeofDestination
<1>2. UInt16(74 + p) \in Nat
  BY DEF UInt16
<1>3. p < 256
  BY <1>1, <1>2 DEF UInt8
<1>4. UInt16(74 + p) = 74 + p
  BY <1>3 DEF UInt16
<1> QED
  BY <1>1, <1>3, <1>4 DEF UInt8

\* Up to that length nothing is narrowed away.
LEMMA ShortBodiesFit ==
    ASSUME NEW p \in Nat, p <= 181
    PROVE  UInt8(UInt16(SizeofDataIndHdr + p)) >= p
<1>1. SizeofDataIndHdr = 74
  BY DEF SizeofDataIndHdr, SizeofDestination
<1>2. UInt16(74 + p) = 74 + p
  BY DEF UInt16
<1>3. UInt8(74 + p) = 74 + p
  BY DEF UInt8
<1> QED
  BY <1>1, <1>2, <1>3

---------------------------------------------------------------------------
LEMMA Sizes ==
    /\ IndPayload = 78
    /\ ReqPayload = 70
    /\ SizeofDataReqHdr = 66
    /\ SizeofMsgType = 4
BY DEF IndPayload, ReqPayload, SizeofMsgType, SizeofDataIndHdr, SizeofDataReqHdr,
       SizeofDestination

LEMMA RequestType ==
    ASSUME NEW p \in Packet, p.size >= BtpHeader
    PROVE  Request(p) \in RequestMsg
<1>1. p.size \in Nat /\ p.port \in uint16_t /\ BodySize(p) \in Nat
  BY DEF Packet, BodySize, BtpHeader
<1>2. BodySize(p) + SizeofDataReqHdr \in Nat /\ TotalSize(p) \in Nat
  BY <1>1, Sizes DEF TotalSize
<1>3. p.port \in Nat
  BY <1>1 DEF uint16_t
<1> QED
  BY <1>1, <1>2, <1>3, HtonsRange DEF Request, RequestMsg

\* A length that wraps its 16 bits belongs to a frame too long for sendto.
LEMMA SentConsistent ==
    ASSUME NEW p \in Packet, p.size >= BtpHeader, Sendable(p)
    PROVE  IsConsistent(Request(p))
<1>1. /\ p.size \in Nat /\ p.port \in Nat /\ p.port < 65536
      /\ BodySize(p) \in Nat /\ BodySize(p) + 66 \in Nat
  BY DEF Packet, BodySize, BtpHeader, uint16_t
<1>2. TotalSize(p) = 70 + BodySize(p) /\ BodySize(p) + 66 < 65536
  BY <1>1, Sizes DEF TotalSize, Sendable, MaxUdpPayload
<1>3. /\ ntohs(htons(BodySize(p) + 66)) = BodySize(p) + 66
      /\ ntohs(htons(BodySize(p))) = BodySize(p)
      /\ ntohs(htons(p.port)) = p.port
  BY <1>1, <1>2, NtohsHtons DEF UInt16
<1> QED
  BY <1>1, <1>2, <1>3, Sizes DEF Request, IsConsistent
=============================================================================
