----------------------------- MODULE CcuUdpApi -----------------------------
(***************************************************************************)
(* The wire format of the Cohda unit's UDP interface as the nodes read and *)
(* write it (include/ccu_udp_api.h): sizes of the packed structures, where *)
(* a payload starts, the width of the integer fields and the byte order.   *)
(* A datagram is a message type, then an indication header (unit to host)  *)
(* or a request header (host to unit), then the payload.                   *)
(***************************************************************************)
EXTENDS Integers

\* The integer types of the fields, and what an assignment to one keeps.
uint8_t == {n \in Nat : n < 256}
uint16_t == {n \in Nat : n < 65536}
UInt8(n) == n % 256
UInt16(n) == n % 65536

\* Exchanges the two bytes of a uint16_t. The build's hosts are little endian.
Swap16(w) == (w % 256) * 256 + (w \div 256)

htons(n) == Swap16(UInt16(n))
ntohs(w) == Swap16(w)

---------------------------------------------------------------------------
\* Sizes in octets, field by field: Version, MsgID, MsgLen.
SizeofMsgType == 1 + 1 + 2

\* The union of a GeoUnicast location and a GBC/GAC area.
SizeofDestination == 4 + 4 + 2 + 2 + 2 + 1 + 1

\* Four one-octet BTP fields, DestPort, DestInfo, the destination, four
\* one-octet security fields, AID, SSPBits, CertId and Length.
SizeofDataIndHdr == 4 * 1 + 2 + 2 + SizeofDestination + 4 * 1 + 4 + 32 + 8 + 2

\* As above with CommProfile, RepeatInterval, SecProfile and SSPLen in the
\* middle, and no CertId.
SizeofDataReqHdr == 4 * 1 + 2 + 2 + SizeofDestination + 4 * 1 + 4 + 32 + 2

\* Offsets of tUDPBTPDataIndMsg::Payload and tUDPBTPDataReqMsg::Payload.
IndPayload == SizeofMsgType + SizeofDataIndHdr
ReqPayload == SizeofMsgType + SizeofDataReqHdr
=============================================================================
