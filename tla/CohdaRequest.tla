---------------------------- MODULE CohdaRequest ----------------------------
(***************************************************************************)
(* The request the host sends to the Cohda unit for an outgoing packet.    *)
(* The nodes udp_dispatcher and udp_sender_converter each have a copy of   *)
(* the function createCohdaBTP, the same in both but for what is done with *)
(* the frame: four octets are stripped from the packet and the rest goes   *)
(* behind a request header.                                                *)
(***************************************************************************)
EXTENDS CcuUdpApi

\* An outgoing udp_msgs/UdpPacket: size octets, the first two the port.
Packet == [size : Nat, port : uint16_t]

BtpHeader == 4              \* octets the callback strips from a packet
MaxUdpPayload == 65507      \* the most sendto accepts for one datagram

BodySize(p) == p.size - BtpHeader
TotalSize(p) == ReqPayload + BodySize(p)

\* Variant: MsgLen counts the packet, not what is left of it.
RequestWithHeader(p) ==
    [MsgLen |-> htons(p.size + SizeofDataReqHdr), DestPort |-> htons(p.port),
     Length |-> htons(BodySize(p)), total |-> TotalSize(p), port |-> p.port]

\* Variant: Length is as wide as the size_t it is computed from.
RequestWide(p) ==
    [MsgLen |-> htons(BodySize(p) + SizeofDataReqHdr), DestPort |-> htons(p.port),
     Length |-> BodySize(p), total |-> TotalSize(p), port |-> p.port]

\* The frame: its length fields, which are 16 bits wide, and its size.
Request(p) ==
    [MsgLen |-> htons(BodySize(p) + SizeofDataReqHdr), DestPort |-> htons(p.port),
     Length |-> htons(BodySize(p)), total |-> TotalSize(p), port |-> p.port]

Sendable(p) == TotalSize(p) <= MaxUdpPayload

---------------------------------------------------------------------------
RequestMsg ==
    [MsgLen : uint16_t, DestPort : uint16_t, Length : uint16_t,
     total : Nat, port : uint16_t]

\* The lengths in a frame are those of the frame, its port is the packet's.
IsConsistent(f) ==
    /\ ntohs(f.MsgLen) = f.total - SizeofMsgType
    /\ ntohs(f.Length) = f.total - ReqPayload
    /\ ntohs(f.DestPort) = f.port
=============================================================================
