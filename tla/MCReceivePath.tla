--------------------------- MODULE MCReceivePath ---------------------------
(***************************************************************************)
(* Instances of ReceivePath for TLC. The outgoing side of the dispatcher   *)
(* and the octets of its buffer have their own runs.                       *)
(***************************************************************************)
EXTENDS ReceivePath

CONSTANTS Unit, Foreign

Api == INSTANCE CcuUdpApi

MCAddresses == {Unit, Foreign}
MCContents == Rx!AllContents

\* What the unit sends: MsgLen counts the header and the body.
Frame(from, port, type, n, content) ==
    [from |-> from, len |-> Api!IndPayload + n,
     MsgLen |-> Api!htons(Api!SizeofDataIndHdr + n),
     DestPort |-> Api!htons(port), BTPType |-> type, content |-> content]

\* Port 2009 carries two releases of the CPM. One has the longest body that
\* gets through, one an octet more, one is cut, one lacks its station data,
\* one is a roadside unit's, one comes in a BTP-A packet, one from a foreign host.
CpmTraffic == {Frame(Unit, 2009, 2, 181, "cpm"), Frame(Unit, 2009, 2, 182, "cpm"),
               Frame(Unit, 2009, 2, 200, "cpm"), Frame(Unit, 2009, 2, 100, "cpm_ts"), Frame(Unit, 2009, 2, 100, "cpm_bare"),
               Frame(Unit, 2009, 2, 100, "cpm_rsu"),
               Frame(Unit, 2009, 1, 100, "cpm"), Frame(Foreign, 2009, 2, 100, "cpm")}

\* Bodies that btp_data forwards whole, empty and cut.
Cam(n) == Frame(Unit, 2001, 2, n, "cam")
Mixed == {Cam(40), Cam(182), Cam(200), Frame(Unit, 2002, 2, 60, "denm")}

NoPackets == {}
NoOffsets == {}
=============================================================================
