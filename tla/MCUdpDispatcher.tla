-------------------------- MODULE MCUdpDispatcher --------------------------
(***************************************************************************)
(* Instances of UdpDispatcher for TLC. The datagrams are those whose       *)
(* lengths decide: bodies that fit and bodies that do not, one from a      *)
(* foreign host, one too short for a header, one larger than the buffer.   *)
(***************************************************************************)
EXTENDS UdpDispatcher

CONSTANTS Unit, Foreign, Cam

MCAddresses == {Unit, Foreign}
MCContents == {Cam}

\* A datagram with n octets of body whose header says m octets follow.
Says(from, n, m) ==
    [from |-> from, len |-> IndPayload + n, MsgLen |-> htons(m),
     DestPort |-> htons(2001), BTPType |-> 2, content |-> Cam]

\* What the unit sends: MsgLen counts the header and the body.
Frame(from, n) == Says(from, n, SizeofDataIndHdr + n)

MCDatagrams == {
    Frame(Unit, 30),        \* 74 stale octets behind the body
    Frame(Foreign, 100),    \* filtered, but read into the buffer
    Frame(Unit, 182),       \* MsgLen 256
    Says(Unit, 40, 10),     \* says less than it has
    Says(Unit, -20, 40),    \* too short for the header
    Frame(Unit, 1400)}      \* larger than the buffer

\* The last byte of the header, of each body and the byte behind it.
MCOffsets == {57, 58, 77, 78, 107, 108, 178, 260, 1023}

FewDatagrams == {Frame(Unit, 30), Frame(Unit, 1400), Says(Unit, -20, 40)}
ThreadsDatagrams == FewDatagrams \cup {Frame(Foreign, 100)}

\* Sizes: empty, shorter than the header, the header alone, a message, the
\* largest that fits a datagram, the smallest that does not, one whose MsgLen
\* wraps and one whose Length wraps.
MCPackets == [size : {0, 3, 4, 104, 65441, 65442, 65474, 65541}, port : {2001, 515}]
NoPackets == {}
=============================================================================
