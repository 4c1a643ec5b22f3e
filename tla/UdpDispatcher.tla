--------------------------- MODULE UdpDispatcher ---------------------------
(***************************************************************************)
(* The node udp_dispatcher (src/udp_dispatcher.cpp): one process, two      *)
(* threads. The receive thread reads the Cohda unit's datagrams into one   *)
(* buffer, which it never clears, and publishes each of them twice: as an  *)
(* indication on "udp_data" and as a raw packet on "converter/udp/in". The *)
(* main thread spins the node, whose callback frames outgoing packets and  *)
(* sends them to the unit, until the context is shut down; then it joins   *)
(* the receive thread.                                                     *)
(*                                                                         *)
(* A datagram's bytes are not modelled, only who wrote them: byte o of the *)
(* buffer is 0 while uninitialised, k once the k-th datagram covered it.   *)
(* Offsets are the bytes of the buffer that a model keeps track of.        *)
(***************************************************************************)
EXTENDS CohdaRequest, Sequences

CONSTANTS
    Addresses,      \* source addresses of datagrams
    originatingIp,  \* the address to listen to, a parameter of the node
    Contents,       \* what a datagram's body encodes
    Datagrams,      \* the datagrams that may arrive
    Offsets,        \* offsets of the receive buffer
    Packets,        \* the packets that may be published on udp/out
    MaxDatagrams,   \* bound: datagrams read from the socket
    MaxPackets      \* bound: outgoing packets handled

\* len octets, of which the header says that MsgLen follow the message type.
\* MsgLen and DestPort are the uint16_t of the structure, as the host reads
\* them. What follows the header is the body.
Datagram == [from : Addresses, len : Nat, MsgLen : uint16_t,
             DestPort : uint16_t, BTPType : uint8_t, content : Contents]

BufferSize == 1024          \* char buffer[1024]

ASSUME DispatcherAssumption ==
    /\ originatingIp \in Addresses
    /\ Datagrams \subseteq Datagram
    /\ Packets \subseteq Packet
    /\ Offsets \subseteq 0..BufferSize-1
    /\ MaxDatagrams \in Nat
    /\ MaxPackets \in Nat

VARIABLES
    main,           \* the main thread and, once "crashed", the process
    rx,             \* where the receive thread is in initialize()
    buffer,         \* who wrote each byte of the receive buffer
    received,       \* history: the datagrams read from the socket
    udp_data,       \* log of the topic "udp_data"
    udp_in,         \* log of the topic "converter/udp/in"
    udp_send_subscriber_,   \* whether the constructor got that far
    handled,        \* outgoing packets handled
    wire            \* history: frames sent to the unit

rxVars == <<rx, buffer, received, udp_data, udp_in>>
txVars == <<udp_send_subscriber_, handled, wire>>
vars == <<main, rxVars, txVars>>

---------------------------------------------------------------------------
RecvLen(d) == IF d.len < BufferSize THEN d.len ELSE BufferSize

\* Variant: whoever sends is listened to.
AcceptedFromAnyone(d) == RecvLen(d) >= IndPayload

\* The source filter and the length check.
Accepted(d) == d.from = originatingIp /\ RecvLen(d) >= IndPayload

\* Variant: one byte too many is taken for read.
OverwriteOneMore(buf, n, d) == [o \in Offsets |-> IF o <= RecvLen(d) THEN n ELSE buf[o]]

\* recvfrom copies the n-th datagram over the front of the buffer.
Overwrite(buf, n, d) == [o \in Offsets |-> IF o < RecvLen(d) THEN n ELSE buf[o]]

\* The octets publish() copies: as many as MsgLen says, from the payload on.
PayloadSize(d) == ntohs(d.MsgLen)
PayloadOffsets(d) == {o \in Offsets : o >= IndPayload /\ o < IndPayload + PayloadSize(d)}
ReadsBeyondBuffer(d) == IndPayload + PayloadSize(d) > BufferSize

\* The writers of the octets copied from the offsets S.
NotCopied == -1
Octets(buf, S) == [o \in Offsets |-> IF o \in S THEN buf[o] ELSE NotCopied]
Copied(m) == {o \in Offsets : m.src[o] # NotCopied}

\* How many leading octets of the payload are octets of the datagram's body.
OwnOctets(d) ==
    IF PayloadSize(d) < RecvLen(d) - IndPayload
    THEN PayloadSize(d) ELSE RecvLen(d) - IndPayload

\* Variant: msg_length keeps the 16 bits of MsgLen.
IndicationNotNarrowed(n, d, buf) ==
    [id |-> n, btp_type |-> d.BTPType, dest_port |-> ntohs(d.DestPort),
     msg_length |-> ntohs(d.MsgLen), size |-> PayloadSize(d),
     own |-> OwnOctets(d), src |-> Octets(buf, PayloadOffsets(d)),
     body |-> d.len - IndPayload, content |-> d.content]

\* The CohdaInd message. body and content say what the unit sent, id which
\* datagram it was, own and src whose octets the payload holds.
Indication(n, d, buf) ==
    [id |-> n, btp_type |-> d.BTPType, dest_port |-> ntohs(d.DestPort),
     msg_length |-> UInt8(ntohs(d.MsgLen)), size |-> PayloadSize(d),
     own |-> OwnOctets(d), src |-> Octets(buf, PayloadOffsets(d)),
     body |-> d.len - IndPayload, content |-> d.content]

\* Variant: the raw packet is the whole buffer.
RawOffsetsWholeBuffer(d) == Offsets

RawOffsets(d) == {o \in Offsets : o < RecvLen(d)}
RawPacket(n, d, buf) ==
    [id |-> n, size |-> RecvLen(d), src |-> Octets(buf, RawOffsets(d))]

\* A publisher whose context has been shut down drops what it is given.
Publish(log, m) == IF main = "spin" THEN Append(log, m) ELSE log

---------------------------------------------------------------------------
\* Creating the sending socket may fail; there is no subscription then.
Init ==
    /\ main = "spin"
    /\ rx = "init"
    /\ buffer = [o \in Offsets |-> 0]
    /\ received = << >>
    /\ udp_data = << >>
    /\ udp_in = << >>
    /\ udp_send_subscriber_ \in BOOLEAN
    /\ handled = 0
    /\ wire = << >>

ReceiverRuns == main \in {"spin", "join"}

\* The socket is created and bound, or the thread returns.
BindSocket ==
    /\ ReceiverRuns
    /\ rx = "init"
    /\ rx' \in {"recv", "stopped"}
    /\ UNCHANGED <<main, buffer, received, udp_data, udp_in, txVars>>

RecvError ==
    /\ ReceiverRuns
    /\ rx = "recv"
    /\ rx' = "stopped"
    /\ UNCHANGED <<main, buffer, received, udp_data, udp_in, txVars>>

\* Variant: a packet too short for the header is still published raw.
AfterRecvShortIsRaw(d) ==
    IF Accepted(d) THEN "indication"
    ELSE IF d.from = originatingIp THEN "raw" ELSE "recv"

AfterRecv(d) == IF Accepted(d) THEN "indication" ELSE "recv"

Recv(d) ==
    /\ ReceiverRuns
    /\ rx = "recv"
    /\ Len(received) < MaxDatagrams
    /\ received' = Append(received, d)
    /\ buffer' = Overwrite(buffer, Len(received) + 1, d)
    /\ rx' = AfterRecv(d)
    /\ UNCHANGED <<main, udp_data, udp_in, txVars>>

Current == received[Len(received)]

\* Variant: the loop continues after the first publication.
PublishIndicationOnly ==
    /\ ReceiverRuns
    /\ rx = "indication"
    /\ udp_data' = Publish(udp_data, Indication(Len(received), Current, buffer))
    /\ rx' = "recv"
    /\ UNCHANGED <<main, buffer, received, udp_in, txVars>>

PublishIndication ==
    /\ ReceiverRuns
    /\ rx = "indication"
    /\ udp_data' = Publish(udp_data, Indication(Len(received), Current, buffer))
    /\ rx' = "raw"
    /\ UNCHANGED <<main, buffer, received, udp_in, txVars>>

\* The copy runs past the end of the buffer on the thread's stack. What it
\* reads is arbitrary, unless the stack ends first.
CrashBeyondBuffer ==
    /\ ReceiverRuns
    /\ rx = "indication"
    /\ ReadsBeyondBuffer(Current)
    /\ main' = "crashed"
    /\ UNCHANGED <<rxVars, txVars>>

\* Variant: the publication waits for the context.
PublishRawInContext ==
    /\ main = "spin"
    /\ rx = "raw"
    /\ udp_in' = Publish(udp_in, RawPacket(Len(received), Current, buffer))
    /\ rx' = "recv"
    /\ UNCHANGED <<main, buffer, received, udp_data, txVars>>

PublishRaw ==
    /\ ReceiverRuns
    /\ rx = "raw"
    /\ udp_in' = Publish(udp_in, RawPacket(Len(received), Current, buffer))
    /\ rx' = "recv"
    /\ UNCHANGED <<main, buffer, received, udp_data, txVars>>

---------------------------------------------------------------------------
\* A packet shorter than the header makes the size of its body wrap: the
\* copy of that many octets ends the process. A failed sendto is logged.
createCohdaBTP(p) ==
    /\ main = "spin"
    /\ udp_send_subscriber_
    /\ handled < MaxPackets
    /\ handled' = handled + 1
    /\ \/ p.size < BtpHeader /\ main' = "crashed" /\ UNCHANGED wire
       \/ p.size >= BtpHeader /\ Sendable(p) /\ wire' = Append(wire, Request(p)) /\ UNCHANGED main
       \/ p.size >= BtpHeader /\ UNCHANGED <<main, wire>>
    /\ UNCHANGED <<rxVars, udp_send_subscriber_>>

\* A signal shuts the context down and spin returns.
Shutdown ==
    /\ main = "spin"
    /\ main' = "join"
    /\ UNCHANGED <<rxVars, txVars>>

JoinReceiver ==
    /\ main = "join"
    /\ rx = "stopped"
    /\ main' = "exit"
    /\ UNCHANGED <<rxVars, txVars>>

Next ==
    \/ BindSocket
    \/ RecvError
    \/ \E d \in Datagrams : Recv(d)
    \/ PublishIndication
    \/ CrashBeyondBuffer
    \/ PublishRaw
    \/ \E p \in Packets : createCohdaBTP(p)
    \/ Shutdown
    \/ JoinReceiver

Spec == Init /\ [][Next]_vars

\* The operating system keeps running both threads. It owes neither of them
\* a datagram, a signal or a socket error.
Fairness ==
    /\ WF_vars(BindSocket)
    /\ WF_vars(PublishIndication \/ CrashBeyondBuffer)
    /\ WF_vars(PublishRaw)
    /\ WF_vars(JoinReceiver)

FairSpec == Spec /\ Fairness

---------------------------------------------------------------------------
Provenance == [Offsets -> Nat \cup {NotCopied}]
IndicationMsg ==
    [id : Nat, btp_type : uint8_t, dest_port : uint16_t, msg_length : uint8_t,
     size : uint16_t, own : Nat, src : Provenance, body : Nat, content : Contents]
RawPacketMsg == [id : Nat, size : 0..BufferSize, src : Provenance]

\* Every variable has its type.
TypeOK ==
    /\ main \in {"spin", "join", "exit", "crashed"}
    /\ rx \in {"init", "recv", "indication", "raw", "stopped"}
    /\ buffer \in [Offsets -> Nat]
    /\ received \in Seq(Datagram)
    /\ udp_data \in Seq(IndicationMsg)
    /\ udp_in \in Seq(RawPacketMsg)
    /\ udp_send_subscriber_ \in BOOLEAN
    /\ handled \in Nat
    /\ wire \in Seq(RequestMsg)

\* Of the first n datagrams of log, w is the last that reached byte o (0: none).
LastWriter(log, w, n, o) ==
    /\ w \in 0..n
    /\ w > 0 => RecvLen(log[w]) > o
    /\ \A k \in w+1..n : RecvLen(log[k]) <= o

FromLastWriters(log, m) ==
    /\ m.id \in 1..Len(log)
    /\ \A o \in Copied(m) :
          /\ LastWriter(log, m.src[o], m.id, o)
          /\ m.src[o] = m.id <=> o - IndPayload < m.own

\* Each octet of a published payload comes from the datagram itself as far as
\* the unit sent it, and behind that from the latest earlier datagram long
\* enough to have reached it, whoever sent that one and whether or not it was
\* dropped by the filter: the loop reuses one buffer and never clears it.
PayloadProvenance == \A k \in 1..Len(udp_data) : FromLastWriters(received, udp_data[k])

\* The raw packet published from the same buffer has the datagram's octets
\* and no others.
RawPacketIsOwn ==
    \A k \in 1..Len(udp_in) :
        \A o \in Copied(udp_in[k]) : udp_in[k].src[o] = udp_in[k].id

\* The two topics carry the same datagrams in the same order; the raw packet
\* is behind by one only between the two publications of a datagram, or for
\* good when the context was shut down or the process died between them.
RawFollowsIndication ==
    /\ Len(udp_in) \in {Len(udp_data), Len(udp_data) - 1}
    /\ \A k \in 1..Len(udp_in) : udp_in[k].id = udp_data[k].id
    /\ Len(udp_in) # Len(udp_data) => rx = "raw" \/ main # "spin"

\* While the context lives no datagram that passed the filter gets lost inside
\* the node: each is on both topics but the one the receive thread is at, and
\* that one is on the first topic once its raw packet is due.
PublishedOn(log, n) == \E k \in DOMAIN log : log[k].id = n
Published(n) == PublishedOn(udp_data, n) /\ PublishedOn(udp_in, n)
AcceptedIsNotLost ==
    main = "spin" =>
        \A n \in DOMAIN received : Accepted(received[n]) =>
            \/ Published(n)
            \/ n = Len(received) /\ rx = "indication"
            \/ n = Len(received) /\ rx = "raw" /\ PublishedOn(udp_data, n)

\* What the socket offers is delivered on two topics: on each, datagrams of
\* the configured unit only, with a header at least, each at most once and in
\* the order of arrival, whenever the process ends.
Topics == {"udp_data", "udp_in"}
Envelope(d) == [from |-> d.from, len |-> d.len]
Envelopes == {Envelope(d) : d \in Datagrams}
FromUnit == {e \in Envelopes : e.from = originatingIp /\ e.len >= IndPayload}
LogOf(t) == IF t = "udp_data" THEN udp_data ELSE udp_in

Feed == INSTANCE LossyFeed WITH
    Receivers <- Topics,
    Ids <- 1..MaxDatagrams,
    Headers <- Envelopes,
    WantedBy <- [t \in Topics |-> FromUnit],
    offered <- {[id |-> n, header |-> Envelope(received[n])] : n \in DOMAIN received},
    delivered <- [t \in Topics |-> [k \in DOMAIN LogOf(t) |-> LogOf(t)[k].id]]

ImplementsFeed == Feed!Spec

\* The lengths in a frame that reached the unit are those of the frame, and
\* its port is the packet's: a length that wraps its uint16_t belongs to a
\* frame too long for sendto.
WireFramesConsistent ==
    \A k \in 1..Len(wire) : IsConsistent(wire[k])

\* A datagram that passed the filter gets published on both topics, unless
\* the context is shut down or the process dies first.
AcceptedIsPublished ==
    \A n \in 1..MaxDatagrams :
        (rx = "indication" /\ Len(received) = n) ~> (Published(n) \/ main # "spin")

\* main() joins the receive thread, whose loop checks no flag: once the
\* context is shut down only the socket keeps the process from its end. The
\* thread gets back to recvfrom from wherever the signal met it, though the
\* context is gone, and when it has returned, so does main().
ShutdownWaitsForSocketOnly ==
    /\ (main = "join") ~> (rx = "recv" \/ main \in {"exit", "crashed"})
    /\ (main = "join" /\ rx = "stopped") ~> (main = "exit")

---------------------------------------------------------------------------
\* What a reader of the interface would expect.

\* "Message length (amount following, Big Endian)", ccu_udp_api.h: a payload
\* published for a datagram that says its own length has no foreign octets.
PayloadIsOwn ==
    \A k \in 1..Len(udp_data) :
        LET m == udp_data[k]  d == received[m.id]
        IN  ntohs(d.MsgLen) = d.len - SizeofMsgType =>
                \A o \in Copied(m) : m.src[o] = m.id
=============================================================================
