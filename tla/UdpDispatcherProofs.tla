------------------------ MODULE UdpDispatcherProofs ------------------------
(***************************************************************************)
(* Proofs about the dispatcher, for all datagrams, packets and bounds.     *)
(***************************************************************************)
EXTENDS UdpDispatcher, CcuUdpApiProofs, RosTopicProofs

\* Between recvfrom and the end of the loop's body the last datagram read is
\* one that passed the filter.
AcceptedCurrent ==
    rx \in {"indication", "raw"} => received # << >> /\ Accepted(Current)

TypeInv == TypeOK /\ AcceptedCurrent

LEMMA OctetsType ==
    ASSUME NEW buf \in [Offsets -> Nat], NEW S
    PROVE  Octets(buf, S) \in Provenance
BY DEF Octets, Provenance

LEMMA PayloadSizeType ==
    ASSUME NEW d \in Datagram
    PROVE  PayloadSize(d) \in uint16_t
BY NtohsRange DEF PayloadSize, Datagram

LEMMA IndicationType ==
    ASSUME NEW n \in Nat, NEW d \in Datagram, Accepted(d),
           NEW buf \in [Offsets -> Nat]
    PROVE  Indication(n, d, buf) \in IndicationMsg
<1>1. PayloadSize(d) \in uint16_t /\ ntohs(d.DestPort) \in uint16_t
  BY NtohsRange DEF PayloadSize, Datagram
<1>2. UInt8(ntohs(d.MsgLen)) \in uint8_t
  BY <1>1 DEF PayloadSize, UInt8, uint8_t, uint16_t
<1>3. d.len \in Nat /\ RecvLen(d) \in Nat /\ RecvLen(d) <= d.len
  BY DEF Datagram, RecvLen, BufferSize
<1>4. RecvLen(d) >= 78
  BY Sizes DEF Accepted
<1>5. OwnOctets(d) \in Nat /\ d.len - IndPayload \in Nat
  BY <1>1, <1>3, <1>4, Sizes DEF OwnOctets, uint16_t
<1>6. d.BTPType \in uint8_t /\ d.content \in Contents
  BY DEF Datagram
<1> QED
  BY <1>1, <1>2, <1>5, <1>6, OctetsType DEF Indication, IndicationMsg

LEMMA RawPacketType ==
    ASSUME NEW n \in Nat, NEW d \in Datagram, NEW buf \in [Offsets -> Nat]
    PROVE  RawPacket(n, d, buf) \in RawPacketMsg
<1>1. RecvLen(d) \in 0..BufferSize
  BY DEF Datagram, RecvLen, BufferSize
<1> QED
  BY <1>1, OctetsType DEF RawPacket, RawPacketMsg

---------------------------------------------------------------------------
LEMMA TypeInit == Init => TypeInv
BY DEF Init, TypeInv, TypeOK, AcceptedCurrent

LEMMA TypeStep == TypeInv /\ [Next]_vars => TypeInv'
<1> SUFFICES ASSUME TypeInv, [Next]_vars
             PROVE  TypeInv'
  OBVIOUS
<1> USE DispatcherAssumption
<1>0. TypeOK /\ AcceptedCurrent
  BY DEF TypeInv
<1>1. CASE BindSocket
  BY <1>0, <1>1 DEF BindSocket, txVars, TypeInv, TypeOK, AcceptedCurrent
<1>2. CASE RecvError
  BY <1>0, <1>2 DEF RecvError, txVars, TypeInv, TypeOK, AcceptedCurrent
<1>3. ASSUME NEW d \in Datagrams, Recv(d)
      PROVE  TypeInv'
  <2>1. d \in Datagram /\ received \in Seq(Datagram)
    BY <1>0 DEF TypeOK
  <2>2. /\ received' \in Seq(Datagram)
        /\ received' # << >>
        /\ Current' = d
    BY <1>3, <2>1, AppendProperties DEF Recv, Current
  <2>3. buffer' \in [Offsets -> Nat]
    BY <1>0, <1>3, <2>1 DEF Recv, Overwrite, TypeOK
  <2>4. AcceptedCurrent'
    BY <1>3, <2>2 DEF Recv, AfterRecv, AcceptedCurrent, Accepted, RecvLen
  <2> QED
    BY <1>0, <1>3, <2>2, <2>3, <2>4 DEF Recv, AfterRecv, txVars, TypeInv, TypeOK
<1>4. CASE PublishIndication
  <2>1. Len(received) \in Nat /\ Current \in Datagram /\ Accepted(Current)
    BY <1>0, <1>4 DEF PublishIndication, AcceptedCurrent, TypeOK, Current
  <2>2. udp_data' \in Seq(IndicationMsg)
    BY <1>0, <1>4, <2>1, IndicationType DEF PublishIndication, Publish, TypeOK
  <2> QED
    BY <1>0, <1>4, <2>2 DEF PublishIndication, txVars, TypeInv, TypeOK, AcceptedCurrent, Current
<1>5. CASE CrashBeyondBuffer
  BY <1>0, <1>5 DEF CrashBeyondBuffer, rxVars, txVars, TypeInv, TypeOK, AcceptedCurrent, Current
<1>6. CASE PublishRaw
  <2>1. Len(received) \in Nat /\ Current \in Datagram
    BY <1>0, <1>6 DEF PublishRaw, AcceptedCurrent, TypeOK, Current
  <2>2. udp_in' \in Seq(RawPacketMsg)
    BY <1>0, <1>6, <2>1, RawPacketType DEF PublishRaw, Publish, TypeOK
  <2> QED
    BY <1>0, <1>6, <2>2 DEF PublishRaw, txVars, TypeInv, TypeOK, AcceptedCurrent
<1>7. ASSUME NEW p \in Packets, createCohdaBTP(p)
      PROVE  TypeInv'
  <2>1. p \in Packet
    OBVIOUS
  <2>2. wire' \in Seq(RequestMsg)
    <3>1. \/ p.size >= BtpHeader /\ wire' = Append(wire, Request(p))
          \/ wire' = wire
      BY <1>7 DEF createCohdaBTP
    <3>2. wire \in Seq(RequestMsg)
      BY <1>0 DEF TypeOK
    <3> QED
      BY <2>1, <3>1, <3>2, RequestType
  <2>3. main' \in {"spin", "crashed"} /\ handled' \in Nat
    <3>1. handled' = handled + 1 /\ handled \in Nat
      BY <1>0, <1>7 DEF createCohdaBTP, TypeOK
    <3>2. main' \in {"spin", "crashed"}
      BY <1>7 DEF createCohdaBTP
    <3> QED
      BY <3>1, <3>2
  <2>4. UNCHANGED <<rx, buffer, received, udp_data, udp_in, udp_send_subscriber_>>
    BY <1>7 DEF createCohdaBTP, rxVars
  <2>5. TypeOK'
    BY <1>0, <2>2, <2>3, <2>4 DEF TypeOK
  <2>6. AcceptedCurrent'
    BY <1>0, <2>4 DEF AcceptedCurrent, Current
  <2> QED
    BY <2>5, <2>6 DEF TypeInv
<1>8. CASE Shutdown
  BY <1>0, <1>8 DEF Shutdown, rxVars, txVars, TypeInv, TypeOK, AcceptedCurrent, Current
<1>9. CASE JoinReceiver
  BY <1>0, <1>9 DEF JoinReceiver, rxVars, txVars, TypeInv, TypeOK, AcceptedCurrent, Current
<1>10. CASE UNCHANGED vars
  BY <1>0, <1>10 DEF vars, rxVars, txVars, TypeInv, TypeOK, AcceptedCurrent, Current
<1> QED
  BY <1>1, <1>2, <1>3, <1>4, <1>5, <1>6, <1>7, <1>8, <1>9, <1>10 DEF Next

LEMMA TypeInvariant == Spec => []TypeInv
<1> QED
  BY TypeInit, TypeStep, PTL DEF Spec

\* Every variable keeps its type: message fields stay within their width, and
\* no datagram is published that has less than a header.
THEOREM TypeCorrect == Spec => []TypeOK
<1>1. TypeInv => TypeOK
  BY DEF TypeInv
<1> QED
  BY <1>1, TypeInvariant, PTL
---------------------------------------------------------------------------
\* Who wrote the buffer.
BufferWriters ==
    \A o \in Offsets : LastWriter(received, buffer[o], Len(received), o)

ProvenanceInv == BufferWriters /\ PayloadProvenance /\ RawPacketIsOwn

LEMMA RecvLenType ==
    ASSUME NEW d \in Datagram
    PROVE  RecvLen(d) \in Nat
BY DEF Datagram, RecvLen, BufferSize

LEMMA OffsetsType == Offsets \subseteq Nat
BY DispatcherAssumption DEF DispatcherAssumption, BufferSize

LEMMA LastWriterAppend ==
    ASSUME NEW s \in Seq(Datagram), NEW d \in Datagram, NEW n \in 0..Len(s),
           NEW w, NEW o
    PROVE  LastWriter(Append(s, d), w, n, o) <=> LastWriter(s, w, n, o)
<1>1. \A k \in 1..n : Append(s, d)[k] = s[k]
  BY AppendProperties
<1> QED
  BY <1>1 DEF LastWriter

LEMMA FromLastWritersAppend ==
    ASSUME NEW s \in Seq(Datagram), NEW d \in Datagram,
           NEW m, FromLastWriters(s, m)
    PROVE  FromLastWriters(Append(s, d), m)
<1>1. m.id \in 0..Len(s) /\ m.id \in 1..Len(Append(s, d))
  BY AppendProperties DEF FromLastWriters
<1> QED
  BY <1>1, LastWriterAppend DEF FromLastWriters

LEMMA OverwriteWriters ==
    ASSUME NEW s \in Seq(Datagram), NEW d \in Datagram, NEW buf,
           NEW o \in Offsets, LastWriter(s, buf[o], Len(s), o)
    PROVE  LastWriter(Append(s, d), Overwrite(buf, Len(s) + 1, d)[o], Len(s) + 1, o)
<1> DEFINE t == Append(s, d)
           n == Len(s) + 1
<1>1. t[n] = d /\ \A k \in 1..Len(s) : t[k] = s[k]
  BY AppendProperties
<1>2. n \in Nat /\ n > 0 /\ o \in Nat /\ RecvLen(d) \in Nat
  BY RecvLenType, OffsetsType
<1> HIDE DEF t
<1>3. CASE o < RecvLen(d)
  BY <1>1, <1>2, <1>3 DEF LastWriter, Overwrite, t
<1>4. CASE ~(o < RecvLen(d))
  <2>1. Overwrite(buf, n, d)[o] = buf[o]
    BY <1>4 DEF Overwrite
  <2>2. buf[o] \in 0..Len(s)
    BY DEF LastWriter
  <2>3. \A k \in buf[o]+1..n : RecvLen(t[k]) <= o
    BY <1>1, <1>2, <1>4, <2>2 DEF LastWriter
  <2>4. buf[o] > 0 => RecvLen(t[buf[o]]) > o
    BY <1>1, <2>2 DEF LastWriter
  <2> QED
    BY <1>2, <2>1, <2>2, <2>3, <2>4 DEF LastWriter, t
<1> QED
  BY <1>3, <1>4

\* The last datagram read wrote the octets it has, and only those.
LEMMA WrittenByLast ==
    ASSUME NEW s \in Seq(Datagram), s # << >>, NEW o \in Nat, NEW w,
           LastWriter(s, w, Len(s), o)
    PROVE  w = Len(s) <=> o < RecvLen(s[Len(s)])
<1>1. Len(s) \in Nat /\ Len(s) > 0 /\ s[Len(s)] \in Datagram
  OBVIOUS
<1>2. RecvLen(s[Len(s)]) \in Nat
  BY <1>1, RecvLenType
<1>3. w \in 0..Len(s)
  BY DEF LastWriter
<1>4. w < Len(s) => RecvLen(s[Len(s)]) <= o
  BY <1>1, <1>3 DEF LastWriter
<1> QED
  BY <1>1, <1>2, <1>3, <1>4 DEF LastWriter

LEMMA PublishedFromWriters ==
    ASSUME TypeInv, BufferWriters, rx \in {"indication", "raw"}
    PROVE  FromLastWriters(received, Indication(Len(received), Current, buffer))
<1> DEFINE n == Len(received)
           d == Current
           m == Indication(n, d, buffer)
<1>1. /\ received \in Seq(Datagram) /\ received # << >>
      /\ n \in 1..Len(received) /\ d = received[n] /\ d \in Datagram
      /\ RecvLen(d) \in Nat /\ RecvLen(d) >= 78
  BY RecvLenType, Sizes DEF TypeInv, TypeOK, AcceptedCurrent, Current, Accepted
<1>2. PayloadSize(d) \in Nat
  BY <1>1, PayloadSizeType DEF uint16_t
<1>3. m.id = n /\ m.own = OwnOctets(d) /\ m.src = Octets(buffer, PayloadOffsets(d))
  BY DEF Indication
<1>4. ASSUME NEW o \in Copied(m)
      PROVE  /\ LastWriter(received, m.src[o], m.id, o)
             /\ m.src[o] = m.id <=> o - IndPayload < m.own
  <2>1. o \in Offsets /\ o \in Nat /\ o \in PayloadOffsets(d) /\ m.src[o] = buffer[o]
    BY <1>3, OffsetsType DEF Copied, Octets
  <2>2. LastWriter(received, buffer[o], n, o)
    BY <2>1 DEF BufferWriters
  <2>3. buffer[o] = n <=> o < RecvLen(d)
    BY <1>1, <2>1, <2>2, WrittenByLast
  <2>4. o >= 78 /\ o < 78 + PayloadSize(d)
    BY <2>1, Sizes DEF PayloadOffsets
  <2>5. o - 78 < OwnOctets(d) <=> o < RecvLen(d)
    BY <1>1, <1>2, <2>1, <2>4, Sizes DEF OwnOctets
  <2> QED
    BY <1>3, <2>1, <2>2, <2>3, <2>5, Sizes
<1> QED
  BY <1>1, <1>3, <1>4 DEF FromLastWriters

LEMMA RawFromWriters ==
    ASSUME TypeInv, BufferWriters, rx = "raw",
           NEW o \in Copied(RawPacket(Len(received), Current, buffer))
    PROVE  RawPacket(Len(received), Current, buffer).src[o] = Len(received)
<1> DEFINE n == Len(received)
           d == Current
<1>1. /\ received \in Seq(Datagram) /\ received # << >>
      /\ d = received[n] /\ d \in Datagram /\ RecvLen(d) \in Nat
  BY RecvLenType DEF TypeInv, TypeOK, AcceptedCurrent, Current
<1>2. /\ o \in Offsets /\ o \in Nat /\ o \in RawOffsets(d)
      /\ RawPacket(n, d, buffer).src[o] = buffer[o]
  BY OffsetsType DEF RawPacket, Copied, Octets
<1>3. buffer[o] = n <=> o < RecvLen(d)
  BY <1>1, <1>2, WrittenByLast DEF BufferWriters
<1> QED
  BY <1>2, <1>3 DEF RawOffsets

\* The steps that change the buffer, the history or one of the two topics.
LEMMA ReceiverSteps ==
    ASSUME [Next]_vars
    PROVE  \/ \E d \in Datagrams : Recv(d)
           \/ PublishIndication
           \/ PublishRaw
           \/ UNCHANGED <<buffer, received, udp_data, udp_in>>
BY DEF Next, vars, rxVars, txVars, BindSocket, RecvError, CrashBeyondBuffer,
       createCohdaBTP, Shutdown, JoinReceiver

LEMMA ProvenanceInit == Init => ProvenanceInv
<1> SUFFICES ASSUME Init
             PROVE  ProvenanceInv
  OBVIOUS
<1>1. BufferWriters
  BY DEF Init, BufferWriters, LastWriter
<1>2. PayloadProvenance /\ RawPacketIsOwn
  BY DEF Init, PayloadProvenance, RawPacketIsOwn
<1> QED
  BY <1>1, <1>2 DEF ProvenanceInv

LEMMA ProvenanceStep == TypeInv /\ ProvenanceInv /\ [Next]_vars => ProvenanceInv'
<1> SUFFICES ASSUME TypeInv, ProvenanceInv, [Next]_vars
             PROVE  ProvenanceInv'
  OBVIOUS
<1> USE DEF ProvenanceInv
<1>0. /\ received \in Seq(Datagram)
      /\ udp_data \in Seq(IndicationMsg)
      /\ udp_in \in Seq(RawPacketMsg)
  BY DEF TypeInv, TypeOK
<1>1. ASSUME NEW d \in Datagrams, Recv(d)
      PROVE  ProvenanceInv'
  <2>1. /\ received' = Append(received, d)
        /\ buffer' = Overwrite(buffer, Len(received) + 1, d)
        /\ UNCHANGED <<udp_data, udp_in>>
        /\ d \in Datagram
    BY <1>1, DispatcherAssumption DEF Recv
  <2>2. Len(received') = Len(received) + 1
    BY <1>0, <2>1, AppendProperties
  <2>3. BufferWriters'
    BY <1>0, <2>1, <2>2, OverwriteWriters DEF BufferWriters
  <2>4. PayloadProvenance'
    BY <1>0, <2>1, FromLastWritersAppend DEF PayloadProvenance
  <2>5. RawPacketIsOwn'
    BY <2>1 DEF RawPacketIsOwn, Copied
  <2> QED
    BY <2>3, <2>4, <2>5
<1>2. CASE PublishIndication
  <2> DEFINE m == Indication(Len(received), Current, buffer)
  <2>1. /\ UNCHANGED <<buffer, received, udp_in>>
        /\ udp_data' = Append(udp_data, m) \/ udp_data' = udp_data
    BY <1>2 DEF PublishIndication, Publish
  <2>2. FromLastWriters(received, m)
    BY <1>2, PublishedFromWriters DEF PublishIndication
  <2>3. PayloadProvenance'
    <3> HIDE DEF m
    <3>1. CASE udp_data' = udp_data
      BY <2>1, <3>1 DEF PayloadProvenance
    <3>2. CASE udp_data' = Append(udp_data, m)
      BY <1>0, <2>1, <2>2, <3>2, AppendProperties DEF PayloadProvenance
    <3> QED
      BY <2>1, <3>1, <3>2
  <2> QED
    BY <2>1, <2>3 DEF BufferWriters, RawPacketIsOwn, Copied
<1>3. CASE PublishRaw
  <2> DEFINE m == RawPacket(Len(received), Current, buffer)
  <2>1. /\ UNCHANGED <<buffer, received, udp_data>>
        /\ udp_in' = Append(udp_in, m) \/ udp_in' = udp_in
    BY <1>3 DEF PublishRaw, Publish
  <2>2. m.id = Len(received) /\ \A o \in Copied(m) : m.src[o] = m.id
    BY <1>3, RawFromWriters DEF PublishRaw, RawPacket
  <2>3. RawPacketIsOwn'
    <3> HIDE DEF m
    <3>1. CASE udp_in' = udp_in
      BY <2>1, <3>1 DEF RawPacketIsOwn, Copied
    <3>2. CASE udp_in' = Append(udp_in, m)
      BY <1>0, <2>1, <2>2, <3>2, AppendProperties DEF RawPacketIsOwn, Copied
    <3> QED
      BY <2>1, <3>1, <3>2
  <2> QED
    BY <2>1, <2>3 DEF BufferWriters, PayloadProvenance
<1>4. CASE UNCHANGED <<buffer, received, udp_data, udp_in>>
  BY <1>4 DEF BufferWriters, PayloadProvenance, RawPacketIsOwn, Copied
<1> QED
  BY <1>1, <1>2, <1>3, <1>4, ReceiverSteps

LEMMA ProvenanceInvariant == Spec => []ProvenanceInv
BY ProvenanceInit, ProvenanceStep, TypeInvariant, PTL DEF Spec

\* What the octets of a published payload are: the datagram's own as far as it
\* was read, behind that those of the latest earlier datagram that reached
\* there, for any sizes and any order of datagrams.
THEOREM ProvenanceCorrect == Spec => []PayloadProvenance
<1>1. ProvenanceInv => PayloadProvenance
  BY DEF ProvenanceInv
<1> QED
  BY <1>1, ProvenanceInvariant, PTL

\* A raw packet holds no octet that an earlier datagram left in the buffer,
\* for any sizes and any order of datagrams.
THEOREM RawPacketCorrect == Spec => []RawPacketIsOwn
<1>1. ProvenanceInv => RawPacketIsOwn
  BY DEF ProvenanceInv
<1> QED
  BY <1>1, ProvenanceInvariant, PTL

---------------------------------------------------------------------------
\* Where the raw packets stand against the indications, and the indications
\* against the datagrams read.
Handover ==
    main = "spin" =>
        IF rx = "raw"
        THEN /\ Len(udp_data) = Len(udp_in) + 1
             /\ udp_data[Len(udp_data)].id = Len(received)
        ELSE Len(udp_data) = Len(udp_in)

\* Indications are in the order of their datagrams, none is twice.
Ascending ==
    /\ \A i, j \in 1..Len(udp_data) : i < j => udp_data[i].id < udp_data[j].id
    /\ \A k \in 1..Len(udp_data) :
          /\ udp_data[k].id <= Len(received)
          /\ rx = "indication" => udp_data[k].id < Len(received)

HandoverInv == RawFollowsIndication /\ Handover /\ Ascending

LEMMA HandoverInit == Init => HandoverInv
BY DEF Init, HandoverInv, RawFollowsIndication, Handover, Ascending

LEMMA HandoverStep == TypeInv /\ HandoverInv /\ [Next]_vars => HandoverInv'
<1> SUFFICES ASSUME TypeInv, HandoverInv, [Next]_vars
             PROVE  HandoverInv'
  OBVIOUS
<1> USE DEF HandoverInv
<1>0. /\ received \in Seq(Datagram) /\ Len(received) \in Nat
      /\ udp_data \in Seq(IndicationMsg) /\ Len(udp_data) \in Nat
      /\ udp_in \in Seq(RawPacketMsg) /\ Len(udp_in) \in Nat
      /\ \A k \in 1..Len(udp_data) : udp_data[k].id \in Nat
  <2>1. /\ received \in Seq(Datagram)
        /\ udp_data \in Seq(IndicationMsg)
        /\ udp_in \in Seq(RawPacketMsg)
    BY DEF TypeInv, TypeOK
  <2>2. \A m \in IndicationMsg : m.id \in Nat
    BY DEF IndicationMsg
  <2> QED
    BY <2>1, <2>2
<1>1. ASSUME NEW d \in Datagrams, Recv(d)
      PROVE  HandoverInv'
  <2>1. /\ Len(received') = Len(received) + 1
        /\ rx = "recv" /\ rx' \in {"recv", "indication"}
        /\ UNCHANGED <<main, udp_data, udp_in>>
    BY <1>0, <1>1, DispatcherAssumption, AppendProperties DEF Recv, AfterRecv
  <2>2. Ascending'
    BY <1>0, <2>1 DEF Ascending
  <2>3. RawFollowsIndication' /\ Handover'
    BY <2>1 DEF RawFollowsIndication, Handover
  <2> QED
    BY <2>2, <2>3
<1>2. CASE PublishIndication
  <2> DEFINE m == Indication(Len(received), Current, buffer)
  <2>1. /\ UNCHANGED <<main, received, udp_in>>
        /\ rx = "indication" /\ rx' = "raw"
        /\ udp_data' = IF main = "spin" THEN Append(udp_data, m) ELSE udp_data
    BY <1>2 DEF PublishIndication, Publish
  <2>2. m.id = Len(received)
    BY DEF Indication
  <2> HIDE DEF m
  <2>3. CASE main = "spin"
    <3>1. /\ udp_data' = Append(udp_data, m)
          /\ Len(udp_data') = Len(udp_data) + 1
          /\ \A k \in 1..Len(udp_data) : udp_data'[k] = udp_data[k]
          /\ udp_data'[Len(udp_data) + 1] = m
      BY <1>0, <2>1, <2>3, AppendProperties
    <3>2. Len(udp_data) = Len(udp_in)
      BY <2>1, <2>3 DEF Handover
    <3>3. Ascending'
      BY <1>0, <2>1, <2>2, <3>1 DEF Ascending
    <3>4. RawFollowsIndication'
      BY <1>0, <2>1, <3>1, <3>2 DEF RawFollowsIndication
    <3>5. Handover'
      BY <2>1, <2>2, <3>1, <3>2 DEF Handover
    <3> QED
      BY <3>3, <3>4, <3>5
  <2>4. CASE main # "spin"
    BY <1>0, <2>1, <2>4 DEF RawFollowsIndication, Handover, Ascending
  <2> QED
    BY <2>3, <2>4
<1>3. CASE PublishRaw
  <2> DEFINE m == RawPacket(Len(received), Current, buffer)
  <2>1. /\ UNCHANGED <<main, received, udp_data>>
        /\ rx = "raw" /\ rx' = "recv"
        /\ udp_in' = IF main = "spin" THEN Append(udp_in, m) ELSE udp_in
    BY <1>3 DEF PublishRaw, Publish
  <2>2. m.id = Len(received)
    BY DEF RawPacket
  <2> HIDE DEF m
  <2>3. Ascending'
    BY <1>0, <2>1 DEF Ascending
  <2>4. CASE main = "spin"
    <3>1. /\ udp_in' = Append(udp_in, m)
          /\ Len(udp_in') = Len(udp_in) + 1
          /\ \A k \in 1..Len(udp_in) : udp_in'[k] = udp_in[k]
          /\ udp_in'[Len(udp_in) + 1] = m
      BY <1>0, <2>1, <2>4, AppendProperties
    <3>2. /\ Len(udp_data) = Len(udp_in) + 1
          /\ udp_data[Len(udp_in) + 1].id = Len(received)
      BY <2>1, <2>4 DEF Handover
    <3>3. RawFollowsIndication'
      BY <1>0, <2>1, <2>2, <3>1, <3>2 DEF RawFollowsIndication
    <3>4. Handover'
      BY <2>1, <3>1, <3>2 DEF Handover
    <3> QED
      BY <2>3, <3>3, <3>4
  <2>5. CASE main # "spin"
    BY <1>0, <2>1, <2>3, <2>5 DEF RawFollowsIndication, Handover
  <2> QED
    BY <2>4, <2>5
<1>4. CASE BindSocket \/ RecvError
  BY <1>4 DEF BindSocket, RecvError, txVars, RawFollowsIndication, Handover, Ascending
<1>5. CASE CrashBeyondBuffer \/ Shutdown \/ JoinReceiver
  BY <1>5 DEF CrashBeyondBuffer, Shutdown, JoinReceiver, rxVars, RawFollowsIndication,
              Handover, Ascending
<1>6. ASSUME NEW p \in Packets, createCohdaBTP(p)
      PROVE  HandoverInv'
  <2>1. /\ UNCHANGED <<rx, received, udp_data, udp_in>>
        /\ main' = main \/ main' = "crashed"
    BY <1>6 DEF createCohdaBTP, rxVars
  <2> QED
    BY <2>1 DEF RawFollowsIndication, Handover, Ascending
<1>7. CASE UNCHANGED vars
  BY <1>7 DEF vars, rxVars, RawFollowsIndication, Handover, Ascending
<1> QED
  BY <1>1, <1>2, <1>3, <1>4, <1>5, <1>6, <1>7 DEF Next

LEMMA HandoverInvariant == Spec => []HandoverInv
<1> QED
  BY HandoverInit, HandoverStep, TypeInvariant, PTL DEF Spec

\* What a step does to the topic "udp_data": nothing, or one more indication,
\* of the datagram read last. (For the modules that read the topic.)
LEMMA TopicStep ==
    ASSUME TypeInv, [Next]_vars
    PROVE  \/ UNCHANGED <<udp_data, received>>
           \/ /\ UNCHANGED udp_data
              /\ Len(received) < MaxDatagrams
              /\ \E d \in Datagrams : received' = Append(received, d)
           \/ /\ rx = "indication" /\ received # << >> /\ Accepted(Current)
              /\ UNCHANGED received
              /\ udp_data' = Append(udp_data, Indication(Len(received), Current, buffer))
<1>1. CASE PublishIndication
    <2>1. received # << >> /\ Accepted(Current)
        BY <1>1 DEF TypeInv, AcceptedCurrent, PublishIndication
    <2>2. udp_data' = udp_data
          \/ udp_data' = Append(udp_data, Indication(Len(received), Current, buffer))
        BY <1>1 DEF PublishIndication, Publish
    <2> QED BY <1>1, <2>1, <2>2 DEF PublishIndication
<1>2. ASSUME NEW d \in Datagrams, Recv(d)
      PROVE  /\ UNCHANGED udp_data
             /\ Len(received) < MaxDatagrams
             /\ received' = Append(received, d)
    BY <1>2 DEF Recv
<1>3. CASE PublishRaw
    BY <1>3 DEF PublishRaw
<1> QED BY <1>1, <1>2, <1>3, ReceiverSteps

\* The raw topic never gets a datagram that the indication topic did not get,
\* skips none, and is behind by more than a moment only after the context was
\* shut down or the process died between the two publications.
THEOREM HandoverCorrect == Spec => []RawFollowsIndication
<1>1. HandoverInv => RawFollowsIndication
  BY DEF HandoverInv
<1> QED
  BY <1>1, HandoverInvariant, PTL

---------------------------------------------------------------------------
\* Which octets a published payload has: those of its datagram's MsgLen.
IsPayloadOf(m, d) ==
    m.own = OwnOctets(d) /\ Copied(m) = PayloadOffsets(d) /\ Accepted(d)

OriginInv ==
    \A k \in 1..Len(udp_data) :
        /\ udp_data[k].id \in 1..Len(received)
        /\ IsPayloadOf(udp_data[k], received[udp_data[k].id])

LEMMA PublishedIsPayload ==
    ASSUME NEW n, NEW d, Accepted(d), NEW buf \in [Offsets -> Nat]
    PROVE  IsPayloadOf(Indication(n, d, buf), d) /\ Indication(n, d, buf).id = n
<1>1. \A o \in Offsets : Octets(buf, PayloadOffsets(d))[o] # NotCopied <=> o \in PayloadOffsets(d)
  BY DEF Octets, NotCopied
<1>2. PayloadOffsets(d) \subseteq Offsets
  BY DEF PayloadOffsets
<1> QED
  BY <1>1, <1>2 DEF IsPayloadOf, Indication, Copied

LEMMA OriginStep == TypeInv /\ OriginInv /\ [Next]_vars => OriginInv'
<1> SUFFICES ASSUME TypeInv, OriginInv, [Next]_vars
             PROVE  OriginInv'
  OBVIOUS
<1>0. received \in Seq(Datagram) /\ udp_data \in Seq(IndicationMsg)
  BY DEF TypeInv, TypeOK
<1>1. CASE UNCHANGED <<udp_data, received>>
  BY <1>1 DEF OriginInv, IsPayloadOf, Copied
<1>2. ASSUME NEW d \in Datagrams, UNCHANGED udp_data, received' = Append(received, d)
      PROVE  OriginInv'
  <2>1. d \in Datagram
    BY DispatcherAssumption
  <2>2. \A n \in 1..Len(received) : n \in 1..Len(received') /\ received'[n] = received[n]
    BY <1>0, <1>2, <2>1, AppendProperties
  <2> QED
    BY <1>2, <2>2 DEF OriginInv, IsPayloadOf, Copied
<1>3. CASE /\ received # << >> /\ Accepted(Current)
           /\ UNCHANGED received
           /\ udp_data' = Append(udp_data, Indication(Len(received), Current, buffer))
  <2> DEFINE m == Indication(Len(received), Current, buffer)
  <2>1. Len(received) \in 1..Len(received)
    BY <1>0, <1>3, EmptySeq
  <2>2. m.id = Len(received) /\ IsPayloadOf(m, received[Len(received)])
    BY <1>3, PublishedIsPayload DEF TypeInv, TypeOK, Current
  <2>3. udp_data' = Append(udp_data, m) /\ udp_data \in Seq(IndicationMsg \cup {m})
    BY <1>0, <1>3
  <2> HIDE DEF m
  <2>4. /\ Len(udp_data') = Len(udp_data) + 1 /\ udp_data'[Len(udp_data) + 1] = m
        /\ \A k \in 1..Len(udp_data) : udp_data'[k] = udp_data[k]
        /\ \A k \in 1..Len(udp_data)+1 : k \in 1..Len(udp_data) \/ k = Len(udp_data) + 1
    BY <2>3, AppendProperties
  <2>5. ASSUME NEW k \in 1..Len(udp_data')
        PROVE  /\ udp_data'[k].id \in 1..Len(received)
               /\ IsPayloadOf(udp_data'[k], received[udp_data'[k].id])
    BY <2>1, <2>2, <2>4 DEF OriginInv
  <2> QED
    BY <1>3, <2>5, Zenon DEF OriginInv, IsPayloadOf, Copied
<1> QED
  BY <1>1, <1>2, <1>3, TopicStep

\* What is foreign in a payload whose datagram says its own length and fits
\* the buffer.
StaleTail ==
    \A k \in 1..Len(udp_data) :
        LET m == udp_data[k]  d == received[m.id]
        IN  ntohs(d.MsgLen) = d.len - SizeofMsgType /\ d.len <= BufferSize =>
                /\ \A o \in Copied(m) : m.src[o] = m.id <=> o < d.len
                /\ Copied(m) = {o \in Offsets : IndPayload <= o /\ o < d.len + SizeofDataIndHdr}

LEMMA StaleTailOf ==
    ASSUME NEW m, NEW d, d.len \in Nat, IsPayloadOf(m, d), m.id \in Nat,
           \A o \in Copied(m) : m.src[o] = m.id <=> o - IndPayload < m.own,
           ntohs(d.MsgLen) = d.len - SizeofMsgType, d.len <= BufferSize
    PROVE  /\ \A o \in Copied(m) : m.src[o] = m.id <=> o < d.len
           /\ Copied(m) = {o \in Offsets : IndPayload <= o /\ o < d.len + SizeofDataIndHdr}
<1>1. RecvLen(d) = d.len
  BY DEF RecvLen, BufferSize
<1>2. m.own = d.len - IndPayload
  BY <1>1, Sizes DEF IsPayloadOf, OwnOctets, PayloadSize
<1>3. Copied(m) = {o \in Offsets : o >= IndPayload /\ o < IndPayload + (d.len - SizeofMsgType)}
  BY DEF IsPayloadOf, PayloadOffsets, PayloadSize
<1>4. Offsets \subseteq Nat
  BY OffsetsType
<1>5. \A o \in Copied(m) : m.src[o] = m.id <=> o < d.len
  <2>1. \A o \in Copied(m) : o \in Nat
    BY <1>3, <1>4
  <2> QED
    BY <1>2, <2>1, Sizes
<1>6. \A o \in Offsets : (o >= IndPayload /\ o < IndPayload + (d.len - SizeofMsgType))
                            <=> (IndPayload <= o /\ o < d.len + SizeofDataIndHdr)
  BY <1>4, Sizes DEF IndPayload, SizeofDataIndHdr, SizeofDestination
<1> QED
  BY <1>3, <1>5, <1>6

\* For every datagram that says its own length and fits the buffer, whatever
\* came before: the published payload is the body and behind it, as far as the
\* buffer goes, as many octets as the header has, 74, none of them its own.
THEOREM StaleTailCorrect == Spec => []StaleTail
<1>1. Init => OriginInv
  BY DEF Init, OriginInv
<1>2. Spec => []OriginInv
  BY <1>1, OriginStep, TypeInvariant, PTL DEF Spec
<1>3. TypeInv /\ OriginInv /\ ProvenanceInv => StaleTail
  <2> SUFFICES ASSUME TypeInv, OriginInv, ProvenanceInv, NEW k \in 1..Len(udp_data),
                      LET d == received[udp_data[k].id]
                      IN  ntohs(d.MsgLen) = d.len - SizeofMsgType /\ d.len <= BufferSize
               PROVE  LET m == udp_data[k]  d == received[m.id]
                      IN  /\ \A o \in Copied(m) : m.src[o] = m.id <=> o < d.len
                          /\ Copied(m) = {o \in Offsets :
                                IndPayload <= o /\ o < d.len + SizeofDataIndHdr}
    BY Zenon DEF StaleTail
  <2> DEFINE m == udp_data[k]  d == received[m.id]
  <2>1. m.id \in 1..Len(received) /\ IsPayloadOf(m, d)
    BY DEF OriginInv
  <2>2. d \in Datagram
    BY <2>1 DEF TypeInv, TypeOK
  <2>3. \A o \in Copied(m) : m.src[o] = m.id <=> o - IndPayload < m.own
    BY DEF ProvenanceInv, PayloadProvenance, FromLastWriters
  <2>4. d.len \in Nat /\ m.id \in Nat
    BY <2>1, <2>2 DEF Datagram
  <2>5. ntohs(d.MsgLen) = d.len - SizeofMsgType /\ d.len <= BufferSize
    OBVIOUS
  <2> HIDE DEF m, d
  <2>6. /\ \A o \in Copied(m) : m.src[o] = m.id <=> o < d.len
        /\ Copied(m) = {o \in Offsets : IndPayload <= o /\ o < d.len + SizeofDataIndHdr}
    BY <2>1, <2>3, <2>4, <2>5, StaleTailOf
  <2> QED
    BY <2>6 DEF m, d
<1> QED
  BY <1>2, <1>3, ProvenanceInvariant, TypeInvariant, PTL

---------------------------------------------------------------------------
LEMMA WireInit == Init => WireFramesConsistent
BY DEF Init, WireFramesConsistent

LEMMA WireStep == TypeInv /\ WireFramesConsistent /\ [Next]_vars => WireFramesConsistent'
<1> SUFFICES ASSUME TypeInv, WireFramesConsistent, [Next]_vars
             PROVE  WireFramesConsistent'
  OBVIOUS
<1>1. CASE UNCHANGED wire
  BY <1>1 DEF WireFramesConsistent
<1>2. ASSUME NEW p \in Packets, p.size >= BtpHeader, Sendable(p),
             wire' = Append(wire, Request(p))
      PROVE  WireFramesConsistent'
  <2>1. p \in Packet /\ wire \in Seq(RequestMsg)
    BY DispatcherAssumption DEF TypeInv, TypeOK
  <2> DEFINE f == Request(p)
  <2>2. IsConsistent(f)
    BY <1>2, <2>1, SentConsistent
  <2> HIDE DEF f
  <2>3. wire' = Append(wire, f)
    BY <1>2 DEF f
  <2> QED
    BY <2>1, <2>2, <2>3, AppendProperties DEF WireFramesConsistent
<1>3. \/ UNCHANGED wire
      \/ \E p \in Packets : p.size >= BtpHeader /\ Sendable(p) /\ wire' = Append(wire, Request(p))
  BY DEF Next, vars, txVars, BindSocket, RecvError, Recv, PublishIndication, PublishRaw,
         CrashBeyondBuffer, createCohdaBTP, Shutdown, JoinReceiver
<1> QED
  BY <1>1, <1>2, <1>3

\* No frame with a length that wrapped its field reaches the unit, whatever
\* the sizes of the outgoing packets.
THEOREM WireCorrect == Spec => []WireFramesConsistent
<1> QED
  BY WireInit, WireStep, TypeInvariant, PTL DEF Spec
---------------------------------------------------------------------------
LEMMA PublishedOnAppend ==
    ASSUME NEW M, NEW log \in Seq(M), NEW m \in M, NEW n
    PROVE  PublishedOn(Append(log, m), n) <=> PublishedOn(log, n) \/ m.id = n
<1> DEFINE new == Append(log, m)
<1>1. /\ DOMAIN log = 1..Len(log) /\ DOMAIN new = 1..Len(log)+1 /\ Len(log) \in Nat
      /\ new[Len(log) + 1] = m
      /\ \A k \in 1..Len(log) : k \in 1..Len(log)+1 /\ new[k] = log[k]
      /\ \A k \in 1..Len(log)+1 : k \in 1..Len(log) \/ k = Len(log) + 1
      /\ Len(log) + 1 \in 1..Len(log)+1
  BY AppendProperties
<1> HIDE DEF new
<1>2. PublishedOn(new, n) <=> PublishedOn(log, n) \/ m.id = n
  BY <1>1 DEF PublishedOn
<1> QED
  BY <1>2 DEF new

LEMMA NotLostInit == Init => AcceptedIsNotLost
BY DEF Init, AcceptedIsNotLost

LEMMA NotLostStep == TypeInv /\ AcceptedIsNotLost /\ [Next]_vars => AcceptedIsNotLost'
<1> SUFFICES ASSUME TypeInv, AcceptedIsNotLost, [Next]_vars, main' = "spin"
             PROVE  AcceptedIsNotLost'
  BY DEF AcceptedIsNotLost
<1>0. /\ received \in Seq(Datagram) /\ Len(received) \in Nat
      /\ udp_data \in Seq(IndicationMsg)
      /\ udp_in \in Seq(RawPacketMsg)
      /\ DOMAIN received = 1..Len(received)
  BY DEF TypeInv, TypeOK
<1>1. main = "spin"
  BY DEF Next, vars, BindSocket, RecvError, Recv, PublishIndication, CrashBeyondBuffer,
         PublishRaw, createCohdaBTP, Shutdown, JoinReceiver
<1>2. \A n \in DOMAIN received : Accepted(received[n]) =>
          \/ Published(n)
          \/ n = Len(received) /\ rx = "indication"
          \/ n = Len(received) /\ rx = "raw" /\ PublishedOn(udp_data, n)
  BY <1>1 DEF AcceptedIsNotLost
<1>3. ASSUME NEW d \in Datagrams, Recv(d)
      PROVE  AcceptedIsNotLost'
  <2>1. /\ rx = "recv" /\ rx' = AfterRecv(d) /\ received' = Append(received, d)
        /\ UNCHANGED <<udp_data, udp_in>>
        /\ d \in Datagram
    BY <1>3, DispatcherAssumption DEF Recv
  <2>2. /\ DOMAIN received' = 1..Len(received)+1 /\ Len(received') = Len(received) + 1
        /\ received'[Len(received) + 1] = d
        /\ \A k \in 1..Len(received) : received'[k] = received[k]
        /\ \A k \in 1..Len(received)+1 : k \in 1..Len(received) \/ k = Len(received) + 1
    BY <1>0, <2>1, AppendProperties
  <2>3. \A n : Published(n)' <=> Published(n)
    BY <2>1 DEF Published, PublishedOn
  <2>4. \A n \in 1..Len(received) : Accepted(received'[n]) => Published(n)'
    BY <1>0, <1>2, <2>1, <2>2, <2>3
  <2>5. Accepted(received'[Len(received) + 1]) => rx' = "indication"
    BY <2>1, <2>2 DEF AfterRecv
  <2> QED
    BY <2>2, <2>4, <2>5 DEF AcceptedIsNotLost, Accepted, RecvLen
<1>4. CASE PublishIndication
  <2> DEFINE m == Indication(Len(received), Current, buffer)
  <2>1. /\ rx = "indication" /\ rx' = "raw" /\ UNCHANGED <<received, udp_in>>
        /\ udp_data' = Append(udp_data, m)
    BY <1>1, <1>4 DEF PublishIndication, Publish
  <2>2. m \in IndicationMsg /\ m.id = Len(received)
    <3>1. Current \in Datagram /\ Accepted(Current) /\ buffer \in [Offsets -> Nat]
      BY <1>0, <2>1, EmptySeq DEF TypeInv, TypeOK, AcceptedCurrent, Current
    <3>2. m \in IndicationMsg
      BY <1>0, <3>1, IndicationType
    <3>3. m.id = Len(received)
      BY DEF Indication
    <3> QED
      BY <3>2, <3>3
  <2> HIDE DEF m
  <2>3. \A n : PublishedOn(udp_data', n) <=> PublishedOn(udp_data, n) \/ n = Len(received)
    BY <1>0, <2>1, <2>2, PublishedOnAppend
  <2>4. ASSUME NEW n \in DOMAIN received, Accepted(received[n])
        PROVE  \/ PublishedOn(udp_data', n) /\ PublishedOn(udp_in', n)
               \/ n = Len(received) /\ PublishedOn(udp_data', n)
    BY <1>2, <2>1, <2>3, <2>4 DEF Published
  <2> QED
    BY <2>1, <2>4 DEF AcceptedIsNotLost, Published, PublishedOn, Accepted, RecvLen
<1>5. CASE PublishRaw
  <2> DEFINE m == RawPacket(Len(received), Current, buffer)
  <2>1. /\ rx = "raw" /\ rx' = "recv" /\ UNCHANGED <<received, udp_data>>
        /\ udp_in' = Append(udp_in, m)
    BY <1>1, <1>5 DEF PublishRaw, Publish
  <2>2. m \in RawPacketMsg /\ m.id = Len(received)
    <3>1. Current \in Datagram /\ buffer \in [Offsets -> Nat]
      BY <1>0, <2>1, EmptySeq DEF TypeInv, TypeOK, AcceptedCurrent, Current
    <3>2. m \in RawPacketMsg
      BY <1>0, <3>1, RawPacketType
    <3>3. m.id = Len(received)
      BY DEF RawPacket
    <3> QED
      BY <3>2, <3>3
  <2> HIDE DEF m
  <2>3. \A n : PublishedOn(udp_in', n) <=> PublishedOn(udp_in, n) \/ n = Len(received)
    BY <1>0, <2>1, <2>2, PublishedOnAppend
  <2>4. ASSUME NEW n \in DOMAIN received, Accepted(received[n])
        PROVE  PublishedOn(udp_data', n) /\ PublishedOn(udp_in', n)
    BY <1>2, <2>1, <2>3, <2>4 DEF Published
  <2> QED
    BY <2>1, <2>4 DEF AcceptedIsNotLost, Published, PublishedOn, Accepted, RecvLen
<1>6. CASE UNCHANGED <<received, udp_data, udp_in>> /\ (rx' = rx \/ rx \notin {"indication", "raw"})
  BY <1>1, <1>6 DEF AcceptedIsNotLost, Published, PublishedOn, Accepted, RecvLen
<1>7. \/ \E d \in Datagrams : Recv(d)
      \/ PublishIndication
      \/ PublishRaw
      \/ UNCHANGED <<received, udp_data, udp_in>> /\ (rx' = rx \/ rx \notin {"indication", "raw"})
  BY DEF Next, vars, rxVars, txVars, BindSocket, RecvError, CrashBeyondBuffer,
         createCohdaBTP, Shutdown, JoinReceiver
<1> QED
  BY <1>3, <1>4, <1>5, <1>6, <1>7

\* Between the socket and the topics no accepted datagram is lost while the
\* context lives: each is on both topics but the one in hand.
THEOREM NotLostCorrect == Spec => []AcceptedIsNotLost
<1> QED
  BY NotLostInit, NotLostStep, TypeInvariant, PTL DEF Spec
---------------------------------------------------------------------------
\* The refinement. Only datagrams that may arrive are read.
FromSocket == received \in Seq(Datagrams)

FeedInv == TypeInv /\ HandoverInv /\ FromSocket

LEMMA FromSocketStep == FromSocket /\ [Next]_vars => FromSocket'
<1> SUFFICES ASSUME FromSocket, [Next]_vars
             PROVE  FromSocket'
  OBVIOUS
<1>1. ASSUME NEW d \in Datagrams, Recv(d)
      PROVE  FromSocket'
  BY <1>1, AppendProperties DEF FromSocket, Recv
<1>2. CASE UNCHANGED received
  BY <1>2 DEF FromSocket
<1> QED
  BY <1>1, <1>2, ReceiverSteps DEF PublishIndication, PublishRaw

LEMMA FeedInvariant == Spec => []FeedInv
<1>1. Init => FromSocket
  BY DEF Init, FromSocket
<1>2. TypeInv /\ HandoverInv /\ FromSocket => FeedInv
  BY DEF FeedInv
<1> QED
  BY <1>1, <1>2, FromSocketStep, TypeInvariant, HandoverInvariant, PTL DEF Spec

\* What the mapping makes of the history of the socket and of the topics.
Offered(log) == {[id |-> n, header |-> Envelope(log[n])] : n \in DOMAIN log}
Delivered(data, in) ==
    [t \in Topics |-> IF t = "udp_data" THEN [k \in DOMAIN data |-> data[k].id]
                                        ELSE [k \in DOMAIN in |-> in[k].id]]

LEMMA MappingOfLogs ==
    ASSUME NEW data, NEW in
    PROVE  [t \in Topics |->
               [k \in DOMAIN (IF t = "udp_data" THEN data ELSE in) |->
                   (IF t = "udp_data" THEN data ELSE in)[k].id]] = Delivered(data, in)
BY DEF Delivered, Topics

LEMMA OfferedAppend ==
    ASSUME NEW S, NEW log \in Seq(S), NEW d \in S
    PROVE  Offered(Append(log, d)) = Offered(log) \cup {[id |-> Len(log) + 1, header |-> Envelope(d)]}
<1> DEFINE new == Append(log, d)  offer(l, n) == [id |-> n, header |-> Envelope(l[n])]
<1>1. /\ DOMAIN log = 1..Len(log) /\ DOMAIN new = 1..Len(log)+1 /\ Len(log) \in Nat
      /\ new[Len(log) + 1] = d
      /\ \A k \in 1..Len(log) : k \in 1..Len(log)+1 /\ new[k] = log[k]
      /\ \A k \in 1..Len(log)+1 : k \in 1..Len(log) \/ k = Len(log) + 1
      /\ Len(log) + 1 \in 1..Len(log)+1
  BY AppendProperties
<1> HIDE DEF new
<1>2. /\ \A k \in 1..Len(log) : offer(new, k) = offer(log, k)
      /\ offer(new, Len(log) + 1) = [id |-> Len(log) + 1, header |-> Envelope(d)]
  BY <1>1
<1>3. /\ Offered(new) = {offer(new, k) : k \in 1..Len(log)+1}
      /\ Offered(log) = {offer(log, k) : k \in 1..Len(log)}
  BY <1>1 DEF Offered
<1> HIDE DEF offer
<1> QED
  BY <1>1, <1>2, <1>3 DEF new

LEMMA Offers ==
    ASSUME FeedInv, NEW d \in Datagrams, Recv(d)
    PROVE  Feed!Next
<1> DEFINE i == Len(received) + 1  e == Envelope(d)
<1>1. /\ received \in Seq(Datagrams) /\ Len(received) \in Nat /\ i \in 1..MaxDatagrams
      /\ received' = Append(received, d) /\ UNCHANGED <<udp_data, udp_in>>
  BY DispatcherAssumption DEF FeedInv, FromSocket, Recv
<1>2. Offered(received') = Offered(received) \cup {[id |-> i, header |-> e]}
  BY <1>1, OfferedAppend
<1>3. \A m \in Offered(received) : m.id < i
  <2>1. DOMAIN received = 1..Len(received)
    BY <1>1
  <2>2. \A k \in 1..Len(received) : k < i
    BY <1>1
  <2> QED
    BY <2>1, <2>2 DEF Offered
<1>4. e \in Envelopes
  BY DEF Envelopes
<1> HIDE DEF i, e
<1>5. Feed!Offer(i, e)
  BY <1>1, <1>2, <1>3 DEF Feed!Offer, Offered, LogOf
<1> QED
  BY <1>1, <1>4, <1>5 DEF Feed!Next

\* The datagram in hand is one that the feed has to deliver.
LEMMA CurrentOffered ==
    ASSUME FeedInv, rx \in {"indication", "raw"}
    PROVE  /\ Len(received) \in 1..Len(received)
           /\ [id |-> Len(received), header |-> Envelope(Current)] \in Offered(received)
           /\ Envelope(Current) \in FromUnit
<1>1. /\ received \in Seq(Datagrams) /\ received # << >> /\ Accepted(Current)
      /\ Datagrams \subseteq Datagram
  BY DispatcherAssumption DEF FeedInv, FromSocket, TypeInv, AcceptedCurrent, DispatcherAssumption
<1>2. /\ Len(received) \in 1..Len(received) /\ DOMAIN received = 1..Len(received)
      /\ Current \in Datagrams
  BY <1>1, EmptySeq DEF Current
<1>3. [id |-> Len(received), header |-> Envelope(Current)] \in Offered(received)
  BY <1>2 DEF Offered, Current
<1>4. Current.len \in Nat /\ Current.from = originatingIp /\ RecvLen(Current) >= 78
  BY <1>1, <1>2, Sizes DEF Accepted, Datagram
<1>5. Current.len >= IndPayload
  BY <1>4, Sizes DEF RecvLen, BufferSize
<1>6. Envelope(Current) \in Envelopes
  BY <1>2 DEF Envelopes
<1> QED
  BY <1>2, <1>3, <1>4, <1>5, <1>6 DEF FromUnit, Envelope

\* One more message on one of the topics, about the datagram in hand.
LEMMA Delivers ==
    ASSUME FeedInv, rx \in {"indication", "raw"}, UNCHANGED received,
           NEW t \in Topics, NEW M, \A m \in M : m.id \in Nat,
           LogOf(t) \in Seq(M), NEW x \in M, x.id = Len(received),
           \A k \in 1..Len(LogOf(t)) : LogOf(t)[k].id < Len(received),
           LogOf(t)' = Append(LogOf(t), x),
           \A u \in Topics : u # t => LogOf(u)' = LogOf(u)
    PROVE  Feed!Next
<1> DEFINE n == Len(received)
           offer == [id |-> n, header |-> Envelope(Current)]
           old == Delivered(udp_data, udp_in)
           new == Delivered(udp_data', udp_in')
<1>1. /\ old = [u \in Topics |-> [k \in DOMAIN LogOf(u) |-> LogOf(u)[k].id]]
      /\ new = [u \in Topics |-> [k \in DOMAIN LogOf(u)' |-> LogOf(u)'[k].id]]
  BY MappingOfLogs DEF LogOf
<1>2. /\ DOMAIN LogOf(t) = 1..Len(LogOf(t)) /\ DOMAIN LogOf(t)' = 1..Len(LogOf(t)')
      /\ LogOf(t)' \in Seq(M)
  BY AppendProperties
<1>3. old[t] = Ids(LogOf(t)) /\ new[t] = Ids(LogOf(t)')
  BY <1>1, <1>2 DEF Ids
<1>4. Ids(LogOf(t)') = Append(Ids(LogOf(t)), n)
  BY IdsAppend
<1>5. \A u \in Topics : u # t => new[u] = old[u]
  BY <1>1
<1>6. new = [old EXCEPT ![t] = Append(old[t], n)]
  BY <1>1, <1>3, <1>4, <1>5
<1>7. \A k \in DOMAIN old[t] : old[t][k] < n
  BY <1>1, <1>2
<1>8. offer \in Offered(received) /\ offer.header \in FromUnit /\ offer.id = n
  BY CurrentOffered
<1>9. UNCHANGED Offered(received)
  BY DEF Offered
<1> HIDE DEF n, offer, old, new
<1>10. \E m \in Offered(received) :
          /\ m.header \in FromUnit
          /\ \A k \in DOMAIN old[t] : old[t][k] < m.id
          /\ new = [old EXCEPT ![t] = Append(@, m.id)]
  BY <1>6, <1>7, <1>8
<1>11. Feed!Deliver(t)
  BY <1>1, <1>9, <1>10 DEF Feed!Deliver, Offered
<1> QED
  BY <1>11 DEF Feed!Next

LEMMA FeedStep == FeedInv /\ [Next]_vars => [Feed!Next]_(Feed!vars)
<1> SUFFICES ASSUME FeedInv, [Next]_vars
             PROVE  [Feed!Next]_(Feed!vars)
  OBVIOUS
<1>0. /\ received \in Seq(Datagram) /\ Len(received) \in Nat
      /\ udp_data \in Seq(IndicationMsg) /\ Len(udp_data) \in Nat
      /\ udp_in \in Seq(RawPacketMsg) /\ Len(udp_in) \in Nat
      /\ \A m \in IndicationMsg : m.id \in Nat
      /\ \A m \in RawPacketMsg : m.id \in Nat
  BY DEF FeedInv, TypeInv, TypeOK, IndicationMsg, RawPacketMsg
<1>1. CASE UNCHANGED <<received, udp_data, udp_in>>
  BY <1>1 DEF Feed!vars, LogOf
<1>2. CASE PublishIndication /\ ~UNCHANGED udp_data
  <2> DEFINE m == Indication(Len(received), Current, buffer)
  <2>1. /\ rx = "indication" /\ UNCHANGED <<received, udp_in>>
        /\ udp_data' = Append(udp_data, m)
    BY <1>2 DEF PublishIndication, Publish
  <2>2. m \in IndicationMsg
    <3>1. Current \in Datagram /\ Accepted(Current) /\ buffer \in [Offsets -> Nat]
      BY <1>0, <2>1, EmptySeq DEF FeedInv, TypeInv, TypeOK, AcceptedCurrent, Current
    <3> QED
      BY <1>0, <3>1, IndicationType
  <2>3. m.id = Len(received)
    BY DEF Indication
  <2> HIDE DEF m
  <2>4. \A k \in 1..Len(udp_data) : udp_data[k].id < Len(received)
    BY <2>1 DEF FeedInv, HandoverInv, Ascending
  <2>5. "udp_data" \in Topics /\ LogOf("udp_data") = udp_data /\ LogOf("udp_data")' = udp_data'
        /\ \A u \in Topics : u # "udp_data" => LogOf(u)' = LogOf(u)
    BY <2>1 DEF Topics, LogOf
  <2> QED
    BY <1>0, <2>1, <2>2, <2>3, <2>4, <2>5, Delivers
<1>3. CASE PublishRaw /\ ~UNCHANGED udp_in
  <2> DEFINE m == RawPacket(Len(received), Current, buffer)
  <2>1. /\ rx = "raw" /\ main = "spin" /\ UNCHANGED <<received, udp_data>>
        /\ udp_in' = Append(udp_in, m)
    BY <1>3 DEF PublishRaw, Publish
  <2>2. m \in RawPacketMsg
    <3>1. Current \in Datagram /\ buffer \in [Offsets -> Nat]
      BY <1>0, <2>1, EmptySeq DEF FeedInv, TypeInv, TypeOK, AcceptedCurrent, Current
    <3> QED
      BY <1>0, <3>1, RawPacketType
  <2>3. m.id = Len(received)
    BY DEF RawPacket
  <2> HIDE DEF m
  <2>4. \A k \in 1..Len(udp_in) : udp_in[k].id < Len(received)
    <3>1. /\ Len(udp_data) = Len(udp_in) + 1
          /\ udp_data[Len(udp_data)].id = Len(received)
          /\ \A k \in 1..Len(udp_in) : udp_in[k].id = udp_data[k].id
          /\ \A i, j \in 1..Len(udp_data) : i < j => udp_data[i].id < udp_data[j].id
      BY <2>1 DEF FeedInv, HandoverInv, Handover, RawFollowsIndication, Ascending
    <3>2. ASSUME NEW k \in 1..Len(udp_in)
          PROVE  /\ k \in 1..Len(udp_data) /\ Len(udp_data) \in 1..Len(udp_data)
                 /\ k < Len(udp_data)
      BY <1>0, <3>1
    <3> QED
      BY <3>1, <3>2
  <2>5. "udp_in" \in Topics /\ LogOf("udp_in") = udp_in /\ LogOf("udp_in")' = udp_in'
        /\ \A u \in Topics : u # "udp_in" => LogOf(u)' = LogOf(u)
    BY <2>1 DEF Topics, LogOf
  <2> QED
    BY <1>0, <2>1, <2>2, <2>3, <2>4, <2>5, Delivers
<1> QED
  BY <1>1, <1>2, <1>3, ReceiverSteps, Offers DEF PublishIndication, PublishRaw

LEMMA FeedInit == Init => Feed!Init
BY DEF Init, Feed!Init, LogOf

\* The dispatcher implements the feed: whatever order the two threads run in
\* and however the process ends, each topic gets datagrams of the configured
\* unit with a header at least, each at most once and in the order of arrival.
THEOREM FeedCorrect == Spec => ImplementsFeed
BY FeedInit, FeedStep, FeedInvariant, PTL DEF Spec, ImplementsFeed, Feed!Spec
=============================================================================
