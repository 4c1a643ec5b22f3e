------------------------- MODULE ReceivePathProofs -------------------------
(***************************************************************************)
(* Theorems about ReceivePath, for any number of datagrams, any depth of   *)
(* the queues and any set of services. The dispatcher's invariants come    *)
(* from UdpDispatcherProofs, the order across a topic from RosTopicProofs. *)
(***************************************************************************)
EXTENDS ReceivePath, RosTopicProofs

Node == INSTANCE UdpDispatcherProofs

---------------------------------------------------------------------------
\* ReceivePath and the proofs about its parts instantiate the same modules
\* under two names. The definitions are the same.
LEMMA NodeAssumption == Node!DispatcherAssumption
  BY PathAssumption
  DEF Dispatcher!DispatcherAssumption, Dispatcher!BufferSize, Dispatcher!Datagram,
      Dispatcher!Packet, Dispatcher!uint8_t, Dispatcher!uint16_t,
      Node!DispatcherAssumption, Node!BufferSize, Node!Datagram, Node!Packet,
      Node!uint8_t, Node!uint16_t

LEMMA SameInit == Dispatcher!Init <=> Node!Init
  BY DEF Dispatcher!Init, Node!Init

LEMMA SameType == Dispatcher!TypeOK <=> Node!TypeOK
  BY DEF Dispatcher!TypeOK, Dispatcher!Provenance, Dispatcher!IndicationMsg,
      Dispatcher!RawPacketMsg, Dispatcher!RequestMsg, Dispatcher!NotCopied,
      Dispatcher!Datagram, Dispatcher!BufferSize, Dispatcher!uint8_t,
      Dispatcher!uint16_t, Node!TypeOK, Node!Provenance, Node!IndicationMsg,
      Node!RawPacketMsg, Node!RequestMsg, Node!NotCopied, Node!Datagram,
      Node!BufferSize, Node!uint8_t, Node!uint16_t

LEMMA SameNext == Dispatcher!Next <=> Node!Next
  BY DEF Dispatcher!BufferSize, Dispatcher!rxVars, Dispatcher!txVars,
      Dispatcher!RecvLen, Dispatcher!Accepted, Dispatcher!Overwrite,
      Dispatcher!PayloadSize, Dispatcher!PayloadOffsets,
      Dispatcher!ReadsBeyondBuffer, Dispatcher!NotCopied, Dispatcher!Octets,
      Dispatcher!OwnOctets, Dispatcher!Indication, Dispatcher!RawOffsets,
      Dispatcher!RawPacket, Dispatcher!Publish, Dispatcher!ReceiverRuns,
      Dispatcher!BindSocket, Dispatcher!RecvError, Dispatcher!AfterRecv,
      Dispatcher!Recv, Dispatcher!Current, Dispatcher!PublishIndication,
      Dispatcher!CrashBeyondBuffer, Dispatcher!PublishRaw, Dispatcher!BtpHeader,
      Dispatcher!MaxUdpPayload, Dispatcher!BodySize, Dispatcher!TotalSize,
      Dispatcher!Request, Dispatcher!Sendable, Dispatcher!createCohdaBTP,
      Dispatcher!Shutdown, Dispatcher!JoinReceiver, Dispatcher!Next,
      Dispatcher!UInt8, Dispatcher!UInt16, Dispatcher!Swap16, Dispatcher!htons,
      Dispatcher!ntohs, Dispatcher!SizeofMsgType, Dispatcher!SizeofDestination,
      Dispatcher!SizeofDataIndHdr, Dispatcher!SizeofDataReqHdr,
      Dispatcher!IndPayload, Dispatcher!ReqPayload, Node!BufferSize,
      Node!rxVars, Node!txVars, Node!RecvLen, Node!Accepted, Node!Overwrite,
      Node!PayloadSize, Node!PayloadOffsets, Node!ReadsBeyondBuffer,
      Node!NotCopied, Node!Octets, Node!OwnOctets, Node!Indication,
      Node!RawOffsets, Node!RawPacket, Node!Publish, Node!ReceiverRuns,
      Node!BindSocket, Node!RecvError, Node!AfterRecv, Node!Recv, Node!Current,
      Node!PublishIndication, Node!CrashBeyondBuffer, Node!PublishRaw,
      Node!BtpHeader, Node!MaxUdpPayload, Node!BodySize, Node!TotalSize,
      Node!Request, Node!Sendable, Node!createCohdaBTP, Node!Shutdown,
      Node!JoinReceiver, Node!Next, Node!UInt8, Node!UInt16, Node!Swap16,
      Node!htons, Node!ntohs, Node!SizeofMsgType, Node!SizeofDestination,
      Node!SizeofDataIndHdr, Node!SizeofDataReqHdr, Node!IndPayload,
      Node!ReqPayload

LEMMA SameOrder ==
    /\ \A w : Dispatcher!ntohs(w) = Node!ntohs(w)
    /\ \A n : Dispatcher!htons(n) = Node!htons(n)
    /\ Dispatcher!SizeofDataIndHdr = Node!SizeofDataIndHdr
    /\ Dispatcher!uint8_t = Node!uint8_t /\ Dispatcher!uint16_t = Node!uint16_t
  BY DEF Dispatcher!ntohs, Dispatcher!htons, Dispatcher!Swap16, Dispatcher!UInt16,
         Dispatcher!SizeofDataIndHdr, Dispatcher!SizeofDestination, Dispatcher!uint8_t,
         Dispatcher!uint16_t, Node!ntohs, Node!htons, Node!Swap16, Node!UInt16,
         Node!SizeofDataIndHdr, Node!SizeofDestination, Node!uint8_t, Node!uint16_t

LEMMA SameMatch ==
    ASSUME NEW sub, NEW log
    PROVE  /\ Btp!CanMatch(sub) <=> CanMatch(sub)
           /\ Btp!Match(sub, log) = Match(sub, log)
  BY DEF CanMatch, Match, Btp!CanMatch, Btp!Match

LEMMA SameTopic ==
    ASSUME NEW sub, NEW log, NEW held, NEW depth
    PROVE  /\ Btp!IsSubscription(sub) <=> IsSubscription(sub)
           /\ Btp!CanTransmit(sub, log, held) <=> CanTransmit(sub, log, held)
           /\ Btp!Transmit(sub, log, held, depth) = Transmit(sub, log, held, depth)
           /\ Btp!HasSample(sub) <=> HasSample(sub)
           /\ Btp!Sample(sub, log) = Sample(sub, log)
           /\ Btp!Taken(sub) = Taken(sub)
           /\ Rx!IsSubscription(sub) <=> IsSubscription(sub)
           /\ Rx!CanTransmit(sub, log, held) <=> CanTransmit(sub, log, held)
           /\ Rx!Transmit(sub, log, held, depth) = Transmit(sub, log, held, depth)
           /\ Rx!HasSample(sub) <=> HasSample(sub)
           /\ Rx!Sample(sub, log) = Sample(sub, log)
           /\ Rx!Taken(sub) = Taken(sub)
  BY DEF IsSubscription, CanMatch, NextSample, CanTransmit, KeepLast, Transmit,
      HasSample, Sample, Taken, Btp!IsSubscription, Btp!CanMatch,
      Btp!NextSample, Btp!CanTransmit, Btp!KeepLast, Btp!Transmit,
      Btp!HasSample, Btp!Sample, Btp!Taken, Rx!IsSubscription, Rx!CanMatch,
      Rx!NextSample, Rx!CanTransmit, Rx!KeepLast, Rx!Transmit, Rx!HasSample,
      Rx!Sample, Rx!Taken

---------------------------------------------------------------------------
LEMMA MessageIds ==
    /\ \A m \in Node!IndicationMsg : m.id \in Nat
    /\ \A m \in BtpMsg : m.id \in Nat
  BY DEF Node!IndicationMsg, BtpMsg

---------------------------------------------------------------------------
\* What an indication says of its datagram, as far as it is passed on.
IsIndicationOf(m, d) ==
    /\ m.btp_type = d.BTPType
    /\ m.dest_port = Node!ntohs(d.DestPort)
    /\ m.msg_length = Node!UInt8(Node!ntohs(d.MsgLen))
    /\ m.own = Node!OwnOctets(d)
    /\ m.body = d.len - Node!IndPayload

FromDatagrams ==
    /\ received \in Seq(Datagrams)
    /\ Len(received) <= MaxDatagrams
    /\ \A k \in 1..Len(udp_data) :
          /\ udp_data[k].id \in 1..Len(received)
          /\ IsIndicationOf(udp_data[k], received[udp_data[k].id])

\* Every message of a topic was made of one of the topic before it.
FromUdpData ==
    \A i \in 1..Len(btp_data) : \E k \in 1..Len(udp_data) :
        btp_data[i] = Btp!BtpIndication(udp_data[k])

FromBtpData ==
    \A s \in Services : \A k \in 1..Len(published[s]) : \E i \in 1..Len(btp_data) :
        /\ published[s][k] = btp_data[i]
        /\ Rx!IsFor(s, btp_data[i]) /\ Rx!MayDecode(s, btp_data[i])

Ordered ==
    /\ Ascends(Ids(udp_data))
    /\ InOrder(udpSub, Ids(udp_data), Ids(btp_data))
    /\ \A s \in Services : InOrder(btpSub[s], Ids(btp_data), Ids(published[s]))

NodeInv == Node!TypeInv /\ Node!HandoverInv

IInv == NodeInv /\ TypeOK /\ FromDatagrams /\ FromUdpData /\ FromBtpData /\ Ordered

LEMMA LogTypes ==
    ASSUME IInv
    PROVE  /\ udp_data \in Seq(Node!IndicationMsg)
           /\ btp_data \in Seq(BtpMsg)
           /\ \A s \in Services : published[s] \in Seq(BtpMsg)
           /\ Ids(udp_data) \in Seq(Nat) /\ Len(Ids(udp_data)) = Len(udp_data)
           /\ Ids(btp_data) \in Seq(Nat) /\ Len(Ids(btp_data)) = Len(btp_data)
           /\ \A k \in 1..Len(udp_data) : Ids(udp_data)[k] = udp_data[k].id
           /\ \A k \in 1..Len(btp_data) : Ids(btp_data)[k] = btp_data[k].id
           /\ \A s \in Services : Ids(published[s]) \in Seq(Nat)
           /\ \A s \in Services : Len(Ids(published[s])) = Len(published[s])
           /\ \A s \in Services : \A k \in 1..Len(published[s]) :
                 Ids(published[s])[k] = published[s][k].id
<1>1. udp_data \in Seq(Node!IndicationMsg)
    BY DEF IInv, NodeInv, Node!TypeInv, Node!TypeOK
<1>2. btp_data \in Seq(BtpMsg) /\ \A s \in Services : published[s] \in Seq(BtpMsg)
    BY DEF IInv, TypeOK
<1>3. /\ Ids(udp_data) \in Seq(Nat) /\ Len(Ids(udp_data)) = Len(udp_data)
      /\ \A k \in 1..Len(udp_data) : Ids(udp_data)[k] = udp_data[k].id
    BY <1>1, IdsType, MessageIds
<1>4. /\ Ids(btp_data) \in Seq(Nat) /\ Len(Ids(btp_data)) = Len(btp_data)
      /\ \A k \in 1..Len(btp_data) : Ids(btp_data)[k] = btp_data[k].id
    BY <1>2, IdsType, MessageIds
<1>5. ASSUME NEW s \in Services
      PROVE  /\ Ids(published[s]) \in Seq(Nat) /\ Len(Ids(published[s])) = Len(published[s])
             /\ \A k \in 1..Len(published[s]) : Ids(published[s])[k] = published[s][k].id
    BY <1>2, IdsType, MessageIds
<1> QED BY <1>1, <1>2, <1>3, <1>4, <1>5

\* Ids on btp_data are ids of udp_data, those of a service ids of btp_data.
LEMMA IdsComeFrom ==
    ASSUME IInv
    PROVE  /\ \A i \in 1..Len(btp_data) : \E k \in 1..Len(udp_data) :
                 Ids(btp_data)[i] = Ids(udp_data)[k]
           /\ \A s \in Services : \A n \in 1..Len(published[s]) :
                 \E i \in 1..Len(btp_data) : Ids(published[s])[n] = Ids(btp_data)[i]
<1>1. \A k : Btp!BtpIndication(udp_data[k]).id = udp_data[k].id
    BY DEF Btp!BtpIndication
<1>2. \A i \in 1..Len(btp_data) : \E k \in 1..Len(udp_data) : btp_data[i].id = udp_data[k].id
    BY <1>1 DEF IInv, FromUdpData
<1>3. \A s \in Services : \A n \in 1..Len(published[s]) :
          \E i \in 1..Len(btp_data) : published[s][n].id = btp_data[i].id
    BY DEF IInv, FromBtpData
<1> QED BY <1>2, <1>3, LogTypes

LEMMA BtpIndicationType ==
    ASSUME NEW m \in Node!IndicationMsg
    PROVE  Btp!BtpIndication(m) \in BtpMsg /\ Btp!BtpIndication(m).id = m.id
<1>1. /\ m.id \in Nat /\ m.btp_type \in Node!uint8_t /\ m.dest_port \in Node!uint16_t
      /\ m.msg_length \in Node!uint8_t /\ m.own \in Nat /\ m.body \in Nat
      /\ m.content \in Contents
    BY DEF Node!IndicationMsg
<1>2. m.msg_length \in Nat
    BY <1>1 DEF Node!uint8_t
<1> QED BY <1>1, <1>2, SameOrder DEF Btp!BtpIndication, Btp!BtpSize, BtpMsg

---------------------------------------------------------------------------
\* The dispatcher's steps: a datagram is read, or an indication published.
LEMMA ReadKeeps ==
    ASSUME IInv, UNCHANGED <<udp_data, udpSub, btp_data, btpAlive, btpSub, rxAlive, published>>,
           NEW d \in Datagrams, Len(received) < MaxDatagrams, received' = Append(received, d)
    PROVE  (FromDatagrams /\ FromUdpData /\ FromBtpData /\ Ordered)'
<1>1. received \in Seq(Datagrams)
    BY DEF IInv, FromDatagrams
<1>2. /\ received' \in Seq(Datagrams) /\ Len(received) \in Nat
      /\ Len(received') = Len(received) + 1
      /\ \A k \in 1..Len(received) : k \in 1..Len(received') /\ received'[k] = received[k]
    BY <1>1, LogAppend
<1>3. MaxDatagrams \in Nat
    BY PathAssumption DEF Dispatcher!DispatcherAssumption
<1>4. FromDatagrams'
    BY <1>2, <1>3 DEF IInv, FromDatagrams, IsIndicationOf
<1>5. FromUdpData' /\ FromBtpData' /\ Ordered'
    BY DEF IInv, FromUdpData, FromBtpData, Ordered, Ids, Rx!IsFor, Rx!MayDecode
<1> QED BY <1>4, <1>5

LEMMA PublishedIsIndication ==
    ASSUME NEW n, NEW d, NEW buf
    PROVE  /\ Node!Indication(n, d, buf).id = n
           /\ IsIndicationOf(Node!Indication(n, d, buf), d)
  BY DEF Node!Indication, IsIndicationOf

LEMMA PublishKeeps ==
    ASSUME IInv, NodeInv',
           UNCHANGED <<received, udpSub, btp_data, btpAlive, btpSub, rxAlive, published>>,
           received # << >>, rx = "indication",
           udp_data' = Append(udp_data, Node!Indication(Len(received), Node!Current, buffer))
    PROVE  (FromDatagrams /\ FromUdpData /\ FromBtpData /\ Ordered)'
<1> DEFINE m == Node!Indication(Len(received), Node!Current, buffer)
           n == Len(udp_data)
<1>1. received \in Seq(Datagrams) /\ Len(received) \in Nat /\ Len(received) > 0
    BY EmptySeq DEF IInv, FromDatagrams
<1>2. m.id = Len(received) /\ IsIndicationOf(m, received[Len(received)])
    BY PublishedIsIndication DEF Node!Current
<1>3. udp_data \in Seq(Node!IndicationMsg) /\ udp_data' = Append(udp_data, m)
    BY LogTypes
<1>4. udp_data' \in Seq(Node!IndicationMsg)
    BY DEF NodeInv, Node!TypeInv, Node!TypeOK
<1> HIDE DEF m
<1>5. /\ Len(udp_data') = n + 1 /\ udp_data'[n + 1] = m /\ n \in Nat
      /\ \A k \in 1..n : k \in 1..n+1 /\ udp_data'[k] = udp_data[k]
      /\ \A k \in 1..n+1 : k \in 1..n \/ k = n + 1
    BY <1>3, AppendProperties
<1>6. m \in Node!IndicationMsg
    <2>1. n + 1 \in 1..Len(udp_data')
        BY <1>5
    <2> QED BY <1>4, <1>5, <2>1
<1>7. Ids(udp_data') = Append(Ids(udp_data), Len(received))
    BY <1>2, <1>3, <1>6, IdsAppend, MessageIds
<1>8. \A k \in 1..n : udp_data[k].id < Len(received)
    BY DEF IInv, NodeInv, Node!HandoverInv, Node!Ascending
<1>9. FromDatagrams'
    BY <1>1, <1>2, <1>5 DEF IInv, FromDatagrams
<1>10. FromUdpData'
    <2> HIDE DEF n
    <2> SUFFICES ASSUME NEW i \in 1..Len(btp_data)
                 PROVE  \E k \in 1..Len(udp_data') : btp_data[i] = Btp!BtpIndication(udp_data'[k])
        BY ZenonT(30) DEF FromUdpData, Btp!BtpIndication, Btp!BtpSize
    <2>1. PICK k \in 1..n : btp_data[i] = Btp!BtpIndication(udp_data[k])
        BY DEF IInv, FromUdpData, n
    <2> QED BY <1>5, <2>1
<1>11. FromBtpData'
    BY DEF IInv, FromBtpData, Rx!IsFor, Rx!MayDecode
<1>12. Ids(btp_data') = Ids(btp_data) /\ \A s \in Services : Ids(published'[s]) = Ids(published[s])
    BY DEF Ids
<1>13. \A i \in 1..Len(btp_data) : Ids(btp_data)[i] < Len(received)
    <2>1. /\ \A i \in 1..Len(btp_data) : \E k \in 1..n : Ids(btp_data)[i] = Ids(udp_data)[k]
          /\ \A k \in 1..n : Ids(udp_data)[k] = udp_data[k].id
        BY LogTypes, IdsComeFrom
    <2> HIDE DEF n
    <2> QED BY <1>8, <2>1
<1>14. InOrder(udpSub, Append(Ids(udp_data), Len(received)), Ids(btp_data))
    BY <1>1, <1>13, LogTypes, LogGrows DEF IInv, Ordered
<1>15. Ascends(Append(Ids(udp_data), Len(received)))
    BY <1>1, <1>8, LogTypes, AscendsAppend DEF IInv, Ordered
<1>16. Ordered'
    BY <1>7, <1>12, <1>14, <1>15 DEF IInv, Ordered
<1> QED BY <1>9, <1>10, <1>11, <1>16

LEMMA DispatcherKeeps == ASSUME IInv, DispatcherStep PROVE IInv'
<1>1. Node!Next /\ UNCHANGED <<udpSub, btp_data, btpAlive, btpSub, rxAlive, published>>
    BY SameNext DEF DispatcherStep, btpVars, rxVars
<1>2. NodeInv'
    BY <1>1, NodeAssumption, Node!TypeStep, Node!HandoverStep DEF IInv, NodeInv
<1>3. Dispatcher!TypeOK'
    <2>1. Node!TypeOK'
        BY <1>2 DEF NodeInv, Node!TypeInv
    <2> QED BY <2>1, SameType, PTL
<1>4. TypeOK'
    BY <1>1, <1>3 DEF IInv, TypeOK, BtpMsg, Btp!IsSubscription, Rx!IsSubscription,
                      Dispatcher!uint8_t, Dispatcher!uint16_t
<1>5. (FromDatagrams /\ FromUdpData /\ FromBtpData /\ Ordered)'
    <2>1. \/ UNCHANGED <<udp_data, received>>
          \/ /\ UNCHANGED udp_data
             /\ Len(received) < MaxDatagrams
             /\ \E d \in Datagrams : received' = Append(received, d)
          \/ /\ rx = "indication" /\ received # << >>
             /\ UNCHANGED received
             /\ udp_data' = Append(udp_data, Node!Indication(Len(received), Node!Current, buffer))
        BY <1>1, NodeAssumption, Node!TopicStep DEF IInv, NodeInv
    <2>2. CASE UNCHANGED <<udp_data, received>>
        BY <1>1, <2>2
        DEF IInv, FromDatagrams, FromUdpData, FromBtpData, Ordered, Ids, IsIndicationOf,
            Rx!IsFor, Rx!MayDecode
    <2> QED BY <1>1, <1>2, <2>1, <2>2, ReadKeeps, PublishKeeps
<1> QED BY <1>2, <1>4, <1>5 DEF IInv

---------------------------------------------------------------------------
\* The middleware looks at positions only.
\* The node's unchanged logs, seen by the invariants.
LEMMA SameLogs ==
    ASSUME IInv, UNCHANGED <<dispatcherVars, btp_data, published>>
    PROVE  /\ NodeInv' /\ Dispatcher!TypeOK' /\ FromDatagrams' /\ FromUdpData' /\ FromBtpData'
           /\ UNCHANGED <<Ids(udp_data), Ids(btp_data)>>
           /\ \A s \in Services : Ids(published[s])' = Ids(published[s])
<1>1. UNCHANGED <<main, rx, buffer, received, udp_data, udp_in, udp_send_subscriber_, handled, wire>>
    BY DEF dispatcherVars
<1>2. [Node!Next]_(Node!vars)
    BY <1>1 DEF Node!vars, Node!rxVars, Node!txVars
<1>3. NodeInv'
    BY <1>2, NodeAssumption, Node!TypeStep, Node!HandoverStep DEF IInv, NodeInv
<1>4. Node!TypeOK'
    BY <1>3 DEF NodeInv, Node!TypeInv
<1>5. Dispatcher!TypeOK'
    BY <1>4, SameType, PTL
<1> QED BY <1>1, <1>3, <1>5
        DEF IInv, FromDatagrams, FromUdpData, FromBtpData, IsIndicationOf, Ids,
            Rx!IsFor, Rx!MayDecode, Btp!BtpIndication, Btp!BtpSize

LEMMA Depths ==
    UdpDataHistory \in Nat \ {0} /\ UdpDataDepth \in Nat \ {0} /\ BtpDataDepth \in Nat \ {0}
  BY PathAssumption

\* A step of btp_data that publishes nothing.
LEMMA BtpSubscriptionKeeps ==
    ASSUME IInv, UNCHANGED <<dispatcherVars, btp_data, rxVars>>, btpAlive' \in BOOLEAN,
           InOrder(udpSub', Ids(udp_data), Ids(btp_data))
    PROVE  IInv'
<1>1. UNCHANGED <<btpSub, rxAlive, published>>
    BY DEF rxVars
<1>2. /\ NodeInv' /\ Dispatcher!TypeOK' /\ FromDatagrams' /\ FromUdpData' /\ FromBtpData'
      /\ UNCHANGED <<Ids(udp_data), Ids(btp_data)>>
      /\ \A s \in Services : Ids(published[s])' = Ids(published[s])
    BY <1>1, SameLogs
<1>3. Btp!IsSubscription(udpSub')
    BY SameTopic DEF InOrder
<1>4. TypeOK'
    BY <1>1, <1>2, <1>3
    DEF IInv, TypeOK, BtpMsg, Btp!IsSubscription, Rx!IsSubscription, Dispatcher!uint8_t,
        Dispatcher!uint16_t
<1>5. Ordered'
    BY <1>1, <1>2 DEF IInv, Ordered
<1> QED BY <1>2, <1>4, <1>5 DEF IInv

\* One that takes an indication and publishes it.
LEMMA BtpPublishKeeps ==
    ASSUME IInv, UNCHANGED <<dispatcherVars, rxVars>>, btpAlive' \in BOOLEAN,
           HasSample(udpSub), udpSub' = Taken(udpSub),
           btp_data' = Append(btp_data, Btp!BtpIndication(Sample(udpSub, udp_data)))
    PROVE  IInv'
<1> DEFINE h == Head(udpSub.queue)  packet == udp_data[h]  m == Btp!BtpIndication(packet)
           n == Len(btp_data)
<1>1. /\ UNCHANGED <<btpSub, rxAlive, published>>
      /\ UNCHANGED <<main, rx, buffer, received, udp_data, udp_in, udp_send_subscriber_, handled, wire>>
    BY DEF rxVars, dispatcherVars
<1>2. NodeInv' /\ Dispatcher!TypeOK' /\ FromDatagrams'
    <2>1. [Node!Next]_(Node!vars)
        BY <1>1 DEF Node!vars, Node!rxVars, Node!txVars
    <2>2. NodeInv'
        BY <2>1, NodeAssumption, Node!TypeStep, Node!HandoverStep DEF IInv, NodeInv
    <2>3. Node!TypeOK'
        BY <2>2 DEF NodeInv, Node!TypeInv
    <2>4. Dispatcher!TypeOK'
        BY <2>3, SameType, PTL
    <2> QED BY <1>1, <2>2, <2>4 DEF IInv, FromDatagrams, IsIndicationOf
<1>3. /\ h \in 1..Len(udp_data)
      /\ \A i \in 1..n : Ids(btp_data)[i] < Ids(udp_data)[h]
      /\ InOrder(udpSub', Ids(udp_data), Append(Ids(btp_data), Ids(udp_data)[h]))
    BY TakenKeepsOrder, LogTypes DEF IInv, Ordered, Sample
<1>4. packet \in Node!IndicationMsg /\ Ids(udp_data)[h] = packet.id /\ packet.id \in Nat
    BY <1>3, LogTypes, MessageIds
<1> HIDE DEF h, packet
<1>5. m \in BtpMsg /\ m.id = packet.id
    BY <1>4, BtpIndicationType
<1>6. btp_data \in Seq(BtpMsg) /\ btp_data' = Append(btp_data, m)
    BY LogTypes DEF Sample, h, packet
<1> HIDE DEF m
<1>7. /\ btp_data' \in Seq(BtpMsg) /\ n \in Nat /\ Len(btp_data') = n + 1 /\ btp_data'[n + 1] = m
      /\ \A k \in 1..n : k \in 1..n+1 /\ btp_data'[k] = btp_data[k]
      /\ \A k \in 1..n+1 : k \in 1..n \/ k = n + 1
    BY <1>5, <1>6, LogAppend
<1>8. Ids(btp_data') = Append(Ids(btp_data), packet.id)
    BY <1>5, <1>6, IdsAppend, MessageIds
<1>9. TypeOK'
    <2>1. Btp!IsSubscription(udpSub')
        BY <1>3, SameTopic DEF InOrder
    <2> QED
        BY <1>1, <1>2, <1>7, <2>1
        DEF IInv, TypeOK, BtpMsg, Btp!IsSubscription, Rx!IsSubscription, Dispatcher!uint8_t,
            Dispatcher!uint16_t
<1>10. FromUdpData'
    <2> HIDE DEF n
    <2> SUFFICES ASSUME NEW i \in 1..n+1
                 PROVE  \E k \in 1..Len(udp_data) : btp_data'[i] = Btp!BtpIndication(udp_data[k])
        BY <1>1, <1>7 DEF FromUdpData, Btp!BtpIndication, Btp!BtpSize
    <2>1. CASE i \in 1..n
        BY <1>7, <2>1 DEF IInv, FromUdpData, n
    <2>2. CASE i = n + 1
        BY <1>3, <1>7, <2>2 DEF m, packet
    <2> QED BY <1>7, <2>1, <2>2
<1>11. FromBtpData'
    <2> SUFFICES ASSUME NEW s \in Services, NEW k \in 1..Len(published[s])
                 PROVE  \E i \in 1..n+1 :
                            /\ published[s][k] = btp_data'[i]
                            /\ Rx!IsFor(s, btp_data'[i]) /\ Rx!MayDecode(s, btp_data'[i])
        BY <1>1, <1>7, ZenonT(30) DEF FromBtpData, Rx!IsFor, Rx!MayDecode
    <2>1. PICK i \in 1..n : /\ published[s][k] = btp_data[i]
                            /\ Rx!IsFor(s, btp_data[i]) /\ Rx!MayDecode(s, btp_data[i])
        BY DEF IInv, FromBtpData
    <2> QED BY <1>7, <2>1
<1>12. ASSUME NEW s \in Services
       PROVE  InOrder(btpSub[s], Append(Ids(btp_data), packet.id), Ids(published[s]))
    <2>1. \A k \in 1..Len(Ids(published[s])) : Ids(published[s])[k] < packet.id
        <3>1. /\ \A k \in 1..Len(published[s]) : \E i \in 1..n :
                    Ids(published[s])[k] = Ids(btp_data)[i]
              /\ Len(Ids(published[s])) = Len(published[s])
            BY LogTypes, IdsComeFrom
        <3>2. \A i \in 1..n : Ids(btp_data)[i] < packet.id
            BY <1>3, <1>4
        <3> HIDE DEF n
        <3> QED BY <3>1, <3>2
    <2> QED BY <1>4, <2>1, LogTypes, LogGrows DEF IInv, Ordered
<1>13. Ids(udp_data') = Ids(udp_data) /\ \A s \in Services : Ids(published'[s]) = Ids(published[s])
    BY <1>1 DEF Ids
<1>14. Ordered'
    BY <1>1, <1>3, <1>4, <1>8, <1>12, <1>13 DEF IInv, Ordered
<1> QED BY <1>2, <1>9, <1>10, <1>11, <1>14 DEF IInv

LEMMA BtpKeeps == ASSUME IInv, BtpStep PROVE IInv'
<1>1. Btp!Next /\ UNCHANGED <<dispatcherVars, rxVars>>
    BY DEF BtpStep
<1>2. /\ InOrder(udpSub, Ids(udp_data), Ids(btp_data)) /\ Ascends(Ids(udp_data))
      /\ Ids(udp_data) \in Seq(Nat) /\ Ids(btp_data) \in Seq(Nat)
      /\ Len(udp_data) = Len(Ids(udp_data)) /\ btpAlive \in BOOLEAN
    BY LogTypes DEF IInv, Ordered, TypeOK
<1>3. CASE Btp!MatchUdpData
    <2>1. /\ CanMatch(udpSub) /\ udpSub' = Match(udpSub, Ids(udp_data))
          /\ UNCHANGED <<btp_data, btpAlive>>
        BY <1>2, <1>3, SameMatch, MatchLengthOnly DEF Btp!MatchUdpData
    <2>2. InOrder(udpSub', Ids(udp_data), Ids(btp_data))
        BY <1>2, <2>1, MatchKeepsOrder
    <2> QED BY <1>1, <1>2, <2>1, <2>2, BtpSubscriptionKeeps
<1>4. CASE Btp!TransmitUdpData
    <2>1. /\ CanTransmit(udpSub, Ids(udp_data), UdpDataHistory)
          /\ udpSub' = Transmit(udpSub, Ids(udp_data), UdpDataHistory, UdpDataDepth)
          /\ UNCHANGED <<btp_data, btpAlive>>
        BY <1>2, <1>4, SameTopic, LengthOnly DEF Btp!TransmitUdpData
    <2>2. InOrder(udpSub', Ids(udp_data), Ids(btp_data))
        BY <1>2, <2>1, Depths, TransmitKeepsOrder
    <2> QED BY <1>1, <1>2, <2>1, <2>2, BtpSubscriptionKeeps
<1>5. CASE Btp!udpCallback
    <2>1. /\ HasSample(udpSub) /\ udpSub' = Taken(udpSub) /\ btpAlive' \in BOOLEAN
          /\ \/ UNCHANGED btp_data
             \/ btp_data' = Append(btp_data, Btp!BtpIndication(Sample(udpSub, udp_data)))
        BY <1>5, SameTopic DEF Btp!udpCallback, Btp!Publish
    <2>2. InOrder(Taken(udpSub), Ids(udp_data), Ids(btp_data))
        BY <1>2, <2>1, TakenKeepsOrder
    <2> QED BY <1>1, <2>1, <2>2, BtpSubscriptionKeeps, BtpPublishKeeps
<1> QED BY <1>1, <1>3, <1>4, <1>5 DEF Btp!Next

---------------------------------------------------------------------------
\* A step of the service s that publishes nothing.
LEMMA RxSubscriptionKeeps ==
    ASSUME IInv, UNCHANGED <<dispatcherVars, btpVars, published>>,
           rxAlive' \in [Services -> BOOLEAN],
           NEW s \in Services, NEW new, btpSub' = [btpSub EXCEPT ![s] = new],
           InOrder(new, Ids(btp_data), Ids(published[s]))
    PROVE  IInv'
<1>1. UNCHANGED <<udpSub, btp_data, btpAlive>>
    BY DEF btpVars
<1>2. /\ NodeInv' /\ Dispatcher!TypeOK' /\ FromDatagrams' /\ FromUdpData' /\ FromBtpData'
      /\ UNCHANGED <<Ids(udp_data), Ids(btp_data)>>
      /\ \A t \in Services : Ids(published[t])' = Ids(published[t])
    BY <1>1, SameLogs
<1>3. DOMAIN btpSub = Services
    BY DEF IInv, TypeOK
<1>4. /\ DOMAIN btpSub' = Services /\ btpSub'[s] = new
      /\ \A t \in Services : t # s => btpSub'[t] = btpSub[t]
    BY <1>3
<1>5. Rx!IsSubscription(new)
    BY SameTopic DEF InOrder
<1>6. \A t \in Services : Rx!IsSubscription(btpSub'[t])
    BY <1>4, <1>5 DEF IInv, TypeOK
<1>7. TypeOK'
    BY <1>1, <1>2, <1>4, <1>6
    DEF IInv, TypeOK, BtpMsg, Btp!IsSubscription, Rx!IsSubscription, Dispatcher!uint8_t,
        Dispatcher!uint16_t
<1>8. Ordered'
    BY <1>1, <1>2, <1>4 DEF IInv, Ordered
<1> QED BY <1>2, <1>7, <1>8 DEF IInv

\* What a service publishes is the BTP indication it takes.
RxPublishes(s) ==
    LET indication == Sample(btpSub[s], btp_data)
    IN  /\ HasSample(btpSub[s])
        /\ btpSub' = [btpSub EXCEPT ![s] = Taken(btpSub[s])]
        /\ published' = [published EXCEPT ![s] = Append(published[s], indication)]
        /\ rxAlive' = rxAlive
        /\ Rx!IsFor(s, indication) /\ Rx!MayDecode(s, indication)

\* Its id is later than those of all it published before.
LEMMA RxPublished ==
    ASSUME IInv, NEW s \in Services, RxPublishes(s)
    PROVE  \E i \in 1..Len(btp_data) :
              /\ published' = [published EXCEPT ![s] = Append(published[s], btp_data[i])]
              /\ Rx!IsFor(s, btp_data[i]) /\ Rx!MayDecode(s, btp_data[i])
              /\ \A n \in 1..Len(published[s]) : published[s][n].id < btp_data[i].id
              /\ InOrder(Taken(btpSub[s]), Ids(btp_data), Append(Ids(published[s]), btp_data[i].id))
<1> DEFINE h == Head(btpSub[s].queue)
<1>1. /\ InOrder(btpSub[s], Ids(btp_data), Ids(published[s])) /\ Ascends(Ids(btp_data))
      /\ HasSample(btpSub[s])
    BY DEF IInv, Ordered, InOrder, RxPublishes
<1>2. /\ Ids(btp_data) \in Seq(Nat) /\ Ids(published[s]) \in Seq(Nat)
      /\ Len(Ids(btp_data)) = Len(btp_data) /\ Len(Ids(published[s])) = Len(published[s])
      /\ \A k \in 1..Len(btp_data) : Ids(btp_data)[k] = btp_data[k].id
      /\ \A k \in 1..Len(published[s]) : Ids(published[s])[k] = published[s][k].id
    BY LogTypes
<1>3. /\ h \in 1..Len(btp_data)
      /\ \A n \in 1..Len(published[s]) : Ids(published[s])[n] < Ids(btp_data)[h]
      /\ InOrder(Taken(btpSub[s]), Ids(btp_data), Append(Ids(published[s]), Ids(btp_data)[h]))
    BY <1>1, <1>2, TakenKeepsOrder DEF Sample
<1>4. /\ published' = [published EXCEPT ![s] = Append(published[s], btp_data[h])]
      /\ Rx!IsFor(s, btp_data[h]) /\ Rx!MayDecode(s, btp_data[h])
    BY DEF RxPublishes, Sample
<1> HIDE DEF h
<1> QED BY <1>2, <1>3, <1>4

LEMMA RxPublishKeeps ==
    ASSUME IInv, UNCHANGED <<dispatcherVars, btpVars>>, NEW s \in Services, RxPublishes(s)
    PROVE  IInv'
<1>1. UNCHANGED <<udpSub, btp_data, btpAlive>> /\ rxAlive' = rxAlive
    BY DEF btpVars, RxPublishes
<1>2. PICK i \in 1..Len(btp_data) :
          /\ published' = [published EXCEPT ![s] = Append(published[s], btp_data[i])]
          /\ Rx!IsFor(s, btp_data[i]) /\ Rx!MayDecode(s, btp_data[i])
          /\ InOrder(Taken(btpSub[s]), Ids(btp_data), Append(Ids(published[s]), btp_data[i].id))
    BY RxPublished
<1> DEFINE m == btp_data[i]  n == Len(published[s])
<1>3. UNCHANGED <<main, rx, buffer, received, udp_data, udp_in, udp_send_subscriber_, handled, wire>>
    BY DEF dispatcherVars
<1>4. NodeInv' /\ Dispatcher!TypeOK' /\ FromDatagrams' /\ FromUdpData'
    <2>1. [Node!Next]_(Node!vars)
        BY <1>3 DEF Node!vars, Node!rxVars, Node!txVars
    <2>2. NodeInv'
        BY <2>1, NodeAssumption, Node!TypeStep, Node!HandoverStep DEF IInv, NodeInv
    <2>3. Node!TypeOK'
        BY <2>2 DEF NodeInv, Node!TypeInv
    <2>4. Dispatcher!TypeOK'
        BY <2>3, SameType, PTL
    <2> QED BY <1>1, <1>3, <2>2, <2>4
            DEF IInv, FromDatagrams, FromUdpData, IsIndicationOf, Btp!BtpIndication, Btp!BtpSize
<1>5. DOMAIN btpSub = Services /\ published \in [Services -> Seq(BtpMsg)]
    BY DEF IInv, TypeOK
<1>6. /\ DOMAIN btpSub' = Services /\ btpSub'[s] = Taken(btpSub[s])
      /\ \A t \in Services : t # s => btpSub'[t] = btpSub[t]
    BY <1>5 DEF RxPublishes
<1>7. m \in BtpMsg /\ published[s] \in Seq(BtpMsg)
    BY LogTypes
<1> HIDE DEF m
<1>8. /\ published'[s] = Append(published[s], m)
      /\ \A t \in Services : t # s => published'[t] = published[t]
    BY <1>2, <1>5 DEF m
<1>9. /\ published'[s] \in Seq(BtpMsg) /\ n \in Nat /\ Len(published'[s]) = n + 1
      /\ published'[s][n + 1] = m
      /\ \A k \in 1..n : published'[s][k] = published[s][k]
      /\ \A k \in 1..n+1 : k \in 1..n \/ k = n + 1
    BY <1>7, <1>8, LogAppend
<1>10. published' \in [Services -> Seq(BtpMsg)]
    BY <1>2, <1>5, <1>8, <1>9
<1>11. \A t \in Services : Rx!IsSubscription(btpSub'[t])
    BY <1>2, <1>6, SameTopic DEF IInv, TypeOK, InOrder
<1>12. TypeOK'
    <2>1. Btp!IsSubscription(udpSub)' /\ btpAlive' \in BOOLEAN
        BY <1>1 DEF IInv, TypeOK, Btp!IsSubscription
    <2>2. (btp_data \in Seq(BtpMsg))'
        BY <1>1 DEF IInv, TypeOK, BtpMsg, Dispatcher!uint8_t, Dispatcher!uint16_t
    <2>3. (\A t \in Services : Rx!IsSubscription(btpSub[t]))'
        BY <1>11 DEF Rx!IsSubscription
    <2>4. rxAlive' \in [Services -> BOOLEAN]
        BY <1>1 DEF IInv, TypeOK
    <2>5. (published \in [Services -> Seq(BtpMsg)])'
        BY <1>10 DEF BtpMsg, Dispatcher!uint8_t, Dispatcher!uint16_t
    <2> QED BY <1>4, <1>6, <2>1, <2>2, <2>3, <2>4, <2>5 DEF TypeOK
<1>13. FromBtpData'
    <2> SUFFICES ASSUME NEW t \in Services, NEW k \in 1..Len(published'[t])
                 PROVE  \E j \in 1..Len(btp_data) :
                            /\ published'[t][k] = btp_data[j]
                            /\ Rx!IsFor(t, btp_data[j]) /\ Rx!MayDecode(t, btp_data[j])
        BY <1>1 DEF FromBtpData, Rx!IsFor, Rx!MayDecode
    <2>1. CASE t # s
        BY <1>8, <2>1 DEF IInv, FromBtpData
    <2>2. CASE t = s /\ k \in 1..n
        BY <1>9, <2>2 DEF IInv, FromBtpData
    <2>3. CASE t = s /\ k = n + 1
        BY <1>2, <1>9, <2>3 DEF m
    <2> QED BY <1>9, <2>1, <2>2, <2>3
<1>14. Ids(published'[s]) = Append(Ids(published[s]), m.id)
    BY <1>7, <1>8, IdsAppend, MessageIds
<1>15. Ids(udp_data') = Ids(udp_data) /\ Ids(btp_data') = Ids(btp_data)
    BY <1>1, <1>3
<1>16. Ordered'
    <2> SUFFICES ASSUME NEW t \in Services
                 PROVE  InOrder(btpSub'[t], Ids(btp_data), Ids(published'[t]))
        BY <1>1, <1>15 DEF IInv, Ordered
    <2>1. CASE t # s
        BY <1>6, <1>8, <2>1 DEF IInv, Ordered
    <2>2. CASE t = s
        BY <1>2, <1>6, <1>14, <2>2 DEF m
    <2> QED BY <2>1, <2>2
<1> QED BY <1>4, <1>12, <1>13, <1>16 DEF IInv

\* The steps of the services.
LEMMA RxCases ==
    ASSUME IInv, RxStep
    PROVE  /\ UNCHANGED <<dispatcherVars, btpVars>>
           /\ \E s \in Services :
                 \/ RxPublishes(s)
                 \/ /\ UNCHANGED published /\ rxAlive' \in [Services -> BOOLEAN]
                    /\ \E new : /\ btpSub' = [btpSub EXCEPT ![s] = new]
                                /\ InOrder(new, Ids(btp_data), Ids(published[s]))
<1>1. UNCHANGED <<dispatcherVars, btpVars>>
    BY DEF RxStep
<1>2. PICK s \in Services : Rx!TransmitBtpData(s) \/ Rx!onIndication(s)
    BY DEF RxStep, Rx!Next
<1>3. /\ InOrder(btpSub[s], Ids(btp_data), Ids(published[s])) /\ Ascends(Ids(btp_data))
      /\ Ids(btp_data) \in Seq(Nat) /\ Len(btp_data) = Len(Ids(btp_data))
      /\ Ids(published[s]) \in Seq(Nat) /\ rxAlive \in [Services -> BOOLEAN]
    BY LogTypes DEF IInv, Ordered, InOrder, TypeOK
<1>4. CASE Rx!TransmitBtpData(s)
    <2> DEFINE new == Transmit(btpSub[s], Ids(btp_data), 1, BtpDataDepth)
    <2>1. /\ CanTransmit(btpSub[s], Ids(btp_data), 1)
          /\ btpSub' = [btpSub EXCEPT ![s] = new]
          /\ UNCHANGED <<rxAlive, published>>
        <3>1. /\ Rx!CanTransmit(btpSub[s], btp_data, 1)
              /\ btpSub' = [btpSub EXCEPT ![s] = Rx!Transmit(btpSub[s], btp_data, 1, BtpDataDepth)]
              /\ UNCHANGED <<rxAlive, published>>
            BY <1>4 DEF Rx!TransmitBtpData
        <3>2. /\ CanTransmit(btpSub[s], btp_data, 1)
              /\ btpSub' = [btpSub EXCEPT ![s] = Transmit(btpSub[s], btp_data, 1, BtpDataDepth)]
            BY <3>1, SameTopic
        <3>3. /\ CanTransmit(btpSub[s], Ids(btp_data), 1)
              /\ new = Transmit(btpSub[s], btp_data, 1, BtpDataDepth)
            BY <1>3, <3>2, LengthOnly
        <3> QED BY <3>1, <3>2, <3>3
    <2>2. InOrder(new, Ids(btp_data), Ids(published[s]))
        BY <1>3, <2>1, Depths, TransmitKeepsOrder
    <2> QED BY <1>1, <1>3, <2>1, <2>2
<1>5. CASE Rx!onIndication(s)
    <2>1. /\ HasSample(btpSub[s]) /\ btpSub' = [btpSub EXCEPT ![s] = Taken(btpSub[s])]
          /\ LET indication == Sample(btpSub[s], btp_data)
             IN  \/ Rx!Drop(s, indication) \/ Rx!Suppress(s, indication)
                 \/ Rx!Publish(s, indication) \/ Rx!Crash(s, indication)
        BY <1>5, SameTopic DEF Rx!onIndication
    <2>2. InOrder(Taken(btpSub[s]), Ids(btp_data), Ids(published[s]))
        BY <1>3, <2>1, TakenKeepsOrder
    <2>3. CASE Rx!Publish(s, Sample(btpSub[s], btp_data))
        BY <1>1, <2>1, <2>3 DEF Rx!Publish, RxPublishes
    <2>4. CASE ~Rx!Publish(s, Sample(btpSub[s], btp_data))
        <3>1. UNCHANGED published /\ rxAlive' \in [Services -> BOOLEAN]
            BY <1>3, <2>1, <2>4 DEF Rx!Drop, Rx!Suppress, Rx!Crash
        <3> QED BY <1>1, <2>1, <2>2, <3>1
    <2> QED BY <2>3, <2>4
<1> QED BY <1>2, <1>4, <1>5

LEMMA RxKeeps == ASSUME IInv, RxStep PROVE IInv'
  BY RxCases, RxSubscriptionKeeps, RxPublishKeeps

---------------------------------------------------------------------------
LEMMA InitInv == Init => IInv
<1> SUFFICES ASSUME Init PROVE IInv
    OBVIOUS
<1>1. Dispatcher!Init /\ Btp!Init /\ Rx!Init /\ Node!Init
    BY SameInit DEF Init
<1>2. NodeInv
    BY <1>1, NodeAssumption, Node!TypeInit, Node!HandoverInit DEF NodeInv
<1>3. Dispatcher!TypeOK
    BY <1>2, SameType DEF NodeInv, Node!TypeInv
<1>4. /\ udpSub = [next |-> 0, queue |-> << >>] /\ btp_data = << >> /\ btpAlive = TRUE
      /\ btpSub = [s \in Services |-> [next |-> 1, queue |-> << >>]]
      /\ rxAlive = [s \in Services |-> TRUE]
      /\ published = [s \in Services |-> << >>]
      /\ received = << >> /\ udp_data = << >>
    BY <1>1 DEF Btp!Init, Rx!Init, Dispatcher!Init, Btp!Unmatched, Rx!Listening
<1>5. TypeOK
    BY <1>3, <1>4 DEF TypeOK, Btp!IsSubscription, Rx!IsSubscription
<1>6. FromDatagrams
    BY <1>4, PathAssumption DEF FromDatagrams, Dispatcher!DispatcherAssumption
<1>7. FromUdpData /\ FromBtpData
    BY <1>4 DEF FromUdpData, FromBtpData
<1>8. Ids(<< >>) = << >>
    BY DEF Ids
<1>9. Ordered
    BY <1>4, <1>8 DEF Ordered, Ascends, InOrder, IsSubscription
<1> QED BY <1>2, <1>5, <1>6, <1>7, <1>9 DEF IInv

LEMMA StutterKeeps == ASSUME IInv, UNCHANGED vars PROVE IInv'
<1>1. UNCHANGED <<dispatcherVars, btp_data, published>> /\ UNCHANGED <<udpSub, btpAlive, btpSub, rxAlive>>
    BY DEF vars, btpVars, rxVars
<1>2. /\ NodeInv' /\ Dispatcher!TypeOK' /\ FromDatagrams' /\ FromUdpData' /\ FromBtpData'
      /\ UNCHANGED <<Ids(udp_data), Ids(btp_data)>>
      /\ \A s \in Services : Ids(published[s])' = Ids(published[s])
    BY <1>1, SameLogs
<1>3. TypeOK'
    BY <1>1, <1>2
    DEF IInv, TypeOK, BtpMsg, Btp!IsSubscription, Rx!IsSubscription, Dispatcher!uint8_t,
        Dispatcher!uint16_t
<1>4. Ordered'
    BY <1>1, <1>2 DEF IInv, Ordered
<1> QED BY <1>2, <1>3, <1>4 DEF IInv

LEMMA NextKeeps == IInv /\ [Next]_vars => IInv'
  BY DispatcherKeeps, BtpKeeps, RxKeeps, StutterKeeps DEF Next

LEMMA Invariant == Spec => []IInv
  BY InitInv, NextKeeps, PTL DEF Spec

\* Every variable of the receive path keeps its type.
THEOREM TypeCorrect == Spec => []TypeOK
<1>1. IInv => TypeOK
    BY DEF IInv
<1> QED BY <1>1, Invariant, PTL

---------------------------------------------------------------------------
\* Where what a service published comes from, down to the datagram.
LEMMA PublishedOrigin ==
    ASSUME IInv, NEW s \in Services, NEW n \in 1..Len(published[s])
    PROVE  LET m == published[s][n]
           IN  \E k \in 1..Len(udp_data) :
                  /\ m = Btp!BtpIndication(udp_data[k])
                  /\ m.id \in 1..Len(received)
                  /\ IsIndicationOf(udp_data[k], received[m.id])
                  /\ Rx!IsFor(s, m) /\ Rx!MayDecode(s, m)
<1> DEFINE m == published[s][n]
<1>1. PICK i \in 1..Len(btp_data) : m = btp_data[i] /\ Rx!IsFor(s, m) /\ Rx!MayDecode(s, m)
    BY DEF IInv, FromBtpData
<1> HIDE DEF m
<1>2. PICK k \in 1..Len(udp_data) : m = Btp!BtpIndication(udp_data[k])
    BY <1>1 DEF IInv, FromUdpData
<1>3. m.id = udp_data[k].id
    BY <1>2 DEF Btp!BtpIndication
<1>4. m.id \in 1..Len(received) /\ IsIndicationOf(udp_data[k], received[m.id])
    BY <1>3 DEF IInv, FromDatagrams
<1> QED BY <1>1, <1>2, <1>4 DEF m

LEMMA ShortOnly == IInv => OnlyShortBodies
<1> SUFFICES ASSUME IInv PROVE OnlyShortBodies
    OBVIOUS
<1> SUFFICES ASSUME NEW s \in Services, NEW n \in 1..Len(published[s]),
                    received[published[s][n].id].MsgLen
                        = Dispatcher!htons(Dispatcher!SizeofDataIndHdr + published[s][n].body)
             PROVE  published[s][n].body <= 181
    <2>1. \A t \in Services : published[t] \in Seq(BtpMsg)
        BY LogTypes
    <2> QED BY <2>1 DEF OnlyShortBodies
<1> DEFINE m == published[s][n]  d == received[m.id]
<1>1. PICK k \in 1..Len(udp_data) :
          /\ m = Btp!BtpIndication(udp_data[k])
          /\ IsIndicationOf(udp_data[k], d)
          /\ Rx!MayDecode(s, m)
    BY PublishedOrigin
<1>2. m \in BtpMsg
    BY LogTypes
<1>3. d.MsgLen = Node!htons(Node!SizeofDataIndHdr + m.body)
    BY SameOrder
<1> HIDE DEF m, d
<1>4. udp_data[k] \in Node!IndicationMsg
    BY LogTypes
<1>5. /\ m.body \in Nat /\ m.own = m.body
      /\ udp_data[k].own \in Nat /\ udp_data[k].msg_length \in Nat
    BY <1>1, <1>2, <1>4 DEF BtpMsg, Node!IndicationMsg, Node!uint8_t, Rx!MayDecode
<1>6. m.own <= udp_data[k].msg_length
    BY <1>1, <1>5 DEF Btp!BtpIndication, Btp!BtpSize
<1>7. udp_data[k].msg_length = Node!UInt8(Node!ntohs(d.MsgLen))
    BY <1>1 DEF IsIndicationOf
<1>8. Node!SizeofDataIndHdr = 74
    BY DEF Node!SizeofDataIndHdr, Node!SizeofDestination
<1>9. Node!ntohs(d.MsgLen) = Node!UInt16(Node!SizeofDataIndHdr + m.body)
    <2>1. Node!SizeofDataIndHdr + m.body \in Nat
        BY <1>5, <1>8
    <2> QED BY <1>3, <2>1, NodeAssumption, Node!NtohsHtons
<1>10. Node!UInt8(Node!UInt16(Node!SizeofDataIndHdr + m.body)) >= m.body
    BY <1>5, <1>6, <1>7, <1>9
<1>11. m.body <= 181
    BY <1>5, <1>10, NodeAssumption, Node!ShortBodies
<1> QED BY <1>11 DEF m

\* No message of more than 181 octets gets through to a user of a service if
\* the unit states its length as the interface says: the dispatcher keeps one
\* octet of that length and btp_data cuts the message to it.
THEOREM ShortBodiesOnly == Spec => []OnlyShortBodies
  BY ShortOnly, Invariant, PTL

\* The BTP indication with the id of an indication was made of it.
LEMMA ForwardedOrigin ==
    ASSUME IInv, NEW i \in 1..Len(btp_data), NEW k \in 1..Len(udp_data),
           btp_data[i].id = udp_data[k].id
    PROVE  btp_data[i] = Btp!BtpIndication(udp_data[k])
<1>1. PICK n \in 1..Len(udp_data) : btp_data[i] = Btp!BtpIndication(udp_data[n])
    BY DEF IInv, FromUdpData
<1>2. udp_data[n].id = udp_data[k].id
    BY <1>1 DEF Btp!BtpIndication
<1>3. \A a, b \in 1..Len(udp_data) : a < b => udp_data[a].id < udp_data[b].id
    BY LogTypes DEF IInv, Ordered, Ascends
<1>4. n \in Nat /\ k \in Nat /\ udp_data[k].id \in Nat /\ udp_data[n].id \in Nat
    BY LogTypes, MessageIds
<1>5. n = k
    BY <1>2, <1>3, <1>4
<1> QED BY <1>1, <1>5

LEMMA WholeIfShort == IInv => WholeExactlyIfShort
<1> SUFFICES ASSUME IInv, NEW i \in 1..Len(btp_data), NEW k \in 1..Len(udp_data),
                    btp_data[i].id = udp_data[k].id, udp_data[k].own = udp_data[k].body,
                    received[udp_data[k].id].MsgLen
                        = Dispatcher!htons(Dispatcher!SizeofDataIndHdr + udp_data[k].body)
             PROVE  btp_data[i].own = btp_data[i].body <=> udp_data[k].body <= 181
    <2>1. DOMAIN btp_data = 1..Len(btp_data) /\ DOMAIN udp_data = 1..Len(udp_data)
        BY LogTypes
    <2> QED BY <2>1, Zenon DEF WholeExactlyIfShort
<1> DEFINE m == udp_data[k]  b == btp_data[i]
           octet == Node!UInt8(Node!UInt16(Node!SizeofDataIndHdr + m.body))
<1>1. b = Btp!BtpIndication(m)
    BY ForwardedOrigin
<1>2. m \in Node!IndicationMsg
    BY LogTypes
<1>3. m.body \in Nat /\ m.own = m.body
    BY <1>2 DEF Node!IndicationMsg
<1>4. m.msg_length = Node!UInt8(Node!ntohs(received[m.id].MsgLen))
    BY DEF IInv, FromDatagrams, IsIndicationOf
<1>5. Node!SizeofDataIndHdr + m.body \in Nat
    BY <1>3 DEF Node!SizeofDataIndHdr, Node!SizeofDestination
<1>6. received[m.id].MsgLen = Node!htons(Node!SizeofDataIndHdr + m.body)
    BY SameOrder
<1>7. m.msg_length = octet
    BY <1>4, <1>5, <1>6, NodeAssumption, Node!NtohsHtons
<1>8. b.body = m.body /\ b.own = IF m.own < m.msg_length THEN m.own ELSE m.msg_length
    BY <1>1 DEF Btp!BtpIndication, Btp!BtpSize
<1>9. octet \in Nat
    BY <1>5 DEF Node!UInt8, Node!UInt16
<1> HIDE DEF m, b, octet
<1>10. b.own = b.body <=> octet >= m.body
    BY <1>3, <1>7, <1>8, <1>9
<1>11. octet >= m.body <=> m.body <= 181
    BY <1>3, NodeAssumption, Node!ShortBodies, Node!ShortBodiesFit DEF octet
<1> QED BY <1>10, <1>11 DEF m, b

\* What the octet of msg_length costs, exactly: a message the unit sends as
\* the interface says is forwarded whole if it has 181 octets of body or less,
\* and cut if it has more.
THEOREM WholeCorrect == Spec => []WholeExactlyIfShort
  BY WholeIfShort, Invariant, PTL

---------------------------------------------------------------------------
\* The refinement. What the mapping makes of the logs:
OfferedIn(log) ==
    {[id |-> log[k].id, header |-> HeaderOf(log[k])] : k \in DOMAIN log}

LEMMA OfferedAppend ==
    ASSUME NEW M, NEW log \in Seq(M), NEW m \in M
    PROVE  OfferedIn(Append(log, m))
              = OfferedIn(log) \cup {[id |-> m.id, header |-> HeaderOf(m)]}
<1> DEFINE new == Append(log, m)
<1>1. /\ DOMAIN log = 1..Len(log) /\ DOMAIN new = 1..Len(log)+1 /\ Len(log) \in Nat
      /\ new[Len(log) + 1] = m
      /\ \A k \in 1..Len(log) : k \in 1..Len(log)+1 /\ new[k] = log[k]
      /\ \A k \in 1..Len(log)+1 : k \in 1..Len(log) \/ k = Len(log) + 1
      /\ Len(log) + 1 \in 1..Len(log)+1
    BY AppendProperties
<1> HIDE DEF new
<1> DEFINE x(l, k) == [id |-> l[k].id, header |-> HeaderOf(l[k])]
<1>2. /\ \A k \in 1..Len(log) : x(new, k) = x(log, k)
      /\ x(new, Len(log) + 1) = [id |-> m.id, header |-> HeaderOf(m)]
    BY <1>1
<1>3. /\ OfferedIn(new) = {x(new, k) : k \in 1..Len(log)+1}
      /\ OfferedIn(log) = {x(log, k) : k \in 1..Len(log)}
    BY <1>1 DEF OfferedIn
<1> HIDE DEF x
<1> QED BY <1>1, <1>2, <1>3 DEF new

LEMMA FeedState ==
    ASSUME IInv
    PROVE  [s \in Services |-> [k \in DOMAIN published[s] |-> published[s][k].id]]
              = [s \in Services |-> Ids(published[s])]
<1>1. \A s \in Services : DOMAIN published[s] = 1..Len(published[s])
    BY LogTypes
<1> QED BY <1>1 DEF Ids

\* A datagram with a header of the path makes an indication with that header.
LEMMA HeaderOfIndication ==
    ASSUME NEW m, NEW d \in Datagrams, IsIndicationOf(m, d)
    PROVE  HeaderOf(m) \in PathHeaders
<1>1. HeaderOf(m) = DatagramHeader(d)
    BY SameOrder DEF IsIndicationOf, HeaderOf, DatagramHeader
<1> QED BY <1>1 DEF PathHeaders

LEMMA DispatcherOffers == ASSUME IInv, DispatcherStep PROVE [Feed!Next]_(Feed!vars)
<1>1. Node!Next /\ UNCHANGED published
    BY SameNext DEF DispatcherStep, rxVars
<1>2. CASE UNCHANGED udp_data
    BY <1>1, <1>2 DEF Feed!vars
<1>3. CASE /\ received # << >>
           /\ udp_data' = Append(udp_data, Node!Indication(Len(received), Node!Current, buffer))
           /\ UNCHANGED received /\ rx = "indication"
    <2> DEFINE n == Len(received)
               m == Node!Indication(n, Node!Current, buffer)
    <2>1. received \in Seq(Datagrams) /\ n \in 1..MaxDatagrams /\ n \in 1..Len(received)
        BY <1>3, EmptySeq, PathAssumption DEF IInv, FromDatagrams, Dispatcher!DispatcherAssumption
    <2>2. m.id = n /\ IsIndicationOf(m, received[n])
        BY PublishedIsIndication DEF Node!Current
    <2> HIDE DEF m
    <2>3. HeaderOf(m) \in PathHeaders
        BY <2>1, <2>2, HeaderOfIndication
    <2>4. udp_data \in Seq(Node!IndicationMsg) /\ udp_data' = Append(udp_data, m)
        BY <1>3, LogTypes DEF m
    <2>5. udp_data \in Seq(Node!IndicationMsg \cup {m})
        BY <2>4
    <2>6. OfferedIn(udp_data') = OfferedIn(udp_data) \cup {[id |-> n, header |-> HeaderOf(m)]}
        BY <2>2, <2>4, <2>5, OfferedAppend
    <2>7. \A k \in DOMAIN udp_data : udp_data[k].id < n
        BY <1>3, LogTypes DEF IInv, NodeInv, Node!HandoverInv, Node!Ascending
    <2> HIDE DEF n
    <2>8. PICK i \in 1..MaxDatagrams, h \in PathHeaders : i = n /\ h = HeaderOf(m)
        BY <2>1, <2>3
    <2>9. Feed!Offer(i, h)
        BY <1>1, <2>6, <2>7, <2>8 DEF Feed!Offer, OfferedIn
    <2>10. Feed!Next
        BY <2>9 DEF Feed!Next
    <2> QED BY <2>10
<1> QED BY <1>1, <1>2, <1>3, NodeAssumption, Node!TopicStep DEF IInv, NodeInv

LEMMA RxDelivers ==
    ASSUME IInv, IInv', UNCHANGED dispatcherVars, NEW s \in Services, RxPublishes(s)
    PROVE  Feed!Deliver(s)
<1>1. PICK i \in 1..Len(btp_data) :
          /\ published' = [published EXCEPT ![s] = Append(published[s], btp_data[i])]
          /\ Rx!IsFor(s, btp_data[i])
          /\ \A n \in 1..Len(published[s]) : published[s][n].id < btp_data[i].id
    BY RxPublished
<1>2. PICK k \in 1..Len(udp_data) : btp_data[i] = Btp!BtpIndication(udp_data[k])
    BY DEF IInv, FromUdpData
<1> DEFINE m == btp_data[i]
           offer == [id |-> udp_data[k].id, header |-> HeaderOf(udp_data[k])]
<1>3. m.id = offer.id
    BY <1>2 DEF Btp!BtpIndication
<1>4. m \in BtpMsg /\ \A t \in Services : published[t] \in Seq(BtpMsg)
    BY LogTypes
<1>5. offer \in OfferedIn(udp_data)
    <2>1. DOMAIN udp_data = 1..Len(udp_data)
        BY LogTypes
    <2> QED BY <2>1 DEF OfferedIn
<1>6. offer.header \in HeadersOf(s)
    <2>1. HeaderOf(udp_data[k]) \in PathHeaders
        BY HeaderOfIndication DEF IInv, FromDatagrams
    <2>2. /\ HeaderOf(udp_data[k]).btp_type = 2
          /\ HeaderOf(udp_data[k]).destination_port = Rx!Port[s]
        BY <1>1, <1>2 DEF Rx!IsFor, Rx!BTP_TYPE_B, HeaderOf, Btp!BtpIndication
    <2> QED BY <2>1, <2>2 DEF HeadersOf
<1> HIDE DEF m, offer
<1>7. \A n \in 1..Len(Ids(published[s])) : Ids(published[s])[n] < offer.id
    BY <1>1, <1>3, LogTypes DEF m
<1>8. published' = [published EXCEPT ![s] = Append(published[s], m)]
    BY <1>1 DEF m
<1>9. Ids(Append(published[s], m)) = Append(Ids(published[s]), offer.id)
    BY <1>3, <1>4, IdsAppend, MessageIds
<1>10. DOMAIN published = Services
    BY DEF IInv, TypeOK
<1> DEFINE mapped == [t \in Services |-> [n \in DOMAIN published[t] |-> published[t][n].id]]
<1>11. mapped = [t \in Services |-> Ids(published[t])]
    BY FeedState
<1>12. mapped' = [t \in Services |-> Ids(published'[t])]
    <2>1. \A t \in Services : DOMAIN published'[t] = 1..Len(published'[t])
        BY <1>4, <1>8, <1>10
    <2> QED BY <2>1 DEF Ids
<1> HIDE DEF mapped
<1>13. DOMAIN mapped[s] = 1..Len(Ids(published[s])) /\ mapped[s] = Ids(published[s])
    <2>1. Ids(published[s]) \in Seq(Nat)
        BY LogTypes
    <2> QED BY <1>11, <2>1
<1>14. mapped' = [mapped EXCEPT ![s] = Append(mapped[s], offer.id)]
    BY <1>8, <1>9, <1>10, <1>11, <1>12
<1>15. UNCHANGED udp_data
    BY DEF dispatcherVars
<1>16. /\ \E x \in OfferedIn(udp_data) :
             /\ x.header \in HeadersOf(s)
             /\ \A n \in DOMAIN mapped[s] : mapped[s][n] < x.id
             /\ mapped' = [mapped EXCEPT ![s] = Append(mapped[s], x.id)]
       /\ UNCHANGED OfferedIn(udp_data)
    <2>1. \A n \in DOMAIN mapped[s] : mapped[s][n] < offer.id
        BY <1>7, <1>13
    <2>2. UNCHANGED OfferedIn(udp_data)
        BY <1>15 DEF OfferedIn
    <2> QED BY <1>5, <1>6, <1>14, <2>1, <2>2
<1> QED BY <1>16 DEF Feed!Deliver, OfferedIn, mapped

LEMMA FeedInit == Init => Feed!Init
<1>1. Init => udp_data = << >> /\ published = [s \in Services |-> << >>]
    BY DEF Init, Dispatcher!Init, Rx!Init
<1> QED BY <1>1 DEF Feed!Init

LEMMA FeedStep == IInv /\ IInv' /\ [Next]_vars => [Feed!Next]_(Feed!vars)
<1> SUFFICES ASSUME IInv, IInv', [Next]_vars PROVE [Feed!Next]_(Feed!vars)
    OBVIOUS
<1>1. CASE DispatcherStep
    BY <1>1, DispatcherOffers
<1>2. CASE BtpStep \/ UNCHANGED vars
    <2>1. UNCHANGED <<udp_data, published>>
        BY <1>2 DEF BtpStep, vars, dispatcherVars, rxVars
    <2> QED BY <2>1 DEF Feed!vars
<1>3. CASE RxStep
    <2>1. UNCHANGED dispatcherVars /\ \/ UNCHANGED published
                                      \/ \E s \in Services : RxPublishes(s)
        BY <1>3, RxCases
    <2>2. CASE UNCHANGED published
        <3>1. UNCHANGED <<udp_data, published>>
            BY <2>1, <2>2 DEF dispatcherVars
        <3> QED BY <3>1 DEF Feed!vars
    <2>3. CASE \E s \in Services : RxPublishes(s)
        BY <2>1, <2>3, RxDelivers DEF Feed!Next
    <2> QED BY <2>1, <2>2, <2>3
<1> QED BY <1>1, <1>2, <1>3 DEF Next

\* The receive path implements the feed: through two topics that lose and
\* publishers that are replaced, a service publishes what the unit sent to
\* its port and nothing else, each datagram at most once and in order.
THEOREM FeedCorrect == Spec => ImplementsFeed
  BY FeedInit, FeedStep, Invariant, PTL DEF Spec, ImplementsFeed, Feed!Spec

---------------------------------------------------------------------------
\* Nothing gets lost before btp_data unnoticed. The two topics' logs grow.
LEMMA LogsGrow ==
    ASSUME IInv, [Next]_vars
    PROVE  /\ Len(udp_data) \in Nat /\ Len(udp_data') \in Nat
           /\ Len(udp_data') >= Len(udp_data)
           /\ \A k \in DOMAIN udp_data :
                 k \in DOMAIN udp_data' /\ udp_data'[k] = udp_data[k]
           /\ \A k \in DOMAIN btp_data :
                 k \in DOMAIN btp_data' /\ btp_data'[k] = btp_data[k]
<1>1. /\ udp_data \in Seq(Node!IndicationMsg) /\ btp_data \in Seq(BtpMsg)
      /\ Len(udp_data) \in Nat
      /\ DOMAIN udp_data = 1..Len(udp_data) /\ DOMAIN btp_data = 1..Len(btp_data)
    BY LogTypes
<1>2. CASE UNCHANGED <<udp_data, btp_data>>
    BY <1>1, <1>2
<1>3. ASSUME UNCHANGED btp_data, NEW m, udp_data' = Append(udp_data, m)
      PROVE  /\ Len(udp_data') \in Nat /\ Len(udp_data') >= Len(udp_data)
             /\ \A k \in DOMAIN udp_data : k \in DOMAIN udp_data' /\ udp_data'[k] = udp_data[k]
    <2>1. udp_data \in Seq(Node!IndicationMsg \cup {m}) /\ m \in Node!IndicationMsg \cup {m}
        BY <1>1
    <2>2. /\ udp_data' \in Seq(Node!IndicationMsg \cup {m})
          /\ Len(udp_data') = Len(udp_data) + 1
          /\ \A k \in 1..Len(udp_data) : k \in 1..Len(udp_data') /\ udp_data'[k] = udp_data[k]
        BY <1>3, <2>1, LogAppend
    <2> QED BY <1>1, <2>2
<1>4. ASSUME UNCHANGED udp_data, NEW m, btp_data' = Append(btp_data, m)
      PROVE  \A k \in DOMAIN btp_data : k \in DOMAIN btp_data' /\ btp_data'[k] = btp_data[k]
    <2>1. btp_data \in Seq(BtpMsg \cup {m}) /\ m \in BtpMsg \cup {m}
        BY <1>1
    <2>2. /\ btp_data' \in Seq(BtpMsg \cup {m})
          /\ \A k \in 1..Len(btp_data) : k \in 1..Len(btp_data') /\ btp_data'[k] = btp_data[k]
        BY <1>4, <2>1, LogAppend
    <2> QED BY <1>1, <2>2
<1>5. CASE DispatcherStep
    <2>1. Node!Next /\ UNCHANGED btp_data
        BY <1>5, SameNext DEF DispatcherStep, btpVars
    <2>2. UNCHANGED udp_data \/ \E m : udp_data' = Append(udp_data, m)
        BY <2>1, NodeAssumption, Node!TopicStep DEF IInv, NodeInv
    <2> QED BY <1>1, <1>2, <1>3, <2>1, <2>2
<1>6. CASE BtpStep
    <2>1. UNCHANGED udp_data /\ (UNCHANGED btp_data \/ \E m : btp_data' = Append(btp_data, m))
        BY <1>6 DEF BtpStep, dispatcherVars, Btp!Next, Btp!MatchUdpData, Btp!TransmitUdpData,
                    Btp!udpCallback, Btp!Publish
    <2> QED BY <1>1, <1>2, <1>4, <2>1
<1>7. CASE RxStep \/ UNCHANGED vars
    BY <1>2, <1>7 DEF RxStep, vars, dispatcherVars, btpVars
<1> QED BY <1>5, <1>6, <1>7 DEF Next

\* What has become of an indication stays so.
LEMMA SettledStays ==
    ASSUME IInv, [Next]_vars, NEW k \in Nat, Forwarded(k) \/ Displaced(k) \/ ~btpAlive
    PROVE  Forwarded(k)' \/ Displaced(k)' \/ ~btpAlive'
<1>1. CASE Forwarded(k)
    BY <1>1, LogsGrow DEF Forwarded
<1>2. CASE Displaced(k)
    BY <1>2, LogsGrow, Depths DEF Displaced
<1>3. CASE ~btpAlive
    BY <1>3 DEF Next, DispatcherStep, BtpStep, RxStep, vars, btpVars, Btp!Next,
                Btp!MatchUdpData, Btp!TransmitUdpData, Btp!udpCallback
<1> QED BY <1>1, <1>2, <1>3

LEMMA SameAwaits ==
    ASSUME NEW sub, NEW k
    PROVE  Btp!Awaits(sub, k) <=> Awaits(sub, k)
  BY DEF Awaits, Queued, Btp!Awaits, Btp!Queued

\* What the subscription awaits, it gets in the order of the log, it is the
\* callback's next, or it made room for newer ones.
LEMMA AwaitedStep ==
    ASSUME IInv, Spaced(udpSub), [Next]_vars
    PROVE  /\ Spaced(udpSub')
           /\ \A k \in Nat :
                 Awaits(udpSub, k) =>
                    Awaits(udpSub', k) \/ Forwarded(k)' \/ Displaced(k)' \/ ~btpAlive'
<1>1. /\ IsSubscription(udpSub) /\ Len(udp_data) \in Nat
      /\ DOMAIN udp_data = 1..Len(udp_data)
    BY LogTypes DEF IInv, Ordered, InOrder
<1>2. CASE UNCHANGED udpSub
    BY <1>2
<1>3. CASE UNCHANGED udp_data /\ Btp!MatchUdpData
    <2>1. CanMatch(udpSub) /\ udpSub' = Match(udpSub, udp_data)
        BY <1>3, SameMatch DEF Btp!MatchUdpData
    <2> QED BY <1>1, <2>1, MatchKeepsSpaced
<1>4. CASE UNCHANGED udp_data /\ Btp!TransmitUdpData
    <2>1. /\ CanTransmit(udpSub, udp_data, UdpDataHistory)
          /\ udpSub' = Transmit(udpSub, udp_data, UdpDataHistory, UdpDataDepth)
        BY <1>4, SameTopic DEF Btp!TransmitUdpData
    <2>2. Spaced(udpSub')
        BY <1>1, <2>1, Depths, TransmitKeepsSpaced
    <2>3. ASSUME NEW k \in Nat, Awaits(udpSub, k)
          PROVE  Awaits(udpSub', k) \/ Displaced(k)'
        <3>1. \/ Awaits(udpSub', k)
              \/ Len(udp_data) >= k + UdpDataHistory \/ Len(udp_data) >= k + UdpDataDepth
            BY <1>1, <2>1, <2>3, Depths, TransmitKeepsAwaited
        <3> QED BY <1>4, <3>1 DEF Displaced
    <2> QED BY <2>2, <2>3
<1>5. CASE UNCHANGED udp_data /\ Btp!udpCallback
    <2> DEFINE h == Head(udpSub.queue)
    <2>1. /\ HasSample(udpSub) /\ udpSub' = Taken(udpSub)
          /\ \/ ~btpAlive'
             \/ btp_data' = Append(btp_data, Btp!BtpIndication(udp_data[h]))
        BY <1>5, SameTopic DEF Btp!udpCallback, Btp!Publish, Sample
    <2>2. /\ Spaced(udpSub')
          /\ \A k \in Nat : Awaits(udpSub, k) => Awaits(udpSub', k) \/ h = k
        BY <1>1, <2>1, TakenKeepsAwaited
    <2>3. ASSUME NEW k \in Nat, h = k
          PROVE  ~btpAlive' \/ Forwarded(k)'
        <3>1. h \in 1..Len(udp_data)
            BY <2>1, TakenKeepsOrder, LogTypes DEF IInv, Ordered
        <3> DEFINE m == Btp!BtpIndication(udp_data[h])
        <3>2. m \in BtpMsg /\ m.id = udp_data[h].id /\ btp_data \in Seq(BtpMsg)
            BY <3>1, BtpIndicationType, LogTypes
        <3> HIDE DEF m
        <3>3. CASE btp_data' = Append(btp_data, m)
            <4>1. /\ DOMAIN btp_data' = 1..Len(btp_data)+1 /\ Len(btp_data) \in Nat
                  /\ btp_data'[Len(btp_data) + 1] = m
                BY <3>2, <3>3, LogAppend
            <4>2. \E i \in DOMAIN btp_data' : btp_data'[i].id = udp_data[h].id
                BY <3>2, <4>1
            <4> HIDE DEF h
            <4> QED BY <1>1, <1>5, <2>3, <3>1, <4>2 DEF Forwarded
        <3> QED BY <2>1, <3>3 DEF m
    <2> HIDE DEF h
    <2> QED BY <2>2, <2>3
<1>6. CASE BtpStep
    BY <1>3, <1>4, <1>5, <1>6 DEF BtpStep, Btp!Next, dispatcherVars
<1>7. CASE ~BtpStep
    <2>1. UNCHANGED udpSub
        BY <1>7 DEF Next, DispatcherStep, RxStep, vars, btpVars
    <2> QED BY <1>2, <2>1
<1> QED BY <1>6, <1>7

LEMMA AccountedStep ==
    ASSUME IInv, Spaced(udpSub), [Next]_vars, NEW k \in Nat, Accounted(k)
    PROVE  Accounted(k)'
<1>1. CASE Awaits(udpSub, k)
    <2>1. Awaits(udpSub', k) \/ Forwarded(k)' \/ Displaced(k)' \/ ~btpAlive'
        BY <1>1, AwaitedStep
    <2> QED BY <2>1 DEF Accounted, Awaits, Queued, Btp!Awaits, Btp!Queued
<1>2. CASE ~Awaits(udpSub, k)
    <2>1. Forwarded(k)' \/ Displaced(k)' \/ ~btpAlive'
        BY <1>2, SameAwaits, SettledStays DEF Accounted
    <2> QED BY <2>1 DEF Accounted
<1> QED BY <1>1, <1>2

LEMMA SpacedAlways == Spec => []Spaced(udpSub)
<1>1. Init => Spaced(udpSub)
    BY UnmatchedIsSpaced DEF Init, Btp!Init, Btp!Unmatched, Unmatched
<1>2. IInv /\ Spaced(udpSub) /\ [Next]_vars => Spaced(udpSub)'
    <2> SUFFICES ASSUME IInv, Spaced(udpSub), [Next]_vars PROVE Spaced(udpSub)'
        OBVIOUS
    <2>1. Spaced(udpSub')
        BY AwaitedStep
    <2> QED BY <2>1 DEF Spaced, Below
<1> QED BY <1>1, <1>2, Invariant, PTL DEF Spec

LEMMA AccountedAlways ==
    ASSUME NEW k \in 1..MaxDatagrams
    PROVE  Spec => [](udpSub.next \in 1..k => []Accounted(k))
<1>1. udpSub.next \in 1..k => Accounted(k)
    BY DEF Accounted, Btp!Awaits, Btp!Queued
<1>2. IInv /\ Spaced(udpSub) /\ Accounted(k) /\ [Next]_vars => Accounted(k)'
    <2>1. k \in Nat
        BY PathAssumption DEF Dispatcher!DispatcherAssumption
    <2> QED BY <2>1, AccountedStep
<1> QED BY <1>1, <1>2, Invariant, SpacedAlways, PTL DEF Spec

\* An indication published while btp_data is subscribed is accounted for ever
\* after: it waits before the node, or it was forwarded, or the process ended,
\* or so many newer ones followed that history or queue had no room for it.
THEOREM AccountedCorrect == Spec => SubscribedIsAccounted
<1>1. \A k \in 1..MaxDatagrams : Spec => [](udpSub.next \in 1..k => []Accounted(k))
    BY AccountedAlways
<1> QED BY <1>1 DEF SubscribedIsAccounted

---------------------------------------------------------------------------
\* A service does not forget what it was handed over and is sure to publish.
LEMMA SameQueued ==
    ASSUME NEW sub, NEW k
    PROVE  Rx!Queued(sub, k) <=> Queued(sub, k)
  BY DEF Queued, Rx!Queued

ServicesSpaced == \A s \in Services : Spaced(btpSub[s])

\* What a service makes of a message it takes.
Handles(s, m) ==
    \/ /\ Rx!Drop(s, m) \/ Rx!Suppress(s, m)
       /\ published'[s] = published[s] /\ rxAlive'[s] = rxAlive[s]
    \/ published'[s] = Append(published[s], m) /\ rxAlive'[s] = rxAlive[s]
    \/ published'[s] = published[s] /\ ~rxAlive'[s]

\* A step of the services, seen from one of them.
LEMMA ServiceStep ==
    ASSUME IInv, RxStep, NEW s \in Services
    PROVE  /\ UNCHANGED <<udp_data, btp_data>>
           /\ \/ /\ btpSub'[s] = btpSub[s]
                 /\ published'[s] = published[s] /\ rxAlive'[s] = rxAlive[s]
              \/ /\ CanTransmit(btpSub[s], btp_data, 1)
                 /\ btpSub'[s] = Transmit(btpSub[s], btp_data, 1, BtpDataDepth)
                 /\ published'[s] = published[s] /\ rxAlive'[s] = rxAlive[s]
              \/ /\ HasSample(btpSub[s]) /\ btpSub'[s] = Taken(btpSub[s])
                 /\ Handles(s, Sample(btpSub[s], btp_data))
<1>1. UNCHANGED <<udp_data, btp_data>>
    BY DEF RxStep, dispatcherVars, btpVars
<1>2. /\ DOMAIN btpSub = Services /\ DOMAIN published = Services
      /\ DOMAIN rxAlive = Services
    BY DEF IInv, TypeOK
<1>3. PICK t \in Services : Rx!TransmitBtpData(t) \/ Rx!onIndication(t)
    BY DEF RxStep, Rx!Next
<1>4. CASE Rx!TransmitBtpData(t)
    <2>1. /\ CanTransmit(btpSub[t], btp_data, 1)
          /\ btpSub' = [btpSub EXCEPT ![t] = Transmit(btpSub[t], btp_data, 1, BtpDataDepth)]
          /\ UNCHANGED <<rxAlive, published>>
        BY <1>4, SameTopic DEF Rx!TransmitBtpData
    <2> QED BY <1>1, <1>2, <2>1
<1>5. CASE Rx!onIndication(t)
    <2> DEFINE m == Sample(btpSub[t], btp_data)
    <2>1. /\ HasSample(btpSub[t]) /\ btpSub' = [btpSub EXCEPT ![t] = Taken(btpSub[t])]
          /\ Rx!Drop(t, m) \/ Rx!Suppress(t, m) \/ Rx!Publish(t, m) \/ Rx!Crash(t, m)
        BY <1>5, SameTopic DEF Rx!onIndication
    <2> HIDE DEF m
    <2>2. \/ /\ Rx!Drop(t, m) \/ Rx!Suppress(t, m)
             /\ UNCHANGED <<rxAlive, published>>
          \/ /\ published' = [published EXCEPT ![t] = Append(published[t], m)]
             /\ UNCHANGED rxAlive
          \/ /\ rxAlive' = [rxAlive EXCEPT ![t] = FALSE]
             /\ UNCHANGED published
        BY <2>1 DEF Rx!Drop, Rx!Suppress, Rx!Publish, Rx!Crash
    <2>3. CASE t # s
        BY <1>1, <1>2, <2>1, <2>2, <2>3
    <2>4. CASE t = s
        <3>1. HasSample(btpSub[s]) /\ btpSub'[s] = Taken(btpSub[s])
            BY <1>2, <2>1, <2>4
        <3>2. Handles(s, m)
            BY <1>2, <2>2, <2>4 DEF Handles
        <3>3. m = Sample(btpSub[s], btp_data)
            BY <2>4 DEF m
        <3> QED BY <1>1, <3>1, <3>2, <3>3
    <2> QED BY <2>3, <2>4
<1> QED BY <1>3, <1>4, <1>5

\* What it certainly publishes it neither drops nor suppresses.
LEMMA ServedIsNotDropped ==
    ASSUME NEW s, NEW k, Serves(s, k)
    PROVE  ~Rx!Drop(s, btp_data[k]) /\ ~Rx!Suppress(s, btp_data[k])
  BY DEF Serves, Rx!Drop, Rx!Suppress, Rx!MayFail

LEMMA ServesStays ==
    ASSUME IInv, [Next]_vars, NEW s, NEW k, Serves(s, k)
    PROVE  Serves(s, k)'
<1>1. k \in DOMAIN btp_data' /\ btp_data'[k] = btp_data[k]
    BY LogsGrow DEF Serves
<1> QED BY <1>1 DEF Serves, Rx!IsFor

LEMMA BtpDataGrows ==
    ASSUME IInv, [Next]_vars
    PROVE  /\ Len(btp_data) \in Nat /\ Len(btp_data') \in Nat
           /\ Len(btp_data') >= Len(btp_data)
<1>1. IInv'
    BY NextKeeps
<1>2. btp_data \in Seq(BtpMsg) /\ \E S : btp_data' \in Seq(S)
    <2>1. btp_data' \in Seq(BtpMsg')
        BY <1>1 DEF IInv, TypeOK
    <2> QED BY <2>1, LogTypes
<1>3. Len(btp_data) \in Nat /\ DOMAIN btp_data = 1..Len(btp_data)
    BY <1>2
<1>4. Len(btp_data') \in Nat /\ DOMAIN btp_data' = 1..Len(btp_data')
    BY <1>2
<1>5. Len(btp_data) \in DOMAIN btp_data => Len(btp_data) \in DOMAIN btp_data'
    BY LogsGrow
<1> QED BY <1>3, <1>4, <1>5

\* Queues stay spaced, and each entry leaves the queue for one of the reasons.
LEMMA QueuedStep ==
    ASSUME IInv, ServicesSpaced, [Next]_vars, NEW s \in Services
    PROVE  /\ Spaced(btpSub'[s])
           /\ \A k \in Nat :
                 Queued(btpSub[s], k) =>
                    \/ Queued(btpSub'[s], k)
                    \/ Len(btp_data') >= k + BtpDataDepth
                    \/ Head(btpSub[s].queue) = k /\ Handles(s, btp_data[k])
<1>1. IsSubscription(btpSub[s]) /\ Spaced(btpSub[s]) /\ Len(btp_data) \in Nat
    BY LogTypes DEF IInv, Ordered, InOrder, ServicesSpaced
<1>2. CASE btpSub'[s] = btpSub[s]
    BY <1>1, <1>2
<1>3. CASE /\ CanTransmit(btpSub[s], btp_data, 1) /\ UNCHANGED btp_data
           /\ btpSub'[s] = Transmit(btpSub[s], btp_data, 1, BtpDataDepth)
    <2>1. 1 \in Nat \ {0}
        OBVIOUS
    <2>2. Spaced(btpSub'[s])
        BY <1>1, <1>3, <2>1, Depths, TransmitKeepsSpaced
    <2>3. \A k \in Nat : Queued(btpSub[s], k) =>
              Queued(btpSub'[s], k) \/ Len(btp_data) >= k + BtpDataDepth
        BY <1>1, <1>3, <2>1, Depths, TransmitKeepsQueued
    <2> QED BY <1>3, <2>2, <2>3
<1>4. CASE /\ HasSample(btpSub[s]) /\ btpSub'[s] = Taken(btpSub[s])
           /\ Handles(s, Sample(btpSub[s], btp_data))
    BY <1>1, <1>4, TakenKeepsAwaited, TakenKeepsQueued DEF Sample
<1>5. CASE RxStep
    BY <1>2, <1>3, <1>4, <1>5, ServiceStep
<1>6. CASE ~RxStep
    <2>1. UNCHANGED btpSub
        BY <1>6 DEF Next, DispatcherStep, BtpStep, vars, rxVars
    <2> QED BY <1>2, <2>1
<1> QED BY <1>5, <1>6

\* What a service published stays published, and a process that ended ended.
LEMMA OutcomeStays ==
    ASSUME IInv, [Next]_vars, NEW s \in Services
    PROVE  /\ \A n \in DOMAIN published[s] :
                 n \in DOMAIN published'[s] /\ published'[s][n] = published[s][n]
           /\ rxAlive[s] \/ ~rxAlive'[s]
<1>1. published[s] \in Seq(BtpMsg) /\ DOMAIN published[s] = 1..Len(published[s])
    BY LogTypes
<1>2. ASSUME NEW m, published'[s] = Append(published[s], m)
      PROVE  \A n \in DOMAIN published[s] :
                 n \in DOMAIN published'[s] /\ published'[s][n] = published[s][n]
    <2>1. published[s] \in Seq(BtpMsg \cup {m}) /\ m \in BtpMsg \cup {m}
        BY <1>1
    <2>2. /\ published'[s] \in Seq(BtpMsg \cup {m})
          /\ \A n \in 1..Len(published[s]) :
                n \in 1..Len(published'[s]) /\ published'[s][n] = published[s][n]
        BY <1>2, <2>1, LogAppend
    <2> QED BY <1>1, <2>2
<1>3. \/ published'[s] = published[s]
      \/ \E m : published'[s] = Append(published[s], m)
    <2>1. CASE RxStep
        BY <2>1, ServiceStep DEF Handles
    <2>2. CASE ~RxStep
        BY <2>2 DEF Next, DispatcherStep, BtpStep, vars, rxVars
    <2> QED BY <2>1, <2>2
<1>4. rxAlive[s] \/ ~rxAlive'[s]
    <2>1. CASE RxStep
        BY <2>1, ServiceStep DEF Handles
    <2>2. CASE ~RxStep
        BY <2>2 DEF Next, DispatcherStep, BtpStep, vars, rxVars
    <2> QED BY <2>1, <2>2
<1> QED BY <1>2, <1>3, <1>4

LEMMA AttendedStep ==
    ASSUME IInv, ServicesSpaced, [Next]_vars, NEW s \in Services, NEW k \in Nat,
           Serves(s, k), Attended(s, k)
    PROVE  Attended(s, k)'
<1>1. k \in DOMAIN btp_data' /\ btp_data'[k] = btp_data[k]
    BY LogsGrow DEF Serves
<1>2. CASE \E n \in DOMAIN published[s] : published[s][n].id = btp_data[k].id
    BY <1>1, <1>2, OutcomeStays DEF Attended
<1>3. CASE Len(btp_data) >= k + BtpDataDepth
    <2>1. Len(btp_data') >= k + BtpDataDepth
        BY <1>3, BtpDataGrows, Depths
    <2> QED BY <1>1, <2>1 DEF Attended
<1>4. CASE ~rxAlive[s]
    BY <1>1, <1>4, OutcomeStays DEF Attended
<1>5. CASE Queued(btpSub[s], k)
    <2>1. CASE Queued(btpSub'[s], k)
        BY <1>1, <2>1 DEF Attended, Queued, Rx!Queued
    <2>2. CASE Len(btp_data') >= k + BtpDataDepth
        BY <1>1, <2>2 DEF Attended
    <2>3. CASE Handles(s, btp_data[k])
        <3>1. CASE published'[s] = Append(published[s], btp_data[k])
            <4>1. published[s] \in Seq(BtpMsg) /\ btp_data[k] \in BtpMsg
                BY LogTypes DEF Serves
            <4>2. /\ Len(published[s]) + 1 \in DOMAIN published'[s]
                  /\ published'[s][Len(published[s]) + 1] = btp_data[k]
                BY <3>1, <4>1, LogAppend
            <4> QED BY <1>1, <4>2 DEF Attended
        <3>2. CASE ~rxAlive'[s]
            BY <1>1, <3>2 DEF Attended
        <3> QED BY <2>3, <3>1, <3>2, ServedIsNotDropped DEF Handles
    <2> QED BY <1>5, <2>1, <2>2, <2>3, QueuedStep
<1> QED BY <1>2, <1>3, <1>4, <1>5, SameQueued DEF Attended

LEMMA SpacedForServices == Spec => []ServicesSpaced
<1>1. Init => ServicesSpaced
    BY ListeningIsSpaced DEF Init, Rx!Init, Rx!Listening, Listening, ServicesSpaced
<1>2. IInv /\ ServicesSpaced /\ [Next]_vars => ServicesSpaced'
    BY QueuedStep DEF ServicesSpaced, Spaced, Below
<1> QED BY <1>1, <1>2, Invariant, PTL DEF Spec

LEMMA AttendedAlways ==
    ASSUME NEW s \in Services, NEW k \in 1..MaxDatagrams
    PROVE  Spec => [](Rx!Queued(btpSub[s], k) /\ Serves(s, k) => []Attended(s, k))
<1> DEFINE J == Serves(s, k) /\ Attended(s, k)
<1>1. Rx!Queued(btpSub[s], k) /\ Serves(s, k) => J
    BY DEF Serves, Attended
<1>2. IInv /\ ServicesSpaced /\ J /\ [Next]_vars => J'
    <2>1. k \in Nat
        BY PathAssumption DEF Dispatcher!DispatcherAssumption
    <2> QED BY <2>1, AttendedStep, ServesStays
<1>3. J => Attended(s, k)
    OBVIOUS
<1> HIDE DEF J
<1> QED BY <1>1, <1>2, <1>3, Invariant, SpacedForServices, PTL DEF Spec

\* A whole message that a service is sure to publish waits, once it was handed
\* over, until it is published, whatever octets follow it and whatever comes
\* before it, unless newer ones displace it or the process ends.
THEOREM PublishedCorrect == Spec => HandedOverIsPublished
<1>1. \A s \in Services : \A k \in 1..MaxDatagrams :
          Spec => [](Rx!Queued(btpSub[s], k) /\ Serves(s, k) => []Attended(s, k))
    BY AttendedAlways
<1> QED BY <1>1 DEF HandedOverIsPublished
============================================================================
