------------------------- MODULE OutboundPathProofs -------------------------
(***************************************************************************)
(* Proofs about the outgoing path: for any of the three nodes, any packets *)
(* and depths, any losses and any ends of the processes.                   *)
(***************************************************************************)
EXTENDS OutboundPath, RosTopicProofs, CcuUdpApiProofs

\* The packets of udp/out, identified by their positions in the log.
Positions(log) == [k \in 1..Len(log) |-> k]

\* What a node sent, and the packet its callback is about to send.
Claimed(n) ==
    IF n = "converter" /\ job.at # "idle" THEN Append(Ids(wire[n]), job.id) ELSE Ids(wire[n])

\* The converter's callback works on a published packet that has a header.
JobInv ==
    IF job.at = "idle" THEN job = Idle
    ELSE /\ "converter" \in Nodes
         /\ job.id \in 1..Len(udp_out)
         /\ udp_out[job.id].size >= BtpHeader

NodeOrder(n) ==
    /\ InOrder(outSub[n], Positions(udp_out), Claimed(n))
    /\ \A k \in 1..Len(Claimed(n)) : Claimed(n)[k] \in 1..Len(udp_out)

OrderInv == \A n \in Nodes : NodeOrder(n)

IInv == TypeOK /\ udp_out \in Seq(Packets) /\ JobInv /\ OrderInv

---------------------------------------------------------------------------
LEMMA PositionsType ==
    ASSUME NEW S, NEW log \in Seq(S)
    PROVE  /\ Positions(log) \in Seq(Nat)
           /\ Len(Positions(log)) = Len(log)
           /\ \A k \in 1..Len(log) : Positions(log)[k] = k
           /\ Ascends(Positions(log))
<1>1. Len(log) \in Nat
    OBVIOUS
<1>2. /\ Positions(log) \in Seq(Nat)
      /\ Len(Positions(log)) = Len(log)
      /\ \A k \in 1..Len(log) : Positions(log)[k] = k
    BY <1>1 DEF Positions
<1> QED BY <1>2 DEF Ascends

LEMMA PositionsAppend ==
    ASSUME NEW S, NEW log \in Seq(S), NEW x \in S
    PROVE  Positions(Append(log, x)) = Append(Positions(log), Len(log) + 1)
<1> DEFINE new == Append(log, x)  pos == Append(Positions(log), Len(log) + 1)
<1>1. new \in Seq(S) /\ Len(log) \in Nat /\ Len(new) = Len(log) + 1
    BY AppendProperties
<1>2. /\ pos \in Seq(Nat) /\ Len(pos) = Len(log) + 1 /\ pos[Len(log) + 1] = Len(log) + 1
      /\ \A k \in 1..Len(log) : pos[k] = k
    BY <1>1, PositionsType, AppendProperties
<1>3. /\ Positions(new) \in Seq(Nat) /\ Len(Positions(new)) = Len(log) + 1
      /\ \A k \in 1..Len(log)+1 : Positions(new)[k] = k
    BY <1>1, PositionsType
<1>4. \A k \in 1..Len(log)+1 : k \in 1..Len(log) \/ k = Len(log) + 1
    BY <1>1
<1> HIDE DEF new, pos
<1>5. \A k \in 1..Len(log)+1 : Positions(new)[k] = pos[k]
    BY <1>2, <1>3, <1>4
<1> QED BY <1>2, <1>3, <1>5, SeqEqual DEF new, pos

\* Order is kept when the last publication is taken back.
LEMMA LessKeepsOrder ==
    ASSUME NEW sub, NEW log \in Seq(Nat), NEW out \in Seq(Nat), NEW x \in Nat,
           InOrder(sub, log, Append(out, x))
    PROVE  InOrder(sub, log, out)
<1>1. /\ Len(Append(out, x)) = Len(out) + 1 /\ Len(out) \in Nat
      /\ \A k \in 1..Len(out) : k \in 1..Len(out)+1 /\ Append(out, x)[k] = out[k]
    BY AppendProperties
<1>2. Ascends(out)
    BY <1>1 DEF InOrder, Ascends
<1>3. \A n \in 1..Len(out), k \in 1..Len(log) : Pending(sub, k) => out[n] < log[k]
    BY <1>1 DEF InOrder
<1> QED BY <1>2, <1>3 DEF InOrder

\* What a node sends.
Data(n) == IF n = "sender" THEN Packet ELSE RequestMsg
Sent(n) == [id : Nat, data : Data(n)]

LEMMA SentType == \A n : Sent(n) = IF n = "sender" THEN [id : Nat, data : Packet] ELSE Frame
BY DEF Sent, Data, Frame

LEMMA Types ==
    ASSUME IInv
    PROVE  /\ udp_out \in Seq(Packets) /\ udp_out \in Seq(Packet) /\ Len(udp_out) \in Nat
           /\ Positions(udp_out) \in Seq(Nat) /\ Len(Positions(udp_out)) = Len(udp_out)
           /\ \A k \in 1..Len(udp_out) : Positions(udp_out)[k] = k
           /\ Ascends(Positions(udp_out))
           /\ \A k \in 1..Len(udp_out) : udp_out[k] \in Packets /\ udp_out[k] \in Packet
           /\ \A n \in Nodes : wire[n] \in Seq(Sent(n))
           /\ \A n \in Nodes : Ids(wire[n]) \in Seq(Nat)
           /\ \A n \in Nodes : Claimed(n) \in Seq(Nat)
<1>1. udp_out \in Seq(Packets) /\ udp_out \in Seq(Packet) /\ Len(udp_out) \in Nat
    BY DEF IInv, TypeOK
<1>2. ASSUME NEW n \in Nodes
      PROVE  wire[n] \in Seq(Sent(n)) /\ Ids(wire[n]) \in Seq(Nat) /\ Claimed(n) \in Seq(Nat)
    <2>1. wire[n] \in Seq(Sent(n))
        BY SentType DEF IInv, TypeOK
    <2>2. \A f \in Sent(n) : f.id \in Nat
        BY DEF Sent
    <2>3. Ids(wire[n]) \in Seq(Nat)
        BY <2>1, <2>2, IdsType
    <2>4. job.id \in Nat
        BY DEF IInv, TypeOK
    <2>5. Append(Ids(wire[n]), job.id) \in Seq(Nat)
        BY <2>3, <2>4, AppendProperties
    <2> QED BY <2>1, <2>3, <2>5 DEF Claimed
<1> QED BY <1>1, <1>2, PositionsType

---------------------------------------------------------------------------
LEMMA InitInv == Init => IInv
<1> SUFFICES ASSUME Init PROVE IInv
    OBVIOUS
<1>1. \A n \in Nodes : IsSubscription(Unmatched)
    BY DEF IsSubscription, Unmatched
<1>2. TypeOK
    BY <1>1 DEF Init, TypeOK, Idle
<1>3. JobInv
    BY DEF Init, JobInv, Idle
<1>4. \A n \in Nodes : Claimed(n) = << >>
    BY DEF Init, Claimed, Idle, Ids
<1>5. OrderInv
    BY <1>1, <1>4 DEF Init, OrderInv, NodeOrder, InOrder, Ascends, Unmatched, Positions
<1> QED BY <1>2, <1>3, <1>5 DEF Init, IInv

\* The application publishes a packet: it is later than all that was sent.
LEMMA PublishOutKeeps == ASSUME IInv, NEW p \in Packets, PublishOut(p) PROVE IInv'
<1>1. /\ udp_out' = Append(udp_out, p)
      /\ UNCHANGED <<outSub, proc, job, udp_in, wire>>
    BY DEF PublishOut
<1>2. p \in Packet
    BY OutboundAssumption
<1>3. /\ udp_out' \in Seq(Packets) /\ udp_out' \in Seq(Packet)
      /\ Len(udp_out') = Len(udp_out) + 1
      /\ \A k \in 1..Len(udp_out) : k \in 1..Len(udp_out') /\ udp_out'[k] = udp_out[k]
    BY <1>1, <1>2, Types, LogAppend
<1>4. TypeOK'
    BY <1>1, <1>3 DEF IInv, TypeOK
<1>5. JobInv'
    BY <1>1, <1>3 DEF IInv, JobInv
<1>6. ASSUME NEW n \in Nodes
      PROVE  NodeOrder(n)'
    <2>1. Claimed(n)' = Claimed(n)
        BY <1>1 DEF Claimed, Ids
    <2>2. Positions(udp_out)' = Append(Positions(udp_out), Len(udp_out) + 1)
        <3>1. Positions(Append(udp_out, p)) = Append(Positions(udp_out), Len(udp_out) + 1)
            BY Types, PositionsAppend
        <3> QED BY <1>1, <3>1 DEF Positions
    <2>3. \A k \in 1..Len(Claimed(n)) : Claimed(n)[k] \in 1..Len(udp_out)
        BY DEF IInv, OrderInv, NodeOrder
    <2>4. \A k \in 1..Len(Claimed(n)) :
              Claimed(n)[k] < Len(udp_out) + 1 /\ Claimed(n)[k] \in 1..Len(udp_out')
        BY <1>3, <2>3, Types
    <2>5. InOrder(outSub[n], Positions(udp_out), Claimed(n)) /\ Len(udp_out) + 1 \in Nat
        BY Types DEF IInv, OrderInv, NodeOrder
    <2>6. InOrder(outSub[n], Append(Positions(udp_out), Len(udp_out) + 1), Claimed(n))
        BY <2>4, <2>5, Types, LogGrows
    <2> QED BY <1>1, <2>1, <2>2, <2>4, <2>6 DEF NodeOrder
<1> QED BY <1>1, <1>3, <1>4, <1>5, <1>6 DEF IInv, OrderInv

\* The rest of the steps leave the packets alone.
LEMMA SamePackets ==
    ASSUME UNCHANGED udp_out
    PROVE  Positions(udp_out)' = Positions(udp_out)
BY DEF Positions

LEMMA SameClaim ==
    ASSUME UNCHANGED job, NEW n, wire'[n] = wire[n]
    PROVE  Claimed(n)' = Claimed(n)
BY DEF Claimed, Ids

\* What node n takes from its queue is later than all it sent.
LEMMA TakeFacts ==
    ASSUME IInv, NEW n \in Nodes, HasSample(outSub[n])
    PROVE  /\ NextId(n) \in 1..Len(udp_out)
           /\ NextPacket(n) = udp_out[NextId(n)]
           /\ NextPacket(n) \in Packets /\ NextPacket(n) \in Packet
           /\ \A k \in 1..Len(Claimed(n)) : Claimed(n)[k] < NextId(n)
           /\ InOrder(Taken(outSub[n]), Positions(udp_out), Claimed(n))
           /\ InOrder(Taken(outSub[n]), Positions(udp_out), Append(Claimed(n), NextId(n)))
<1>1. InOrder(outSub[n], Positions(udp_out), Claimed(n))
    BY DEF IInv, OrderInv, NodeOrder
<1>2. LET x == Sample(outSub[n], Positions(udp_out))
      IN  /\ Head(outSub[n].queue) \in 1..Len(Positions(udp_out))
          /\ \A k \in 1..Len(Claimed(n)) : Claimed(n)[k] < x
          /\ InOrder(Taken(outSub[n]), Positions(udp_out), Claimed(n))
          /\ InOrder(Taken(outSub[n]), Positions(udp_out), Append(Claimed(n), x))
    BY <1>1, Types, TakenKeepsOrder
<1>3. NextId(n) \in 1..Len(udp_out)
    BY <1>2, Types DEF NextId
<1>4. Sample(outSub[n], Positions(udp_out)) = NextId(n)
    BY <1>3, Types DEF Sample, NextId
<1>5. NextPacket(n) = udp_out[NextId(n)]
    BY DEF NextPacket, Sample, NextId
<1> QED BY <1>2, <1>3, <1>4, <1>5, Types

\* Steps of the middleware, and a callback that sends nothing.
LEMMA SubscriptionKeeps ==
    ASSUME IInv, NEW n \in Nodes, NEW s, InOrder(s, Positions(udp_out), Claimed(n)),
           outSub' = [outSub EXCEPT ![n] = s],
           proc' \in [Nodes -> {"spin", "down", "ended"}],
           UNCHANGED <<udp_out, job, udp_in, wire>>
    PROVE  IInv'
<1>1. DOMAIN outSub = Nodes
    BY DEF IInv, TypeOK
<1>2. outSub'[n] = s /\ \A m \in Nodes : m # n => outSub'[m] = outSub[m]
    BY <1>1
<1>3. IsSubscription(s)
    BY DEF InOrder
<1>4. TypeOK'
    <2>1. DOMAIN outSub' = Nodes
        BY <1>1
    <2>2. \A m \in Nodes : IsSubscription(outSub'[m])
        BY <1>2, <1>3 DEF IInv, TypeOK
    <2> QED BY <2>1, <2>2 DEF IInv, TypeOK
<1>5. JobInv'
    BY DEF IInv, JobInv
<1>6. ASSUME NEW m \in Nodes PROVE NodeOrder(m)'
    <2>1. Claimed(m)' = Claimed(m) /\ Positions(udp_out)' = Positions(udp_out)
        BY SameClaim, SamePackets
    <2>2. NodeOrder(m)
        BY DEF IInv, OrderInv
    <2>3. InOrder(outSub'[m], Positions(udp_out), Claimed(m))
        BY <1>2, <2>2 DEF NodeOrder
    <2> QED BY <2>1, <2>2, <2>3 DEF NodeOrder
<1> QED BY <1>4, <1>5, <1>6 DEF IInv, OrderInv

\* The steps that touch no subscription, claim nothing and send nothing.
LEMMA ProcKeeps ==
    ASSUME IInv, proc' \in [Nodes -> {"spin", "down", "ended"}],
           UNCHANGED <<udp_out, outSub, job, udp_in, wire>>
    PROVE  IInv'
<1>1. TypeOK'
    BY DEF IInv, TypeOK
<1>2. JobInv'
    BY DEF IInv, JobInv
<1>3. ASSUME NEW m \in Nodes PROVE NodeOrder(m)'
    <2>1. Claimed(m)' = Claimed(m) /\ Positions(udp_out)' = Positions(udp_out)
        BY SameClaim, SamePackets
    <2> QED BY <2>1 DEF IInv, OrderInv, NodeOrder
<1> QED BY <1>1, <1>2, <1>3 DEF IInv, OrderInv

---------------------------------------------------------------------------
\* What a send does to the log of node n and to those of the others.
LEMMA SendAppends ==
    ASSUME IInv, NEW n \in Nodes, NEW i \in Nat, NEW data \in Data(n), Send(n, i, data)
    PROVE  /\ DOMAIN wire' = Nodes
           /\ wire'[n] = Append(wire[n], [id |-> i, data |-> data])
           /\ wire'[n] \in Seq(Sent(n))
           /\ Ids(wire'[n]) = Append(Ids(wire[n]), i)
           /\ \A m \in Nodes : m # n => wire'[m] = wire[m]
<1> DEFINE f == [id |-> i, data |-> data]
<1>1. f \in Sent(n) /\ f.id = i
    BY DEF Sent
<1>2. DOMAIN wire = Nodes /\ wire' = [wire EXCEPT ![n] = Append(wire[n], f)]
    BY DEF IInv, TypeOK, Send
<1>3. wire[n] \in Seq(Sent(n)) /\ \A g \in Sent(n) : g.id \in Nat
    BY Types DEF Sent
<1> HIDE DEF f
<1>4. DOMAIN wire' = Nodes /\ wire'[n] = Append(wire[n], f)
    BY <1>2
<1>5. \A m \in Nodes : m # n => wire'[m] = wire[m]
    BY <1>2
<1>6. Append(wire[n], f) \in Seq(Sent(n))
    BY <1>1, <1>3, AppendProperties
<1>7. Ids(Append(wire[n], f)) = Append(Ids(wire[n]), i)
    BY <1>1, <1>3, IdsAppend
<1> QED BY <1>4, <1>5, <1>6, <1>7 DEF f

LEMMA SentWireType ==
    ASSUME IInv, DOMAIN wire' = Nodes, \A m \in Nodes : wire'[m] \in Seq(Sent(m))
    PROVE  \A m \in Nodes :
               wire'[m] \in Seq(IF m = "sender" THEN [id : Nat, data : Packet] ELSE Frame)
BY SentType

\* A callback of the dispatcher or the sender that sends what it takes.
LEMMA CallbackSends ==
    ASSUME IInv, NEW n \in Nodes, n # "converter", HasSample(outSub[n]),
           outSub' = [outSub EXCEPT ![n] = Taken(outSub[n])],
           NEW data \in Data(n), Send(n, NextId(n), data),
           UNCHANGED <<udp_out, proc, job, udp_in>>
    PROVE  IInv'
<1>1. NextId(n) \in 1..Len(udp_out) /\ NextId(n) \in Nat
    BY TakeFacts, Types
<1>2. InOrder(Taken(outSub[n]), Positions(udp_out), Append(Claimed(n), NextId(n)))
    BY TakeFacts
<1>3. /\ DOMAIN wire' = Nodes
      /\ wire'[n] \in Seq(Sent(n))
      /\ Ids(wire'[n]) = Append(Ids(wire[n]), NextId(n))
      /\ \A m \in Nodes : m # n => wire'[m] = wire[m]
    BY <1>1, SendAppends
<1>4. DOMAIN outSub = Nodes
    BY DEF IInv, TypeOK
<1>5. /\ DOMAIN outSub' = Nodes
      /\ outSub'[n] = Taken(outSub[n])
      /\ \A m \in Nodes : m # n => outSub'[m] = outSub[m]
    BY <1>4
<1>6. TypeOK'
    <2>1. \A m \in Nodes : IsSubscription(outSub'[m])
        BY <1>2, <1>5 DEF IInv, TypeOK, InOrder
    <2>2. \A m \in Nodes : wire'[m] \in Seq(Sent(m))
        BY <1>3, Types
    <2>3. \A m \in Nodes :
              wire'[m] \in Seq(IF m = "sender" THEN [id : Nat, data : Packet] ELSE Frame)
        BY <1>3, <2>2, SentWireType
    <2> QED BY <1>3, <1>5, <2>1, <2>3 DEF IInv, TypeOK
<1>7. JobInv'
    BY DEF IInv, JobInv
<1>8. ASSUME NEW m \in Nodes PROVE NodeOrder(m)'
    <2>1. Positions(udp_out)' = Positions(udp_out)
        BY SamePackets
    <2>2. CASE m = n
        <3>1. Claimed(n)' = Append(Claimed(n), NextId(n))
            BY <1>3 DEF Claimed
        <3>2. /\ Len(Claimed(n)) \in Nat /\ Len(Claimed(n)') = Len(Claimed(n)) + 1
              /\ Claimed(n)'[Len(Claimed(n)) + 1] = NextId(n)
              /\ \A k \in 1..Len(Claimed(n)) : Claimed(n)'[k] = Claimed(n)[k]
            BY <1>1, <3>1, Types, AppendProperties
        <3>3. \A k \in 1..Len(Claimed(n)) : Claimed(n)[k] \in 1..Len(udp_out)
            BY DEF IInv, OrderInv, NodeOrder
        <3>4. \A k \in 1..Len(Claimed(n)') : Claimed(n)'[k] \in 1..Len(udp_out)
            BY <1>1, <3>2, <3>3
        <3> QED BY <1>2, <1>5, <2>1, <2>2, <3>1, <3>4 DEF NodeOrder
    <2>3. CASE m # n
        <3>1. Claimed(m)' = Claimed(m) /\ outSub'[m] = outSub[m]
            BY <1>3, <1>5, <2>3, SameClaim
        <3> QED BY <2>1, <3>1 DEF IInv, OrderInv, NodeOrder
    <2> QED BY <2>2, <2>3
<1> QED BY <1>6, <1>7, <1>8 DEF IInv, OrderInv

\* The converter's callback starts on a packet: it claims the packet.
LEMMA ConverterClaims ==
    ASSUME IInv, "converter" \in Nodes, job = Idle, HasSample(outSub["converter"]),
           outSub' = [outSub EXCEPT !["converter"] = Taken(outSub["converter"])],
           NextPacket("converter").size >= BtpHeader,
           job' = [at |-> "framed", id |-> NextId("converter")],
           UNCHANGED <<udp_out, proc, udp_in, wire>>
    PROVE  IInv'
<1> DEFINE c == "converter"
<1>1. NextId(c) \in 1..Len(udp_out) /\ NextId(c) \in Nat /\ NextPacket(c) = udp_out[NextId(c)]
    BY TakeFacts, Types
<1>2. InOrder(Taken(outSub[c]), Positions(udp_out), Append(Claimed(c), NextId(c)))
    BY TakeFacts
<1>3. DOMAIN outSub = Nodes
    BY DEF IInv, TypeOK
<1>4. /\ DOMAIN outSub' = Nodes
      /\ outSub'[c] = Taken(outSub[c])
      /\ \A m \in Nodes : m # c => outSub'[m] = outSub[m]
    BY <1>3
<1>5. TypeOK'
    <2>1. \A m \in Nodes : IsSubscription(outSub'[m])
        BY <1>2, <1>4 DEF IInv, TypeOK, InOrder
    <2>2. job' \in [at : {"idle", "framed", "echoed"}, id : Nat]
        BY <1>1
    <2> QED BY <1>4, <2>1, <2>2 DEF IInv, TypeOK
<1>6. JobInv'
    BY <1>1 DEF JobInv
<1>7. ASSUME NEW m \in Nodes PROVE NodeOrder(m)'
    <2>1. Positions(udp_out)' = Positions(udp_out)
        BY SamePackets
    <2>2. CASE m = c
        <3>1. Claimed(c)' = Append(Claimed(c), NextId(c))
            BY DEF Claimed, Idle, Ids
        <3>2. /\ Len(Claimed(c)) \in Nat /\ Len(Claimed(c)') = Len(Claimed(c)) + 1
              /\ Claimed(c)'[Len(Claimed(c)) + 1] = NextId(c)
              /\ \A k \in 1..Len(Claimed(c)) : Claimed(c)'[k] = Claimed(c)[k]
            <4> DEFINE old == Claimed(c)  new == Claimed(c)'  x == NextId(c)
            <4>1. old \in Seq(Nat) /\ x \in Nat /\ new = Append(old, x)
                BY <1>1, <3>1, Types
            <4> HIDE DEF old, new, x
            <4>2. /\ Len(old) \in Nat /\ Len(new) = Len(old) + 1 /\ new[Len(old) + 1] = x
                  /\ \A k \in 1..Len(old) : new[k] = old[k]
                BY <4>1, AppendProperties
            <4> QED BY <4>2 DEF old, new, x
        <3>3. \A k \in 1..Len(Claimed(c)) : Claimed(c)[k] \in 1..Len(udp_out)
            BY DEF IInv, OrderInv, NodeOrder
        <3>4. \A k \in 1..Len(Claimed(c)') : Claimed(c)'[k] \in 1..Len(udp_out)
            BY <1>1, <3>2, <3>3
        <3> QED BY <1>2, <1>4, <2>1, <2>2, <3>1, <3>4 DEF NodeOrder
    <2>3. CASE m # c
        <3>1. Claimed(m)' = Claimed(m) /\ outSub'[m] = outSub[m]
            BY <1>4, <2>3 DEF Claimed, Ids
        <3> QED BY <2>1, <3>1 DEF IInv, OrderInv, NodeOrder
    <2> QED BY <2>2, <2>3
<1> QED BY <1>5, <1>6, <1>7 DEF IInv, OrderInv

\* While the callback works its frame is well formed.
LEMMA JobFrameType ==
    ASSUME IInv, job.at # "idle"
    PROVE  /\ "converter" \in Nodes /\ job.id \in 1..Len(udp_out) /\ job.id \in Nat
           /\ udp_out[job.id] \in Packet /\ udp_out[job.id].size >= BtpHeader
           /\ JobFrame \in RequestMsg
<1>1. "converter" \in Nodes /\ job.id \in 1..Len(udp_out) /\ udp_out[job.id].size >= BtpHeader
    BY DEF IInv, JobInv
<1>2. udp_out[job.id] \in Packet /\ job.id \in Nat
    BY <1>1, Types DEF IInv, TypeOK
<1> QED BY <1>1, <1>2, RequestType DEF JobFrame

LEMMA PublishEchoKeeps == ASSUME IInv, PublishEcho PROVE IInv'
<1>1. /\ job.at = "framed" /\ job' = [job EXCEPT !.at = "echoed"]
      /\ UNCHANGED <<udp_out, outSub, proc, wire>>
    BY DEF PublishEcho
<1>2. job \in [at : {"idle", "framed", "echoed"}, id : Nat]
    BY DEF IInv, TypeOK
<1>3. job' = [at |-> "echoed", id |-> job.id]
    BY <1>1, <1>2
<1>4. udp_in' \in Seq(Frame)
    <2>1. [id |-> job.id, data |-> JobFrame] \in Frame
        BY <1>1, JobFrameType DEF Frame
    <2>2. udp_in \in Seq(Frame)
        BY DEF IInv, TypeOK
    <2>3. Append(udp_in, [id |-> job.id, data |-> JobFrame]) \in Seq(Frame)
        BY <2>1, <2>2, AppendProperties
    <2> QED BY <2>2, <2>3 DEF PublishEcho
<1>5. TypeOK'
    BY <1>1, <1>2, <1>3, <1>4 DEF IInv, TypeOK
<1>6. JobInv'
    BY <1>1, <1>3 DEF IInv, JobInv
<1>7. ASSUME NEW m \in Nodes PROVE NodeOrder(m)'
    <2>1. Claimed(m)' = Claimed(m)
        BY <1>1, <1>3 DEF Claimed, Ids
    <2>2. Positions(udp_out)' = Positions(udp_out)
        BY <1>1, SamePackets
    <2> QED BY <1>1, <2>1, <2>2 DEF IInv, OrderInv, NodeOrder
<1> QED BY <1>1, <1>5, <1>6, <1>7 DEF IInv, OrderInv

\* The callback ends: what it claimed was sent or is given up.
LEMMA ConverterSends == ASSUME IInv, send_udp_packet PROVE IInv'
<1> DEFINE c == "converter"
<1>1. job.at = "echoed" /\ job' = Idle /\ UNCHANGED <<udp_out, outSub, proc, udp_in>>
    BY DEF send_udp_packet
<1>2. c \in Nodes /\ job.id \in 1..Len(udp_out) /\ job.id \in Nat /\ JobFrame \in Data(c)
    BY <1>1, JobFrameType DEF Data
<1>3. Claimed(c) = Append(Ids(wire[c]), job.id) /\ Claimed(c)' = Ids(wire'[c])
    BY <1>1 DEF Claimed, Idle, Ids
<1>4. Ids(wire[c]) \in Seq(Nat) /\ NodeOrder(c)
    BY <1>2, Types DEF IInv, OrderInv
<1>5. /\ DOMAIN wire' = Nodes /\ \A m \in Nodes : wire'[m] \in Seq(Sent(m))
      /\ \A m \in Nodes : m # c => wire'[m] = wire[m]
      /\ Claimed(c)' = Claimed(c) \/ Claimed(c)' = Ids(wire[c])
    <2>1. CASE UNCHANGED wire
        BY <1>3, <2>1, Types DEF IInv, TypeOK, Ids
    <2>2. CASE Send(c, job.id, JobFrame)
        <3>1. /\ DOMAIN wire' = Nodes /\ wire'[c] \in Seq(Sent(c))
              /\ Ids(wire'[c]) = Append(Ids(wire[c]), job.id)
              /\ \A m \in Nodes : m # c => wire'[m] = wire[m]
            BY <1>2, <2>2, SendAppends
        <3> QED BY <1>3, <3>1, Types
    <2> QED BY <2>1, <2>2 DEF send_udp_packet
<1>6. TypeOK'
    <2>1. \A m \in Nodes :
              wire'[m] \in Seq(IF m = "sender" THEN [id : Nat, data : Packet] ELSE Frame)
        BY <1>5, SentWireType
    <2>2. Idle \in [at : {"idle", "framed", "echoed"}, id : Nat]
        BY DEF Idle
    <2> QED BY <1>1, <1>5, <2>1, <2>2 DEF IInv, TypeOK
<1>7. JobInv'
    BY <1>1 DEF JobInv, Idle
<1>8. ASSUME NEW m \in Nodes PROVE NodeOrder(m)'
    <2>1. Positions(udp_out)' = Positions(udp_out)
        BY <1>1, SamePackets
    <2>2. CASE m # c
        <3>1. Claimed(m)' = Claimed(m)
            BY <1>5, <2>2 DEF Claimed, Ids
        <3> QED BY <1>1, <2>1, <3>1 DEF IInv, OrderInv, NodeOrder
    <2>3. CASE m = c /\ Claimed(c)' = Claimed(c)
        BY <1>1, <1>4, <2>1, <2>3 DEF NodeOrder
    <2>4. CASE m = c /\ Claimed(c)' = Ids(wire[c])
        <3>1. InOrder(outSub[c], Positions(udp_out), Ids(wire[c]))
            BY <1>2, <1>3, <1>4, Types, LessKeepsOrder DEF NodeOrder
        <3>2. /\ Len(Claimed(c)) = Len(Ids(wire[c])) + 1 /\ Len(Ids(wire[c])) \in Nat
              /\ \A k \in 1..Len(Ids(wire[c])) : Claimed(c)[k] = Ids(wire[c])[k]
            BY <1>2, <1>3, <1>4, AppendProperties
        <3>3. \A k \in 1..Len(Ids(wire[c])) : Ids(wire[c])[k] \in 1..Len(udp_out)
            BY <1>4, <3>2 DEF NodeOrder
        <3> QED BY <1>1, <2>1, <2>4, <3>1, <3>3 DEF NodeOrder
    <2> QED BY <1>5, <2>2, <2>3, <2>4
<1> QED BY <1>1, <1>6, <1>7, <1>8 DEF IInv, OrderInv

---------------------------------------------------------------------------
LEMMA MatchOutKeeps == ASSUME IInv, NEW n \in Nodes, MatchOut(n) PROVE IInv'
<1> DEFINE s == Match(outSub[n], udp_out)
<1>1. /\ CanMatch(outSub[n]) /\ outSub' = [outSub EXCEPT ![n] = s]
      /\ UNCHANGED <<udp_out, proc, job, udp_in, wire>>
    BY DEF MatchOut
<1>2. s = Match(outSub[n], Positions(udp_out))
    BY Types, MatchLengthOnly
<1>3. InOrder(outSub[n], Positions(udp_out), Claimed(n))
    BY DEF IInv, OrderInv, NodeOrder
<1>4. InOrder(s, Positions(udp_out), Claimed(n))
    BY <1>1, <1>2, <1>3, Types, MatchKeepsOrder
<1>5. proc' \in [Nodes -> {"spin", "down", "ended"}]
    BY <1>1 DEF IInv, TypeOK
<1> HIDE DEF s
<1> QED BY <1>1, <1>4, <1>5, SubscriptionKeeps

LEMMA TransmitOutKeeps == ASSUME IInv, NEW n \in Nodes, TransmitOut(n) PROVE IInv'
<1> DEFINE s == Transmit(outSub[n], udp_out, OutHistory, OutDepth[n])
           pos == Positions(udp_out)
<1>1. /\ CanTransmit(outSub[n], udp_out, OutHistory) /\ outSub' = [outSub EXCEPT ![n] = s]
      /\ UNCHANGED <<udp_out, proc, job, udp_in, wire>>
    BY DEF TransmitOut
<1>2. OutHistory \in Nat \ {0} /\ OutDepth[n] \in Nat \ {0}
    BY OutboundAssumption
<1>3. /\ s = Transmit(outSub[n], pos, OutHistory, OutDepth[n])
      /\ CanTransmit(outSub[n], pos, OutHistory)
    <2>1. Len(udp_out) = Len(pos)
        BY Types
    <2> HIDE DEF pos
    <2> QED BY <1>1, <2>1, LengthOnly
<1>4. InOrder(outSub[n], pos, Claimed(n)) /\ pos \in Seq(Nat) /\ Claimed(n) \in Seq(Nat)
    BY Types DEF IInv, OrderInv, NodeOrder
<1> HIDE DEF pos
<1>5. InOrder(s, pos, Claimed(n))
    BY <1>2, <1>3, <1>4, TransmitKeepsOrder
<1>6. proc' \in [Nodes -> {"spin", "down", "ended"}]
    BY <1>1 DEF IInv, TypeOK
<1> HIDE DEF s
<1> QED BY <1>1, <1>5, <1>6, SubscriptionKeeps DEF pos

\* A callback that sends nothing, whether or not it ends the process.
LEMMA CallbackDrops ==
    ASSUME IInv, NEW n \in Nodes, Takes(n), UNCHANGED <<udp_out, job, udp_in, wire>>,
           UNCHANGED proc \/ proc' = [proc EXCEPT ![n] = "ended"]
    PROVE  IInv'
<1>1. HasSample(outSub[n]) /\ outSub' = [outSub EXCEPT ![n] = Taken(outSub[n])]
    BY DEF Takes
<1>2. InOrder(Taken(outSub[n]), Positions(udp_out), Claimed(n))
    BY <1>1, TakeFacts
<1>3. proc' \in [Nodes -> {"spin", "down", "ended"}]
    BY DEF IInv, TypeOK
<1> QED BY <1>1, <1>2, <1>3, SubscriptionKeeps

LEMMA DispatcherKeeps == ASSUME IInv, dispatcherCallback PROVE IInv'
<1> DEFINE d == "dispatcher"  p == NextPacket(d)
<1>1. Takes(d) /\ d \in Nodes /\ UNCHANGED <<udp_out, job, udp_in>>
    BY DEF dispatcherCallback, Takes
<1>2. CASE UNCHANGED wire /\ (UNCHANGED proc \/ proc' = [proc EXCEPT ![d] = "ended"])
    BY <1>1, <1>2, CallbackDrops
<1>3. CASE p.size >= BtpHeader /\ Send(d, NextId(d), Request(p)) /\ UNCHANGED proc
    <2>1. HasSample(outSub[d]) /\ outSub' = [outSub EXCEPT ![d] = Taken(outSub[d])]
        BY <1>1 DEF Takes
    <2>2. Request(p) \in Data(d)
        BY <1>1, <1>3, <2>1, TakeFacts, RequestType DEF Data
    <2> QED BY <1>1, <1>3, <2>1, <2>2, CallbackSends
<1> QED BY <1>2, <1>3 DEF dispatcherCallback, EndsOnShort

LEMMA SenderKeeps == ASSUME IInv, udp_callback PROVE IInv'
<1> DEFINE d == "sender"  p == NextPacket(d)
<1>1. Takes(d) /\ d \in Nodes /\ UNCHANGED <<udp_out, proc, job, udp_in>>
    BY DEF udp_callback, Takes
<1>2. CASE UNCHANGED wire
    BY <1>1, <1>2, CallbackDrops
<1>3. CASE Send(d, NextId(d), p)
    <2>1. HasSample(outSub[d]) /\ outSub' = [outSub EXCEPT ![d] = Taken(outSub[d])]
        BY <1>1 DEF Takes
    <2>2. p \in Data(d)
        BY <1>1, <2>1, TakeFacts DEF Data
    <2> QED BY <1>1, <1>3, <2>1, <2>2, CallbackSends
<1> QED BY <1>2, <1>3 DEF udp_callback

LEMMA ConverterTakesKeeps == ASSUME IInv, udp_converter_callback PROVE IInv'
<1> DEFINE c == "converter"
<1>1. Takes(c) /\ c \in Nodes /\ job = Idle /\ UNCHANGED <<udp_out, udp_in, wire>>
    BY DEF udp_converter_callback, Takes
<1>2. CASE UNCHANGED job /\ proc' = [proc EXCEPT ![c] = "ended"]
    BY <1>1, <1>2, CallbackDrops
<1>3. CASE /\ NextPacket(c).size >= BtpHeader /\ UNCHANGED proc
           /\ job' = [at |-> "framed", id |-> NextId(c)]
    <2>1. HasSample(outSub[c]) /\ outSub' = [outSub EXCEPT ![c] = Taken(outSub[c])]
        BY <1>1 DEF Takes
    <2> QED BY <1>1, <1>3, <2>1, ConverterClaims
<1> QED BY <1>2, <1>3 DEF udp_converter_callback, EndsOnShort

LEMMA EndKeeps ==
    ASSUME IInv, Shutdown \/ (\E n \in Nodes : End(n)) \/ UNCHANGED vars
    PROVE  IInv'
<1>1. UNCHANGED <<udp_out, outSub, job, udp_in, wire>>
    BY DEF Shutdown, End, vars
<1>2. proc' \in [Nodes -> {"spin", "down", "ended"}]
    BY DEF Shutdown, End, vars, IInv, TypeOK
<1> QED BY <1>1, <1>2, ProcKeeps

LEMMA NextKeeps == IInv /\ [Next]_vars => IInv'
<1> SUFFICES ASSUME IInv, [Next]_vars PROVE IInv'
    OBVIOUS
<1>1. CASE \E p \in Packets : PublishOut(p)
    BY <1>1, PublishOutKeeps
<1>2. CASE \E n \in Nodes : MatchOut(n) \/ TransmitOut(n)
    BY <1>2, MatchOutKeeps, TransmitOutKeeps
<1>3. CASE Shutdown \/ (\E n \in Nodes : End(n)) \/ UNCHANGED vars
    BY <1>3, EndKeeps
<1>4. CASE dispatcherCallback \/ udp_callback
    BY <1>4, DispatcherKeeps, SenderKeeps
<1>5. CASE ConverterStep
    BY <1>5, ConverterTakesKeeps, PublishEchoKeeps, ConverterSends DEF ConverterStep
<1> QED BY <1>1, <1>2, <1>3, <1>4, <1>5 DEF Next

LEMMA Invariant == Spec => []IInv
BY InitInv, NextKeeps, PTL DEF Spec

\* Every variable of the outgoing path keeps its type, for any packets, any
\* depths and any subset of the nodes.
THEOREM TypeCorrect == Spec => []TypeOK
<1>1. IInv => TypeOK
    BY DEF IInv
<1> QED BY <1>1, Invariant, PTL

---------------------------------------------------------------------------
DataFor(n, p) == IF n = "sender" THEN p ELSE Request(p)

\* Node n sends the i-th packet, which is later than all it sent before.
Sends(n, i) ==
    /\ i \in 1..Len(udp_out)
    /\ udp_out[i] \in Wanted(n)
    /\ \A k \in 1..Len(Ids(wire[n])) : Ids(wire[n])[k] < i
    /\ Send(n, i, DataFor(n, udp_out[i]))
    /\ UNCHANGED udp_out

LEMMA TakenIsSent ==
    ASSUME IInv, NEW n \in Nodes, n # "converter", Takes(n), NextPacket(n) \in Wanted(n),
           Send(n, NextId(n), DataFor(n, NextPacket(n))), UNCHANGED udp_out
    PROVE  Sends(n, NextId(n))
<1>1. Claimed(n) = Ids(wire[n]) /\ HasSample(outSub[n])
    BY DEF Claimed, Takes
<1> QED BY <1>1, TakeFacts DEF Sends

LEMMA JobIsSent ==
    ASSUME IInv, job.at = "echoed", Sendable(udp_out[job.id]),
           Send("converter", job.id, JobFrame), UNCHANGED udp_out
    PROVE  Sends("converter", job.id)
<1> DEFINE ids == Ids(wire["converter"])
<1>1. /\ "converter" \in Nodes /\ job.id \in 1..Len(udp_out) /\ job.id \in Nat
      /\ udp_out[job.id].size >= BtpHeader /\ udp_out[job.id] \in Packets
    BY JobFrameType, Types
<1>2. udp_out[job.id] \in Wanted("converter")
    BY <1>1 DEF Wanted
<1>3. Claimed("converter") = Append(ids, job.id) /\ ids \in Seq(Nat)
    BY <1>1, Types DEF Claimed
<1>4. Ascends(Append(ids, job.id))
    BY <1>1, <1>3 DEF IInv, OrderInv, NodeOrder, InOrder
<1> HIDE DEF ids
<1>5. /\ Len(Append(ids, job.id)) = Len(ids) + 1 /\ Len(ids) \in Nat
      /\ Append(ids, job.id)[Len(ids) + 1] = job.id
      /\ \A k \in 1..Len(ids) : Append(ids, job.id)[k] = ids[k]
    BY <1>1, <1>3, AppendProperties
<1>6. \A k \in 1..Len(ids) : ids[k] < job.id
    BY <1>4, <1>5 DEF Ascends
<1> QED BY <1>1, <1>2, <1>6 DEF Sends, DataFor, JobFrame, ids

\* What a step does to the topic and to what reaches the unit.
LEMMA StepSends ==
    ASSUME IInv, [Next]_vars
    PROVE  \/ \E p \in Packets : PublishOut(p)
           \/ UNCHANGED <<udp_out, wire>>
           \/ \E n \in Nodes, i \in Nat : Sends(n, i)
<1>1. CASE UNCHANGED <<udp_out, wire>>
    BY <1>1
<1>2. CASE dispatcherCallback
    <2> DEFINE n == "dispatcher"  p == NextPacket(n)
    <2>1. Takes(n) /\ n \in Nodes /\ UNCHANGED udp_out
        BY <1>2 DEF dispatcherCallback, Takes
    <2>2. NextId(n) \in Nat /\ p \in Packets
        BY <2>1, Types, TakeFacts DEF Takes
    <2>3. CASE p.size >= BtpHeader /\ Sendable(p) /\ Send(n, NextId(n), Request(p))
        <3>1. p \in Wanted(n)
            BY <2>2, <2>3 DEF Wanted
        <3>2. Sends(n, NextId(n))
            BY <2>1, <2>3, <3>1, TakenIsSent DEF DataFor
        <3> QED BY <2>1, <2>2, <3>2
    <2> QED BY <1>2, <2>1, <2>3 DEF dispatcherCallback
<1>3. CASE udp_callback
    <2> DEFINE n == "sender"  p == NextPacket(n)
    <2>1. Takes(n) /\ n \in Nodes /\ UNCHANGED udp_out
        BY <1>3 DEF udp_callback, Takes
    <2>2. NextId(n) \in Nat /\ p \in Packets
        BY <2>1, Types, TakeFacts DEF Takes
    <2>3. CASE p.size <= MaxUdpPayload /\ Send(n, NextId(n), p)
        <3>1. p \in Wanted(n)
            BY <2>2, <2>3 DEF Wanted
        <3>2. Sends(n, NextId(n))
            BY <2>1, <2>3, <3>1, TakenIsSent DEF DataFor
        <3> QED BY <2>1, <2>2, <3>2
    <2> QED BY <1>3, <2>1, <2>3 DEF udp_callback
<1>4. CASE send_udp_packet
    <2>1. job.at = "echoed" /\ UNCHANGED udp_out
        BY <1>4 DEF send_udp_packet
    <2>2. CASE Sendable(udp_out[job.id]) /\ Send("converter", job.id, JobFrame)
        BY <2>1, <2>2, JobIsSent, JobFrameType
    <2> QED BY <1>4, <2>1, <2>2 DEF send_udp_packet
<1> QED BY <1>1, <1>2, <1>3, <1>4
        DEF Next, vars, MatchOut, TransmitOut, End, Shutdown, ConverterStep, PublishEcho,
            udp_converter_callback

---------------------------------------------------------------------------
\* What an accepted send adds to a log.
LEMMA SendsAppends ==
    ASSUME IInv, NEW n \in Nodes, NEW i \in Nat, Sends(n, i)
    PROVE  /\ udp_out[i] \in Packet
           /\ DataFor(n, udp_out[i]) \in Data(n)
           /\ wire'[n] = Append(wire[n], [id |-> i, data |-> DataFor(n, udp_out[i])])
           /\ Ids(wire'[n]) = Append(Ids(wire[n]), i)
           /\ DOMAIN wire' = Nodes
           /\ wire'[n] \in Seq(Sent(n))
           /\ \A m \in Nodes : m # n => wire'[m] = wire[m]
<1>1. udp_out[i] \in Packet /\ udp_out[i] \in Wanted(n)
    BY Types DEF Sends
<1>2. DataFor(n, udp_out[i]) \in Data(n)
    BY <1>1, RequestType DEF Wanted, DataFor, Data
<1> DEFINE data == DataFor(n, udp_out[i])
<1>3. Send(n, i, data) /\ data \in Data(n)
    BY <1>2 DEF Sends
<1> HIDE DEF data
<1> QED BY <1>1, <1>2, <1>3, SendAppends DEF data

LEMMA FramesStep == IInv /\ FramesConsistent /\ [Next]_vars => FramesConsistent'
<1> SUFFICES ASSUME IInv, FramesConsistent, [Next]_vars PROVE FramesConsistent'
    OBVIOUS
<1>1. CASE UNCHANGED wire
    BY <1>1 DEF FramesConsistent
<1>2. ASSUME NEW n \in Nodes, NEW i \in Nat, Sends(n, i) PROVE FramesConsistent'
    <2> SUFFICES ASSUME NEW m \in Nodes \ {"sender"} PROVE \A k \in DOMAIN wire'[m] : IsConsistent(wire'[m][k].data)
        BY DEF FramesConsistent
    <2>1. CASE m # n
        BY <1>2, <2>1, SendsAppends DEF FramesConsistent
    <2>2. CASE m = n
        <3> DEFINE f == [id |-> i, data |-> Request(udp_out[i])]
        <3>1. wire'[n] = Append(wire[n], f)
            BY <1>2, <2>2, SendsAppends DEF DataFor
        <3>2. IsConsistent(f.data)
            <4>1. udp_out[i] \in Packet /\ udp_out[i].size >= BtpHeader /\ Sendable(udp_out[i])
                BY <1>2, <2>2, SendsAppends DEF Sends, Wanted
            <4> QED BY <4>1, SentConsistent
        <3> DEFINE s == wire[n]  t == wire'[n]
        <3>3. s \in Seq(Sent(n)) /\ f \in Sent(n)
            BY <1>2, <2>2, Types, SendsAppends DEF Sent, DataFor
        <3>4. \A k \in DOMAIN s : IsConsistent(s[k].data)
            BY <2>2 DEF FramesConsistent
        <3>5. t = Append(s, f)
            BY <3>1
        <3> HIDE DEF f, s, t
        <3>6. /\ DOMAIN s = 1..Len(s) /\ DOMAIN t = 1..Len(t)
              /\ Len(t) = Len(s) + 1 /\ t[Len(s) + 1] = f /\ Len(s) \in Nat
              /\ \A k \in 1..Len(s) : t[k] = s[k]
              /\ \A k \in 1..Len(t) : k \in 1..Len(s) \/ k = Len(s) + 1
            BY <3>3, <3>5, AppendProperties
        <3>7. \A k \in DOMAIN t : IsConsistent(t[k].data)
            BY <3>2, <3>4, <3>6
        <3> QED BY <2>2, <3>7 DEF t
    <2> QED BY <2>1, <2>2
<1> QED BY <1>1, <1>2, StepSends DEF PublishOut

\* No frame with a length that wrapped its field reaches the unit, whichever
\* of the framing nodes run and whatever the sizes of the packets.
THEOREM FramesCorrect == Spec => []FramesConsistent
<1>1. Init => FramesConsistent
    BY DEF Init, FramesConsistent
<1> QED BY <1>1, FramesStep, Invariant, PTL DEF Spec

---------------------------------------------------------------------------
\* The converter's frames: while its callback works, all it sent has been
\* published, and so has the frame in hand once the callback is past the
\* publication, unless the context was gone by then.
EchoInv ==
    "converter" \in Nodes =>
        /\ \A k \in DOMAIN wire["converter"] :
              \/ Echoed(wire["converter"][k])
              \/ proc["converter"] # "spin" /\ job = Idle /\ k = Len(wire["converter"])
        /\ job.at = "echoed" =>
              Echoed([id |-> job.id, data |-> JobFrame]) \/ proc["converter"] # "spin"

LEMMA EchoInit == Init => EchoInv
BY DEF Init, EchoInv, Idle

LEMMA EchoStep == IInv /\ IInv' /\ EchoInv /\ [Next]_vars => EchoInv'
<1> SUFFICES ASSUME IInv, IInv', EchoInv, [Next]_vars, "converter" \in Nodes PROVE EchoInv'
    BY DEF EchoInv
<1> DEFINE c == "converter"
<1>1. /\ proc \in [Nodes -> {"spin", "down", "ended"}] /\ udp_in \in Seq(Frame)
      /\ DOMAIN wire = Nodes
    BY DEF IInv, TypeOK
<1>2. CASE UNCHANGED <<job, udp_in>> /\ wire'[c] = wire[c] /\ (proc'[c] # "spin" \/ proc'[c] = proc[c])
           /\ (job.at = "echoed" => udp_out'[job.id] = udp_out[job.id])
    BY <1>2 DEF EchoInv, Echoed, JobFrame
<1>3. CASE udp_converter_callback /\ UNCHANGED proc
    BY <1>3 DEF udp_converter_callback, Takes, EndsOnShort, EchoInv, Echoed, JobFrame, Idle
<1>4. CASE PublishEcho
    <2> DEFINE f == [id |-> job.id, data |-> JobFrame]
    <2>1. /\ job.at = "framed" /\ job' = [job EXCEPT !.at = "echoed"]
          /\ UNCHANGED <<udp_out, outSub, proc, wire>>
        BY <1>4 DEF PublishEcho
    <2>2. job' = [at |-> "echoed", id |-> job.id]
        BY <2>1 DEF IInv, TypeOK
    <2>3. [id |-> job'.id, data |-> JobFrame'] = f
        BY <2>1, <2>2 DEF JobFrame
    <2>4. f \in Frame
        BY <2>1, JobFrameType DEF Frame
    <2> HIDE DEF f
    <2>5. /\ \A g : Echoed(g) => \E j \in DOMAIN udp_in' : udp_in'[j] = g
          /\ proc[c] = "spin" => \E j \in DOMAIN udp_in' : udp_in'[j] = f
        <3>1. CASE UNCHANGED udp_in /\ proc[c] # "spin"
            BY <3>1 DEF Echoed
        <3>2. CASE udp_in' = Append(udp_in, f)
            <4>1. /\ DOMAIN udp_in = 1..Len(udp_in) /\ DOMAIN udp_in' = 1..Len(udp_in)+1
                  /\ Len(udp_in) \in Nat /\ udp_in'[Len(udp_in) + 1] = f
                  /\ \A k \in 1..Len(udp_in) : k \in 1..Len(udp_in)+1 /\ udp_in'[k] = udp_in[k]
                BY <1>1, <2>4, <3>2, AppendProperties
            <4>2. ASSUME NEW g, Echoed(g) PROVE \E j \in DOMAIN udp_in' : udp_in'[j] = g
                BY <4>1, <4>2 DEF Echoed
            <4>3. Len(udp_in) + 1 \in DOMAIN udp_in'
                BY <4>1
            <4>4. \E j \in DOMAIN udp_in' : udp_in'[j] = f
                BY <4>1, <4>3
            <4> QED BY <4>2, <4>4
        <3> QED BY <1>4, <3>1, <3>2 DEF PublishEcho, f
    <2>6. \A k \in DOMAIN wire[c] : Echoed(wire[c][k])
        BY <2>1 DEF EchoInv, Idle
    <2>7. \A k \in DOMAIN wire'[c] : \E j \in DOMAIN udp_in' : udp_in'[j] = wire'[c][k]
        BY <2>1, <2>5, <2>6
    <2>8. proc'[c] # "spin" \/ \E j \in DOMAIN udp_in' : udp_in'[j] = [id |-> job'.id, data |-> JobFrame']
        BY <2>1, <2>3, <2>5
    <2> QED BY <2>7, <2>8 DEF EchoInv, Echoed
<1>5. CASE send_udp_packet
    <2> DEFINE f == [id |-> job.id, data |-> JobFrame]
    <2>1. job.at = "echoed" /\ job' = Idle /\ UNCHANGED <<udp_out, outSub, proc, udp_in>>
        BY <1>5 DEF send_udp_packet
    <2>2. \A k \in DOMAIN wire[c] : Echoed(wire[c][k])
        BY <2>1 DEF EchoInv, Idle
    <2>3. Echoed(f) \/ proc[c] # "spin"
        BY <2>1 DEF EchoInv
    <2>4. CASE UNCHANGED wire
        BY <2>1, <2>2, <2>4 DEF EchoInv, Echoed, Idle
    <2>5. CASE Send(c, job.id, JobFrame)
        <3>1. wire'[c] = Append(wire[c], f)
            BY <2>1, <2>5, JobFrameType, SendAppends DEF Data
        <3>2. wire[c] \in Seq(Sent(c)) /\ f \in Sent(c)
            BY <2>1, Types, JobFrameType DEF Sent, Data
        <3> HIDE DEF f
        <3>3. /\ DOMAIN wire[c] = 1..Len(wire[c]) /\ DOMAIN wire'[c] = 1..Len(wire[c])+1
              /\ Len(wire[c]) \in Nat /\ Len(wire'[c]) = Len(wire[c]) + 1
              /\ wire'[c][Len(wire[c]) + 1] = f
              /\ \A k \in 1..Len(wire[c]) : wire'[c][k] = wire[c][k]
              /\ \A k \in 1..Len(wire[c])+1 : k \in 1..Len(wire[c]) \/ k = Len(wire[c]) + 1
            BY <3>1, <3>2, AppendProperties
        <3>4. \A k \in DOMAIN wire'[c] :
                  \/ Echoed(wire'[c][k])
                  \/ proc[c] # "spin" /\ k = Len(wire'[c])
            BY <2>2, <2>3, <3>3
        <3> QED BY <2>1, <3>4 DEF EchoInv, Echoed, Idle
    <2> QED BY <1>5, <2>4, <2>5 DEF send_udp_packet
<1>6. \/ UNCHANGED <<job, udp_in>> /\ wire'[c] = wire[c] /\ (proc'[c] # "spin" \/ proc'[c] = proc[c])
           /\ (job.at = "echoed" => udp_out'[job.id] = udp_out[job.id])
      \/ udp_converter_callback /\ UNCHANGED proc
      \/ PublishEcho
      \/ send_udp_packet
    <2>1. CASE \E p \in Packets : PublishOut(p)
        <3>1. job.at = "echoed" => job.id \in 1..Len(udp_out)
            BY JobFrameType
        <3>2. \A k \in 1..Len(udp_out) : udp_out'[k] = udp_out[k]
            BY <2>1, Types, LogAppend DEF PublishOut
        <3> QED BY <2>1, <3>1, <3>2 DEF PublishOut
    <2>2. CASE dispatcherCallback \/ udp_callback
        BY <1>1, <2>2 DEF dispatcherCallback, udp_callback, EndsOnShort, Send
    <2>3. CASE udp_converter_callback /\ ~UNCHANGED proc
        BY <1>1, <2>3 DEF udp_converter_callback, EndsOnShort
    <2>4. CASE \/ \E n \in Nodes : MatchOut(n) \/ TransmitOut(n) \/ End(n)
               \/ Shutdown
               \/ UNCHANGED vars
        BY <1>1, <2>4 DEF MatchOut, TransmitOut, End, Shutdown, vars
    <2> QED BY <2>1, <2>2, <2>3, <2>4 DEF Next, ConverterStep
<1> QED BY <1>2, <1>3, <1>4, <1>5, <1>6

\* The converter never sends what it has not published first, but for one
\* frame that a shutdown met between framing and publication.
THEOREM EchoCorrect == Spec => []EchoedBeforeSent
<1>1. EchoInv => EchoedBeforeSent
    BY DEF EchoInv, EchoedBeforeSent
<1> QED BY <1>1, EchoInit, EchoStep, Invariant, PTL DEF Spec

---------------------------------------------------------------------------
\* The refinement. What the mapping makes of the logs:
Offered(log) == {[id |-> k, header |-> log[k]] : k \in DOMAIN log}
Delivered(logs) == [n \in Nodes |-> [k \in DOMAIN logs[n] |-> logs[n][k].id]]

LEMMA OfferedAppend ==
    ASSUME NEW S, NEW log \in Seq(S), NEW x \in S
    PROVE  Offered(Append(log, x)) = Offered(log) \cup {[id |-> Len(log) + 1, header |-> x]}
<1> DEFINE new == Append(log, x)  offer(l, k) == [id |-> k, header |-> l[k]]
<1>1. /\ DOMAIN log = 1..Len(log) /\ DOMAIN new = 1..Len(log)+1 /\ Len(log) \in Nat
      /\ new[Len(log) + 1] = x
      /\ \A k \in 1..Len(log) : k \in 1..Len(log)+1 /\ new[k] = log[k]
      /\ \A k \in 1..Len(log)+1 : k \in 1..Len(log) \/ k = Len(log) + 1
      /\ Len(log) + 1 \in 1..Len(log)+1
    BY AppendProperties
<1> HIDE DEF new
<1>2. /\ \A k \in 1..Len(log) : offer(new, k) = offer(log, k)
      /\ offer(new, Len(log) + 1) = [id |-> Len(log) + 1, header |-> x]
    BY <1>1
<1>3. /\ Offered(new) = {offer(new, k) : k \in 1..Len(log)+1}
      /\ Offered(log) = {offer(log, k) : k \in 1..Len(log)}
    BY <1>1 DEF Offered
<1> HIDE DEF offer
<1> QED BY <1>1, <1>2, <1>3 DEF new

LEMMA DeliveredIds ==
    ASSUME NEW logs, \A n \in Nodes : logs[n] \in Seq(Sent(n))
    PROVE  Delivered(logs) = [n \in Nodes |-> Ids(logs[n])]
<1>1. \A n \in Nodes : DOMAIN logs[n] = 1..Len(logs[n])
    OBVIOUS
<1> QED BY <1>1 DEF Delivered, Ids

LEMMA Offers == ASSUME IInv, NEW p \in Packets, PublishOut(p) PROVE Feed!Next
<1> DEFINE i == Len(udp_out) + 1
<1>1. /\ udp_out \in Seq(Packets) /\ Len(udp_out) \in Nat /\ i \in 1..MaxPackets
      /\ udp_out' = Append(udp_out, p) /\ UNCHANGED wire
    BY Types, OutboundAssumption DEF PublishOut
<1>2. Offered(udp_out') = Offered(udp_out) \cup {[id |-> i, header |-> p]}
    BY <1>1, OfferedAppend
<1>3. \A m \in Offered(udp_out) : m.id < i
    <2>1. DOMAIN udp_out = 1..Len(udp_out)
        BY <1>1
    <2>2. \A k \in 1..Len(udp_out) : k < i
        BY <1>1
    <2> QED BY <2>1, <2>2 DEF Offered
<1> HIDE DEF i
<1>4. Feed!Offer(i, p)
    BY <1>1, <1>2, <1>3 DEF Feed!Offer, Offered
<1> QED BY <1>1, <1>4 DEF Feed!Next

LEMMA Delivers == ASSUME IInv, NEW n \in Nodes, NEW i \in Nat, Sends(n, i) PROVE Feed!Next
<1>1. /\ i \in 1..Len(udp_out) /\ udp_out[i] \in Wanted(n) /\ UNCHANGED udp_out
      /\ \A k \in 1..Len(Ids(wire[n])) : Ids(wire[n])[k] < i
    BY DEF Sends
<1>2. /\ Ids(wire'[n]) = Append(Ids(wire[n]), i)
      /\ wire'[n] \in Seq(Sent(n))
      /\ \A m \in Nodes : m # n => wire'[m] = wire[m]
    BY SendsAppends
<1>3. /\ Delivered(wire) = [m \in Nodes |-> Ids(wire[m])]
      /\ Delivered(wire') = [m \in Nodes |-> Ids(wire'[m])]
    <2>1. \A m \in Nodes : wire[m] \in Seq(Sent(m)) /\ wire'[m] \in Seq(Sent(m))
        BY <1>2, Types
    <2> QED BY <2>1, DeliveredIds
<1> DEFINE old == Delivered(wire)  new == Delivered(wire')  offer == [id |-> i, header |-> udp_out[i]]
<1>4. new = [old EXCEPT ![n] = Append(old[n], i)]
    BY <1>2, <1>3
<1>5. DOMAIN old[n] = 1..Len(Ids(wire[n])) /\ old[n] = Ids(wire[n])
    BY <1>3, Types
<1>6. \A k \in DOMAIN old[n] : old[n][k] < offer.id
    BY <1>1, <1>5
<1>7. offer \in Offered(udp_out)
    BY <1>1, Types DEF Offered
<1>8. UNCHANGED Offered(udp_out)
    BY <1>1 DEF Offered
<1>9. \E m \in Offered(udp_out) :
          /\ m.header \in Wanted(n)
          /\ \A k \in DOMAIN old[n] : old[n][k] < m.id
          /\ new = [old EXCEPT ![n] = Append(@, m.id)]
    BY <1>1, <1>4, <1>6, <1>7
<1>10. Feed!Deliver(n)
    BY <1>8, <1>9 DEF Feed!Deliver, Offered, Delivered
<1> QED BY <1>10 DEF Feed!Next

LEMMA FeedStep == IInv /\ [Next]_vars => [Feed!Next]_(Feed!vars)
<1> SUFFICES ASSUME IInv, [Next]_vars PROVE [Feed!Next]_(Feed!vars)
    OBVIOUS
<1>1. CASE UNCHANGED <<udp_out, wire>>
    BY <1>1 DEF Feed!vars
<1> QED BY <1>1, StepSends, Offers, Delivers

LEMMA FeedInit == Init => Feed!Init
BY DEF Init, Feed!Init

\* The outgoing path implements the feed: whichever of the nodes run, each
\* sends what was published and it can send, each packet at most once and in
\* the order of publication, through any losses and ends of the processes.
THEOREM FeedCorrect == Spec => ImplementsFeed
BY FeedInit, FeedStep, Invariant, PTL DEF Spec, ImplementsFeed, Feed!Spec

---------------------------------------------------------------------------
\* Nothing gets lost before the converter unnoticed. What its subscription
\* goes through: only its own callback takes from its queue.
LEMMA ConverterSubscription ==
    ASSUME IInv, [Next]_vars, "converter" \in Nodes
    PROVE  LET sub == outSub["converter"]  depth == OutDepth["converter"]
           IN  \/ outSub'["converter"] = sub
               \/ /\ CanMatch(sub) /\ outSub'["converter"] = Match(sub, udp_out)
                  /\ UNCHANGED udp_out
               \/ /\ CanTransmit(sub, udp_out, OutHistory)
                  /\ outSub'["converter"] = Transmit(sub, udp_out, OutHistory, depth)
                  /\ UNCHANGED udp_out
               \/ /\ udp_converter_callback
                  /\ HasSample(sub) /\ outSub'["converter"] = Taken(sub)
                  /\ UNCHANGED udp_out
<1> DEFINE c == "converter"
<1>1. DOMAIN outSub = Nodes
    BY DEF IInv, TypeOK
<1>2. ASSUME NEW n \in Nodes, NEW new, outSub' = [outSub EXCEPT ![n] = new], n # c
      PROVE  outSub'[c] = outSub[c]
    BY <1>1, <1>2
<1>3. CASE UNCHANGED outSub
    BY <1>3
<1>4. ASSUME NEW n \in Nodes, MatchOut(n)
      PROVE  \/ outSub'[c] = outSub[c]
             \/ /\ CanMatch(outSub[c]) /\ outSub'[c] = Match(outSub[c], udp_out)
                /\ UNCHANGED udp_out
    BY <1>1, <1>2, <1>4 DEF MatchOut
<1>5. ASSUME NEW n \in Nodes, TransmitOut(n)
      PROVE  \/ outSub'[c] = outSub[c]
             \/ /\ CanTransmit(outSub[c], udp_out, OutHistory)
                /\ outSub'[c] = Transmit(outSub[c], udp_out, OutHistory, OutDepth[c])
                /\ UNCHANGED udp_out
    BY <1>1, <1>2, <1>5 DEF TransmitOut
<1>6. CASE dispatcherCallback \/ udp_callback
    BY <1>1, <1>6 DEF dispatcherCallback, udp_callback, Takes
<1>7. CASE udp_converter_callback
    BY <1>1, <1>7 DEF udp_converter_callback, Takes
<1>8. CASE \/ (\E p \in Packets : PublishOut(p)) \/ (\E n \in Nodes : End(n)) \/ Shutdown
           \/ PublishEcho \/ send_udp_packet \/ UNCHANGED vars
    BY <1>3, <1>8 DEF PublishOut, End, Shutdown, PublishEcho, send_udp_packet, vars
<1> QED BY <1>4, <1>5, <1>6, <1>7, <1>8 DEF Next, ConverterStep

\* What has become of a packet stays so.
LEMMA OutLogGrows ==
    ASSUME IInv, [Next]_vars
    PROVE  Len(udp_out) \in Nat /\ Len(udp_out') \in Nat /\ Len(udp_out') >= Len(udp_out)
<1>1. CASE UNCHANGED udp_out
    BY <1>1, Types
<1>2. ASSUME NEW p \in Packets, PublishOut(p)
      PROVE  Len(udp_out) \in Nat /\ Len(udp_out') = Len(udp_out) + 1
    BY <1>2, Types, LogAppend DEF PublishOut
<1>3. UNCHANGED udp_out \/ \E p \in Packets : PublishOut(p)
    BY DEF Next, MatchOut, TransmitOut, End, dispatcherCallback, udp_callback, ConverterStep,
           udp_converter_callback, PublishEcho, send_udp_packet, Shutdown, vars
<1> QED BY <1>1, <1>2, <1>3

LEMMA EchoStays ==
    ASSUME IInv, [Next]_vars, NEW k, EchoOf(k)
    PROVE  EchoOf(k)'
<1>1. CASE UNCHANGED udp_in
    BY <1>1 DEF EchoOf
<1>2. CASE PublishEcho /\ ~UNCHANGED udp_in
    <2> DEFINE f == [id |-> job.id, data |-> JobFrame]
    <2>1. udp_in' = Append(udp_in, f)
        BY <1>2 DEF PublishEcho
    <2>2. udp_in \in Seq(Frame \cup {f}) /\ f \in Frame \cup {f}
        BY DEF IInv, TypeOK
    <2> HIDE DEF f
    <2>3. \A j \in DOMAIN udp_in : j \in DOMAIN udp_in' /\ udp_in'[j] = udp_in[j]
        BY <2>1, <2>2, LogAppend
    <2> QED BY <2>3 DEF EchoOf
<1>3. UNCHANGED udp_in \/ PublishEcho
    BY DEF Next, PublishOut, MatchOut, TransmitOut, End, dispatcherCallback, udp_callback,
           ConverterStep, udp_converter_callback, send_udp_packet, Shutdown, vars
<1> QED BY <1>1, <1>2, <1>3

LEMMA EndedStays ==
    ASSUME IInv, [Next]_vars, "converter" \in Nodes, proc["converter"] # "spin"
    PROVE  proc'["converter"] # "spin"
<1>1. proc \in [Nodes -> {"spin", "down", "ended"}]
    BY DEF IInv, TypeOK
<1>2. \/ UNCHANGED proc
      \/ \E n \in Nodes : proc' = [proc EXCEPT ![n] = "ended"]
      \/ proc' = [proc EXCEPT !["converter"] = "down"]
    BY DEF Next, PublishOut, MatchOut, TransmitOut, End, dispatcherCallback, udp_callback,
           ConverterStep, udp_converter_callback, PublishEcho, send_udp_packet, Shutdown, vars,
           EndsOnShort, Takes
<1> QED BY <1>1, <1>2

\* What the converter's subscription awaits.
LEMMA AwaitedStep ==
    ASSUME IInv, [Next]_vars, "converter" \in Nodes, Spaced(outSub["converter"])
    PROVE  /\ Spaced(outSub'["converter"])
           /\ \A k \in Nat :
                 Awaits(outSub["converter"], k) =>
                    \/ Awaits(outSub'["converter"], k)
                    \/ job' = [at |-> "framed", id |-> k]
                    \/ Displaced(k)'
                    \/ proc'["converter"] # "spin"
<1> DEFINE c == "converter"  sub == outSub[c]  new == outSub'[c]
<1>1. /\ IsSubscription(sub) /\ Len(udp_out) \in Nat
      /\ OutHistory \in Nat \ {0} /\ OutDepth[c] \in Nat \ {0}
    BY Types, OutboundAssumption DEF IInv, TypeOK
<1>2. CASE new = sub
    BY <1>2
<1>3. CASE CanMatch(sub) /\ new = Match(sub, udp_out)
    BY <1>1, <1>3, MatchKeepsSpaced
<1>4. CASE /\ CanTransmit(sub, udp_out, OutHistory)
           /\ new = Transmit(sub, udp_out, OutHistory, OutDepth[c])
           /\ UNCHANGED udp_out
    <2> HIDE DEF sub, new
    <2>0. Spaced(sub)
        BY DEF sub
    <2>1. Spaced(new)
        BY <1>1, <1>4, <2>0, TransmitKeepsSpaced
    <2>2. ASSUME NEW k \in Nat, Awaits(sub, k)
          PROVE  Awaits(new, k) \/ Displaced(k)'
        <3>1. \/ Awaits(new, k)
              \/ Len(udp_out) >= k + OutHistory \/ Len(udp_out) >= k + OutDepth[c]
            BY <1>1, <1>4, <2>0, <2>2, TransmitKeepsAwaited
        <3> QED BY <1>4, <3>1 DEF Displaced
    <2> QED BY <2>1, <2>2 DEF sub, new
<1>5. CASE udp_converter_callback /\ HasSample(sub) /\ new = Taken(sub)
    <2>1. /\ Spaced(new)
          /\ \A k \in Nat : Awaits(sub, k) => Awaits(new, k) \/ Head(sub.queue) = k
        BY <1>1, <1>5, TakenKeepsAwaited
    <2>2. proc \in [Nodes -> {"spin", "down", "ended"}]
        BY DEF IInv, TypeOK
    <2>3. job' = [at |-> "framed", id |-> Head(sub.queue)] \/ proc'[c] # "spin"
        BY <1>5, <2>2 DEF udp_converter_callback, EndsOnShort, NextId
    <2> QED BY <2>1, <2>3
<1> QED BY <1>2, <1>3, <1>4, <1>5, ConverterSubscription

LEMMA AccountedStep ==
    ASSUME IInv, [Next]_vars, "converter" \in Nodes, Spaced(outSub["converter"]),
           NEW k \in Nat, Accounted(k)
    PROVE  Accounted(k)'
<1>1. CASE Awaits(outSub["converter"], k)
    <2>1. \/ Awaits(outSub'["converter"], k)
          \/ job' = [at |-> "framed", id |-> k]
          \/ Displaced(k)'
          \/ proc'["converter"] # "spin"
        BY <1>1, AwaitedStep
    <2> QED BY <2>1 DEF Accounted, Awaits, Queued
<1>2. CASE job = [at |-> "framed", id |-> k]
    <2>1. CASE UNCHANGED job
        BY <1>2, <2>1 DEF Accounted
    <2>2. CASE PublishEcho /\ proc["converter"] = "spin"
        <3> DEFINE f == [id |-> k, data |-> JobFrame]
        <3>1. udp_in' = Append(udp_in, f)
            BY <1>2, <2>2 DEF PublishEcho
        <3>2. udp_in \in Seq(Frame \cup {f}) /\ f \in Frame \cup {f} /\ f.id = k
            BY DEF IInv, TypeOK
        <3> HIDE DEF f
        <3>3. /\ udp_in' \in Seq(Frame \cup {f}) /\ Len(udp_in) \in Nat
              /\ Len(udp_in') = Len(udp_in) + 1 /\ udp_in'[Len(udp_in) + 1] = f
            BY <3>1, <3>2, LogAppend
        <3>4. Len(udp_in) + 1 \in DOMAIN udp_in' /\ udp_in'[Len(udp_in) + 1].id = k
            BY <3>2, <3>3
        <3>5. EchoOf(k)'
            BY <3>4 DEF EchoOf
        <3> QED BY <3>5 DEF Accounted
    <2>3. CASE proc["converter"] # "spin"
        BY <2>3, EndedStays DEF Accounted
    <2>4. UNCHANGED job \/ PublishEcho
        BY <1>2 DEF Next, PublishOut, MatchOut, TransmitOut, End, dispatcherCallback,
            udp_callback, ConverterStep, udp_converter_callback, send_udp_packet, Shutdown,
            vars, Idle
    <2> QED BY <2>1, <2>2, <2>3, <2>4
<1>3. CASE EchoOf(k)
    BY <1>3, EchoStays DEF Accounted
<1>4. CASE Displaced(k)
    <2>1. "converter" \in Nodes => OutHistory \in Nat /\ OutDepth["converter"] \in Nat
        BY OutboundAssumption
    <2>2. Displaced(k)'
        BY <1>4, <2>1, OutLogGrows DEF Displaced
    <2> QED BY <2>2 DEF Accounted
<1>5. CASE proc["converter"] # "spin"
    BY <1>5, EndedStays DEF Accounted
<1> QED BY <1>1, <1>2, <1>3, <1>4, <1>5 DEF Accounted

SpacedInv == "converter" \in Nodes => Spaced(outSub["converter"])

LEMMA SpacedAlways == Spec => []SpacedInv
<1>1. Init => SpacedInv
    BY UnmatchedIsSpaced DEF Init, SpacedInv
<1>2. IInv /\ SpacedInv /\ [Next]_vars => SpacedInv'
    <2> SUFFICES ASSUME IInv, [Next]_vars, "converter" \in Nodes, Spaced(outSub["converter"])
                 PROVE  Spaced(outSub["converter"])'
        BY DEF SpacedInv
    <2>1. Spaced(outSub'["converter"])
        BY AwaitedStep
    <2> QED BY <2>1 DEF Spaced, Below
<1> QED BY <1>1, <1>2, Invariant, PTL DEF Spec

LEMMA AccountedAlways ==
    ASSUME "converter" \in Nodes, NEW k \in 1..MaxPackets
    PROVE  Spec => [](outSub["converter"].next \in 1..k => []Accounted(k))
<1>1. outSub["converter"].next \in 1..k => Accounted(k)
    BY DEF Accounted, Awaits, Queued
<1>2. IInv /\ SpacedInv /\ Accounted(k) /\ [Next]_vars => Accounted(k)'
    <2>1. k \in Nat
        BY OutboundAssumption
    <2> QED BY <2>1, AccountedStep DEF SpacedInv
<1> QED BY <1>1, <1>2, Invariant, SpacedAlways, PTL DEF Spec

\* A packet published while the converter is subscribed is accounted for ever
\* after: it waits before the node, is the one in the callback's hands, came
\* back on the topic for incoming packets, or newer ones displaced it or the
\* node no longer spins. The callback forgets none of them.
THEOREM AccountedCorrect == Spec => SubscribedIsAccounted
<1>1. "converter" \in Nodes =>
          \A k \in 1..MaxPackets :
              Spec => [](outSub["converter"].next \in 1..k => []Accounted(k))
    BY AccountedAlways
<1> QED BY <1>1 DEF SubscribedIsAccounted
=============================================================================
