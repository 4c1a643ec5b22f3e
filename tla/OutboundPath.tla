---------------------------- MODULE OutboundPath ----------------------------
(***************************************************************************)
(* The way out: an application outside the repository publishes packets on *)
(* "etsi_its_conversion/udp/out", and each of three nodes that may run,    *)
(* together or alone, takes them and sends them to the Cohda unit:         *)
(*                                                                         *)
(*   - "dispatcher" (src/udp_dispatcher.cpp) frames a packet and sends it; *)
(*   - "sender" (src/udp_sender.cpp) sends the packet as it is;            *)
(*   - "converter" (src/udp_sender_converter.cpp) frames it as well, but   *)
(*     publishes the frame on "etsi_its_conversion/udp/in" first.          *)
(*                                                                         *)
(* They are processes of their own that share the topics only. The receive *)
(* thread of the dispatcher is the matter of UdpDispatcher; here it counts *)
(* as one of the reasons for which the process may end.                    *)
(***************************************************************************)
EXTENDS CohdaRequest, RosTopic

CONSTANTS
    Nodes,          \* which of the three run
    Packets,        \* the packets that may be published on udp/out
    OutHistory,     \* samples the application's publisher keeps
    OutDepth,       \* depth of each node's subscription
    MaxPackets      \* bound: packets published

AllNodes == {"dispatcher", "sender", "converter"}

ASSUME OutboundAssumption ==
    /\ Nodes \subseteq AllNodes
    /\ Packets \subseteq Packet
    /\ OutHistory \in Nat \ {0}
    /\ OutDepth \in [Nodes -> Nat \ {0}]
    /\ MaxPackets \in Nat

VARIABLES
    udp_out,        \* log of the topic "etsi_its_conversion/udp/out"
    outSub,         \* each node's subscription to it
    proc,           \* per process: "spin", "down" (context gone) or "ended"
    job,            \* where the converter's callback is, and for which packet
    udp_in,         \* log of the topic "etsi_its_conversion/udp/in"
    wire            \* history: what each node sent to the unit

vars == <<udp_out, outSub, proc, job, udp_in, wire>>

---------------------------------------------------------------------------
Idle == [at |-> "idle", id |-> 0]

\* A sender without socket throws, the dispatcher does not subscribe then:
\* either way the node never takes a packet.
Init ==
    /\ udp_out = << >>
    /\ outSub = [n \in Nodes |-> Unmatched]
    /\ proc \in [Nodes -> {"spin", "ended"}]
    /\ job = Idle
    /\ udp_in = << >>
    /\ wire = [n \in Nodes |-> << >>]

\* The application's.
PublishOut(p) ==
    /\ Len(udp_out) < MaxPackets
    /\ udp_out' = Append(udp_out, p)
    /\ UNCHANGED <<outSub, proc, job, udp_in, wire>>

MatchOut(n) ==
    /\ proc[n] = "spin"
    /\ CanMatch(outSub[n])
    /\ outSub' = [outSub EXCEPT ![n] = Match(@, udp_out)]
    /\ UNCHANGED <<udp_out, proc, job, udp_in, wire>>

TransmitOut(n) ==
    /\ proc[n] = "spin"
    /\ CanTransmit(outSub[n], udp_out, OutHistory)
    /\ outSub' = [outSub EXCEPT ![n] = Transmit(@, udp_out, OutHistory, OutDepth[n])]
    /\ UNCHANGED <<udp_out, proc, job, udp_in, wire>>

\* The executor of node n runs its callback on the next packet.
Takes(n) ==
    /\ n \in Nodes
    /\ proc[n] = "spin"
    /\ HasSample(outSub[n])
    /\ outSub' = [outSub EXCEPT ![n] = Taken(@)]
NextId(n) == Head(outSub[n].queue)
NextPacket(n) == Sample(outSub[n], udp_out)

\* Variant: a send that was reported late is repeated.
SendAgain(n, id, data) ==
    LET f == [id |-> id, data |-> data]
    IN  \/ wire' = [wire EXCEPT ![n] = Append(@, f)]
        \/ wire' = [wire EXCEPT ![n] = Append(Append(@, f), f)]

Send(n, id, data) == wire' = [wire EXCEPT ![n] = Append(@, [id |-> id, data |-> data])]

\* The copy of a body whose size wrapped around ends the process.
EndsOnShort(n, p) ==
    /\ p.size < BtpHeader
    /\ proc' = [proc EXCEPT ![n] = "ended"]

\* What fails to be sent is logged and forgotten.
dispatcherCallback ==
    LET p == NextPacket("dispatcher")
    IN  /\ Takes("dispatcher")
        /\ \/ EndsOnShort("dispatcher", p) /\ UNCHANGED wire
           \/ /\ p.size >= BtpHeader
              /\ Sendable(p)
              /\ Send("dispatcher", NextId("dispatcher"), Request(p))
              /\ UNCHANGED proc
           \/ p.size >= BtpHeader /\ UNCHANGED <<proc, wire>>
        /\ UNCHANGED <<udp_out, job, udp_in>>

udp_callback ==
    LET p == NextPacket("sender")
    IN  /\ Takes("sender")
        /\ \/ p.size <= MaxUdpPayload /\ Send("sender", NextId("sender"), p)
           \/ UNCHANGED wire
        /\ UNCHANGED <<udp_out, proc, job, udp_in>>

\* Variant: the frame is sent only.
udp_converter_callback_Silent ==
    LET p == NextPacket("converter")
    IN  /\ job = Idle
        /\ Takes("converter")
        /\ \/ EndsOnShort("converter", p) /\ UNCHANGED job
           \/ /\ p.size >= BtpHeader
              /\ job' = [at |-> "echoed", id |-> NextId("converter")]
              /\ UNCHANGED proc
        /\ UNCHANGED <<udp_out, udp_in, wire>>

udp_converter_callback ==
    LET p == NextPacket("converter")
    IN  /\ job = Idle
        /\ Takes("converter")
        /\ \/ EndsOnShort("converter", p) /\ UNCHANGED job
           \/ /\ p.size >= BtpHeader
              /\ job' = [at |-> "framed", id |-> NextId("converter")]
              /\ UNCHANGED proc
        /\ UNCHANGED <<udp_out, udp_in, wire>>

ConverterRuns == "converter" \in Nodes /\ proc["converter"] # "ended"

JobFrame == Request(udp_out[job.id])

\* Variant: only what can be sent is published.
PublishEchoIfSendable ==
    /\ ConverterRuns
    /\ job.at = "framed"
    /\ udp_in' = IF proc["converter"] = "spin" /\ Sendable(udp_out[job.id])
                 THEN Append(udp_in, [id |-> job.id, data |-> JobFrame]) ELSE udp_in
    /\ job' = [job EXCEPT !.at = "echoed"]
    /\ UNCHANGED <<udp_out, outSub, proc, wire>>

\* A publisher whose context is gone drops what it is given.
PublishEcho ==
    /\ ConverterRuns
    /\ job.at = "framed"
    /\ udp_in' = IF proc["converter"] = "spin"
                 THEN Append(udp_in, [id |-> job.id, data |-> JobFrame]) ELSE udp_in
    /\ job' = [job EXCEPT !.at = "echoed"]
    /\ UNCHANGED <<udp_out, outSub, proc, wire>>

send_udp_packet ==
    /\ ConverterRuns
    /\ job.at = "echoed"
    /\ \/ Sendable(udp_out[job.id]) /\ Send("converter", job.id, JobFrame)
       \/ UNCHANGED wire
    /\ job' = Idle
    /\ UNCHANGED <<udp_out, outSub, proc, udp_in>>

\* A signal shuts the context down, but a callback that runs is finished. It
\* makes a difference in the converter only, whose callback does two things.
Shutdown ==
    /\ ConverterRuns
    /\ proc["converter"] = "spin"
    /\ proc' = [proc EXCEPT !["converter"] = "down"]
    /\ UNCHANGED <<udp_out, outSub, job, udp_in, wire>>

\* main() returns, or the process is killed.
End(n) ==
    /\ proc[n] # "ended"
    /\ proc' = [proc EXCEPT ![n] = "ended"]
    /\ UNCHANGED <<udp_out, outSub, job, udp_in, wire>>

ConverterStep == udp_converter_callback \/ PublishEcho \/ send_udp_packet

Next ==
    \/ \E p \in Packets : PublishOut(p)
    \/ \E n \in Nodes : MatchOut(n) \/ TransmitOut(n) \/ End(n)
    \/ dispatcherCallback
    \/ udp_callback
    \/ ConverterStep
    \/ Shutdown

Spec == Init /\ [][Next]_vars

\* The middleware hands over what a matched publisher sent, and the executor
\* runs the callbacks.
Fairness ==
    /\ \A n \in Nodes : WF_vars(MatchOut(n)) /\ WF_vars(TransmitOut(n))
    /\ WF_vars(dispatcherCallback)
    /\ WF_vars(udp_callback)
    /\ WF_vars(ConverterStep)

FairSpec == Spec /\ Fairness

---------------------------------------------------------------------------
Frame == [id : Nat, data : RequestMsg]

\* Every variable has its type.
TypeOK ==
    /\ udp_out \in Seq(Packet)
    /\ DOMAIN outSub = Nodes
    /\ \A n \in Nodes : IsSubscription(outSub[n])
    /\ proc \in [Nodes -> {"spin", "down", "ended"}]
    /\ job \in [at : {"idle", "framed", "echoed"}, id : Nat]
    /\ udp_in \in Seq(Frame)
    /\ DOMAIN wire = Nodes
    /\ \A n \in Nodes :
          wire[n] \in Seq(IF n = "sender" THEN [id : Nat, data : Packet] ELSE Frame)

\* The packets a node is able to send.
Wanted(n) ==
    {p \in Packets :
        IF n = "sender" THEN p.size <= MaxUdpPayload ELSE p.size >= BtpHeader /\ Sendable(p)}

Feed == INSTANCE LossyFeed WITH
    Receivers <- Nodes,
    Ids <- 1..MaxPackets,
    Headers <- Packets,
    WantedBy <- [n \in Nodes |-> Wanted(n)],
    offered <- {[id |-> k, header |-> udp_out[k]] : k \in DOMAIN udp_out},
    delivered <- [n \in Nodes |-> [k \in DOMAIN wire[n] |-> wire[n][k].id]]

\* Through a queue that overflows, failing sends and a signal or the end of
\* the process at any point, each node sends only packets that were published
\* and that it can send, each at most once and in the order of publication.
\* With all three at work a packet may reach the unit three times, no more.
ImplementsFeed == Feed!Spec

\* The converter publishes a frame before it sends it: whoever reads the
\* topic for incoming packets sees what the unit gets before the unit does,
\* frame by frame, unless a shutdown came between the framing and the
\* publication, and then for the last frame only.
Echoed(f) == \E j \in DOMAIN udp_in : udp_in[j] = f
EchoedBeforeSent ==
    "converter" \in Nodes =>
        \A k \in DOMAIN wire["converter"] :
            \/ Echoed(wire["converter"][k])
            \/ proc["converter"] # "spin" /\ k = Len(wire["converter"])

\* No frame whose lengths wrapped their 16 bits reaches the unit. It does
\* reach the topic: sendto is what refuses it, and that comes later.
FramesConsistent ==
    \A n \in Nodes \ {"sender"} : \A k \in DOMAIN wire[n] : IsConsistent(wire[n][k].data)

\* A packet published while the converter is subscribed comes back on the
\* topic for incoming packets, sent or not, as long as the node spins and the
\* packet is not displaced by newer ones.
Displaced(k) ==
    \/ Len(udp_out) >= k + OutHistory
    \/ Len(udp_out) >= k + OutDepth["converter"]
EchoOf(k) == \E j \in DOMAIN udp_in : udp_in[j].id = k
SubscribedIsEchoed ==
    "converter" \in Nodes =>
        \A k \in 1..MaxPackets :
            (k \in DOMAIN udp_out /\ outSub["converter"].next \in 1..k)
                ~> (\/ EchoOf(k)
                    \/ Displaced(k)
                    \/ proc["converter"] # "spin")

\* From then on the packet is never unaccounted for: at every moment it waits
\* before the converter, is the one in the callback's hands, has come back, or
\* newer ones displaced it or the node no longer spins.
Accounted(k) ==
    \/ Awaits(outSub["converter"], k)
    \/ job = [at |-> "framed", id |-> k]
    \/ EchoOf(k)
    \/ Displaced(k)
    \/ proc["converter"] # "spin"
SubscribedIsAccounted ==
    "converter" \in Nodes =>
        \A k \in 1..MaxPackets : [](outSub["converter"].next \in 1..k => []Accounted(k))
=============================================================================
