--------------------------- MODULE BtpDataService ---------------------------
(***************************************************************************)
(* The node btp_data (src/btp_data_service.cpp): turns every indication of *)
(* the topic "udp_data" into a BTP indication on "btp_data". Its service   *)
(* "btp_indication" answers without doing anything.                        *)
(***************************************************************************)
EXTENDS RosTopic

CONSTANTS
    UdpDataHistory, \* samples the dispatcher's publisher keeps
    UdpDataDepth    \* depth of the subscription's queue

VARIABLES
    udp_data,       \* log of the topic "udp_data", written by the dispatcher
    publisherAlive, \* whether the dispatcher, which publishes it, still runs
    udpSub,         \* the node's subscription to it
    btp_data,       \* log of the topic "btp_data"
    btpAlive        \* whether the node's process runs

vars == <<udpSub, btp_data, btpAlive>>

\* Variant: the dispatcher's size of the payload, not the uint8 msg_length.
BtpSizeOfPayload(packet) == packet.size

\* btp_msg.data gets msg_length octets and the whole payload is copied there.
BtpSize(packet) == packet.msg_length
Overruns(packet) == packet.size > BtpSize(packet)

BtpIndication(packet) ==
    [id |-> packet.id, btp_type |-> packet.btp_type,
     destination_port |-> packet.dest_port, size |-> BtpSize(packet),
     own |-> IF packet.own < BtpSize(packet) THEN packet.own ELSE BtpSize(packet),
     body |-> packet.body, content |-> packet.content]

\* Variant: a packet that does not fit is dropped, not cut.
PublishIfFits(packet) ==
    IF Overruns(packet) THEN btp_data ELSE Append(btp_data, BtpIndication(packet))

\* By a new publisher, which replaces the previous one.
Publish(packet) == Append(btp_data, BtpIndication(packet))

---------------------------------------------------------------------------
Init ==
    /\ udpSub = Unmatched
    /\ btp_data = << >>
    /\ btpAlive = TRUE

MatchUdpData ==
    /\ btpAlive /\ publisherAlive
    /\ CanMatch(udpSub)
    /\ udpSub' = Match(udpSub, udp_data)
    /\ UNCHANGED <<btp_data, btpAlive>>

\* What a publisher sent before it ended may still be under way, or be lost.
TransmitUdpData ==
    /\ btpAlive
    /\ CanTransmit(udpSub, udp_data, UdpDataHistory)
    /\ udpSub' = Transmit(udpSub, udp_data, UdpDataHistory, UdpDataDepth)
    /\ UNCHANGED <<btp_data, btpAlive>>

\* A copy that overruns the heap ends the process at once (certainly when
\* data has no storage at all), after the publication, or not yet.
udpCallback ==
    /\ btpAlive
    /\ HasSample(udpSub)
    /\ udpSub' = Taken(udpSub)
    /\ LET packet == Sample(udpSub, udp_data)
       IN  \/ /\ Overruns(packet) => BtpSize(packet) > 0
              /\ btp_data' = Publish(packet)
              /\ btpAlive' = TRUE
           \/ /\ Overruns(packet)
              /\ BtpSize(packet) > 0
              /\ btp_data' = Publish(packet)
              /\ btpAlive' = FALSE
           \/ /\ Overruns(packet)
              /\ btpAlive' = FALSE
              /\ UNCHANGED btp_data

Next == MatchUdpData \/ TransmitUdpData \/ udpCallback

\* The middleware hands over what a matched publisher sent for as long as that
\* publisher exists, and the executor runs the callbacks.
Fairness ==
    /\ WF_vars(MatchUdpData)
    /\ WF_vars(publisherAlive /\ TransmitUdpData)
    /\ WF_vars(udpCallback)
=============================================================================
