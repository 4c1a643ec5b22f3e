----------------------------- MODULE ServiceRx -----------------------------
(***************************************************************************)
(* The receiving nodes of the facility services (src/ca_rx.cpp, den_rx.cpp,*)
(* cp_rx.cpp, cp_ts_rx.cpp): each takes every BTP indication of "btp_data",*)
(* keeps those of its port, decodes and converts them and publishes the    *)
(* ROS message. Every BTP indication is sent by a publisher of its own,    *)
(* which the next one replaces.                                            *)
(***************************************************************************)
EXTENDS RosTopic

CONSTANTS
    Services,       \* the receiving nodes that run
    BtpDataDepth    \* depth of their subscriptions' queues

AllServices == {"ca", "den", "cp", "cp_ts"}

ServicesAssumption == Services \subseteq AllServices

VARIABLES
    btp_data,       \* log of the topic "btp_data", written by btp_data
    btpSub,         \* each node's subscription to it
    rxAlive,        \* whether each node's process runs
    published       \* log of each node's topic

vars == <<btpSub, rxAlive, published>>

BTP_TYPE_B == 2
Port == [ca |-> 2001, den |-> 2002, cp |-> 2009, cp_ts |-> 2009]

\* What a service's decoder takes. A message marked bare lacks an optional
\* container that the conversion dereferences without a check. A CPM of a
\* roadside unit is read as a vehicle's, pointers included.
Encodings == [ca |-> {"cam"}, den |-> {"denm"},
              cp |-> {"cpm", "cpm_bare", "cpm_rsu"}, cp_ts |-> {"cpm_ts", "cpm_ts_bare"}]
Bare == {"cpm_bare", "cpm_ts_bare"}
Misread == {"cpm_rsu"}
Converters == {"cp", "cp_ts"}
AllContents == UNION {Encodings[s] : s \in AllServices}

\* Variant: the type of the header is not looked at.
IsForAnyType(s, indication) == indication.destination_port = Port[s]

IsFor(s, indication) ==
    /\ indication.btp_type = BTP_TYPE_B
    /\ indication.destination_port = Port[s]

\* Variant: the decoder wants nothing behind the message.
MayFailOnTail(s, indication) ==
    indication.own # indication.size \/ indication.content \notin Encodings[s]

\* The decoder needs the whole message and ignores what follows it. Given
\* the octets of another message it may fail or make something of them.
MayDecode(s, indication) == indication.own = indication.body
MayFail(s, indication) ==
    indication.own # indication.body \/ indication.content \notin Encodings[s]
MayCrash(s, indication) ==
    /\ s \in Converters
    /\ indication.content \in Bare \cup Misread \/ indication.content \notin Encodings[s]
MayConvert(s, indication) == ~(indication.content \in Bare \cap Encodings[s])

---------------------------------------------------------------------------
Init ==
    /\ btpSub = [s \in Services |-> Listening]
    /\ rxAlive = [s \in Services |-> TRUE]
    /\ published = [s \in Services |-> << >>]

\* The sample reaches the subscription before the publisher is replaced.
TransmitBtpData(s) ==
    /\ rxAlive[s]
    /\ CanTransmit(btpSub[s], btp_data, 1)
    /\ btpSub' = [btpSub EXCEPT ![s] = Transmit(@, btp_data, 1, BtpDataDepth)]
    /\ UNCHANGED <<rxAlive, published>>

Drop(s, indication) ==
    /\ ~IsFor(s, indication) \/ MayFail(s, indication)
    /\ UNCHANGED <<rxAlive, published>>

\* den drops a decoded message while its cooldown runs.
Suppress(s, indication) ==
    /\ s = "den"
    /\ IsFor(s, indication) /\ MayDecode(s, indication)
    /\ UNCHANGED <<rxAlive, published>>

Publish(s, indication) ==
    /\ IsFor(s, indication) /\ MayDecode(s, indication) /\ MayConvert(s, indication)
    /\ published' = [published EXCEPT ![s] = Append(@, indication)]
    /\ UNCHANGED rxAlive

Crash(s, indication) ==
    /\ IsFor(s, indication) /\ MayDecode(s, indication) /\ MayCrash(s, indication)
    /\ rxAlive' = [rxAlive EXCEPT ![s] = FALSE]
    /\ UNCHANGED published

onIndication(s) ==
    /\ rxAlive[s]
    /\ HasSample(btpSub[s])
    /\ btpSub' = [btpSub EXCEPT ![s] = Taken(@)]
    /\ LET indication == Sample(btpSub[s], btp_data)
       IN  \/ Drop(s, indication)
           \/ Suppress(s, indication)
           \/ Publish(s, indication)
           \/ Crash(s, indication)

Next == \E s \in Services : TransmitBtpData(s) \/ onIndication(s)
=============================================================================
