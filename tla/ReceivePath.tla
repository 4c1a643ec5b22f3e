---------------------------- MODULE ReceivePath ----------------------------
(***************************************************************************)
(* The receive path: udp_dispatcher publishes on "udp_data", btp_data      *)
(* takes that and publishes on "btp_data", the facility services take that.*)
(* The processes share the topics' logs and nothing else; each step is a   *)
(* step of one of them.                                                    *)
(***************************************************************************)
EXTENDS Integers, Sequences

CONSTANTS
    \* of UdpDispatcher
    Addresses, originatingIp, Contents, Datagrams, Offsets, Packets,
    MaxDatagrams, MaxPackets,
    \* of BtpDataService
    UdpDataHistory, UdpDataDepth,
    \* of ServiceRx
    Services, BtpDataDepth

VARIABLES
    main, rx, buffer, received, udp_data, udp_in, udp_send_subscriber_, handled, wire,
    udpSub, btp_data, btpAlive,
    btpSub, rxAlive, published

\* The dispatcher's node exists until main returns or the process crashes.
DispatcherExists == main \in {"spin", "join"}

Dispatcher == INSTANCE UdpDispatcher
Btp == INSTANCE BtpDataService WITH publisherAlive <- DispatcherExists
Rx == INSTANCE ServiceRx

ASSUME PathAssumption ==
    /\ Dispatcher!DispatcherAssumption
    /\ Rx!ServicesAssumption
    /\ {UdpDataHistory, UdpDataDepth, BtpDataDepth} \subseteq Nat \ {0}

dispatcherVars ==
    <<main, rx, buffer, received, udp_data, udp_in, udp_send_subscriber_, handled, wire>>
btpVars == <<udpSub, btp_data, btpAlive>>
rxVars == <<btpSub, rxAlive, published>>
vars == <<dispatcherVars, btpVars, rxVars>>

Init == Dispatcher!Init /\ Btp!Init /\ Rx!Init

DispatcherStep == Dispatcher!Next /\ UNCHANGED <<btpVars, rxVars>>
BtpStep == Btp!Next /\ UNCHANGED <<dispatcherVars, rxVars>>
RxStep == Rx!Next /\ UNCHANGED <<dispatcherVars, btpVars>>

Next == DispatcherStep \/ BtpStep \/ RxStep

Spec == Init /\ [][Next]_vars

FairSpec == Spec /\ Btp!Fairness

---------------------------------------------------------------------------
BtpMsg ==
    [id : Nat, btp_type : Dispatcher!uint8_t, destination_port : Dispatcher!uint16_t, size : Dispatcher!uint8_t,
     own : Nat, body : Nat, content : Contents]

\* Every variable of the path has its type.
TypeOK ==
    /\ Dispatcher!TypeOK
    /\ Btp!IsSubscription(udpSub)
    /\ btp_data \in Seq(BtpMsg)
    /\ btpAlive \in BOOLEAN
    /\ DOMAIN btpSub = Services
    /\ \A s \in Services : Rx!IsSubscription(btpSub[s])
    /\ rxAlive \in [Services -> BOOLEAN]
    /\ published \in [Services -> Seq(BtpMsg)]

HeaderOf(m) == [btp_type |-> m.btp_type, destination_port |-> m.dest_port]
DatagramHeader(d) ==
    [btp_type |-> d.BTPType, destination_port |-> Dispatcher!ntohs(d.DestPort)]
PathHeaders == {DatagramHeader(d) : d \in Datagrams}

HeadersOf(s) == {h \in PathHeaders : h.btp_type = 2 /\ h.destination_port = Rx!Port[s]}

Feed == INSTANCE LossyFeed WITH
    Receivers <- Services,
    Ids <- 1..MaxDatagrams,
    Headers <- PathHeaders,
    WantedBy <- [s \in Services |-> HeadersOf(s)],
    offered <- {[id |-> udp_data[k].id, header |-> HeaderOf(udp_data[k])] :
                    k \in DOMAIN udp_data},
    delivered <- [s \in Services |-> [k \in DOMAIN published[s] |-> published[s][k].id]]

\* Through two lossy topics, per-message publishers and the nodes' filters,
\* every service publishes only what the unit sent to its port, each datagram
\* at most once and in the order of arrival.
ImplementsFeed == Feed!Spec

\* The octet of msg_length decides what gets through: of the messages whose
\* datagram states its own length, a service publishes none longer than 181
\* octets, for 74 octets of header are counted in and 74 + 182 is 256.
OnlyShortBodies ==
    \A s \in Services : \A k \in DOMAIN published[s] :
        LET m == published[s][k]
        IN  received[m.id].MsgLen = Dispatcher!htons(Dispatcher!SizeofDataIndHdr + m.body)
                => m.body <= 181

\* And what it lets through unharmed: a body that the dispatcher published
\* whole, with a datagram that states its own length, is whole in the BTP
\* indication exactly when it has 181 octets or less.
WholeExactlyIfShort ==
    \A i \in DOMAIN btp_data : \A k \in DOMAIN udp_data :
        LET m == udp_data[k]
        IN  (/\ btp_data[i].id = m.id /\ m.own = m.body
             /\ received[m.id].MsgLen = Dispatcher!htons(Dispatcher!SizeofDataIndHdr + m.body))
                => (btp_data[i].own = btp_data[i].body <=> m.body <= 181)

\* An indication published while btp_data is subscribed becomes a BTP
\* indication, unless one of the two processes ends or the topic got so many
\* newer ones that history or queue had no room for it. Once btp_data has it in
\* its queue the dispatcher is not needed any more: then only newer ones for
\* that queue, or the end of btp_data itself, keep it from being forwarded.
Displaced(k) == Len(udp_data) >= k + UdpDataHistory \/ Len(udp_data) >= k + UdpDataDepth
Forwarded(k) ==
    k \in DOMAIN udp_data /\ \E i \in DOMAIN btp_data : btp_data[i].id = udp_data[k].id
SubscribedIsForwarded ==
    \A k \in 1..MaxDatagrams :
        /\ (k \in DOMAIN udp_data /\ udpSub.next \in 1..k)
            ~> (Forwarded(k) \/ Displaced(k) \/ ~btpAlive \/ ~DispatcherExists)
        /\ Btp!Queued(udpSub, k)
            ~> (Forwarded(k) \/ Len(udp_data) >= k + UdpDataDepth \/ ~btpAlive)

\* From then on it is never unaccounted for: at every moment it waits before
\* btp_data (for good, if the dispatcher has ended), or has been forwarded, or
\* newer ones displaced it, or btp_data ended.
Accounted(k) == Btp!Awaits(udpSub, k) \/ Forwarded(k) \/ Displaced(k) \/ ~btpAlive
SubscribedIsAccounted ==
    \A k \in 1..MaxDatagrams : [](udpSub.next \in 1..k => []Accounted(k))

\* What a service publishes, unless that ends its process: whole messages of
\* its own encoding and port that are not bare. den may be cooling down.
Serves(s, k) ==
    /\ s # "den"
    /\ k \in DOMAIN btp_data
    /\ Rx!IsFor(s, btp_data[k])
    /\ btp_data[k].own = btp_data[k].body
    /\ btp_data[k].content \in Rx!Encodings[s] \ Rx!Bare

\* Such a message, once handed over to its service, is not forgotten there,
\* whatever octets follow it and whatever is taken before it: it waits in the
\* queue until it is published, unless newer ones displace it or one before it
\* ends the process.
Attended(s, k) ==
    /\ k \in DOMAIN btp_data
    /\ \/ Rx!Queued(btpSub[s], k)
       \/ \E n \in DOMAIN published[s] : published[s][n].id = btp_data[k].id
       \/ Len(btp_data) >= k + BtpDataDepth
       \/ ~rxAlive[s]
HandedOverIsPublished ==
    \A s \in Services : \A k \in 1..MaxDatagrams :
        [](Rx!Queued(btpSub[s], k) /\ Serves(s, k) => []Attended(s, k))

---------------------------------------------------------------------------
\* "Extracts the BTP header and payload, then publishes the information",
\* README.md: a body that the dispatcher published whole is whole in the BTP
\* indication.
PayloadIsForwardedWhole ==
    \A i \in DOMAIN btp_data : \A k \in DOMAIN udp_data :
        (btp_data[i].id = udp_data[k].id /\ udp_data[k].own = udp_data[k].body)
            => btp_data[i].own = btp_data[i].body
=============================================================================
