# Verification of v2x_stack

TLA+ modules that model the nodes of `v2x_stack`, TLC configurations that check
them on small instances, and proofs about them for every instance. Every
definition is translated from the code under `src/`; `PROJECT.json` names the
lines.

## 1. The system

`v2x_stack` connects a Cohda on-board unit, which speaks ITS messages over UDP,
to ROS 2. All nodes are processes that exchange messages over ROS topics; only
`udp_dispatcher` has a second thread.

```
  unit --UDP:4400--> udp_dispatcher --udp_data--> btp_data --btp_data--> ca_rx, den_rx, cp_rx, cp_ts_rx --> ROS messages
                           |    \--converter/udp/in--> (ETSI packages)
  unit <--UDP:4401-- udp_dispatcher, udp_sender <--/etsi_its_conversion/udp/out-- (ETSI packages)
  unit <--UDP:4401-- udp_sender_converter: same topic in; its frames also go out on etsi_its_conversion/udp/in
```

| Component | State | Operations | Talks to |
| --- | --- | --- | --- |
| Cohda interface (`include/ccu_udp_api.h`) | none | sizes, offsets, widths, byte order of the packed structures | all UDP nodes |
| UDP Handler (`udp_dispatcher.cpp`) | one receive buffer, two sockets, where each of its two threads is | receive loop: bind, receive, filter, publish twice; main thread: frame and send outgoing packets, shut down, join | unit, `udp_data`, `converter/udp/in`, `udp/out` |
| BTP Service (`btp_data_service.cpp`) | its subscription; the publisher, replaced for every message | `udpCallback`/`publish`: copy header and payload | `udp_data`, `btp_data` |
| V2X services (`ca_rx`, `den_rx`, `cp_rx`, `cp_ts_rx`) | subscription; `den_rx` also `last_publish_time_` and `publish_cooldown_` | `onIndication`: filter type and port, decode, convert, publish | `btp_data`, one topic each |
| Conversions (`ca_message`, `den_message`, `cp_message`, `cp_ts_message`) | locals of one call | ASN.1 structure to ROS message (`ca_message` also back) | called by the services |
| UDP senders (`udp_sender`, `udp_sender_converter`) | a socket | send a packet as it is; frame it, publish the frame, send it | `udp/out`, unit, `etsi_its_conversion/udp/in` |
| Launch and configuration | none | which nodes run with which parameters | - |

What is hard here:

- **Two threads, one process.** The receive thread publishes each datagram
  twice, while the main thread may shut the context down or die in between. The
  receive loop looks at no flag, so `join` waits for it perhaps for good.
- **A buffer that is reused.** Lengths come from the wire and are used to copy
  out of a buffer with earlier datagrams in it; they pass through 8 and 16 bit
  fields.
- **Lossy topics and publishers that come and go.** KEEP_LAST queues drop what
  does not fit; `btp_data` and the services create a publisher per message.
- **Time.** The cooldown compares readings of a clock that may be set back with
  a parameter that may change at any time.
- **State shared between iterations** of the CPM conversion.
- **Optional containers** that are dereferenced without a check.
- **Three nodes on one outgoing topic**, two of which frame a packet before they
  send it, one of which publishes the frame too.
- **Formats that cannot say the same things.** ASN.1 has optional members,
  alternatives and bit strings that start at the most significant bit; a ROS
  message has flags (some are missing), numbered choices and masks.

What makes each part correct: the published octets are the datagram's (§3.1);
both topics of the dispatcher agree (§3.1); what the unit receives states its
own length (§3.1); the services deliver what was sent to their port, once and
in order (§3.2); the cooldown limits the rate and nothing else (§3.3); a
converted object says what the CPM says of it (§3.4); a packet leaves each node
at most once, in order and in a consistent frame (§3.5); what a conversion
loses is known, and everything else can be told from the message (§3.6). `PROJECT.json` lists the
hazards line by line with the properties aimed at them.

## 2. The modules

| Module | Models |
| --- | --- |
| `CcuUdpApi` | sizes and offsets of the packed structures, integer widths, `htons`/`ntohs` |
| `CohdaRequest` | the request frame: `createCohdaBTP`, of which two nodes have a copy |
| `UdpDispatcher` | the node `udp_dispatcher`, both threads |
| `RosTopic` | external: what the nodes rely on of a ROS 2 topic |
| `BtpDataService` | the node `btp_data` |
| `ServiceRx` | the four receiving nodes, one record per node |
| `ReceivePath` | composes dispatcher, `btp_data` and services |
| `LossyFeed` | abstract: what the stack promises its users, inbound and outbound, and the dispatcher the nodes behind it |
| `DenRx` | the cooldown of `den_rx` |
| `CpMessage` | `convertCpm` as `cp_rx` runs it, CPM after CPM |
| `OutboundPath` | `udp_sender`, `udp_sender_converter` and the dispatcher's callback on one topic |
| `Asn1` | what the conversions share: optional members, bit strings, paths |
| `CaMessage`, `DenMessage`, `CpTsMessage` | `convertCam` in both directions, `convertDenm`, `convertCpm` of release 2 |
| `Conversions` | composes the three: nodes that convert message after message |
| `MC*` | instances for TLC |
| `*Proofs` | theorems and proofs for the module of that name |

### State and actions against the code

**UdpDispatcher.** `main` is where `main()` is (`spin`, `join`, `exit`, or
`crashed`: then the process is gone). `rx` is the point of `initialize()` the
receive thread is at; the two publications are steps of their own, because
the other thread may act between them. `buffer` says of each tracked byte which
datagram wrote it last (0: uninitialised): the properties are about whose octets
get out, not about their values. `Recv` is one iteration up to the publications
(`recvfrom`, filter, length check), `PublishIndication` is `publish()`,
`PublishRaw` the rest of the iteration, `BindSocket` and `RecvError` the two
places where the thread returns, `CrashBeyondBuffer` the end of a copy that
leaves the stack, `createCohdaBTP` the callback with `send_udp_packet`. Reading
beyond the buffer is undefined; the model lets the process end or go on with
octets it does not claim anything about. Publishing in a context that has been
shut down has no effect.

**RosTopic.** A topic is the log of what was published. A subscription is the
position of the next sample it may get and the queue of those it has; matching
happens at any time, older samples are not handed over (volatile), a publisher
keeps its last samples, a full queue drops its oldest entry, nothing is
reordered.

**BtpDataService.** `udpCallback` is the callback with `publish()`. The copy of
the payload into a vector of `msg_length` octets may overrun the heap: the
process ends before the publication, after it, or not yet; with no storage at
all it ends. `publisherAlive` is the dispatcher's (`DispatcherExists` in
`ReceivePath`: its node lives until `main()` returns or the process crashes): a
publisher that is gone is not discovered any more, and what it sent last may
arrive or not. Each message has a publisher of its own, so for `btp_data` the
history is one sample.

**ServiceRx.** `onIndication(s)` is one callback: drop (not for this node, or it
does not decode), suppress (`den`: the cooldown), publish, or crash (an optional
container that is not there). What a decoder makes of another message, which
happens because `cp_rx` and `cp_ts_rx` share port 2009, is left open: it may
fail, give something, or crash the conversion. A CPM of a roadside unit
(`Misread`) is read as a vehicle's by `cp_rx`: it is published or it crashes the
conversion.

**DenRx.** `now` is any reading of the node's clock, `cooldown` the parameter,
`onIndication(e, ok)` the callback for a DENM of event `e` (`ok`: the decoder's
answer). The node does not look at the event; the model has several so that the
properties say of which events a cooldown is. Setting the
parameter and the callback run on the same executor, so they do not interleave.

**CpMessage.** `ConvertContainers` is `convertCpm` up to the loop,
`ConvertNextObject` one iteration, `ReturnMessage` the rest. A converted value
is represented by the place of the object it was taken from. A class that is
neither person nor vehicle is read as a member of the union that it is not;
the station type may then be any the code knows. The station data are read in the
same way, as those of a vehicle: `ConvertContainers` ends the process if they are
absent, and of a roadside unit's takes octets of another member of the union, among
them a pointer that it follows, which ends the process or gives a message whose
vehicle (`own` is FALSE) and flags say anything.

**OutboundPath.** `udp_out` is the log of the topic, `outSub` the subscription
of each node, `wire` what each node sent. `dispatcherCallback` and
`udp_callback` are whole callbacks, for nothing of theirs shows in between. The
converter's callback is three steps: framing (`udp_converter_callback`, up to the
copy), `PublishEcho` and `send_udp_packet`, since its output goes two ways and a
signal may shut the context down in between (`Shutdown`); `job` says where it is.
A body whose size wraps around ends the process in either copy of the framing. A
node whose constructor failed never takes a packet. `sendto` may fail at any
time, and always for more than 65507 octets.

**Asn1, CaMessage, DenMessage, CpTsMessage.** A message is a record of what the
conversion looks at: optional members (sequences of at most one element),
alternatives, lists, bit strings; all fields that are copied one to one are one
value (`fields`, `dims`). Octets are sets of bit numbers, so that the three swaps
of `reverse_byte` are what they are in the code. The parts of a CPM container
that its id or choice does not name keep their defaults and are left out.

**Conversions.** `ReceiveCam` is a CAM that `ca_rx` converts. The way back,
`convertCam` from ROS to ASN.1, is exported by `ca_message.h` and called by no
node of the repository; `SendBuiltCam` and `SendCamOn` are an application that
uses it, on a message of its own or on one received, and what it sends is
received by the next station. `ConvertDenm` and `ConvertCpm` are the conversions
as `den_rx` and `cp_ts_rx` run them; a CPM whose roadside unit's container has no
map reference ends the process, which `stoppedBy` records.

## 3. What the runs check

Bounds are constants named `Max*` and the depths of queues; payload octets,
times and lists come from small sets, named in the `MC` modules. Deadlock is
not checked where the system may stop (a process that ended, or inputs that
are used up).

### 3.1 UdpDispatcher

- `dispatcher_receive`: three datagrams out of six whose lengths decide (short
  body, foreign host, MsgLen 256, a MsgLen that says less than there is, no
  header, larger than the buffer), in every order; nine tracked bytes at both
  sides of each boundary. Three are enough for an octet to survive one datagram
  and be published by the next.
  - `PayloadProvenance`: an octet of a payload is the datagram's own as far as
    the unit sent it; behind that it is of the latest earlier datagram that
    reached so far, a filtered one included.
  - `RawPacketIsOwn`: the raw packet has no foreign octet.
- `dispatcher_threads`: the threads against each other, with outgoing packets at
  every size where a length wraps or `sendto` refuses.
  - `RawFollowsIndication`: the topics agree but for the datagram in the middle
    of its two publications, or the one at which the process was stopped.
  - `AcceptedIsNotLost`: while the node spins, a datagram that passed the filter
    is on both topics, or it is the one the receive thread is at. No other
    datagram, error or step of the main thread makes it disappear.
  - `ImplementsFeed`: the node implements `LossyFeed` with its two topics as
    receivers and what the socket handed over as offers: only the unit's
    datagrams with a whole header, each at most once and in order of arrival.
  - `WireFramesConsistent`: a frame that reached the unit states its own
    lengths; a wrapped length belongs to a frame that was too long to be sent.
  - `AcceptedIsPublished` (liveness): what passes the filter is published on
    both topics unless the node is shut down or dies.
  - `ShutdownWaitsForSocketOnly` (liveness): `join` waits for the socket and for
    nothing else. Wherever the signal met the receive thread, it gets back to
    `recvfrom` (or the process dies), and once it has returned so does `main()`.
- `dispatcher_payload` (violation of `PayloadIsOwn`): `MsgLen` is "amount
  following" in `ccu_udp_api.h` and counts the 74 octets of the header;
  `publish()` takes it for the length of the payload. Every payload ends in 74
  octets that are not the message's (`StaleTailCorrect` in §4 says exactly which).

### 3.2 ReceivePath

- `path_feed`: dispatcher, `btp_data`, `cp_rx` and `cp_ts_rx`, two datagrams
  out of eight.
  - `ImplementsFeed`: the composition implements `LossyFeed`, under the
    mapping of the logs to the sets and sequences of ids: nothing is invented,
    delivered twice, out of order or to another port.
  - `OnlyShortBodies`: of messages that state their own length none with more
    than 181 octets gets through, since `msg_length` has 8 bits and 74 + 182 is
    256. Real CPMs are often longer.
  - `WholeExactlyIfShort`: the other half. A body of up to 181 octets that the
    dispatcher published whole stays whole, every longer one is damaged: this is
    the exact extent of the violation in `path_whole`.
  - `SubscribedIsForwarded` (liveness): once `btp_data` is subscribed, an
    indication becomes a BTP indication, unless one of the two processes ends or
    newer ones displaced it. Once it is in `btp_data`'s queue the end of the
    dispatcher is no excuse any more. Queue and history of one: the second
    datagram may displace the first, and a datagram that comes alone has to get
    through.
  - `SubscribedIsAccounted`: the safety behind it. From the moment `btp_data`
    is subscribed an indication is accounted for in every state: it waits for the
    node, has been forwarded, was displaced by as many newer ones as history or
    queue hold, or `btp_data` has ended. What a dispatcher that has ended did not
    hand over counts as waiting, for good if it is lost.
  - `HandedOverIsPublished`: a whole message of a service's own encoding and
    port waits, once it is in the service's queue, until it is published;
    octets behind the body, messages of the other release in front of it and
    their crashes included. Newer ones may displace it. `den` is excepted: its
    cooldown suppresses.
- `path_whole` (violation of `PayloadIsForwardedWhole`): the README of the
  package says the node extracts the payload; it cuts it to `msg_length`.

### 3.3 DenRx

- `den_rate`: a clock of six readings in any order, three cooldowns, three
  messages of two events.
  - `RateBound`: n publications in a row with a cooldown of at least c span n*c,
    whatever happened to clock and parameter in between, and whichever events
    the messages are of.
  - `SuppressedInCooldown`: what is suppressed is within the cooldown of the
    last publication, or behind it on the clock.
- `den_step_back` (violation of `DefaultSuppressesNothing`): "No cooldown by
  default" does not hold once the clock has been set back: nothing is published
  until it has caught up.

### 3.4 CpMessage

- `cpm_optionals`: every list of up to two objects of every sort, and of three
  with and without age, and every kind of station data, two CPMs in a row.
  - `OptionalsFromNearest`: an optional value is the object's own or that of the
    nearest object before it in the same CPM; a vehicle's optional fields are its
    own; without station data nothing is published.
- `cpm_age` (violation of `AgeIsOwn`): an object without age inherits one.
- `cpm_error` (violation of `ErrorsReturn`): `cp_message.h` promises `nullptr`
  on error; without `stationDataContainer` the process ends, and with a roadside
  unit's it may.

### 3.5 OutboundPath

- `outbound`: all three nodes, two packets out of three (shorter than the header,
  a message, one whose lengths wrap and which `sendto` refuses); a history of one,
  queues of one and two.
  - `ImplementsFeed`: for each node the composition implements `LossyFeed`: only
    published packets that it can send, each at most once and in order. With all
    three at work the unit gets a packet three times, no more.
  - `FramesConsistent`: no frame with a wrapped length reaches the unit.
  - `EchoedBeforeSent`: what the converter sends was on the topic for incoming
    packets before, frame by frame; the only exception is the last frame when a
    shutdown came between framing and publication.
  - `SubscribedIsEchoed` (liveness): every packet for which the converter is
    subscribed comes back on that topic, unless displaced or the node stops. In
    particular one that is too long to be sent is on the topic and not on the
    wire.
  - `SubscribedIsAccounted`: the safety behind it, with one place more, the
    packet in the callback's hands.

### 3.6 Conversions

- `conversions`: CAMs with every octet of lights and every path of up to two
  points, over three stations; DENMs and CPMs that differ in one or two of the
  things that the conversion looks at, in pairs. A behaviour follows one node:
  the nodes share nothing.
  - `LosesOnlyOnce`: what a CAM loses (message id, a roadside unit's container,
    the acceleration control, the special vehicle container and with it, as one
    value, the optional vehicle fields that neither conversion knows, the
    difference between no path time and UNAVAILABLE) it loses at the first
    station; after that the conversions are inverse to each other. Both directions
    matter: a bit reversed too often or a time that becomes a value shows at the
    second station at the latest.
  - `LightsMatchMasks`: the code's comment, "need to reverse bits from asn1c bit
    string to match our bit masks", in both directions.
  - `DenmsToldApart`, `CpmsToldApart`: two messages become the same ROS message
    exactly when they differ in nothing but what `ToldOfDenm` and `ToldOfCpm` leave
    out. From left to right nothing else is lost; from right to left these things
    are. Of a DENM: the header's message id; that an event was cancelled
    (`termination`, which stands also for relevance distance, traffic direction and
    transmission interval); when a point of its history was recorded; an absent
    optional field of the location against the default, an absent path time against
    UNAVAILABLE, no history against an empty one; the a la carte container.
    Of a CPM: the content of a container of unknown kind, and the optional members
    that the code's TODOs name (`todo`, of an object and of all the rest). No
    document says that they are kept, so they are stated here and no finding.
  - `WholeOrStopped`: a CPM is converted with every container, in order, or it
    ends the node, and only a container without its map reference does that.

Three observations have no run. `btp_launch.py` computes the path of a
configuration file and passes it to no node, so `config/udp_params.yml` has no
effect. `cp_message.cpp` sets `has_vehicle_width` and leaves the width out. And
`cp_ts_message.cpp` copies the numbers of ASN.1 alternatives, which start with 1,
into the choice of ROS messages whose constants are in an external package.

### Fairness

`AcceptedIsPublished` and `ShutdownWaitsForSocketOnly` assume that the operating
system keeps running both threads (weak fairness of `BindSocket`, of the two
publications, of which a crash counts as one, and of `JoinReceiver`). Nothing is
assumed of the network, of `recvfrom`, of the signal that shuts the node down or
of socket errors. `SubscribedIsForwarded` assumes that the
middleware hands over what a matched publisher sent for as long as that publisher
exists, and that the executor runs callbacks (weak fairness of `MatchUdpData` and
`udpCallback`, and of `TransmitUdpData` while `publisherAlive`); `rclcpp::spin` and
reliable QoS give that. A volatile publisher that is gone delivers nothing, so
nothing is assumed of a dispatcher that has ended, though what it sent may still
arrive. Nothing is assumed of the services. `SubscribedIsEchoed`
assumes the same of the outgoing topic and its three nodes: discovery, delivery
and callbacks (`MatchOut`, `TransmitOut`, `dispatcherCallback`, `udp_callback`,
`ConverterStep`), and nothing of the application that publishes, of signals or of
`sendto`.

## 4. What is proved

The proofs hold for all addresses, datagrams, packets, offsets, clocks,
cooldowns, lists and bounds; they assume what the modules' `ASSUME`s say of the
constants (types, and bounds being naturals), which TLC evaluates in the runs.

- `CcuUdpApiProofs`: `htons` and `ntohs` are inverse on 16 bits and stay there;
  the arithmetic of the 181 octets (`ShortBodies`).
- `UdpDispatcherProofs`
  - `TypeCorrect`. Inductive: `TypeOK` and that the current datagram was
    accepted when the thread is at one of the two publications.
  - `ProvenanceCorrect` and `RawPacketCorrect`, the octet properties. Inductive: `BufferWriters`,
    that byte o of the buffer is of the last datagram in the whole history that
    reached o. The property speaks of the moment of each publication, so the
    lemmas show that a longer history does not change who was last then.
  - `HandoverCorrect` (`RawFollowsIndication`). Inductive: `Handover`, which
    says of each value of `rx` how the logs' lengths relate and that the last
    indication is the current datagram's between the publications, and
    `Ascending`, that ids on the topic grow.
  - `WireCorrect` (`WireFramesConsistent`): by arithmetic on the sizes, from
    what is sent at all.
  - `NotLostCorrect` (`AcceptedIsNotLost`): inductive as it stands, together with
    `TypeInv`, since it names both places between the publications.
  - `FeedCorrect` (`ImplementsFeed`), the refinement: `Recv` is `Offer`, each of
    the two publications `Deliver`; that what is delivered is newer than what
    was comes from `Ascending`.
  - `StaleTailCorrect`: what is wrong with a payload, exactly. Of a datagram that
    states its own length and fits the buffer, the octets up to its end are its
    own and the 74 behind that are not, whatever came before.
- `RosTopicProofs`, what a subscription keeps, in two halves. Order across one hop (`InOrder`: what a node published has
  lower ids than every sample it may still take, and queue and output ascend).
  Each operation of a topic keeps it: a publication, discovery, a delivery that
  skips lost samples or displaces the oldest, a callback.
  Loss at one hop (`Spaced`: behind an entry of the queue there are no more
  entries than positions of the log up to the next one): a sample that
  waits goes on waiting (`TransmitKeepsAwaited`, `TransmitKeepsQueued`), or history
  or queue had no room left for it, or the callback took it. Without `Spaced` that
  an entry displaced from a queue of depth d is d behind the log does not follow.
- `ReceivePathProofs`, for any services, depths and number of datagrams.
  Inductive (`IInv`): the dispatcher's two invariants; `FromDatagrams`,
  `FromUdpData`, `FromBtpData`, that each message on a topic is made of one of the
  topic before; `Ordered`, `InOrder` at every hop. That the services' output is
  in order follows from nothing less: one hop's order is the next one's input.
  - `TypeCorrect`; `ShortBodiesOnly` (`OnlyShortBodies`), from the origin of a
    message back to its datagram and the arithmetic of `ShortBodies`.
  - `WholeCorrect` (`WholeExactlyIfShort`), the same way, in both directions.
  - `AccountedCorrect` (`SubscribedIsAccounted`). Inductive: `IInv`, `Spaced`, and
    the accounting itself; `AwaitedStep` is the one place where an indication
    leaves the queue, `SettledStays` says that what became of it stays so.
  - `PublishedCorrect` (`HandedOverIsPublished`), the same at the next hop, for
    each service: `QueuedStep` says why a message leaves its queue,
    `ServedIsNotDropped` that the callback has no other choice than to publish
    it, `OutcomeStays` that nothing is taken back.
  - `FeedCorrect` (`ImplementsFeed`), the refinement: a publication of an
    indication is `Offer`, one of a service is `Deliver`, all else stutters.
- `DenRxProofs`: `TypeCorrect`, `RateCorrect`, `SuppressionCorrect`. Inductive:
  the bound itself together with "`last_publish_time_` is the stamp of the last
  publication"; one publication more extends every stretch by one cooldown.
  `SteadyClockCorrect`: under `ClockNeverSetBack`, an assumption on the behaviour
  that the code does not guarantee and the violated property needs, the default
  cooldown suppresses nothing, whatever it was before. So the clock alone causes
  the violation in `den_step_back`.
- `OutboundPathProofs`, for any of the three nodes, packets and depths:
  `TypeCorrect`; `FramesCorrect`, from `SentConsistent` of `CcuUdpApiProofs`, which
  the dispatcher's proof uses too; `EchoCorrect`, whose inductive invariant says
  what the converter has published at each point of its callback;
  `FeedCorrect`, from the order at each hop (`RosTopicProofs`), with the packet in
  the converter's hands between its queue and the wire; `AccountedCorrect`
  (`SubscribedIsAccounted`), as on the receive path, where the step from the queue
  to the topic is two steps and the packet is `job` in between.
- `ConversionsProofs`, for lists of any length, any values and, by cases, all
  octets. Lemmas say of each conversion what it returns and its type, and for
  each structure, from the inside out, that two of them are converted alike
  exactly when they are told alike. `ReversedBit` is about all octets at once:
  bit i of the result is bit 7 - i. The inductive invariant says that the
  histories are what the conversions return, and `LosesOnlyOnce`, whose step is
  `CamAgain`: the conversions back and forth change nothing the second time.
  `TypeCorrect`, `LossCorrect`, `LightsCorrect`, `DenmsCorrect`, `CpmsCorrect` and
  `WholeCorrect` follow.
- `CpMessageProofs`: `TypeCorrect`, `ConversionCorrect`. Inductive: during the
  loop the shared object is the conversion of the object appended last, and
  before the first iteration the conversion of none. `AgeExactly` bounds the
  violation in `cpm_age`: an object's age is foreign exactly when it has none and an
  object before it in the list has one.

Every invariant, the three refinements and the three temporal properties that
need no fairness are proved, which is every property of the passing runs but four.
Only model-checked are those four, the liveness properties `AcceptedIsPublished`,
`ShutdownWaitsForSocketOnly`, `SubscribedIsForwarded` and `SubscribedIsEchoed`
(fairness is outside the provers' reach), and the violations, which are
counterexamples. The safety behind each leads-to of the topics is proved, so
what rests on TLC alone there is that the middleware and the executor go on.

Four of the five violated properties have a theorem that says how far the violation
goes: `StaleTailCorrect`, `WholeCorrect`, `SteadyClockCorrect` and `AgeExactly`. The
fifth, `ErrorsReturn`, is violated in a single step.

## 5. What is not modelled

The values of payload octets, and ASN.1 decoding (a library). Numeric fields
that the conversions copy one to one. Which optional members the conversions leave
out, one by one: those of a message stand together as one value that is lost. In
`cp_message`, the optional fields of an object other than age and classification and
the rest of the vehicle, which the code does not read. The IP layer's
fragmentation. The service `btp_indication`, which answers without changing
anything. Enumerations and placeholders in `ccu_udp_api.h`, build files, message
definitions as such. Loss between a publisher that was just created and a
subscriber that has not been matched is in the model of the topics (`RosTopic`),
but that a message arrives cannot be stated: nothing in the code waits for it.

## 6. Plan

In order of importance; all of them are done.

1. `UdpDispatcher` with `CcuUdpApi`, the octets of the receive path and the
   threads; proofs of its safety properties.
2. `BtpDataService`, `ServiceRx`, `RosTopic`, composed in `ReceivePath`, against
   `LossyFeed`; proofs: the refinement and the 181 octets.
3. `DenRx`, `CpMessage`; proofs: rate, suppression, conversion.
4. `OutboundPath`: dispatcher, sender and converter on one outgoing topic, with
   the framing in `CohdaRequest`, against the same `LossyFeed`; proofs of its
   invariants and of the refinement.
5. `CaMessage`, `DenMessage`, `CpTsMessage` in `Conversions`; proofs of what they
   keep and lose.
6. What a path may not lose: the dispatcher as a feed, the accounting at each
   hop, the exact extent of each violation; proofs.

What could follow: the remaining optional members in `CpMessage` and `CpTsMessage`,
each by itself, when the code converts them.
