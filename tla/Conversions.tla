---------------------------- MODULE Conversions ----------------------------
(***************************************************************************)
(* The conversions at work: ca_rx, den_rx and cp_ts_rx each convert one    *)
(* decoded message after another and share nothing, so a behaviour follows *)
(* one of them. The nodes call only the conversion into ROS messages; that *)
(* of CAMs has a way back, for an application that sends CAMs, and so a    *)
(* CAM here goes to and fro from station to station: received, taken as a  *)
(* ROS message, sent on.                                                   *)
(***************************************************************************)
EXTENDS CaMessage, DenMessage, CpTsMessage

CONSTANTS
    Cams, Denms, CpmsTs,    \* the decoded messages
    RosCams,                \* ROS messages that an application sends
    MaxHops,                \* bound: stations that a CAM passes
    MaxMessages             \* bound: messages converted

ASSUME ConversionsAssumption ==
    /\ Cams \subseteq Cam /\ Denms \subseteq Denm /\ CpmsTs \subseteq CpmTs
    /\ RosCams \subseteq RosCam
    /\ MaxHops \in Nat /\ MaxMessages \in Nat

VARIABLES
    node,       \* the node followed
    built,      \* the ROS CAM that an application started with, if any
    hops,       \* history: the CAM at each station, and what it became there
    denms,      \* history: DENMs and what they became
    cpms,       \* history: the same of CPMs
    stoppedBy   \* the CPM whose conversion ended the process, if any

vars == <<node, built, hops, denms, cpms, stoppedBy>>

Init ==
    /\ node \in {"ca_rx", "den_rx", "cp_ts_rx"}
    /\ built = Absent
    /\ hops = << >>
    /\ denms = << >>
    /\ cpms = << >>
    /\ stoppedBy = Absent

\* A station receives CAM a and takes it as a ROS message.
Arrives(a) == hops' = Append(hops, [asn1 |-> a, ros |-> CamToRos(a)])

ReceiveCam(a) ==
    /\ node = "ca_rx"
    /\ hops = << >>
    /\ Arrives(a)
    /\ UNCHANGED <<node, built, denms, cpms, stoppedBy>>

SendBuiltCam(r) ==
    /\ node = "ca_rx"
    /\ hops = << >>
    /\ built' = <<r>>
    /\ Arrives(CamToAsn1(r))
    /\ UNCHANGED <<node, denms, cpms, stoppedBy>>

SendCamOn ==
    /\ hops # << >> /\ Len(hops) < MaxHops
    /\ Arrives(CamToAsn1(hops[Len(hops)].ros))
    /\ UNCHANGED <<node, built, denms, cpms, stoppedBy>>

ConvertDenm(a) ==
    /\ node = "den_rx"
    /\ Len(denms) < MaxMessages
    /\ denms' = Append(denms, [asn1 |-> a, ros |-> DenmToRos(a)])
    /\ UNCHANGED <<node, built, hops, cpms, stoppedBy>>

ConvertCpm(a) ==
    /\ node = "cp_ts_rx" /\ stoppedBy = Absent
    /\ Len(cpms) < MaxMessages
    /\ IF \E k \in 1..Len(a.containers) : Crashes(a.containers[k])
       THEN /\ stoppedBy' = <<a>>
            /\ UNCHANGED cpms
       ELSE /\ cpms' = Append(cpms, [asn1 |-> a, ros |-> CpmToRos(a)])
            /\ UNCHANGED stoppedBy
    /\ UNCHANGED <<node, built, hops, denms>>

Next ==
    \/ \E a \in Cams : ReceiveCam(a)
    \/ \E r \in RosCams : SendBuiltCam(r)
    \/ SendCamOn
    \/ \E a \in Denms : ConvertDenm(a)
    \/ \E a \in CpmsTs : ConvertCpm(a)

Spec == Init /\ [][Next]_vars

---------------------------------------------------------------------------
\* Every variable has its type; what is converted is a message of its format.
TypeOK ==
    /\ node \in {"ca_rx", "den_rx", "cp_ts_rx"}
    /\ built \in Optional(RosCam)
    /\ hops \in Seq([asn1 : Cam, ros : RosCam])
    /\ denms \in Seq([asn1 : Denm, ros : RosDenm])
    /\ cpms \in Seq([asn1 : CpmTs, ros : RosCpmTs])
    /\ stoppedBy \in Optional(CpmTs)

\* What a station that receives CAM a sends on.
SentOn(a) ==
    [messageID |-> Default,
     fields |-> a.fields,
     hf |-> [vehicle |-> TRUE, values |-> IF a.hf.vehicle THEN a.hf.values ELSE Default,
             accelerationControl |-> Absent],
     lf |-> IF ~IsBasic(a.lf) THEN Absent
            ELSE <<[basic |-> TRUE, role |-> a.lf[1].role,
                    lights |-> <<ValueOr(a.lf[1].lights, {})>>,
                    path |-> [k \in 1..Len(a.lf[1].path) |->
                        IF a.lf[1].path[k].deltaTime = <<UNAVAILABLE>>
                        THEN [a.lf[1].path[k] EXCEPT !.deltaTime = Absent]
                        ELSE a.lf[1].path[k]]]>>,
     special |-> Absent]

\* A CAM loses at the first station what it is ever to lose: its message id,
\* a roadside unit's container, the acceleration control, the special vehicle
\* container. From then on it is the same at every station, lights and path
\* included, however often it is converted to and fro.
LosesOnlyOnce ==
    \A k \in 1..Len(hops) :
        /\ hops[k].ros = hops[1].ros
        /\ k > 1 => hops[k].asn1 = SentOn(hops[1].asn1)

\* The bits of a bit string and of the ROS message's octet, whose masks count
\* from the other end.
SameLights(string, octet) == \A i \in 0..7 : (7 - i) \in string <=> i \in octet

\* "need to reverse bits from asn1c bit string to match our bit masks": light
\* i of the string is mask 2^i of the ROS message at every station, and the
\* acceleration control of an application's CAM goes out the same way.
LightsMatchMasks ==
    /\ \A k \in 1..Len(hops) :
        (IsBasic(hops[k].asn1.lf) /\ hops[k].asn1.lf[1].lights # Absent) =>
            SameLights(hops[k].asn1.lf[1].lights[1], hops[k].ros.lf.lights)
    /\ (built # Absent /\ built[1].has_acceleration_control) =>
        /\ hops[1].asn1.hf.accelerationControl # Absent
        /\ SameLights(hops[1].asn1.hf.accelerationControl[1], built[1].acceleration_control)

\* What of a DENM can be told from its ROS message: not its message id, not
\* whether the event was terminated, not when the points of its history were
\* recorded, not whether it has an a la carte container, and not a default from
\* an optional field of the location that is absent, UNAVAILABLE from a path
\* time that is, or an empty history from none.
ToldOfHistory(history) ==
    [k \in 1..Len(history) |-> [history[k] EXCEPT !.eventDeltaTime = Absent]]

ToldOfSituation(s) ==
    [s EXCEPT !.eventHistory = <<ToldOfHistory(ValueOr(@, << >>))>>]

ToldOfPath(path) ==
    [k \in 1..Len(path) |-> [path[k] EXCEPT !.deltaTime = <<ValueOr(@, UNAVAILABLE)>>]]

ToldOfLocation(l) ==
    [eventSpeed |-> ValueOr(l.eventSpeed, Default),
     eventPositionHeading |-> ValueOr(l.eventPositionHeading, Default),
     roadType |-> ValueOr(l.roadType, Default),
     traces |-> [k \in 1..Len(l.traces) |-> ToldOfPath(l.traces[k])]]

ToldOfDenm(a) ==
    [fields |-> a.fields,
     situation |-> IF a.situation = Absent THEN Absent
                   ELSE <<ToldOfSituation(a.situation[1])>>,
     location |-> IF a.location = Absent THEN Absent ELSE <<ToldOfLocation(a.location[1])>>]

\* Two DENMs are published as the same message exactly when they differ in
\* nothing but that. Flags and lists keep all else apart, and nothing of one
\* DENM shows in another. In particular a DENM that cancels an event is
\* published like the one that announced it.
DenmsToldApart ==
    \A i, j \in 1..Len(denms) :
        denms[i].ros = denms[j].ros <=> ToldOfDenm(denms[i].asn1) = ToldOfDenm(denms[j].asn1)

\* The same of a CPM: of a container of unknown kind only the id, and none of
\* the optional members that the code leaves to do.
ToldOfContainer(c) ==
    CASE c.containerId \in OtherIds -> [c EXCEPT !.data = Default]
      [] c.containerId = 5 ->
            [c EXCEPT !.objects = [k \in 1..Len(@) |-> [@[k] EXCEPT !.todo = Default]]]
      [] OTHER -> c

ToldOfCpm(a) ==
    [a EXCEPT !.todo = Default, !.containers = [k \in 1..Len(@) |-> ToldOfContainer(@[k])]]

\* Two CPMs are published as the same message exactly when they differ in
\* nothing but that: every optional value has its flag, every alternative its
\* choice.
CpmsToldApart ==
    \A i, j \in 1..Len(cpms) :
        cpms[i].ros = cpms[j].ros <=> ToldOfCpm(cpms[i].asn1) = ToldOfCpm(cpms[j].asn1)

\* A CPM is converted with every one of its containers, in their order and
\* those of unknown kind too, or it ends the node: then one of its containers
\* is a roadside unit's without map reference, and such a CPM is the only one
\* to end the node.
WholeOrStopped ==
    /\ \A n \in 1..Len(cpms) :
        LET containers == cpms[n].asn1.containers
            converted == cpms[n].ros.containers
        IN  /\ Len(converted) = Len(containers)
            /\ \A k \in 1..Len(containers) :
                /\ converted[k].container_id = containers[k].containerId
                /\ ~Crashes(containers[k])
    /\ stoppedBy # Absent =>
        \E k \in 1..Len(stoppedBy[1].containers) : Crashes(stoppedBy[1].containers[k])
=============================================================================
