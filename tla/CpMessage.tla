----------------------------- MODULE CpMessage -----------------------------
(***************************************************************************)
(* The conversion of a decoded CPM into its ROS message (convertCpm in     *)
(* src/cp_message.cpp), run by cp_rx for one CPM after another. The loop   *)
(* over the perceived objects fills one object, declared before the loop,  *)
(* and appends a copy of it in every iteration.                            *)
(*                                                                         *)
(* Of the containers before the list the model keeps the station data: the *)
(* conversion reads them as those of a vehicle, whatever they are. Of the  *)
(* vehicle it keeps its two optional fields that are converted.            *)
(* An object of a CPM is its place in the list, whether it has an age and  *)
(* the class of its first classification. Of a converted object the model  *)
(* says which object each value came from, None for a value never set.     *)
(***************************************************************************)
EXTENDS Integers, Sequences

CONSTANTS
    VehicleTypes,   \* vehicle classes, each with a station type of its own
    OtherClasses,   \* alternatives of the class that are no person or vehicle
    Cpms,           \* the CPMs that may be decoded
    MaxMessages     \* bound: CPMs handled

None == 0
Unclassified == "unclassified"  \* no classification, or an empty one
Person == "person"
Classes == VehicleTypes \cup OtherClasses \cup {Person, Unclassified}

PEDESTRIAN == "PEDESTRIAN"
UNKNOWN == "UNKNOWN"
StationTypes == VehicleTypes \cup {PEDESTRIAN, UNKNOWN}

\* The optional stationDataContainer: none, or one of two alternatives.
Station ==
    [present : {"none", "rsu"}]
    \cup [present : {"vehicle"}, hasLength : BOOLEAN, hasWidth : BOOLEAN]

\* number: the field numberOfPerceivedObjects. objects: the list, absent or
\* empty if << >>.
Cpm == [station : Station, number : Nat,
        objects : Seq([hasAge : BOOLEAN, class : Classes])]

ASSUME CpMessageAssumption ==
    /\ Cpms \subseteq Cpm
    /\ MaxMessages \in Nat
    /\ Person \notin OtherClasses
    /\ Unclassified \notin VehicleTypes \cup OtherClasses

VARIABLES
    pc,                 \* "idle", "loop" or "crashed"
    cpm,                \* the decoded CPM being converted
    vehicle,            \* the originating vehicle of the message being built
    perceived_object,   \* the object that the iterations share
    msg,                \* the list of the ROS message being built
    converted           \* history: CPMs and what they were converted to

vars == <<pc, cpm, vehicle, perceived_object, msg, converted>>

---------------------------------------------------------------------------
\* Variant: the class of a default object is no station type.
DefaultObjectUnclassified ==
    [id |-> None, age |-> None, classifiedBy |-> None, class |-> Unclassified]

DefaultObject == [id |-> None, age |-> None, classifiedBy |-> None, class |-> UNKNOWN]

\* What the station type of a class may become. A class that is neither is
\* read as the union's vehicle: whatever type its octets happen to name.
Classify(class) ==
    IF class = Person THEN {PEDESTRIAN}
    ELSE IF class \in VehicleTypes THEN {class}
    ELSE VehicleTypes \cup {UNKNOWN}

\* The shared object after the iteration for the k-th object.
ConvertObject(shared, k, object) ==
    {[id |-> k, age |-> IF object.hasAge THEN k ELSE shared.age,
      classifiedBy |-> IF object.class = Unclassified THEN shared.classifiedBy ELSE k,
      class |-> c] :
        c \in IF object.class = Unclassified THEN {shared.class} ELSE Classify(object.class)}

\* own: whether the values are those of a vehicle of the CPM. The width itself
\* is never set, only its flag.
VehicleOf(station) ==
    [own |-> TRUE, has_vehicle_length |-> station.hasLength,
     has_vehicle_width |-> station.hasWidth]

\* The message's vehicle before the conversion writes it.
DefaultVehicle == [own |-> FALSE, has_vehicle_length |-> FALSE, has_vehicle_width |-> FALSE]

\* What is read of the container, which nothing asks for its alternative: of
\* a roadside unit's, octets that say anything.
OriginatingVehicle(station) ==
    CASE station.present = "vehicle" -> {VehicleOf(station)}
      [] station.present = "rsu" ->
            [own : {FALSE}, has_vehicle_length : BOOLEAN, has_vehicle_width : BOOLEAN]
      [] station.present = "none" -> {}

\* The list is looked at only when the CPM says that it has objects.
Listed(c) == IF c.number > 0 THEN c.objects ELSE << >>

NoCpm == [station |-> [present |-> "none"], number |-> 0, objects |-> << >>]

\* Variant: the object outlives the conversion.
SharedAcrossMessages == perceived_object

\* The shared object is a local variable of the conversion.
SharedObject == DefaultObject

Init ==
    /\ pc = "idle"
    /\ cpm = NoCpm
    /\ vehicle = DefaultVehicle
    /\ perceived_object = DefaultObject
    /\ msg = << >>
    /\ converted = << >>

\* The containers before the list. The station data container is optional and
\* read without a check: the process ends when it is absent. What a roadside
\* unit's holds where a vehicle's has the pointer to its length is followed,
\* and may end it too.
ConvertContainers(c) ==
    /\ pc = "idle"
    /\ Len(converted) < MaxMessages
    /\ cpm' = c
    /\ \/ /\ vehicle' \in OriginatingVehicle(c.station)
          /\ pc' = "loop"
       \/ /\ c.station.present # "vehicle"
          /\ vehicle' = DefaultVehicle
          /\ pc' = "crashed"
    /\ perceived_object' = SharedObject
    /\ msg' = << >>
    /\ UNCHANGED converted

ConvertNextObject ==
    /\ pc = "loop"
    /\ Len(msg) < Len(Listed(cpm))
    /\ LET k == Len(msg) + 1
       IN  perceived_object' \in ConvertObject(perceived_object, k, Listed(cpm)[k])
    /\ msg' = Append(msg, perceived_object')
    /\ UNCHANGED <<pc, cpm, vehicle, converted>>

ReturnMessage ==
    /\ pc = "loop"
    /\ Len(msg) = Len(Listed(cpm))
    /\ converted' = Append(converted, [cpm |-> cpm, vehicle |-> vehicle, msg |-> msg])
    /\ pc' = "idle"
    /\ UNCHANGED <<cpm, vehicle, perceived_object, msg>>

Next ==
    \/ \E c \in Cpms : ConvertContainers(c)
    \/ ConvertNextObject
    \/ ReturnMessage

Spec == Init /\ [][Next]_vars

---------------------------------------------------------------------------
RosVehicle == [own : BOOLEAN, has_vehicle_length : BOOLEAN, has_vehicle_width : BOOLEAN]
ConvertedObject == [id : Nat, age : Nat, classifiedBy : Nat, class : StationTypes]

\* Every variable has its type.
TypeOK ==
    /\ pc \in {"idle", "loop", "crashed"}
    /\ cpm \in Cpm
    /\ vehicle \in RosVehicle
    /\ perceived_object \in ConvertedObject
    /\ msg \in Seq(ConvertedObject)
    /\ converted \in Seq([cpm : Cpm, vehicle : RosVehicle, msg : Seq(ConvertedObject)])

\* j is the last of the first k places in S, None if there is none.
LastOf(S, j, k) ==
    /\ j \in (S \cap 1..k) \cup {None}
    /\ \A i \in j+1..k : i \notin S

Aged(objects) == {k \in 1..Len(objects) : objects[k].hasAge}
Classified(objects) == {k \in 1..Len(objects) : objects[k].class # Unclassified}

IsConversionOf(o, k, objects) ==
    /\ o.id = k
    /\ LastOf(Aged(objects), o.age, k)
    /\ LastOf(Classified(objects), o.classifiedBy, k)
    /\ IF o.classifiedBy = None THEN o.class = UNKNOWN
       ELSE o.class \in Classify(objects[o.classifiedBy].class)

\* A converted object has its own mandatory fields. An age or a class that it
\* lacks is the one of the nearest object before it that has one, and never
\* one of an earlier CPM. The list is converted whole and in its order, or not
\* at all when the CPM says it has no objects. A vehicle's length and width are
\* flagged as its own CPM has them, whatever was converted before, and nothing
\* is published for a CPM without station data.
OptionalsFromNearest ==
    \A n \in 1..Len(converted) :
        LET r == converted[n]  objects == Listed(r.cpm)
        IN  /\ r.cpm.station.present # "none"
            /\ r.cpm.station.present = "vehicle" => r.vehicle = VehicleOf(r.cpm.station)
            /\ Len(r.msg) = Len(objects)
            /\ \A k \in 1..Len(r.msg) : IsConversionOf(r.msg[k], k, objects)

---------------------------------------------------------------------------
\* "Convert ASN.1 data structure to ROS", cp_message.h: a converted object
\* has no age that the CPM does not give it.
AgeIsOwn ==
    \A n \in 1..Len(converted) : \A k \in 1..Len(converted[n].msg) :
        converted[n].msg[k].age \in {None, k}

\* "converted CPM (or nullptr on error)", cp_message.h: no CPM that decodes
\* stops the node.
ErrorsReturn == pc # "crashed"
=============================================================================
