--------------------------- MODULE MCConversions ---------------------------
(***************************************************************************)
(* Instances of Conversions for TLC. Of CAMs: every octet of lights, every *)
(* combination of containers. Of DENMs and CPMs: messages that differ in   *)
(* one or two of the things that the conversion looks at, in pairs, so     *)
(* that any two of them are compared.                                      *)
(***************************************************************************)
EXTENDS Conversions

CONSTANTS v0, v1, none      \* the default, a value, UNAVAILABLE

MCValues == {v0, v1, none}
Few == {v0, v1}
MCOtherIds == {6}

Points == [position : {v1}, deltaTime : Optional({v1, none})]
Paths == {<< >>} \cup {<<p>> : p \in Points} \cup {<<p, q>> : p, q \in Points}

\* With every octet and one path, or with every path and one octet.
LowFrequencies ==
    [basic : {TRUE}, role : {v1}, lights : Optional(Octet), path : {<< >>}]
    \cup [basic : BOOLEAN, role : {v1}, lights : {<<{0, 3}>>}, path : Paths]
MCCams ==
    [messageID : {v1}, fields : {v1},
     hf : {[vehicle |-> FALSE, values |-> v1, accelerationControl |-> Absent]}
          \cup [vehicle : {TRUE}, values : {v1}, accelerationControl : {Absent, <<{1, 2}>>}],
     lf : Optional(LowFrequencies), special : Optional({v1})]
MCRosCams ==
    [message_id : {v1}, fields : {v1}, hf : {v1},
     has_acceleration_control : BOOLEAN, acceleration_control : Octet,
     has_low_frequency_container : BOOLEAN,
     lf : {[role |-> v1, lights |-> {0, 7},
            path |-> <<[position |-> v1, delta_time |-> t]>>] : t \in {v1, none}}]

Histories == {<< >>} \cup
    {<<[position |-> p, quality |-> v1, eventDeltaTime |-> t]>> : p \in Few, t \in Optional({v1})}
Situations ==
    [eventType : {v1}, linkedCause : Optional(Few), eventHistory : Optional(Histories)]
Locations ==
    [eventSpeed : Optional(Few), eventPositionHeading : Optional({v1}), roadType : {Absent},
     traces : {<< >>, << << >> >>}]
    \cup [eventSpeed : {Absent}, eventPositionHeading : {<<v0>>}, roadType : Optional({v1}),
          traces : {<<p>> : p \in Paths}]
    \cup [eventSpeed : {Absent}, eventPositionHeading : {Absent}, roadType : {<<v0>>},
          traces : {<< <<p>>, <<q>> >> : p, q \in Points}]
MCDenms ==
    [messageID : {v1}, fields : {v1}, termination : Optional({v1}),
     situation : Optional(Situations), location : {Absent}, alacarte : {Absent}]
    \cup [messageID : Few, fields : {v1}, termination : {Absent}, situation : {Absent},
          location : {Absent}, alacarte : Optional(Few)]
    \cup [messageID : {v1}, fields : {v1}, termination : {Absent}, situation : {Absent},
          location : {<<l>> : l \in Locations}, alacarte : {Absent}]

References ==
    [present : {"nothing"}]
    \cup [present : {"roadsegment", "intersection"}, id : {v1}, region : Optional(Few)]
Vertices == [fields : {v1}, zCoordinate : Optional(Few)]
Shapes ==
    [present : {"nothing"}]
    \cup [present : {"rectangular", "circular", "elliptical", "radial"}, dims : Few]
    \cup [present : {"polygonal"}, polygon : {<<a, b>> : a, b \in Vertices}]
    \cup [present : {"radialShapes"}, dims : Few, details : {<< >>, <<v0>>, <<v1, v0>>}]
Objects ==
    [fields : {v1}, objectId : Optional(Few), zCoordinate : Optional(Few), todo : Few]
Containers ==
    {[containerId |-> 1, vehicle |-> v] : v \in Few}
    \cup {[containerId |-> 2, mapReference |-> m] : m \in Optional(References)}
    \cup {[containerId |-> 3, sensors |-> s] : s \in {<< >>, <<v0>>, <<v1, v0>>}}
    \cup {[containerId |-> 4, regions |-> <<[fields |-> v1, shape |-> s]>>] : s \in Shapes}
    \cup {[containerId |-> 5, number |-> v1, objects |-> <<o>>] : o \in Objects}
    \cup {[containerId |-> 6, data |-> v] : v \in Few}

\* A container alone, or behind one that is converted and one that is not.
MCCpmsTs ==
    [fields : {v1}, todo : Few, containers : {<< >>}]
    \cup [fields : {v1}, todo : {v1},
          containers :
              {<<c>> : c \in Containers}
              \cup {<<[containerId |-> 6, data |-> v0], [containerId |-> 1, vehicle |-> v1], c>> :
                        c \in Containers}]
=============================================================================
