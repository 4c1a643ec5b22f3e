---------------------------- MODULE CpTsMessage ----------------------------
(***************************************************************************)
(* The conversion of a decoded CPM of release 2 into its ROS message       *)
(* (convertCpm in src/cp_ts_message.cpp): a list of wrapped containers,    *)
(* each converted as its id says. The ROS message has a part for every     *)
(* kind of container and of shape; the parts that the id or the choice     *)
(* does not name keep their defaults and are left out here.                *)
(***************************************************************************)
EXTENDS Asn1

CONSTANT OtherIds       \* container ids that the conversion does not know

ASSUME CpTsAssumption == OtherIds \cap 1..5 = {}

\* Alternatives of the CHOICEs and their numbers in the generated ASN.1 code.
MapReference_PR == [nothing |-> 0, roadsegment |-> 1, intersection |-> 2]
Shape_PR ==
    [nothing |-> 0, rectangular |-> 1, circular |-> 2, polygonal |-> 3,
     elliptical |-> 4, radial |-> 5, radialShapes |-> 6]

MapReference ==
    [present : {"nothing"}]
    \cup [present : {"roadsegment", "intersection"}, id : Values, region : Optional(Values)]

\* dims: the mandatory fields of the shape.
Vertex == [fields : Values, zCoordinate : Optional(Values)]
Shape ==
    [present : {"nothing"}]
    \cup [present : {"rectangular", "circular", "elliptical", "radial"}, dims : Values]
    \cup [present : {"polygonal"}, polygon : Seq(Vertex)]
    \cup [present : {"radialShapes"}, dims : Values, details : Seq(Values)]
PerceptionRegion == [fields : Values, shape : Shape]

\* todo: the optional members that the code names in its TODOs, of an object
\* here, of the management and the other containers in CpmTs.
PerceivedObject ==
    [fields : Values, objectId : Optional(Values), zCoordinate : Optional(Values), todo : Values]

Container ==
    [containerId : {1}, vehicle : Values]
    \cup [containerId : {2}, mapReference : Optional(MapReference)]
    \cup [containerId : {3}, sensors : Seq(Values)]
    \cup [containerId : {4}, regions : Seq(PerceptionRegion)]
    \cup [containerId : {5}, number : Values, objects : Seq(PerceivedObject)]
    \cup [containerId : OtherIds, data : Values]

CpmTs == [fields : Values, todo : Values, containers : Seq(Container)]

RosMapReference ==
    [map_reference_is_present : BOOLEAN, choice : Nat, id : Values,
     region_is_present : BOOLEAN, region : Values]
RosVertex == [fields : Values, z_coordinate_is_present : BOOLEAN, z_coordinate : Values]
RosShape == [choice : Nat, dims : Values, polygon : Seq(RosVertex), details : Seq(Values)]
RosPerceivedObject ==
    [fields : Values, object_id_is_present : BOOLEAN, object_id : Values,
     z_coordinate_is_present : BOOLEAN, z_coordinate : Values]
RosContainer ==
    [container_id : {1}, vehicle : Values]
    \cup [container_id : {2}, rsu : RosMapReference]
    \cup [container_id : {3}, sensors : Seq(Values)]
    \cup [container_id : {4}, regions : Seq([fields : Values, shape : RosShape])]
    \cup [container_id : {5}, number : Values, objects : Seq(RosPerceivedObject)]
    \cup [container_id : OtherIds]
RosCpmTs == [fields : Values, containers : Seq(RosContainer)]

---------------------------------------------------------------------------
\* The optional reference of a roadside unit is read without a check.
Crashes(c) == c.containerId = 2 /\ c.mapReference = Absent

MapReferenceToRos(m) ==
    IF m.present = "nothing"
    THEN [map_reference_is_present |-> FALSE, choice |-> 0, id |-> Default,
          region_is_present |-> FALSE, region |-> Default]
    ELSE [map_reference_is_present |-> TRUE, choice |-> MapReference_PR[m.present],
          id |-> m.id, region_is_present |-> m.region # Absent,
          region |-> ValueOr(m.region, Default)]

\* Variant: a vertex is flat whatever it says.
VertexToRosFlat(v) ==
    [fields |-> v.fields, z_coordinate_is_present |-> FALSE, z_coordinate |-> Default]

VertexToRos(v) ==
    [fields |-> v.fields, z_coordinate_is_present |-> v.zCoordinate # Absent,
     z_coordinate |-> ValueOr(v.zCoordinate, Default)]

ShapeToRos(s) ==
    [choice |-> Shape_PR[s.present],
     dims |-> IF s.present \in {"nothing", "polygonal"} THEN Default ELSE s.dims,
     polygon |-> IF s.present = "polygonal"
                 THEN [k \in 1..Len(s.polygon) |-> VertexToRos(s.polygon[k])]
                 ELSE << >>,
     details |-> IF s.present = "radialShapes" THEN s.details ELSE << >>]

ObjectToRos(o) ==
    [fields |-> o.fields,
     object_id_is_present |-> o.objectId # Absent,
     object_id |-> ValueOr(o.objectId, Default),
     z_coordinate_is_present |-> o.zCoordinate # Absent,
     z_coordinate |-> ValueOr(o.zCoordinate, Default)]

\* Variant: the switch has no case for perception regions.
ContainerToRosNoRegions(c) ==
    CASE c.containerId = 1 -> [container_id |-> 1, vehicle |-> c.vehicle]
      [] c.containerId = 2 -> [container_id |-> 2, rsu |-> MapReferenceToRos(c.mapReference[1])]
      [] c.containerId = 3 -> [container_id |-> 3, sensors |-> c.sensors]
      [] c.containerId = 5 ->
            [container_id |-> 5, number |-> c.number,
             objects |-> [k \in 1..Len(c.objects) |-> ObjectToRos(c.objects[k])]]
      [] OTHER -> [container_id |-> c.containerId]

ContainerToRos(c) ==
    CASE c.containerId = 1 -> [container_id |-> 1, vehicle |-> c.vehicle]
      [] c.containerId = 2 -> [container_id |-> 2, rsu |-> MapReferenceToRos(c.mapReference[1])]
      [] c.containerId = 3 -> [container_id |-> 3, sensors |-> c.sensors]
      [] c.containerId = 4 ->
            [container_id |-> 4,
             regions |-> [k \in 1..Len(c.regions) |->
                 [fields |-> c.regions[k].fields, shape |-> ShapeToRos(c.regions[k].shape)]]]
      [] c.containerId = 5 ->
            [container_id |-> 5, number |-> c.number,
             objects |-> [k \in 1..Len(c.objects) |-> ObjectToRos(c.objects[k])]]
      [] OTHER -> [container_id |-> c.containerId]

\* Variant: what follows a container of an unknown kind is not looked at.
ContainersUpToUnknown(containers) ==
    LET stops == {k \in 1..Len(containers) : containers[k].containerId \in OtherIds}
        last == IF stops = {} THEN Len(containers)
                ELSE CHOOSE k \in stops : \A j \in stops : k <= j
    IN  [k \in 1..last |-> ContainerToRos(containers[k])]

\* A container of an unknown kind is passed on with its id alone.
ContainersToRos(containers) == [k \in 1..Len(containers) |-> ContainerToRos(containers[k])]

CpmToRos(a) == [fields |-> a.fields, containers |-> ContainersToRos(a.containers)]
=============================================================================
