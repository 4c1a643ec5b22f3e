----------------------------- MODULE DenMessage -----------------------------
(***************************************************************************)
(* The conversion of a decoded DENM into its ROS message (convertDenm in   *)
(* src/den_message.cpp).                                                   *)
(***************************************************************************)
EXTENDS Asn1

\* fields: the mandatory fields but the header's messageID, and the validity,
\* for which the decoder puts its default. termination stands also for the
\* other optional fields of the management container.
EventPoint == [position : Values, quality : Values, eventDeltaTime : Optional(Values)]
Situation ==
    [eventType : Values, linkedCause : Optional(Values),
     eventHistory : Optional(Seq(EventPoint))]
DenLocation ==
    [eventSpeed : Optional(Values), eventPositionHeading : Optional(Values),
     traces : Seq(Seq(PathPoint)), roadType : Optional(Values)]
Denm ==
    [messageID : Values, fields : Values, termination : Optional(Values),
     situation : Optional(Situation), location : Optional(DenLocation),
     alacarte : Optional(Values)]

RosEventPoint == [position : Values, quality : Values]
RosSituation ==
    [event_type : Values, has_linked_cause : BOOLEAN, linked_cause : Values,
     event_history : Seq(RosEventPoint)]
RosLocation ==
    [event_speed : Values, event_position_heading : Values,
     traces : Seq(Seq(RosPathPoint)), road_type : Values]
RosDenm ==
    [message_id : Values, fields : Values, termination : Values,
     has_situation : BOOLEAN, situation : RosSituation,
     has_location : BOOLEAN, location : RosLocation]

---------------------------------------------------------------------------
\* Variant: the last event point is left out.
EventHistoryButLast(history) ==
    [k \in 1..Len(history)-1 |->
        [position |-> history[k].position, quality |-> history[k].quality]]

EventHistoryToRos(history) ==
    [k \in 1..Len(history) |->
        [position |-> history[k].position, quality |-> history[k].quality]]

SituationToRos(s) ==
    [event_type |-> s.eventType,
     has_linked_cause |-> s.linkedCause # Absent,
     linked_cause |-> ValueOr(s.linkedCause, Default),
     event_history |-> EventHistoryToRos(ValueOr(s.eventHistory, << >>))]

\* The optional fields of the location have no flags.
LocationToRos(l) ==
    [event_speed |-> ValueOr(l.eventSpeed, Default),
     event_position_heading |-> ValueOr(l.eventPositionHeading, Default),
     traces |-> [k \in 1..Len(l.traces) |-> PathToRos(l.traces[k])],
     road_type |-> ValueOr(l.roadType, Default)]

RosDefaultSituation ==
    [event_type |-> Default, has_linked_cause |-> FALSE, linked_cause |-> Default,
     event_history |-> << >>]
RosDefaultLocation ==
    [event_speed |-> Default, event_position_heading |-> Default,
     traces |-> << >>, road_type |-> Default]

\* Of the header only version and station are copied. The optional fields of
\* the management container are not, nor is the a la carte container.
DenmToRos(a) ==
    [message_id |-> Default,
     fields |-> a.fields,
     termination |-> Default,
     has_situation |-> a.situation # Absent,
     situation |-> IF a.situation = Absent THEN RosDefaultSituation
                   ELSE SituationToRos(a.situation[1]),
     has_location |-> a.location # Absent,
     location |-> IF a.location = Absent THEN RosDefaultLocation
                  ELSE LocationToRos(a.location[1])]
=============================================================================
