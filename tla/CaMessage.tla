----------------------------- MODULE CaMessage -----------------------------
(***************************************************************************)
(* The two conversions of a CAM (both called convertCam, in                *)
(* src/ca_message.cpp): of a decoded one into its ROS message, and of a    *)
(* ROS message into an ASN.1 structure to encode.                          *)
(***************************************************************************)
EXTENDS Asn1

\* The high frequency container is a vehicle's or a roadside unit's. The low
\* frequency container has one alternative (basic) and room for others; its
\* bit string of exterior lights is absent here unless it is one octet.
\* special: the special vehicle container, which stands also for the optional
\* fields of the vehicle's container that neither conversion knows.
HighFrequency == [vehicle : BOOLEAN, values : Values, accelerationControl : Optional(Octet)]
LowFrequency == [basic : BOOLEAN, role : Values, lights : Optional(Octet), path : Seq(PathPoint)]
Cam ==
    [messageID : Values, fields : Values, hf : HighFrequency,
     lf : Optional(LowFrequency), special : Optional(Values)]

RosLowFrequency == [role : Values, lights : Octet, path : Seq(RosPathPoint)]
RosCam ==
    [message_id : Values, fields : Values, hf : Values,
     has_acceleration_control : BOOLEAN, acceleration_control : Octet,
     has_low_frequency_container : BOOLEAN, lf : RosLowFrequency]

---------------------------------------------------------------------------
IsBasic(o) == o # Absent /\ o[1].basic

RosDefaultLf == [role |-> Default, lights |-> {}, path |-> << >>]

\* The message id is not copied, nor are the acceleration control and the
\* special container; a roadside unit's container leaves the default vehicle
\* in its place.
CamToRos(a) ==
    [message_id |-> Default,
     fields |-> a.fields,
     hf |-> IF a.hf.vehicle THEN a.hf.values ELSE Default,
     has_acceleration_control |-> FALSE,
     acceleration_control |-> {},
     has_low_frequency_container |-> IsBasic(a.lf),
     lf |-> IF IsBasic(a.lf)
            THEN [role |-> a.lf[1].role,
                  lights |-> IF a.lf[1].lights = Absent THEN {}
                             ELSE reverse_byte(a.lf[1].lights[1]),
                  path |-> PathToRos(a.lf[1].path)]
            ELSE RosDefaultLf]

CamToAsn1(r) ==
    [messageID |-> r.message_id,
     fields |-> r.fields,
     hf |-> [vehicle |-> TRUE, values |-> r.hf,
             accelerationControl |-> IF r.has_acceleration_control
                                     THEN <<reverse_byte(r.acceleration_control)>>
                                     ELSE Absent],
     lf |-> IF r.has_low_frequency_container
            THEN <<[basic |-> TRUE, role |-> r.lf.role,
                    lights |-> <<reverse_byte(r.lf.lights)>>,
                    path |-> PathToAsn1(r.lf.path)]>>
            ELSE Absent,
     special |-> Absent]
=============================================================================
