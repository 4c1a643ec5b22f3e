-------------------------------- MODULE Asn1 --------------------------------
(***************************************************************************)
(* What the conversions between ASN.1 structures and ROS messages share.   *)
(* Fields that are copied one to one stand together as one value. An       *)
(* OPTIONAL member is a pointer, a sequence of at most one element; a ROS  *)
(* message has no pointers, its fields start with a default.               *)
(***************************************************************************)
EXTENDS Integers, Sequences

CONSTANTS
    Values,         \* values of the fields
    Default,        \* what a ROS field holds that is never set
    UNAVAILABLE     \* PathDeltaTime::UNAVAILABLE

ASSUME Asn1Assumption == Default \in Values /\ UNAVAILABLE \in Values

Absent == << >>
Optional(S) == [1..0 -> S] \cup [1..1 -> S]
ValueOr(o, d) == IF o = Absent THEN d ELSE o[1]

---------------------------------------------------------------------------
\* An octet is the set of its bits that are 1, bit 7 the most significant.
\* The first bit of an ASN.1 bit string is bit 7 of its first octet.
Octet == SUBSET (0..7)

SwapNibbles(byte) ==
    {b - 4 : b \in byte \cap {4, 5, 6, 7}} \cup {b + 4 : b \in byte \cap {0, 1, 2, 3}}
SwapPairs(byte) ==
    {b - 2 : b \in byte \cap {2, 3, 6, 7}} \cup {b + 2 : b \in byte \cap {0, 1, 4, 5}}
SwapBits(byte) ==
    {b - 1 : b \in byte \cap {1, 3, 5, 7}} \cup {b + 1 : b \in byte \cap {0, 2, 4, 6}}

\* Variant: one of the three swaps is missing, which a second call undoes.
reverse_byte_NoPairs(byte) == SwapBits(SwapNibbles(byte))

reverse_byte(byte) == SwapBits(SwapPairs(SwapNibbles(byte)))

---------------------------------------------------------------------------
PathPoint == [position : Values, deltaTime : Optional(Values)]
RosPathPoint == [position : Values, delta_time : Values]

PathToRos(path) ==
    [k \in 1..Len(path) |->
        [position |-> path[k].position,
         delta_time |-> ValueOr(path[k].deltaTime, UNAVAILABLE)]]

\* Variant: a missing time goes out as a value.
DeltaTimeAlways(t) == <<t>>

DeltaTimeToAsn1(t) == IF t = UNAVAILABLE THEN Absent ELSE <<t>>

PathToAsn1(points) ==
    [k \in 1..Len(points) |->
        [position |-> points[k].position,
         deltaTime |-> DeltaTimeToAsn1(points[k].delta_time)]]
=============================================================================
