----------------------------- MODULE MCCpMessage -----------------------------
(***************************************************************************)
(* Instances of CpMessage for TLC: two CPMs in a row, with up to two       *)
(* objects of every sort, or three of them with or without an age, and     *)
(* every kind of station data with a list of one object.                   *)
(***************************************************************************)
EXTENDS CpMessage

MCVehicleTypes == {"car"}
MCOtherClasses == {"animal"}

Objects == [hasAge : BOOLEAN, class : {Person, "car", "animal", Unclassified}]
Aging == [hasAge : BOOLEAN, class : {Unclassified}]
Lists == {<< >>} \cup [1..1 -> Objects] \cup [1..2 -> Objects] \cup [1..3 -> Aging]
AVehicle == [present |-> "vehicle", hasLength |-> TRUE, hasWidth |-> FALSE]
MCCpms ==
    {[station |-> AVehicle, number |-> Len(l), objects |-> l] : l \in Lists}
    \cup {[station |-> AVehicle, number |-> 0, objects |-> l] : l \in [1..1 -> Objects]}
    \cup [station : Station, number : {1}, objects : [1..1 -> Aging]]
=============================================================================
