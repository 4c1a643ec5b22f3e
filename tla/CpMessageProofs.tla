--------------------------- MODULE CpMessageProofs ---------------------------
(***************************************************************************)
(* Theorems about CpMessage, for lists of any length and any number of     *)
(* CPMs.                                                                   *)
(***************************************************************************)
EXTENDS CpMessage, SequenceTheorems, TLAPS

Object == [hasAge : BOOLEAN, class : Classes]

\* There are station data, and a vehicle's are converted. The shared object is
\* the conversion of the object appended last (before the first: of none), and
\* so is every object of the list.
LoopInv ==
    pc = "loop" =>
        /\ cpm.station.present # "none"
        /\ cpm.station.present = "vehicle" => vehicle = VehicleOf(cpm.station)
        /\ Len(msg) <= Len(Listed(cpm))
        /\ IsConversionOf(perceived_object, Len(msg), Listed(cpm))
        /\ \A k \in 1..Len(msg) : IsConversionOf(msg[k], k, Listed(cpm))

IInv == TypeOK /\ LoopInv /\ OptionalsFromNearest

LEMMA ListedType == ASSUME NEW c \in Cpm PROVE Listed(c) \in Seq(Object)
  BY EmptySeq DEF Listed, Cpm, Object

LEMMA DefaultType == DefaultObject \in ConvertedObject
  BY DEF DefaultObject, ConvertedObject, None, StationTypes

LEMMA DefaultVehicleType == DefaultVehicle \in RosVehicle
  BY DEF DefaultVehicle, RosVehicle

\* What is taken for the originating vehicle.
LEMMA VehicleRead ==
    ASSUME NEW station \in Station, NEW v \in OriginatingVehicle(station)
    PROVE  /\ v \in RosVehicle
           /\ station.present # "none"
           /\ station.present = "vehicle" => v = VehicleOf(station)
<1>1. station.present \in {"none", "rsu", "vehicle"}
    BY DEF Station
<1>2. CASE station.present = "vehicle"
    <2>1. station.hasLength \in BOOLEAN /\ station.hasWidth \in BOOLEAN
        BY <1>2 DEF Station
    <2>2. v = VehicleOf(station)
        BY <1>2 DEF OriginatingVehicle
    <2> QED BY <1>2, <2>1, <2>2 DEF VehicleOf, RosVehicle
<1>3. CASE station.present = "rsu"
    BY <1>3 DEF OriginatingVehicle, RosVehicle
<1>4. CASE station.present = "none"
    BY <1>4 DEF OriginatingVehicle
<1> QED BY <1>1, <1>2, <1>3, <1>4

\* A place that is not in S changes nothing, one that is becomes the last.
LEMMA LastOfStep ==
    ASSUME NEW S, NEW k \in Nat, k > 0, NEW j \in Nat, LastOf(S, j, k - 1)
    PROVE  /\ k \notin S => LastOf(S, j, k)
           /\ k \in S => LastOf(S, k, k)
<1>1. k \in S => LastOf(S, k, k)
    BY DEF LastOf
<1>2. ASSUME k \notin S PROVE LastOf(S, j, k)
    <2>1. j \in (S \cap 1..k) \cup {None}
        BY DEF LastOf
    <2>2. \A i \in j+1..k : i \in j+1..k-1 \/ i = k
        OBVIOUS
    <2>3. \A i \in j+1..k : i \notin S
        BY <1>2, <2>2 DEF LastOf
    <2> QED BY <2>1, <2>3 DEF LastOf
<1> QED BY <1>1, <1>2

LEMMA StationTypeOfClass == \A class \in Classes : Classify(class) \subseteq StationTypes
  BY DEF Classify, StationTypes

\* Before the first iteration the shared object is the conversion of nothing.
LEMMA ConversionStarts == ASSUME NEW objects PROVE IsConversionOf(DefaultObject, 0, objects)
  BY DEF DefaultObject, IsConversionOf, LastOf, None

\* One iteration of the loop.
LEMMA ConversionStep ==
    ASSUME NEW objects \in Seq(Object), NEW k \in 1..Len(objects),
           NEW shared \in ConvertedObject, IsConversionOf(shared, k - 1, objects),
           NEW o \in ConvertObject(shared, k, objects[k])
    PROVE  o \in ConvertedObject /\ IsConversionOf(o, k, objects)
<1> DEFINE object == objects[k]
<1>1. object \in Object
    OBVIOUS
<1>2. object.class \in Classes
    BY <1>1 DEF Object
<1>3. k \in Nat /\ k > 0
    OBVIOUS
<1>4. /\ shared.age \in Nat /\ shared.classifiedBy \in Nat
      /\ shared.class \in StationTypes
    BY DEF ConvertedObject
<1>5. /\ o = [id |-> k, age |-> o.age, classifiedBy |-> o.classifiedBy, class |-> o.class]
      /\ o.id = k
      /\ object.hasAge => o.age = k
      /\ ~object.hasAge => o.age = shared.age
      /\ object.class = Unclassified =>
            o.classifiedBy = shared.classifiedBy /\ o.class = shared.class
      /\ object.class # Unclassified =>
            o.classifiedBy = k /\ o.class \in Classify(object.class)
    BY DEF ConvertObject
<1>6. /\ k \in Aged(objects) <=> object.hasAge
      /\ k \in Classified(objects) <=> object.class # Unclassified
    BY DEF Aged, Classified
<1> HIDE DEF object
<1>7. o.age \in Nat /\ LastOf(Aged(objects), o.age, k)
    <2>1. LastOf(Aged(objects), shared.age, k - 1)
        BY DEF IsConversionOf
    <2> QED BY <1>3, <1>4, <1>5, <1>6, <2>1, LastOfStep
<1>8. o.classifiedBy \in Nat /\ LastOf(Classified(objects), o.classifiedBy, k)
    <2>1. LastOf(Classified(objects), shared.classifiedBy, k - 1)
        BY DEF IsConversionOf
    <2> QED BY <1>3, <1>4, <1>5, <1>6, <2>1, LastOfStep
<1>9. o.class \in StationTypes
    BY <1>2, <1>4, <1>5, StationTypeOfClass
<1>10. o \in ConvertedObject
    <2> DEFINE a == o.age  b == o.classifiedBy  c == o.class
    <2>1. o = [id |-> k, age |-> a, classifiedBy |-> b, class |-> c]
        BY <1>5
    <2>2. a \in Nat /\ b \in Nat /\ c \in StationTypes
        BY <1>7, <1>8, <1>9
    <2> HIDE DEF a, b, c
    <2> QED BY <1>3, <2>1, <2>2 DEF ConvertedObject
<1>11. IF o.classifiedBy = None THEN o.class = UNKNOWN
       ELSE o.class \in Classify(objects[o.classifiedBy].class)
    <2>1. CASE object.class = Unclassified
        BY <1>5, <2>1 DEF IsConversionOf
    <2>2. CASE object.class # Unclassified
        BY <1>3, <1>5, <2>2 DEF object, None
    <2> QED BY <2>1, <2>2
<1> QED BY <1>5, <1>7, <1>8, <1>10, <1>11 DEF IsConversionOf

LEMMA InvInit == Init => IInv
<1> SUFFICES ASSUME Init PROVE IInv
    OBVIOUS
<1>1. NoCpm \in Cpm
    BY EmptySeq DEF NoCpm, Cpm, Station
<1>2. TypeOK
    BY <1>1, DefaultType, DefaultVehicleType, EmptySeq DEF Init, TypeOK
<1> QED BY <1>2 DEF Init, IInv, LoopInv, OptionalsFromNearest

LEMMA ConvertContainersKeeps ==
    ASSUME IInv, NEW c \in Cpms, ConvertContainers(c) PROVE IInv'
<1>1. c \in Cpm /\ c.station \in Station
    BY CpMessageAssumption DEF Cpm
<1>2. /\ pc' \in {"loop", "crashed"} /\ vehicle' \in RosVehicle
      /\ pc' = "loop" =>
            /\ c.station.present # "none"
            /\ c.station.present = "vehicle" => vehicle' = VehicleOf(c.station)
    BY <1>1, VehicleRead, DefaultVehicleType DEF ConvertContainers
<1>3. TypeOK'
    BY <1>1, <1>2, DefaultType, EmptySeq
    DEF IInv, TypeOK, ConvertContainers, SharedObject
<1>4. Len(msg') = 0 /\ perceived_object' = DefaultObject
    BY EmptySeq DEF ConvertContainers, SharedObject
<1>5. Listed(c) \in Seq(Object) /\ Listed(cpm') = Listed(c) /\ cpm' = c
    BY <1>1, ListedType DEF ConvertContainers
<1>6. LoopInv'
    BY <1>2, <1>4, <1>5, ConversionStarts DEF LoopInv
<1>7. OptionalsFromNearest'
    BY DEF IInv, OptionalsFromNearest, ConvertContainers
<1> QED BY <1>3, <1>6, <1>7 DEF IInv

LEMMA ConvertNextObjectKeeps == ASSUME IInv, ConvertNextObject PROVE IInv'
<1> DEFINE objects == Listed(cpm)  k == Len(msg) + 1  o == perceived_object'
<1>1. /\ cpm \in Cpm /\ msg \in Seq(ConvertedObject)
      /\ perceived_object \in ConvertedObject
    BY DEF IInv, TypeOK
<1>2. objects \in Seq(Object) /\ k \in 1..Len(objects)
    BY <1>1, ListedType DEF ConvertNextObject
<1>3. /\ pc = "loop" /\ UNCHANGED <<pc, cpm, vehicle, converted>>
      /\ o \in ConvertObject(perceived_object, k, objects[k])
      /\ msg' = Append(msg, o)
    BY DEF ConvertNextObject
<1>4. /\ IsConversionOf(perceived_object, k - 1, objects)
      /\ \A n \in 1..Len(msg) : IsConversionOf(msg[n], n, objects)
      /\ cpm.station.present # "none"
      /\ cpm.station.present = "vehicle" => vehicle = VehicleOf(cpm.station)
    BY <1>1, <1>3 DEF IInv, LoopInv
<1>5. /\ Len(msg') = k
      /\ msg'[k] = o
      /\ \A n \in 1..Len(msg) : msg'[n] = msg[n]
    BY <1>1, <1>3, AppendProperties
<1>6. objects' = objects
    BY <1>3 DEF Listed
<1>7. k \in Nat /\ \A n \in 1..k : n \in 1..Len(msg) \/ n = k
    BY <1>1
<1> HIDE DEF objects, k, o
<1>8. o \in ConvertedObject /\ IsConversionOf(o, k, objects)
    BY <1>1, <1>2, <1>3, <1>4, ConversionStep
<1>9. TypeOK'
    <2>1. msg' \in Seq(ConvertedObject)
        BY <1>1, <1>3, <1>8, AppendProperties
    <2> QED BY <1>3, <1>8, <2>1 DEF IInv, TypeOK, o
<1>10. k <= Len(objects)
    BY <1>2, <1>7
<1>11. \A n \in 1..k : IsConversionOf(msg'[n], n, objects)
    BY <1>4, <1>5, <1>7, <1>8
<1>12. LoopInv'
    BY <1>3, <1>4, <1>5, <1>6, <1>8, <1>10, <1>11 DEF LoopInv, o, objects
<1>13. OptionalsFromNearest'
    BY <1>3 DEF IInv, OptionalsFromNearest
<1> QED BY <1>9, <1>12, <1>13 DEF IInv

LEMMA ReturnMessageKeeps == ASSUME IInv, ReturnMessage PROVE IInv'
<1> DEFINE r == [cpm |-> cpm, vehicle |-> vehicle, msg |-> msg]
           Conversions == [cpm : Cpm, vehicle : RosVehicle, msg : Seq(ConvertedObject)]
<1>1. /\ r \in Conversions /\ r.cpm = cpm /\ r.vehicle = vehicle /\ r.msg = msg
      /\ converted \in Seq(Conversions)
    BY DEF IInv, TypeOK
<1>2. /\ converted' = Append(converted, r)
      /\ pc = "loop" /\ pc' = "idle"
      /\ Len(msg) = Len(Listed(cpm))
      /\ UNCHANGED <<cpm, vehicle, perceived_object, msg>>
    BY DEF ReturnMessage
<1> HIDE DEF r, Conversions
<1>3. /\ converted' \in Seq(Conversions)
      /\ Len(converted') = Len(converted) + 1
      /\ converted'[Len(converted) + 1] = r
      /\ \A n \in 1..Len(converted) : converted'[n] = converted[n]
    BY <1>1, <1>2, AppendProperties
<1>4. TypeOK'
    BY <1>2, <1>3 DEF IInv, TypeOK, Conversions
<1>5. /\ \A k \in 1..Len(r.msg) : IsConversionOf(r.msg[k], k, Listed(r.cpm))
      /\ r.cpm.station.present # "none"
      /\ r.cpm.station.present = "vehicle" => r.vehicle = VehicleOf(r.cpm.station)
    BY <1>1, <1>2 DEF IInv, LoopInv
<1>6. \A n \in 1..Len(converted') : n \in 1..Len(converted) \/ n = Len(converted) + 1
    BY <1>1, <1>3
<1>7. OptionalsFromNearest'
    <2> SUFFICES ASSUME NEW n \in 1..Len(converted')
                 PROVE  /\ converted'[n].cpm.station.present # "none"
                        /\ converted'[n].cpm.station.present = "vehicle" =>
                              converted'[n].vehicle = VehicleOf(converted'[n].cpm.station)
                        /\ Len(converted'[n].msg) = Len(Listed(converted'[n].cpm))
                        /\ \A k \in 1..Len(converted'[n].msg) :
                              IsConversionOf(converted'[n].msg[k], k, Listed(converted'[n].cpm))
        BY DEF OptionalsFromNearest
    <2>1. CASE n \in 1..Len(converted)
        BY <1>3, <2>1 DEF IInv, OptionalsFromNearest
    <2>2. CASE n = Len(converted) + 1
        BY <1>1, <1>2, <1>3, <1>5, <2>2
    <2> QED BY <1>6, <2>1, <2>2
<1>8. LoopInv'
    BY <1>2 DEF LoopInv
<1> QED BY <1>4, <1>7, <1>8 DEF IInv

LEMMA Invariant == Spec => []IInv
<1>1. IInv /\ [Next]_vars => IInv'
    <2> SUFFICES ASSUME IInv, [Next]_vars PROVE IInv'
        OBVIOUS
    <2>1. CASE UNCHANGED vars
        BY <2>1 DEF vars, IInv, TypeOK, LoopInv, OptionalsFromNearest
    <2> QED
        BY <2>1, ConvertContainersKeeps, ConvertNextObjectKeeps, ReturnMessageKeeps DEF Next
<1> QED BY <1>1, InvInit, PTL DEF Spec

\* Every variable of the conversion keeps its type.
THEOREM TypeCorrect == Spec => []TypeOK
  BY Invariant, PTL DEF IInv

\* In every converted CPM, however long its list, the optional values of an
\* object are its own or those of the nearest object before it that has them,
\* and never those of an earlier CPM.
THEOREM ConversionCorrect == Spec => []OptionalsFromNearest
  BY Invariant, PTL DEF IInv

---------------------------------------------------------------------------
\* An object that has no age, behind one that has.
AgelessBehindAged(objects, k) == k \notin Aged(objects) /\ \E i \in 1..k : i \in Aged(objects)

LEMMA OwnAge ==
    ASSUME NEW objects, NEW k \in Nat, k > 0, NEW a \in Nat, LastOf(Aged(objects), a, k)
    PROVE  a \in {None, k} <=> ~AgelessBehindAged(objects, k)
<1>1. /\ a = 0 \/ (a \in Aged(objects) /\ a \in 1..k)
      /\ \A i \in a+1..k : i \notin Aged(objects)
    BY DEF LastOf, None
<1>2. CASE a = 0
    BY <1>1, <1>2 DEF AgelessBehindAged, None
<1>3. CASE a # 0 /\ a = k
    BY <1>1, <1>3 DEF AgelessBehindAged
<1>4. CASE a # 0 /\ a # k
    <2>1. k \in a+1..k
        BY <1>1, <1>4
    <2> QED BY <1>1, <1>4, <2>1 DEF AgelessBehindAged, None
<1> QED BY <1>2, <1>3, <1>4

AgeIsOwnUnlessBehind ==
    AgeIsOwn <=> \A n \in 1..Len(converted) : \A k \in 1..Len(converted[n].msg) :
                     ~AgelessBehindAged(Listed(converted[n].cpm), k)

\* When a converted object has an age that is not its own: exactly when it has
\* none and an object before it in the list has. Nothing else brings a foreign
\* age in, no earlier CPM and no value of another field.
THEOREM AgeExactly == Spec => []AgeIsOwnUnlessBehind
<1>1. ASSUME IInv, NEW n \in 1..Len(converted), NEW k \in 1..Len(converted[n].msg)
      PROVE  converted[n].msg[k].age \in {None, k}
                <=> ~AgelessBehindAged(Listed(converted[n].cpm), k)
    <2> DEFINE o == converted[n].msg[k]  objects == Listed(converted[n].cpm)
    <2>1. converted[n] \in [cpm : Cpm, vehicle : RosVehicle, msg : Seq(ConvertedObject)]
        <3> DEFINE Conversions == [cpm : Cpm, vehicle : RosVehicle, msg : Seq(ConvertedObject)]
        <3>1. converted \in Seq(Conversions)
            BY <1>1 DEF IInv, TypeOK
        <3> HIDE DEF Conversions
        <3>2. converted[n] \in Conversions
            BY <1>1, <3>1
        <3> QED BY <3>2 DEF Conversions
    <2>2. o \in ConvertedObject
        BY <2>1
    <2>3. LastOf(Aged(objects), o.age, k)
        BY <1>1 DEF IInv, OptionalsFromNearest, IsConversionOf
    <2>4. o.age \in Nat /\ k \in Nat /\ k > 0
        BY <2>2 DEF ConvertedObject
    <2> HIDE DEF o, objects
    <2>5. o.age \in {None, k} <=> ~AgelessBehindAged(objects, k)
        BY <2>3, <2>4, OwnAge
    <2> QED BY <2>5 DEF o, objects
<1>2. IInv => AgeIsOwnUnlessBehind
    BY <1>1 DEF AgeIsOwn, AgeIsOwnUnlessBehind
<1> QED BY <1>2, Invariant, PTL

=============================================================================
