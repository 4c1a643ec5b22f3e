-------------------------- MODULE ConversionsProofs --------------------------
(***************************************************************************)
(* Theorems about the conversions, for every octet, lists of any length    *)
(* and any values of the fields.                                           *)
(***************************************************************************)
EXTENDS Conversions, SequenceTheorems, TLAPS

---------------------------------------------------------------------------
(* Octets, optional members and paths. *)

LEMMA Bits == 0..7 = {0, 1, 2, 3, 4, 5, 6, 7}
  OBVIOUS

\* A bit comes from its mirror image.
LEMMA ReversedBit ==
    ASSUME NEW byte \in Octet, NEW i \in 0..7
    PROVE  i \in reverse_byte(byte) <=> (7 - i) \in byte
<1> DEFINE s == SwapNibbles(byte)
           t == SwapPairs(s)
<1>1. /\ 0 \in s <=> 4 \in byte
      /\ 1 \in s <=> 5 \in byte
      /\ 2 \in s <=> 6 \in byte
      /\ 3 \in s <=> 7 \in byte
      /\ 4 \in s <=> 0 \in byte
      /\ 5 \in s <=> 1 \in byte
      /\ 6 \in s <=> 2 \in byte
      /\ 7 \in s <=> 3 \in byte
    BY DEF SwapNibbles
<1>2. /\ 0 \in t <=> 2 \in s
      /\ 1 \in t <=> 3 \in s
      /\ 2 \in t <=> 0 \in s
      /\ 3 \in t <=> 1 \in s
      /\ 4 \in t <=> 6 \in s
      /\ 5 \in t <=> 7 \in s
      /\ 6 \in t <=> 4 \in s
      /\ 7 \in t <=> 5 \in s
    <2> HIDE DEF s
    <2> QED BY DEF SwapPairs
<1>3. /\ 0 \in SwapBits(t) <=> 1 \in t
      /\ 1 \in SwapBits(t) <=> 0 \in t
      /\ 2 \in SwapBits(t) <=> 3 \in t
      /\ 3 \in SwapBits(t) <=> 2 \in t
      /\ 4 \in SwapBits(t) <=> 5 \in t
      /\ 5 \in SwapBits(t) <=> 4 \in t
      /\ 6 \in SwapBits(t) <=> 7 \in t
      /\ 7 \in SwapBits(t) <=> 6 \in t
    <2> HIDE DEF t
    <2> QED BY DEF SwapBits
<1>4. reverse_byte(byte) = SwapBits(t)
    BY DEF reverse_byte
<1> HIDE DEF s, t
<1> QED BY <1>1, <1>2, <1>3, <1>4, Bits

LEMMA ReversedType ==
    ASSUME NEW byte \in Octet
    PROVE  reverse_byte(byte) \in Octet
<1>1. \A S : SwapBits(S) \subseteq 0..7
    BY DEF SwapBits
<1> QED BY <1>1 DEF reverse_byte, Octet

\* Reversing twice gives the octet back.
LEMMA ReversedTwice ==
    ASSUME NEW byte \in Octet
    PROVE  reverse_byte(reverse_byte(byte)) = byte
<1> DEFINE once == reverse_byte(byte)
           twice == reverse_byte(once)
<1>1. once \in Octet /\ twice \in Octet
    BY ReversedType
<1>2. \A i \in 0..7 : i \in once <=> (7 - i) \in byte
    BY ReversedBit
<1>3. \A i \in 0..7 : i \in twice <=> (7 - i) \in once
    BY <1>1, ReversedBit
<1> HIDE DEF once, twice
<1>4. \A i \in 0..7 : i \in twice <=> i \in byte
    <2> TAKE i \in 0..7
    <2>1. 7 - i \in 0..7 /\ 7 - (7 - i) = i
        OBVIOUS
    <2> QED BY <1>2, <1>3, <2>1
<1>5. twice = byte
    BY <1>1, <1>4, Zenon DEF Octet
<1> QED BY <1>5 DEF twice, once

\* No light is on in a string without lights.
LEMMA ReversedNone == reverse_byte({}) = {} /\ {} \in Octet
  BY DEF reverse_byte, SwapBits, SwapPairs, SwapNibbles, Octet

LEMMA AsSequence ==
    ASSUME NEW S, NEW n \in Nat, NEW s \in [1..n -> S]
    PROVE  s \in Seq(S) /\ Len(s) = n
<1>1. s \in Seq(S)
    OBVIOUS
<1>2. Len(s) \in Nat /\ 1..Len(s) = 1..n
    BY <1>1, LenProperties
<1> QED BY <1>1, <1>2

\* What an optional member is.
LEMMA OptionalIs ==
    ASSUME NEW S
    PROVE  /\ Absent \in Optional(S)
           /\ \A x \in S : <<x>> \in Optional(S) /\ <<x>> # Absent
           /\ \A o \in Optional(S) : o # Absent => o[1] \in S /\ o = <<o[1]>>
<1>1. Absent \in [1..0 -> S]
    BY DEF Absent
<1>2. ASSUME NEW x \in S PROVE <<x>> \in [1..1 -> S] /\ <<x>> # Absent
    BY <1>2 DEF Absent
<1>3. ASSUME NEW o \in Optional(S), o # Absent PROVE o[1] \in S /\ o = <<o[1]>>
    <2>1. CASE o \in [1..0 -> S]
        <3>1. o \in Seq(S) /\ Len(o) = 0
            BY <2>1, AsSequence
        <3> QED BY <1>3, <3>1 DEF Absent
    <2>2. CASE o \in [1..1 -> S]
        <3>1. o \in Seq(S) /\ Len(o) = 1
            BY <2>2, AsSequence
        <3>2. o[1] \in S
            BY <2>2
        <3> QED BY <3>1, <3>2
    <2> QED BY <1>3, <2>1, <2>2 DEF Optional
<1> QED BY <1>1, <1>2, <1>3 DEF Optional

LEMMA ValueOrType ==
    ASSUME NEW S, NEW o \in Optional(S), NEW d \in S
    PROVE  ValueOr(o, d) \in S
  BY OptionalIs DEF ValueOr

\* The path of a ROS message, point by point.
LEMMA PathToRosIs ==
    ASSUME NEW path \in Seq(PathPoint)
    PROVE  /\ PathToRos(path) \in Seq(RosPathPoint)
           /\ Len(PathToRos(path)) = Len(path)
           /\ \A k \in 1..Len(path) :
                PathToRos(path)[k] = [position |-> path[k].position,
                                      delta_time |-> ValueOr(path[k].deltaTime, UNAVAILABLE)]
<1>1. ASSUME NEW k \in 1..Len(path)
      PROVE  [position |-> path[k].position,
              delta_time |-> ValueOr(path[k].deltaTime, UNAVAILABLE)] \in RosPathPoint
    <2>1. path[k] \in PathPoint
        OBVIOUS
    <2>2. ValueOr(path[k].deltaTime, UNAVAILABLE) \in Values
        BY <2>1, ValueOrType, Asn1Assumption DEF PathPoint
    <2> QED BY <2>1, <2>2 DEF PathPoint, RosPathPoint
<1>2. PathToRos(path) \in [1..Len(path) -> RosPathPoint] /\ Len(path) \in Nat
    BY <1>1 DEF PathToRos
<1>3. PathToRos(path) \in Seq(RosPathPoint) /\ Len(PathToRos(path)) = Len(path)
    BY <1>2, AsSequence
<1> QED BY <1>3 DEF PathToRos

LEMMA PathToAsn1Is ==
    ASSUME NEW points \in Seq(RosPathPoint)
    PROVE  /\ PathToAsn1(points) \in Seq(PathPoint)
           /\ Len(PathToAsn1(points)) = Len(points)
           /\ \A k \in 1..Len(points) :
                PathToAsn1(points)[k] = [position |-> points[k].position,
                                         deltaTime |-> DeltaTimeToAsn1(points[k].delta_time)]
<1>1. ASSUME NEW k \in 1..Len(points)
      PROVE  [position |-> points[k].position,
              deltaTime |-> DeltaTimeToAsn1(points[k].delta_time)] \in PathPoint
    <2>1. points[k] \in RosPathPoint
        OBVIOUS
    <2>2. DeltaTimeToAsn1(points[k].delta_time) \in Optional(Values)
        BY <2>1, OptionalIs DEF DeltaTimeToAsn1, RosPathPoint
    <2> QED BY <2>1, <2>2 DEF PathPoint, RosPathPoint
<1>2. PathToAsn1(points) \in [1..Len(points) -> PathPoint] /\ Len(points) \in Nat
    BY <1>1 DEF PathToAsn1
<1>3. PathToAsn1(points) \in Seq(PathPoint) /\ Len(PathToAsn1(points)) = Len(points)
    BY <1>2, AsSequence
<1> QED BY <1>3 DEF PathToAsn1

\* A path that is sent on: the times that a value cannot tell from none are
\* absent.
PathSentOn(path) ==
    [k \in 1..Len(path) |->
        IF path[k].deltaTime = <<UNAVAILABLE>>
        THEN [path[k] EXCEPT !.deltaTime = Absent]
        ELSE path[k]]

\* A point there and back.
LEMMA PointSentOn ==
    ASSUME NEW p \in PathPoint
    PROVE  LET t == ValueOr(p.deltaTime, UNAVAILABLE)
               q == IF p.deltaTime = <<UNAVAILABLE>>
                    THEN [p EXCEPT !.deltaTime = Absent] ELSE p
           IN  /\ [position |-> p.position, deltaTime |-> DeltaTimeToAsn1(t)] = q
               /\ q.position = p.position
               /\ ValueOr(q.deltaTime, UNAVAILABLE) = t
<1> DEFINE t == ValueOr(p.deltaTime, UNAVAILABLE)
           q == IF p.deltaTime = <<UNAVAILABLE>>
                THEN [p EXCEPT !.deltaTime = Absent] ELSE p
<1>1. /\ p = [position |-> p.position, deltaTime |-> p.deltaTime]
      /\ p.deltaTime \in Optional(Values)
    BY DEF PathPoint
<1>2. CASE p.deltaTime = Absent
    <2>1. p.deltaTime # <<UNAVAILABLE>>
        BY <1>2, OptionalIs, Asn1Assumption
    <2>2. DeltaTimeToAsn1(t) = Absent
        BY <1>2 DEF ValueOr, DeltaTimeToAsn1
    <2> QED BY <1>1, <1>2, <2>1, <2>2
<1>3. CASE p.deltaTime # Absent
    <2>1. p.deltaTime = <<p.deltaTime[1]>> /\ t = p.deltaTime[1]
        BY <1>1, <1>3, OptionalIs DEF ValueOr
    <2>2. CASE t = UNAVAILABLE
        <3>1. DeltaTimeToAsn1(t) = Absent /\ p.deltaTime = <<UNAVAILABLE>>
            BY <2>1, <2>2 DEF DeltaTimeToAsn1
        <3>2. q = [position |-> p.position, deltaTime |-> Absent]
            BY <1>1, <3>1
        <3> QED BY <2>2, <3>1, <3>2 DEF ValueOr
    <2>3. CASE t # UNAVAILABLE
        <3>1. DeltaTimeToAsn1(t) = p.deltaTime
            BY <2>1, <2>3 DEF DeltaTimeToAsn1
        <3>2. p.deltaTime # <<UNAVAILABLE>>
            <4>1. <<UNAVAILABLE>>[1] = UNAVAILABLE
                OBVIOUS
            <4> QED BY <2>1, <2>3, <4>1
        <3> QED BY <1>1, <3>1, <3>2
    <2> QED BY <2>2, <2>3
<1> QED BY <1>2, <1>3

LEMMA PathAgain ==
    ASSUME NEW path \in Seq(PathPoint)
    PROVE  /\ PathToAsn1(PathToRos(path)) = PathSentOn(path)
           /\ PathToRos(PathSentOn(path)) = PathToRos(path)
<1> DEFINE ros == PathToRos(path)
           sent == PathToAsn1(ros)
           again == PathToRos(sent)
           n == Len(path)
<1>1. /\ ros \in Seq(RosPathPoint) /\ Len(ros) = n /\ n \in Nat
      /\ \A k \in 1..n : ros[k] = [position |-> path[k].position,
                                   delta_time |-> ValueOr(path[k].deltaTime, UNAVAILABLE)]
    BY PathToRosIs
<1>2. /\ sent \in Seq(PathPoint) /\ Len(sent) = n
      /\ \A k \in 1..n : sent[k] = [position |-> ros[k].position,
                                    deltaTime |-> DeltaTimeToAsn1(ros[k].delta_time)]
    <2> HIDE DEF ros, n
    <2> QED BY <1>1, PathToAsn1Is
<1>3. /\ again \in Seq(RosPathPoint) /\ Len(again) = n
      /\ \A k \in 1..n : again[k] = [position |-> sent[k].position,
                                     delta_time |-> ValueOr(sent[k].deltaTime, UNAVAILABLE)]
    <2> HIDE DEF sent, n
    <2> QED BY <1>2, PathToRosIs
<1> HIDE DEF ros, sent, again
<1>4. ASSUME NEW k \in 1..n
      PROVE  sent[k] = PathSentOn(path)[k] /\ again[k] = ros[k]
    <2>1. path[k] \in PathPoint
        OBVIOUS
    <2>2. PathSentOn(path)[k] =
            IF path[k].deltaTime = <<UNAVAILABLE>>
            THEN [path[k] EXCEPT !.deltaTime = Absent] ELSE path[k]
        BY DEF PathSentOn
    <2>3. sent[k] = [position |-> path[k].position,
                     deltaTime |-> DeltaTimeToAsn1(ValueOr(path[k].deltaTime, UNAVAILABLE))]
        <3> HIDE DEF n
        <3>0. ros[k] = [position |-> path[k].position,
                        delta_time |-> ValueOr(path[k].deltaTime, UNAVAILABLE)]
            BY <1>1, Zenon
        <3>1. /\ ros[k].position = path[k].position
              /\ ros[k].delta_time = ValueOr(path[k].deltaTime, UNAVAILABLE)
            BY <3>0
        <3>2. sent[k] = [position |-> ros[k].position,
                         deltaTime |-> DeltaTimeToAsn1(ros[k].delta_time)]
            BY <1>2, Zenon
        <3> QED BY <3>1, <3>2, Zenon
    <2>4. sent[k] = PathSentOn(path)[k]
        BY <2>1, <2>2, <2>3, PointSentOn
    <2>5. /\ PathSentOn(path)[k].position = path[k].position
          /\ ValueOr(PathSentOn(path)[k].deltaTime, UNAVAILABLE)
                = ValueOr(path[k].deltaTime, UNAVAILABLE)
        BY <2>1, <2>2, PointSentOn
    <2> QED BY <1>1, <1>3, <2>4, <2>5
<1>5. DOMAIN PathSentOn(path) = 1..n
    BY DEF PathSentOn
<1>6. sent = PathSentOn(path)
    <2> DEFINE on == PathSentOn(path)
    <2>1. sent = [k \in 1..n |-> sent[k]]
        BY <1>2
    <2>2. on = [k \in 1..n |-> on[k]]
        BY DEF PathSentOn
    <2>3. \A k \in 1..n : sent[k] = on[k]
        BY <1>4
    <2> HIDE DEF on
    <2>4. sent = on
        BY <2>1, <2>2, <2>3
    <2> QED BY <2>4 DEF on
<1>7. again = ros
    <2>1. again = [k \in 1..n |-> again[k]] /\ ros = [k \in 1..n |-> ros[k]]
        BY <1>1, <1>3
    <2> QED BY <1>4, <2>1
<1> QED BY <1>6, <1>7 DEF ros, sent, again

---------------------------------------------------------------------------
(* CAMs. *)

\* The low frequency containers that the two conversions make.
LfToRos(l) ==
    [role |-> l.role,
     lights |-> IF l.lights = Absent THEN {} ELSE reverse_byte(l.lights[1]),
     path |-> PathToRos(l.path)]

LfToAsn1(l) ==
    [basic |-> TRUE, role |-> l.role, lights |-> <<reverse_byte(l.lights)>>,
     path |-> PathToAsn1(l.path)]

LfSentOn(l) ==
    [basic |-> TRUE, role |-> l.role, lights |-> <<ValueOr(l.lights, {})>>,
     path |-> PathSentOn(l.path)]

LEMMA LfToRosType ==
    ASSUME NEW l \in LowFrequency
    PROVE  LfToRos(l) \in RosLowFrequency
<1>1. l.lights \in Optional(Octet) /\ l.path \in Seq(PathPoint) /\ l.role \in Values
    BY DEF LowFrequency
<1>2. (IF l.lights = Absent THEN {} ELSE reverse_byte(l.lights[1])) \in Octet
    BY <1>1, OptionalIs, ReversedType, ReversedNone
<1>3. PathToRos(l.path) \in Seq(RosPathPoint)
    BY <1>1, PathToRosIs
<1> QED BY <1>1, <1>2, <1>3 DEF LfToRos, RosLowFrequency

LEMMA LfToAsn1Type ==
    ASSUME NEW l \in RosLowFrequency
    PROVE  LfToAsn1(l) \in LowFrequency
<1>1. l.lights \in Octet /\ l.path \in Seq(RosPathPoint) /\ l.role \in Values
    BY DEF RosLowFrequency
<1>2. <<reverse_byte(l.lights)>> \in Optional(Octet)
    BY <1>1, OptionalIs, ReversedType
<1>3. PathToAsn1(l.path) \in Seq(PathPoint)
    BY <1>1, PathToAsn1Is
<1> QED BY <1>1, <1>2, <1>3 DEF LfToAsn1, LowFrequency

LEMMA LfAgain ==
    ASSUME NEW l \in LowFrequency
    PROVE  LfToAsn1(LfToRos(l)) = LfSentOn(l) /\ LfToRos(LfSentOn(l)) = LfToRos(l)
<1>1. l.lights \in Optional(Octet) /\ l.path \in Seq(PathPoint)
    BY DEF LowFrequency
<1> DEFINE octet == IF l.lights = Absent THEN {} ELSE reverse_byte(l.lights[1])
<1>2. reverse_byte(octet) = ValueOr(l.lights, {})
    <2>1. CASE l.lights = Absent
        BY <2>1, ReversedNone DEF ValueOr
    <2>2. CASE l.lights # Absent
        BY <1>1, <2>2, OptionalIs, ReversedTwice DEF ValueOr
    <2> QED BY <2>1, <2>2
<1>3. reverse_byte(ValueOr(l.lights, {})) = octet
    <2>1. CASE l.lights = Absent
        BY <2>1, ReversedNone DEF ValueOr
    <2>2. CASE l.lights # Absent
        BY <2>2 DEF ValueOr
    <2> QED BY <2>1, <2>2
<1>4. LfToRos(l) = [role |-> l.role, lights |-> octet, path |-> PathToRos(l.path)]
    BY DEF LfToRos
<1> HIDE DEF octet
<1>5. LfToAsn1(LfToRos(l)) = LfSentOn(l)
    <2>1. /\ LfToRos(l).role = l.role /\ LfToRos(l).lights = octet
          /\ LfToRos(l).path = PathToRos(l.path)
        BY <1>4
    <2>2. PathToAsn1(PathToRos(l.path)) = PathSentOn(l.path)
        BY <1>1, PathAgain
    <2> QED BY <1>2, <2>1, <2>2, Zenon DEF LfToAsn1, LfSentOn
<1>6. LfToRos(LfSentOn(l)) = LfToRos(l)
    <2> DEFINE on == LfSentOn(l)
               octets == ValueOr(l.lights, {})
    <2>1. on.role = l.role /\ on.lights = <<octets>> /\ on.path = PathSentOn(l.path)
        BY DEF LfSentOn
    <2>2. on.lights # Absent /\ on.lights[1] = octets
        BY <2>1 DEF Absent
    <2>3. PathToRos(PathSentOn(l.path)) = PathToRos(l.path)
        BY <1>1, PathAgain
    <2> HIDE DEF on
    <2>4. LfToRos(on) = [role |-> l.role, lights |-> reverse_byte(octets),
                         path |-> PathToRos(l.path)]
        BY <2>1, <2>2, <2>3, Zenon DEF LfToRos
    <2> QED BY <1>3, <1>4, <2>4 DEF on
<1> QED BY <1>5, <1>6

\* The conversions with their low frequency containers by name.
LEMMA CamToRosIs ==
    ASSUME NEW a
    PROVE  CamToRos(a) =
             [message_id |-> Default, fields |-> a.fields,
              hf |-> IF a.hf.vehicle THEN a.hf.values ELSE Default,
              has_acceleration_control |-> FALSE, acceleration_control |-> {},
              has_low_frequency_container |-> IsBasic(a.lf),
              lf |-> IF IsBasic(a.lf) THEN LfToRos(a.lf[1]) ELSE RosDefaultLf]
  BY Zenon DEF CamToRos, LfToRos

LEMMA CamToAsn1Is ==
    ASSUME NEW r
    PROVE  CamToAsn1(r) =
             [messageID |-> r.message_id, fields |-> r.fields,
              hf |-> [vehicle |-> TRUE, values |-> r.hf,
                      accelerationControl |-> IF r.has_acceleration_control
                                              THEN <<reverse_byte(r.acceleration_control)>>
                                              ELSE Absent],
              lf |-> IF r.has_low_frequency_container THEN <<LfToAsn1(r.lf)>> ELSE Absent,
              special |-> Absent]
  BY Zenon DEF CamToAsn1, LfToAsn1

LEMMA SentOnIs ==
    ASSUME NEW a
    PROVE  SentOn(a) =
             [messageID |-> Default, fields |-> a.fields,
              hf |-> [vehicle |-> TRUE, values |-> IF a.hf.vehicle THEN a.hf.values ELSE Default,
                      accelerationControl |-> Absent],
              lf |-> IF ~IsBasic(a.lf) THEN Absent ELSE <<LfSentOn(a.lf[1])>>,
              special |-> Absent]
  BY Zenon DEF SentOn, LfSentOn, PathSentOn

LEMMA CamToRosType ==
    ASSUME NEW a \in Cam
    PROVE  CamToRos(a) \in RosCam
<1>1. /\ a.fields \in Values /\ a.hf \in HighFrequency
      /\ a.lf \in Optional(LowFrequency)
    BY DEF Cam
<1>2. a.hf.vehicle \in BOOLEAN /\ a.hf.values \in Values
    BY <1>1 DEF HighFrequency
<1>3. (IF a.hf.vehicle THEN a.hf.values ELSE Default) \in Values
    BY <1>2, Asn1Assumption
<1>4. IsBasic(a.lf) \in BOOLEAN
    <2>1. CASE a.lf = Absent
        BY <2>1 DEF IsBasic
    <2>2. CASE a.lf # Absent
        <3>1. a.lf[1] \in LowFrequency
            BY <1>1, <2>2, OptionalIs
        <3> QED BY <3>1 DEF IsBasic, LowFrequency
    <2> QED BY <2>1, <2>2
<1>5. (IF IsBasic(a.lf) THEN LfToRos(a.lf[1]) ELSE RosDefaultLf) \in RosLowFrequency
    <2>1. RosDefaultLf \in RosLowFrequency
        BY ReversedNone, EmptySeq, Asn1Assumption DEF RosDefaultLf, RosLowFrequency
    <2>2. CASE IsBasic(a.lf)
        BY <1>1, <2>2, OptionalIs, LfToRosType DEF IsBasic
    <2> QED BY <2>1, <2>2
<1> HIDE DEF RosDefaultLf
<1> QED BY <1>1, <1>3, <1>4, <1>5, CamToRosIs, ReversedNone, Asn1Assumption DEF RosCam

LEMMA CamToAsn1Type ==
    ASSUME NEW r \in RosCam
    PROVE  CamToAsn1(r) \in Cam
<1>1. /\ r.message_id \in Values /\ r.fields \in Values /\ r.hf \in Values
      /\ r.acceleration_control \in Octet /\ r.lf \in RosLowFrequency
    BY DEF RosCam
<1> DEFINE control == IF r.has_acceleration_control
                      THEN <<reverse_byte(r.acceleration_control)>> ELSE Absent
           lf == IF r.has_low_frequency_container THEN <<LfToAsn1(r.lf)>> ELSE Absent
<1>2. control \in Optional(Octet)
    BY <1>1, OptionalIs, ReversedType
<1>3. lf \in Optional(LowFrequency) /\ Absent \in Optional(Values)
    BY <1>1, OptionalIs, LfToAsn1Type
<1>4. CamToAsn1(r) = [messageID |-> r.message_id, fields |-> r.fields,
                      hf |-> [vehicle |-> TRUE, values |-> r.hf,
                              accelerationControl |-> control],
                      lf |-> lf, special |-> Absent]
    BY CamToAsn1Is
<1> HIDE DEF control, lf
<1> QED BY <1>1, <1>2, <1>3, <1>4 DEF Cam, HighFrequency

\* One station more makes no difference.
LEMMA CamAgain ==
    ASSUME NEW a \in Cam
    PROVE  CamToAsn1(CamToRos(a)) = SentOn(a) /\ CamToRos(SentOn(a)) = CamToRos(a)
<1>1. a.lf # Absent => a.lf[1] \in LowFrequency
    BY OptionalIs DEF Cam
<1> DEFINE r == CamToRos(a)
           on == SentOn(a)
<1>2. /\ r.message_id = Default /\ r.fields = a.fields
      /\ r.hf = IF a.hf.vehicle THEN a.hf.values ELSE Default
      /\ r.has_acceleration_control = FALSE
      /\ r.has_low_frequency_container = IsBasic(a.lf)
      /\ r.lf = IF IsBasic(a.lf) THEN LfToRos(a.lf[1]) ELSE RosDefaultLf
    BY CamToRosIs
<1>3. /\ on.fields = a.fields
      /\ on.hf = [vehicle |-> TRUE, values |-> IF a.hf.vehicle THEN a.hf.values ELSE Default,
                  accelerationControl |-> Absent]
      /\ on.lf = IF ~IsBasic(a.lf) THEN Absent ELSE <<LfSentOn(a.lf[1])>>
    BY SentOnIs
<1> HIDE DEF r, on
<1>4. CamToAsn1(r) = on
    <2>1. IsBasic(a.lf) => LfToAsn1(LfToRos(a.lf[1])) = LfSentOn(a.lf[1])
        BY <1>1, LfAgain DEF IsBasic
    <2>2. (IF r.has_low_frequency_container THEN <<LfToAsn1(r.lf)>> ELSE Absent) = on.lf
        BY <1>2, <1>3, <2>1
    <2>3. CamToAsn1(r) =
            [messageID |-> Default, fields |-> a.fields,
             hf |-> [vehicle |-> TRUE, values |-> IF a.hf.vehicle THEN a.hf.values ELSE Default,
                     accelerationControl |-> Absent],
             lf |-> on.lf, special |-> Absent]
        BY <1>2, <2>2, CamToAsn1Is
    <2>4. on = [messageID |-> Default, fields |-> a.fields,
                hf |-> [vehicle |-> TRUE,
                        values |-> IF a.hf.vehicle THEN a.hf.values ELSE Default,
                        accelerationControl |-> Absent],
                lf |-> on.lf, special |-> Absent]
        BY <1>3, SentOnIs DEF on
    <2> QED BY <2>3, <2>4
<1>5. CamToRos(on) = r
    <2>1. IsBasic(on.lf) = IsBasic(a.lf) /\ IsBasic(a.lf) \in BOOLEAN
        <3>1. IsBasic(Absent) = FALSE
            BY DEF IsBasic
        <3>2. IsBasic(<<LfSentOn(a.lf[1])>>) = TRUE
            BY DEF IsBasic, Absent, LfSentOn
        <3>3. IsBasic(a.lf) \in BOOLEAN
            BY <1>1 DEF IsBasic, LowFrequency
        <3> QED BY <1>3, <3>1, <3>2, <3>3
    <2>2. IsBasic(a.lf) => on.lf[1] = LfSentOn(a.lf[1])
        BY <1>3
    <2>3. IsBasic(a.lf) => LfToRos(on.lf[1]) = LfToRos(a.lf[1])
        BY <1>1, <2>2, LfAgain DEF IsBasic
    <2>4. (IF on.hf.vehicle THEN on.hf.values ELSE Default)
            = IF a.hf.vehicle THEN a.hf.values ELSE Default
        BY <1>3
    <2>5. CamToRos(on) =
            [message_id |-> Default, fields |-> a.fields,
             hf |-> IF a.hf.vehicle THEN a.hf.values ELSE Default,
             has_acceleration_control |-> FALSE, acceleration_control |-> {},
             has_low_frequency_container |-> IsBasic(a.lf),
             lf |-> IF IsBasic(a.lf) THEN LfToRos(a.lf[1]) ELSE RosDefaultLf]
        <3>1. (IF IsBasic(on.lf) THEN LfToRos(on.lf[1]) ELSE RosDefaultLf)
                = IF IsBasic(a.lf) THEN LfToRos(a.lf[1]) ELSE RosDefaultLf
            BY <2>1, <2>3
        <3> QED BY <1>3, <2>1, <2>4, <3>1, CamToRosIs
    <2> QED BY <2>5, CamToRosIs DEF r
<1> QED BY <1>4, <1>5 DEF r, on

---------------------------------------------------------------------------
(* DENMs: what is told apart. *)

\* f is a function of 1..n, which a sequence of n elements is.
IsList(f, n) == f = [k \in 1..n |-> f[k]]

\* f and d are lists of m elements, g and e of n; where f and g have the same
\* element, so have d and e, and only there.
Paired(f, d, m, g, e, n) ==
    /\ m \in Nat /\ n \in Nat
    /\ IsList(f, m) /\ IsList(d, m) /\ IsList(g, n) /\ IsList(e, n)
    /\ m = n => \A k \in 1..m : f[k] = g[k] <=> d[k] = e[k]

\* Two lists are equal when their elements are.
LEMMA SameLists ==
    ASSUME NEW m \in Nat, NEW n \in Nat, NEW f, NEW g, IsList(f, m), IsList(g, n)
    PROVE  f = g <=> m = n /\ \A k \in 1..m : f[k] = g[k]
<1>1. ASSUME f = g PROVE m = n /\ \A k \in 1..m : f[k] = g[k]
    <2>1. DOMAIN f = 1..m /\ DOMAIN g = 1..n
        BY DEF IsList
    <2>2. 1..m = 1..n
        BY <1>1, <2>1
    <2> QED BY <1>1, <2>2
<1>2. ASSUME m = n, \A k \in 1..m : f[k] = g[k] PROVE f = g
    BY <1>2 DEF IsList
<1> QED BY <1>1, <1>2

LEMMA SamePairs ==
    ASSUME NEW m, NEW n, NEW f, NEW g, NEW d, NEW e, Paired(f, d, m, g, e, n)
    PROVE  f = g <=> d = e
<1>1. f = g <=> m = n /\ \A k \in 1..m : f[k] = g[k]
    BY SameLists DEF Paired
<1>2. d = e <=> m = n /\ \A k \in 1..m : d[k] = e[k]
    BY SameLists DEF Paired
<1>3. (m = n /\ \A k \in 1..m : f[k] = g[k]) <=> (m = n /\ \A k \in 1..m : d[k] = e[k])
    BY DEF Paired
<1> QED BY <1>1, <1>2, <1>3

LEMMA HistoriesTold ==
    ASSUME NEW g \in Seq(EventPoint), NEW h \in Seq(EventPoint)
    PROVE  EventHistoryToRos(g) = EventHistoryToRos(h) <=> ToldOfHistory(g) = ToldOfHistory(h)
<1> DEFINE ros(s) == EventHistoryToRos(s)
           told(s) == ToldOfHistory(s)
           m == Len(g)
           n == Len(h)
<1>1. /\ m \in Nat /\ n \in Nat
      /\ \A k \in 1..m : g[k] \in EventPoint
      /\ \A k \in 1..n : h[k] \in EventPoint
    OBVIOUS
<1>2. ASSUME NEW p \in EventPoint, NEW q \in EventPoint
      PROVE  [position |-> p.position, quality |-> p.quality]
                = [position |-> q.position, quality |-> q.quality]
             <=> [p EXCEPT !.eventDeltaTime = Absent] = [q EXCEPT !.eventDeltaTime = Absent]
    <2>1. /\ [p EXCEPT !.eventDeltaTime = Absent] =
                [position |-> p.position, quality |-> p.quality, eventDeltaTime |-> Absent]
          /\ [q EXCEPT !.eventDeltaTime = Absent] =
                [position |-> q.position, quality |-> q.quality, eventDeltaTime |-> Absent]
        BY DEF EventPoint
    <2> QED BY <2>1
<1>3. /\ IsList(ros(g), m) /\ IsList(ros(h), n)
      /\ \A k \in 1..m : ros(g)[k] = [position |-> g[k].position, quality |-> g[k].quality]
      /\ \A k \in 1..n : ros(h)[k] = [position |-> h[k].position, quality |-> h[k].quality]
    BY DEF EventHistoryToRos, IsList
<1>4. /\ IsList(told(g), m) /\ IsList(told(h), n)
      /\ \A k \in 1..m : told(g)[k] = [g[k] EXCEPT !.eventDeltaTime = Absent]
      /\ \A k \in 1..n : told(h)[k] = [h[k] EXCEPT !.eventDeltaTime = Absent]
    BY DEF ToldOfHistory, IsList
<1> HIDE DEF ros, told, m, n
<1>5. ASSUME m = n, NEW k \in 1..m
      PROVE  ros(g)[k] = ros(h)[k] <=> told(g)[k] = told(h)[k]
    <2>1. /\ ros(g)[k] = [position |-> g[k].position, quality |-> g[k].quality]
          /\ ros(h)[k] = [position |-> h[k].position, quality |-> h[k].quality]
        BY <1>3, <1>5, Zenon
    <2>2. /\ told(g)[k] = [g[k] EXCEPT !.eventDeltaTime = Absent]
          /\ told(h)[k] = [h[k] EXCEPT !.eventDeltaTime = Absent]
        BY <1>4, <1>5, Zenon
    <2>3. g[k] \in EventPoint /\ h[k] \in EventPoint
        BY <1>1, <1>5, Zenon
    <2>4. [position |-> g[k].position, quality |-> g[k].quality]
                = [position |-> h[k].position, quality |-> h[k].quality]
          <=> [g[k] EXCEPT !.eventDeltaTime = Absent] = [h[k] EXCEPT !.eventDeltaTime = Absent]
        BY <1>2, <2>3, Zenon
    <2> QED BY <2>1, <2>2, <2>4, Zenon
<1> DEFINE rosG == ros(g)  rosH == ros(h)  toldG == told(g)  toldH == told(h)
<1>6. Paired(rosG, toldG, m, rosH, toldH, n)
    BY <1>1, <1>3, <1>4, <1>5, Zenon DEF Paired
<1> HIDE DEF rosG, rosH, toldG, toldH
<1>7. rosG = rosH <=> toldG = toldH
    BY <1>6, SamePairs
<1> QED BY <1>7 DEF ros, told, rosG, rosH, toldG, toldH

LEMMA PathsTold ==
    ASSUME NEW g \in Seq(PathPoint), NEW h \in Seq(PathPoint)
    PROVE  PathToRos(g) = PathToRos(h) <=> ToldOfPath(g) = ToldOfPath(h)
<1> DEFINE ros(s) == PathToRos(s)
           told(s) == ToldOfPath(s)
           rosOf(p) == [position |-> p.position,
                        delta_time |-> ValueOr(p.deltaTime, UNAVAILABLE)]
           toldOf(p) == [p EXCEPT !.deltaTime = <<ValueOr(@, UNAVAILABLE)>>]
           m == Len(g)
           n == Len(h)
<1>1. /\ m \in Nat /\ n \in Nat
      /\ \A k \in 1..m : g[k] \in PathPoint
      /\ \A k \in 1..n : h[k] \in PathPoint
    OBVIOUS
<1>2. ASSUME NEW p \in PathPoint, NEW q \in PathPoint
      PROVE  rosOf(p) = rosOf(q) <=> toldOf(p) = toldOf(q)
    <2> DEFINE t == ValueOr(p.deltaTime, UNAVAILABLE)
               u == ValueOr(q.deltaTime, UNAVAILABLE)
    <2>1. /\ toldOf(p) = [position |-> p.position, deltaTime |-> <<t>>]
          /\ toldOf(q) = [position |-> q.position, deltaTime |-> <<u>>]
        BY DEF PathPoint
    <2>2. /\ rosOf(p) = [position |-> p.position, delta_time |-> t]
          /\ rosOf(q) = [position |-> q.position, delta_time |-> u]
        OBVIOUS
    <2> HIDE DEF t, u, rosOf, toldOf
    <2>3. rosOf(p) = rosOf(q) <=> p.position = q.position /\ t = u
        BY <2>2
    <2>4. <<t>> = <<u>> <=> t = u
        OBVIOUS
    <2>5. toldOf(p) = toldOf(q) <=> p.position = q.position /\ <<t>> = <<u>>
        BY <2>1
    <2> QED BY <2>3, <2>4, <2>5
<1>3. /\ IsList(ros(g), m) /\ IsList(ros(h), n)
      /\ \A k \in 1..m : ros(g)[k] = rosOf(g[k])
      /\ \A k \in 1..n : ros(h)[k] = rosOf(h[k])
    BY DEF PathToRos, IsList
<1>4. /\ IsList(told(g), m) /\ IsList(told(h), n)
      /\ \A k \in 1..m : told(g)[k] = toldOf(g[k])
      /\ \A k \in 1..n : told(h)[k] = toldOf(h[k])
    BY DEF ToldOfPath, IsList
<1> HIDE DEF ros, told, rosOf, toldOf, m, n
<1>5. ASSUME m = n, NEW k \in 1..m
      PROVE  ros(g)[k] = ros(h)[k] <=> told(g)[k] = told(h)[k]
    <2>1. ros(g)[k] = rosOf(g[k]) /\ ros(h)[k] = rosOf(h[k])
        BY <1>3, <1>5, Zenon
    <2>2. told(g)[k] = toldOf(g[k]) /\ told(h)[k] = toldOf(h[k])
        BY <1>4, <1>5, Zenon
    <2>3. g[k] \in PathPoint /\ h[k] \in PathPoint
        BY <1>1, <1>5, Zenon
    <2>4. rosOf(g[k]) = rosOf(h[k]) <=> toldOf(g[k]) = toldOf(h[k])
        BY <1>2, <2>3, Zenon
    <2> QED BY <2>1, <2>2, <2>4, Zenon
<1> DEFINE rosG == ros(g)  rosH == ros(h)  toldG == told(g)  toldH == told(h)
<1>6. Paired(rosG, toldG, m, rosH, toldH, n)
    BY <1>1, <1>3, <1>4, <1>5, Zenon DEF Paired
<1> HIDE DEF rosG, rosH, toldG, toldH
<1>7. rosG = rosH <=> toldG = toldH
    BY <1>6, SamePairs
<1> QED BY <1>7 DEF ros, told, rosG, rosH, toldG, toldH

LEMMA TracesTold ==
    ASSUME NEW g \in Seq(Seq(PathPoint)), NEW h \in Seq(Seq(PathPoint))
    PROVE  [k \in 1..Len(g) |-> PathToRos(g[k])] = [k \in 1..Len(h) |-> PathToRos(h[k])]
           <=> [k \in 1..Len(g) |-> ToldOfPath(g[k])] = [k \in 1..Len(h) |-> ToldOfPath(h[k])]
<1> DEFINE m == Len(g)
           n == Len(h)
           rosG == [k \in 1..m |-> PathToRos(g[k])]
           rosH == [k \in 1..n |-> PathToRos(h[k])]
           toldG == [k \in 1..m |-> ToldOfPath(g[k])]
           toldH == [k \in 1..n |-> ToldOfPath(h[k])]
<1>1. /\ m \in Nat /\ n \in Nat
      /\ \A k \in 1..m : g[k] \in Seq(PathPoint)
      /\ \A k \in 1..n : h[k] \in Seq(PathPoint)
    OBVIOUS
<1>2. /\ IsList(rosG, m) /\ IsList(rosH, n) /\ IsList(toldG, m) /\ IsList(toldH, n)
      /\ \A k \in 1..m : rosG[k] = PathToRos(g[k]) /\ toldG[k] = ToldOfPath(g[k])
      /\ \A k \in 1..n : rosH[k] = PathToRos(h[k]) /\ toldH[k] = ToldOfPath(h[k])
    BY DEF IsList
<1> HIDE DEF m, n, rosG, rosH, toldG, toldH
<1>3. ASSUME m = n, NEW k \in 1..m
      PROVE  rosG[k] = rosH[k] <=> toldG[k] = toldH[k]
    <2>1. g[k] \in Seq(PathPoint) /\ h[k] \in Seq(PathPoint)
        BY <1>1, <1>3, Zenon
    <2>2. /\ rosG[k] = PathToRos(g[k]) /\ toldG[k] = ToldOfPath(g[k])
          /\ rosH[k] = PathToRos(h[k]) /\ toldH[k] = ToldOfPath(h[k])
        BY <1>2, <1>3, Zenon
    <2>3. PathToRos(g[k]) = PathToRos(h[k]) <=> ToldOfPath(g[k]) = ToldOfPath(h[k])
        BY <2>1, PathsTold, Zenon
    <2> QED BY <2>2, <2>3, Zenon
<1>4. Paired(rosG, toldG, m, rosH, toldH, n)
    BY <1>1, <1>2, <1>3, Zenon DEF Paired
<1>5. rosG = rosH <=> toldG = toldH
    BY <1>4, SamePairs
<1> QED BY <1>5 DEF m, n, rosG, rosH, toldG, toldH

LEMMA LocationsTold ==
    ASSUME NEW g \in DenLocation, NEW h \in DenLocation
    PROVE  LocationToRos(g) = LocationToRos(h) <=> ToldOfLocation(g) = ToldOfLocation(h)
<1> DEFINE rosG == [k \in 1..Len(g.traces) |-> PathToRos(g.traces[k])]
           rosH == [k \in 1..Len(h.traces) |-> PathToRos(h.traces[k])]
           toldG == [k \in 1..Len(g.traces) |-> ToldOfPath(g.traces[k])]
           toldH == [k \in 1..Len(h.traces) |-> ToldOfPath(h.traces[k])]
<1>1. rosG = rosH <=> toldG = toldH
    BY TracesTold DEF DenLocation
<1>2. /\ LocationToRos(g) =
            [event_speed |-> ValueOr(g.eventSpeed, Default),
             event_position_heading |-> ValueOr(g.eventPositionHeading, Default),
             traces |-> rosG, road_type |-> ValueOr(g.roadType, Default)]
      /\ LocationToRos(h) =
            [event_speed |-> ValueOr(h.eventSpeed, Default),
             event_position_heading |-> ValueOr(h.eventPositionHeading, Default),
             traces |-> rosH, road_type |-> ValueOr(h.roadType, Default)]
    BY DEF LocationToRos
<1>3. /\ ToldOfLocation(g) =
            [eventSpeed |-> ValueOr(g.eventSpeed, Default),
             eventPositionHeading |-> ValueOr(g.eventPositionHeading, Default),
             roadType |-> ValueOr(g.roadType, Default), traces |-> toldG]
      /\ ToldOfLocation(h) =
            [eventSpeed |-> ValueOr(h.eventSpeed, Default),
             eventPositionHeading |-> ValueOr(h.eventPositionHeading, Default),
             roadType |-> ValueOr(h.roadType, Default), traces |-> toldH]
    BY DEF ToldOfLocation
<1> HIDE DEF rosG, rosH, toldG, toldH
<1> QED BY <1>1, <1>2, <1>3

LEMMA SituationsTold ==
    ASSUME NEW g \in Situation, NEW h \in Situation
    PROVE  SituationToRos(g) = SituationToRos(h) <=> ToldOfSituation(g) = ToldOfSituation(h)
<1> DEFINE gs == ValueOr(g.eventHistory, << >>)
           hs == ValueOr(h.eventHistory, << >>)
<1>1. /\ g.linkedCause \in Optional(Values) /\ h.linkedCause \in Optional(Values)
      /\ g.eventHistory \in Optional(Seq(EventPoint)) /\ h.eventHistory \in Optional(Seq(EventPoint))
    BY DEF Situation
<1>2. gs \in Seq(EventPoint) /\ hs \in Seq(EventPoint)
    <2>1. << >> \in Seq(EventPoint)
        BY EmptySeq
    <2> QED BY <1>1, <2>1, ValueOrType, Zenon
<1>3. EventHistoryToRos(gs) = EventHistoryToRos(hs) <=> ToldOfHistory(gs) = ToldOfHistory(hs)
    BY <1>2, HistoriesTold
<1> HIDE DEF gs, hs
<1>4. /\ ToldOfSituation(g) = [eventType |-> g.eventType, linkedCause |-> g.linkedCause,
                               eventHistory |-> <<ToldOfHistory(gs)>>]
      /\ ToldOfSituation(h) = [eventType |-> h.eventType, linkedCause |-> h.linkedCause,
                               eventHistory |-> <<ToldOfHistory(hs)>>]
    BY DEF ToldOfSituation, Situation, gs, hs
<1>5. (/\ (g.linkedCause # Absent) = (h.linkedCause # Absent)
       /\ ValueOr(g.linkedCause, Default) = ValueOr(h.linkedCause, Default))
      <=> g.linkedCause = h.linkedCause
    BY <1>1, OptionalIs DEF ValueOr
<1>6. /\ SituationToRos(g) =
            [event_type |-> g.eventType, has_linked_cause |-> g.linkedCause # Absent,
             linked_cause |-> ValueOr(g.linkedCause, Default),
             event_history |-> EventHistoryToRos(gs)]
      /\ SituationToRos(h) =
            [event_type |-> h.eventType, has_linked_cause |-> h.linkedCause # Absent,
             linked_cause |-> ValueOr(h.linkedCause, Default),
             event_history |-> EventHistoryToRos(hs)]
    BY DEF SituationToRos, gs, hs
<1>7. SituationToRos(g) = SituationToRos(h) <=>
        /\ g.eventType = h.eventType
        /\ (g.linkedCause # Absent) = (h.linkedCause # Absent)
        /\ ValueOr(g.linkedCause, Default) = ValueOr(h.linkedCause, Default)
        /\ EventHistoryToRos(gs) = EventHistoryToRos(hs)
    BY <1>6
<1>8. <<ToldOfHistory(gs)>> = <<ToldOfHistory(hs)>> <=> ToldOfHistory(gs) = ToldOfHistory(hs)
    OBVIOUS
<1>9. ToldOfSituation(g) = ToldOfSituation(h) <=>
        /\ g.eventType = h.eventType
        /\ g.linkedCause = h.linkedCause
        /\ <<ToldOfHistory(gs)>> = <<ToldOfHistory(hs)>>
    BY <1>4
<1> QED BY <1>3, <1>5, <1>7, <1>8, <1>9, Zenon

LEMMA DenmsTold ==
    ASSUME NEW a \in Denm, NEW b \in Denm
    PROVE  DenmToRos(a) = DenmToRos(b) <=> ToldOfDenm(a) = ToldOfDenm(b)
<1>1. /\ a.situation \in Optional(Situation) /\ b.situation \in Optional(Situation)
      /\ a.location \in Optional(DenLocation) /\ b.location \in Optional(DenLocation)
    BY DEF Denm
<1> DEFINE sitA == IF a.situation = Absent THEN RosDefaultSituation
                   ELSE SituationToRos(a.situation[1])
           sitB == IF b.situation = Absent THEN RosDefaultSituation
                   ELSE SituationToRos(b.situation[1])
           toldSitA == IF a.situation = Absent THEN Absent
                       ELSE <<ToldOfSituation(a.situation[1])>>
           toldSitB == IF b.situation = Absent THEN Absent
                       ELSE <<ToldOfSituation(b.situation[1])>>
           locA == IF a.location = Absent THEN RosDefaultLocation
                   ELSE LocationToRos(a.location[1])
           locB == IF b.location = Absent THEN RosDefaultLocation
                   ELSE LocationToRos(b.location[1])
           toldLocA == IF a.location = Absent THEN Absent
                       ELSE <<ToldOfLocation(a.location[1])>>
           toldLocB == IF b.location = Absent THEN Absent
                       ELSE <<ToldOfLocation(b.location[1])>>
<1>2. (a.situation # Absent) = (b.situation # Absent) /\ sitA = sitB <=> toldSitA = toldSitB
    <2>1. CASE a.situation = Absent \/ b.situation = Absent
        <3>1. \A x : <<x>> # Absent
            BY DEF Absent
        <3> QED BY <2>1, <3>1
    <2>2. CASE a.situation # Absent /\ b.situation # Absent
        <3>1. a.situation[1] \in Situation /\ b.situation[1] \in Situation
            BY <1>1, <2>2, OptionalIs
        <3>2. sitA = sitB <=> ToldOfSituation(a.situation[1]) = ToldOfSituation(b.situation[1])
            BY <2>2, <3>1, SituationsTold
        <3>3. toldSitA = toldSitB
                <=> ToldOfSituation(a.situation[1]) = ToldOfSituation(b.situation[1])
            BY <2>2
        <3> QED BY <2>2, <3>2, <3>3
    <2> QED BY <2>1, <2>2
<1>3. (a.location # Absent) = (b.location # Absent) /\ locA = locB <=> toldLocA = toldLocB
    <2>1. CASE a.location = Absent \/ b.location = Absent
        <3>1. \A x : <<x>> # Absent
            BY DEF Absent
        <3> QED BY <2>1, <3>1
    <2>2. CASE a.location # Absent /\ b.location # Absent
        <3>1. a.location[1] \in DenLocation /\ b.location[1] \in DenLocation
            BY <1>1, <2>2, OptionalIs
        <3>2. locA = locB <=> ToldOfLocation(a.location[1]) = ToldOfLocation(b.location[1])
            BY <2>2, <3>1, LocationsTold
        <3>3. toldLocA = toldLocB
                <=> ToldOfLocation(a.location[1]) = ToldOfLocation(b.location[1])
            BY <2>2
        <3> QED BY <2>2, <3>2, <3>3
    <2> QED BY <2>1, <2>2
<1>4. /\ DenmToRos(a) = [message_id |-> Default, fields |-> a.fields, termination |-> Default,
                         has_situation |-> a.situation # Absent, situation |-> sitA,
                         has_location |-> a.location # Absent, location |-> locA]
      /\ DenmToRos(b) = [message_id |-> Default, fields |-> b.fields, termination |-> Default,
                         has_situation |-> b.situation # Absent, situation |-> sitB,
                         has_location |-> b.location # Absent, location |-> locB]
    BY Zenon DEF DenmToRos
<1>5. /\ ToldOfDenm(a) = [fields |-> a.fields, situation |-> toldSitA, location |-> toldLocA]
      /\ ToldOfDenm(b) = [fields |-> b.fields, situation |-> toldSitB, location |-> toldLocB]
    BY Zenon DEF ToldOfDenm
<1> HIDE DEF sitA, sitB, toldSitA, toldSitB, locA, locB, toldLocA, toldLocB
<1>6. DenmToRos(a) = DenmToRos(b) <=>
        /\ a.fields = b.fields
        /\ (a.situation # Absent) = (b.situation # Absent) /\ sitA = sitB
        /\ (a.location # Absent) = (b.location # Absent) /\ locA = locB
    BY <1>4
<1>7. ToldOfDenm(a) = ToldOfDenm(b) <=>
        a.fields = b.fields /\ toldSitA = toldSitB /\ toldLocA = toldLocB
    BY <1>5
<1> QED BY <1>2, <1>3, <1>6, <1>7, Zenon

---------------------------------------------------------------------------
(* CPMs: what is told apart. *)

\* A flag and a value tell an optional member.
LEMMA OptionalTold ==
    ASSUME NEW S, NEW o \in Optional(S), NEW u \in Optional(S), NEW d
    PROVE  (o # Absent) = (u # Absent) /\ ValueOr(o, d) = ValueOr(u, d) <=> o = u
  BY OptionalIs DEF ValueOr

LEMMA SequenceIsList ==
    ASSUME NEW S, NEW s \in Seq(S)
    PROVE  Len(s) \in Nat /\ IsList(s, Len(s)) /\ \A k \in 1..Len(s) : s[k] \in S
  BY DEF IsList

LEMMA VerticesTold ==
    ASSUME NEW v \in Vertex, NEW w \in Vertex
    PROVE  VertexToRos(v) = VertexToRos(w) <=> v = w
<1>1. (v.zCoordinate # Absent) = (w.zCoordinate # Absent)
        /\ ValueOr(v.zCoordinate, Default) = ValueOr(w.zCoordinate, Default)
      <=> v.zCoordinate = w.zCoordinate
    BY OptionalTold DEF Vertex
<1>2. v = w <=> v.fields = w.fields /\ v.zCoordinate = w.zCoordinate
    BY DEF Vertex
<1>3. VertexToRos(v) = VertexToRos(w) <=>
        /\ v.fields = w.fields
        /\ (v.zCoordinate # Absent) = (w.zCoordinate # Absent)
        /\ ValueOr(v.zCoordinate, Default) = ValueOr(w.zCoordinate, Default)
    BY DEF VertexToRos
<1> QED BY <1>1, <1>2, <1>3, Zenon

LEMMA PolygonsTold ==
    ASSUME NEW g \in Seq(Vertex), NEW h \in Seq(Vertex)
    PROVE  [k \in 1..Len(g) |-> VertexToRos(g[k])] = [k \in 1..Len(h) |-> VertexToRos(h[k])]
           <=> g = h
<1> DEFINE m == Len(g)
           n == Len(h)
           rosG == [k \in 1..m |-> VertexToRos(g[k])]
           rosH == [k \in 1..n |-> VertexToRos(h[k])]
<1>1. /\ m \in Nat /\ n \in Nat /\ IsList(g, m) /\ IsList(h, n)
      /\ \A k \in 1..m : g[k] \in Vertex
      /\ \A k \in 1..n : h[k] \in Vertex
    BY SequenceIsList
<1>2. /\ IsList(rosG, m) /\ IsList(rosH, n)
      /\ \A k \in 1..m : rosG[k] = VertexToRos(g[k])
      /\ \A k \in 1..n : rosH[k] = VertexToRos(h[k])
    BY DEF IsList
<1> HIDE DEF m, n, rosG, rosH
<1>3. ASSUME m = n, NEW k \in 1..m
      PROVE  rosG[k] = rosH[k] <=> g[k] = h[k]
    <2>1. g[k] \in Vertex /\ h[k] \in Vertex
        BY <1>1, <1>3, Zenon
    <2>2. rosG[k] = VertexToRos(g[k]) /\ rosH[k] = VertexToRos(h[k])
        BY <1>2, <1>3, Zenon
    <2> QED BY <2>1, <2>2, VerticesTold, Zenon
<1>4. Paired(rosG, g, m, rosH, h, n)
    BY <1>1, <1>2, <1>3, Zenon DEF Paired
<1>5. rosG = rosH <=> g = h
    BY <1>4, SamePairs
<1> QED BY <1>5 DEF m, n, rosG, rosH

LEMMA ShapesTold ==
    ASSUME NEW s \in Shape, NEW t \in Shape
    PROVE  ShapeToRos(s) = ShapeToRos(t) <=> s = t
<1> DEFINE polygon(x) == [k \in 1..Len(x.polygon) |-> VertexToRos(x.polygon[k])]
           Simple == {"rectangular", "circular", "elliptical", "radial"}
<1>1. /\ ShapeToRos(s).choice = Shape_PR[s.present]
      /\ ShapeToRos(t).choice = Shape_PR[t.present]
    BY DEF ShapeToRos
<1>2. /\ s.present \in {"nothing", "polygonal", "radialShapes"} \cup Simple
      /\ t.present \in {"nothing", "polygonal", "radialShapes"} \cup Simple
    BY DEF Shape
<1>3. Shape_PR[s.present] = Shape_PR[t.present] <=> s.present = t.present
    BY <1>2 DEF Shape_PR
<1>4. CASE s.present # t.present
    BY <1>1, <1>3, <1>4
<1>5. CASE s.present = "nothing" /\ t.present = "nothing"
    <2>1. s = [present |-> "nothing"] /\ t = [present |-> "nothing"]
        BY <1>5 DEF Shape
    <2> QED BY <2>1
<1>6. CASE s.present \in Simple /\ s.present = t.present
    <2>1. /\ s = [present |-> s.present, dims |-> s.dims]
          /\ t = [present |-> t.present, dims |-> t.dims]
        BY <1>6 DEF Shape
    <2>2. s = t <=> s.dims = t.dims
        BY <1>6, <2>1
    <2>3. /\ ShapeToRos(s) = [choice |-> Shape_PR[s.present], dims |-> s.dims,
                              polygon |-> << >>, details |-> << >>]
          /\ ShapeToRos(t) = [choice |-> Shape_PR[s.present], dims |-> t.dims,
                              polygon |-> << >>, details |-> << >>]
        BY <1>6 DEF ShapeToRos
    <2>4. ShapeToRos(s) = ShapeToRos(t) <=> s.dims = t.dims
        BY <2>3
    <2> QED BY <2>2, <2>4
<1>7. CASE s.present = "polygonal" /\ t.present = "polygonal"
    <2>1. /\ s = [present |-> "polygonal", polygon |-> s.polygon] /\ s.polygon \in Seq(Vertex)
          /\ t = [present |-> "polygonal", polygon |-> t.polygon] /\ t.polygon \in Seq(Vertex)
        BY <1>7 DEF Shape
    <2>2. s = t <=> s.polygon = t.polygon
        BY <2>1
    <2>3. polygon(s) = polygon(t) <=> s.polygon = t.polygon
        BY <2>1, PolygonsTold
    <2>4. /\ ShapeToRos(s) = [choice |-> Shape_PR[s.present], dims |-> Default,
                              polygon |-> polygon(s), details |-> << >>]
          /\ ShapeToRos(t) = [choice |-> Shape_PR[s.present], dims |-> Default,
                              polygon |-> polygon(t), details |-> << >>]
        BY <1>7 DEF ShapeToRos
    <2> HIDE DEF polygon
    <2>5. ShapeToRos(s) = ShapeToRos(t) <=> polygon(s) = polygon(t)
        BY <2>4
    <2> QED BY <2>2, <2>3, <2>5
<1>8. CASE s.present = "radialShapes" /\ t.present = "radialShapes"
    <2>1. /\ s = [present |-> "radialShapes", dims |-> s.dims, details |-> s.details]
          /\ t = [present |-> "radialShapes", dims |-> t.dims, details |-> t.details]
        BY <1>8 DEF Shape
    <2>2. s = t <=> s.dims = t.dims /\ s.details = t.details
        BY <2>1
    <2>3. /\ ShapeToRos(s) = [choice |-> Shape_PR[s.present], dims |-> s.dims,
                              polygon |-> << >>, details |-> s.details]
          /\ ShapeToRos(t) = [choice |-> Shape_PR[s.present], dims |-> t.dims,
                              polygon |-> << >>, details |-> t.details]
        BY <1>8 DEF ShapeToRos
    <2>4. ShapeToRos(s) = ShapeToRos(t) <=> s.dims = t.dims /\ s.details = t.details
        BY <2>3
    <2> QED BY <2>2, <2>4
<1> QED BY <1>2, <1>4, <1>5, <1>6, <1>7, <1>8

LEMMA RegionsTold ==
    ASSUME NEW g \in Seq(PerceptionRegion), NEW h \in Seq(PerceptionRegion)
    PROVE  [k \in 1..Len(g) |-> [fields |-> g[k].fields, shape |-> ShapeToRos(g[k].shape)]]
             = [k \in 1..Len(h) |-> [fields |-> h[k].fields, shape |-> ShapeToRos(h[k].shape)]]
           <=> g = h
<1> DEFINE m == Len(g)
           n == Len(h)
           rosG == [k \in 1..m |-> [fields |-> g[k].fields, shape |-> ShapeToRos(g[k].shape)]]
           rosH == [k \in 1..n |-> [fields |-> h[k].fields, shape |-> ShapeToRos(h[k].shape)]]
<1>1. /\ m \in Nat /\ n \in Nat /\ IsList(g, m) /\ IsList(h, n)
      /\ \A k \in 1..m : g[k] \in PerceptionRegion
      /\ \A k \in 1..n : h[k] \in PerceptionRegion
    BY SequenceIsList
<1>2. /\ IsList(rosG, m) /\ IsList(rosH, n)
      /\ \A k \in 1..m : rosG[k] = [fields |-> g[k].fields, shape |-> ShapeToRos(g[k].shape)]
      /\ \A k \in 1..n : rosH[k] = [fields |-> h[k].fields, shape |-> ShapeToRos(h[k].shape)]
    BY DEF IsList
<1> HIDE DEF m, n, rosG, rosH
<1>3. ASSUME m = n, NEW k \in 1..m
      PROVE  rosG[k] = rosH[k] <=> g[k] = h[k]
    <2>1. g[k] \in PerceptionRegion /\ h[k] \in PerceptionRegion
        BY <1>1, <1>3, Zenon
    <2>2. /\ rosG[k] = [fields |-> g[k].fields, shape |-> ShapeToRos(g[k].shape)]
          /\ rosH[k] = [fields |-> h[k].fields, shape |-> ShapeToRos(h[k].shape)]
        BY <1>2, <1>3, Zenon
    <2>3. rosG[k] = rosH[k] <=>
            g[k].fields = h[k].fields /\ ShapeToRos(g[k].shape) = ShapeToRos(h[k].shape)
        BY <2>2
    <2>4. ShapeToRos(g[k].shape) = ShapeToRos(h[k].shape) <=> g[k].shape = h[k].shape
        BY <2>1, ShapesTold DEF PerceptionRegion
    <2>5. g[k] = h[k] <=> g[k].fields = h[k].fields /\ g[k].shape = h[k].shape
        BY <2>1 DEF PerceptionRegion
    <2> QED BY <2>3, <2>4, <2>5, Zenon
<1>4. Paired(rosG, g, m, rosH, h, n)
    BY <1>1, <1>2, <1>3, Zenon DEF Paired
<1>5. rosG = rosH <=> g = h
    BY <1>4, SamePairs
<1> QED BY <1>5 DEF m, n, rosG, rosH

LEMMA MapReferencesTold ==
    ASSUME NEW s \in MapReference, NEW t \in MapReference
    PROVE  MapReferenceToRos(s) = MapReferenceToRos(t) <=> s = t
<1>1. CASE s.present = "nothing" /\ t.present = "nothing"
    <2>1. s = [present |-> "nothing"] /\ t = [present |-> "nothing"]
        BY <1>1 DEF MapReference
    <2> QED BY <2>1
<1>2. CASE (s.present = "nothing") # (t.present = "nothing")
    <2>1. MapReferenceToRos(s).map_reference_is_present
            # MapReferenceToRos(t).map_reference_is_present
        BY <1>2 DEF MapReferenceToRos
    <2> QED BY <1>2, <2>1
<1>3. CASE s.present # "nothing" /\ t.present # "nothing"
    <2>1. /\ s = [present |-> s.present, id |-> s.id, region |-> s.region]
          /\ s.present \in {"roadsegment", "intersection"} /\ s.region \in Optional(Values)
          /\ t = [present |-> t.present, id |-> t.id, region |-> t.region]
          /\ t.present \in {"roadsegment", "intersection"} /\ t.region \in Optional(Values)
        BY <1>3 DEF MapReference
    <2>2. s = t <=> s.present = t.present /\ s.id = t.id /\ s.region = t.region
        BY <2>1
    <2>3. MapReference_PR[s.present] = MapReference_PR[t.present] <=> s.present = t.present
        BY <2>1 DEF MapReference_PR
    <2>4. (s.region # Absent) = (t.region # Absent)
            /\ ValueOr(s.region, Default) = ValueOr(t.region, Default)
          <=> s.region = t.region
        BY <2>1, OptionalTold
    <2>5. MapReferenceToRos(s) = MapReferenceToRos(t) <=>
            /\ MapReference_PR[s.present] = MapReference_PR[t.present]
            /\ s.id = t.id
            /\ (s.region # Absent) = (t.region # Absent)
            /\ ValueOr(s.region, Default) = ValueOr(t.region, Default)
        BY <1>3 DEF MapReferenceToRos
    <2> QED BY <2>2, <2>3, <2>4, <2>5, Zenon
<1> QED BY <1>1, <1>2, <1>3

LEMMA ObjectsTold ==
    ASSUME NEW g \in Seq(PerceivedObject), NEW h \in Seq(PerceivedObject)
    PROVE  [k \in 1..Len(g) |-> ObjectToRos(g[k])] = [k \in 1..Len(h) |-> ObjectToRos(h[k])]
           <=> [k \in 1..Len(g) |-> [g[k] EXCEPT !.todo = Default]]
                 = [k \in 1..Len(h) |-> [h[k] EXCEPT !.todo = Default]]
<1> DEFINE m == Len(g)
           n == Len(h)
           rosG == [k \in 1..m |-> ObjectToRos(g[k])]
           rosH == [k \in 1..n |-> ObjectToRos(h[k])]
           toldG == [k \in 1..m |-> [g[k] EXCEPT !.todo = Default]]
           toldH == [k \in 1..n |-> [h[k] EXCEPT !.todo = Default]]
<1>1. /\ m \in Nat /\ n \in Nat
      /\ \A k \in 1..m : g[k] \in PerceivedObject
      /\ \A k \in 1..n : h[k] \in PerceivedObject
    BY SequenceIsList
<1>2. /\ IsList(rosG, m) /\ IsList(rosH, n) /\ IsList(toldG, m) /\ IsList(toldH, n)
      /\ \A k \in 1..m :
            rosG[k] = ObjectToRos(g[k]) /\ toldG[k] = [g[k] EXCEPT !.todo = Default]
      /\ \A k \in 1..n :
            rosH[k] = ObjectToRos(h[k]) /\ toldH[k] = [h[k] EXCEPT !.todo = Default]
    BY DEF IsList
<1> HIDE DEF m, n, rosG, rosH, toldG, toldH
<1>3. ASSUME NEW o \in PerceivedObject, NEW u \in PerceivedObject
      PROVE  ObjectToRos(o) = ObjectToRos(u)
             <=> [o EXCEPT !.todo = Default] = [u EXCEPT !.todo = Default]
    <2>1. (o.objectId # Absent) = (u.objectId # Absent)
            /\ ValueOr(o.objectId, Default) = ValueOr(u.objectId, Default)
          <=> o.objectId = u.objectId
        BY OptionalTold DEF PerceivedObject
    <2>2. (o.zCoordinate # Absent) = (u.zCoordinate # Absent)
            /\ ValueOr(o.zCoordinate, Default) = ValueOr(u.zCoordinate, Default)
          <=> o.zCoordinate = u.zCoordinate
        BY OptionalTold DEF PerceivedObject
    <2>3. ObjectToRos(o) = ObjectToRos(u) <=>
            /\ o.fields = u.fields
            /\ (o.objectId # Absent) = (u.objectId # Absent)
            /\ ValueOr(o.objectId, Default) = ValueOr(u.objectId, Default)
            /\ (o.zCoordinate # Absent) = (u.zCoordinate # Absent)
            /\ ValueOr(o.zCoordinate, Default) = ValueOr(u.zCoordinate, Default)
        BY DEF ObjectToRos
    <2>4. [o EXCEPT !.todo = Default] = [u EXCEPT !.todo = Default] <=>
            o.fields = u.fields /\ o.objectId = u.objectId /\ o.zCoordinate = u.zCoordinate
        BY DEF PerceivedObject
    <2> QED BY <2>1, <2>2, <2>3, <2>4, Zenon
<1>4. ASSUME m = n, NEW k \in 1..m
      PROVE  rosG[k] = rosH[k] <=> toldG[k] = toldH[k]
    <2>1. g[k] \in PerceivedObject /\ h[k] \in PerceivedObject
        BY <1>1, <1>4, Zenon
    <2>2. /\ rosG[k] = ObjectToRos(g[k]) /\ toldG[k] = [g[k] EXCEPT !.todo = Default]
          /\ rosH[k] = ObjectToRos(h[k]) /\ toldH[k] = [h[k] EXCEPT !.todo = Default]
        BY <1>2, <1>4, Zenon
    <2>3. ObjectToRos(g[k]) = ObjectToRos(h[k])
          <=> [g[k] EXCEPT !.todo = Default] = [h[k] EXCEPT !.todo = Default]
        BY <1>3, <2>1, Zenon
    <2> QED BY <2>2, <2>3, Zenon
<1>5. Paired(rosG, toldG, m, rosH, toldH, n)
    BY <1>1, <1>2, <1>4, Zenon DEF Paired
<1>6. rosG = rosH <=> toldG = toldH
    BY <1>5, SamePairs
<1> QED BY <1>6 DEF m, n, rosG, rosH, toldG, toldH

\* The conversion of each kind of container, and its id.
LEMMA ContainerId ==
    ASSUME NEW c \in Container
    PROVE  /\ c.containerId \in 1..5 \cup OtherIds
           /\ ContainerToRos(c).container_id = c.containerId
           /\ ToldOfContainer(c).containerId = c.containerId
<1>1. c.containerId \in 1..5 \cup OtherIds
    BY DEF Container
<1>2. ContainerToRos(c).container_id = c.containerId
    BY DEF ContainerToRos
<1>3. ToldOfContainer(c).containerId = c.containerId
    <2>1. CASE c.containerId \in OtherIds
        <3>1. c \in [containerId : OtherIds, data : Values]
            BY <2>1, CpTsAssumption DEF Container
        <3> QED BY <2>1, <3>1, CpTsAssumption DEF ToldOfContainer
    <2>2. CASE c.containerId = 5
        <3>1. c \in [containerId : {5}, number : Values, objects : Seq(PerceivedObject)]
            BY <2>2, CpTsAssumption DEF Container
        <3>2. c.containerId \notin OtherIds
            BY <2>2, CpTsAssumption
        <3> QED BY <2>2, <3>1, <3>2 DEF ToldOfContainer
    <2>3. CASE c.containerId \notin OtherIds /\ c.containerId # 5
        BY <2>3 DEF ToldOfContainer
    <2> QED BY <2>1, <2>2, <2>3
<1> QED BY <1>1, <1>2, <1>3

LEMMA ContainersTold ==
    ASSUME NEW c \in Container, NEW d \in Container, ~Crashes(c), ~Crashes(d)
    PROVE  ContainerToRos(c) = ContainerToRos(d) <=> ToldOfContainer(c) = ToldOfContainer(d)
<1>1. CASE c.containerId # d.containerId
    BY <1>1, ContainerId
<1>2. CASE c.containerId = 1 /\ d.containerId = 1
    <2>1. /\ c = [containerId |-> 1, vehicle |-> c.vehicle]
          /\ d = [containerId |-> 1, vehicle |-> d.vehicle]
        BY <1>2, CpTsAssumption DEF Container
    <2>2. c = d <=> c.vehicle = d.vehicle
        BY <2>1
    <2>3. /\ ContainerToRos(c) = [container_id |-> 1, vehicle |-> c.vehicle]
          /\ ContainerToRos(d) = [container_id |-> 1, vehicle |-> d.vehicle]
        BY <1>2 DEF ContainerToRos
    <2>4. ToldOfContainer(c) = c /\ ToldOfContainer(d) = d
        BY <1>2, CpTsAssumption DEF ToldOfContainer
    <2> QED BY <2>2, <2>3, <2>4
<1>3. CASE c.containerId = 2 /\ d.containerId = 2
    <2>1. /\ c = [containerId |-> 2, mapReference |-> c.mapReference]
          /\ d = [containerId |-> 2, mapReference |-> d.mapReference]
          /\ c.mapReference \in Optional(MapReference) /\ d.mapReference \in Optional(MapReference)
        BY <1>3, CpTsAssumption DEF Container
    <2>2. c = d <=> c.mapReference = d.mapReference
        BY <2>1
    <2>3. c.mapReference # Absent /\ d.mapReference # Absent
        BY <1>3 DEF Crashes
    <2>4. /\ c.mapReference[1] \in MapReference /\ c.mapReference = <<c.mapReference[1]>>
          /\ d.mapReference[1] \in MapReference /\ d.mapReference = <<d.mapReference[1]>>
        BY <2>1, <2>3, OptionalIs
    <2>5. MapReferenceToRos(c.mapReference[1]) = MapReferenceToRos(d.mapReference[1])
          <=> c.mapReference = d.mapReference
        BY <2>4, MapReferencesTold
    <2>6. /\ ContainerToRos(c) =
                [container_id |-> 2, rsu |-> MapReferenceToRos(c.mapReference[1])]
          /\ ContainerToRos(d) =
                [container_id |-> 2, rsu |-> MapReferenceToRos(d.mapReference[1])]
        BY <1>3 DEF ContainerToRos
    <2>7. ToldOfContainer(c) = c /\ ToldOfContainer(d) = d
        BY <1>3, CpTsAssumption DEF ToldOfContainer
    <2> QED BY <2>2, <2>5, <2>6, <2>7
<1>4. CASE c.containerId = 3 /\ d.containerId = 3
    <2>1. /\ c = [containerId |-> 3, sensors |-> c.sensors]
          /\ d = [containerId |-> 3, sensors |-> d.sensors]
        BY <1>4, CpTsAssumption DEF Container
    <2>2. c = d <=> c.sensors = d.sensors
        BY <2>1
    <2>3. /\ ContainerToRos(c) = [container_id |-> 3, sensors |-> c.sensors]
          /\ ContainerToRos(d) = [container_id |-> 3, sensors |-> d.sensors]
        BY <1>4 DEF ContainerToRos
    <2>4. ToldOfContainer(c) = c /\ ToldOfContainer(d) = d
        BY <1>4, CpTsAssumption DEF ToldOfContainer
    <2> QED BY <2>2, <2>3, <2>4
<1>5. CASE c.containerId = 4 /\ d.containerId = 4
    <2> DEFINE regions(x) == [k \in 1..Len(x.regions) |->
                   [fields |-> x.regions[k].fields, shape |-> ShapeToRos(x.regions[k].shape)]]
    <2>1. /\ c = [containerId |-> 4, regions |-> c.regions]
          /\ d = [containerId |-> 4, regions |-> d.regions]
          /\ c.regions \in Seq(PerceptionRegion) /\ d.regions \in Seq(PerceptionRegion)
        BY <1>5, CpTsAssumption DEF Container
    <2>2. c = d <=> c.regions = d.regions
        BY <2>1
    <2>3. regions(c) = regions(d) <=> c.regions = d.regions
        BY <2>1, RegionsTold
    <2>4. /\ ContainerToRos(c) = [container_id |-> 4, regions |-> regions(c)]
          /\ ContainerToRos(d) = [container_id |-> 4, regions |-> regions(d)]
        BY <1>5 DEF ContainerToRos
    <2>5. ToldOfContainer(c) = c /\ ToldOfContainer(d) = d
        BY <1>5, CpTsAssumption DEF ToldOfContainer
    <2> HIDE DEF regions
    <2> QED BY <2>2, <2>3, <2>4, <2>5
<1>6. CASE c.containerId = 5 /\ d.containerId = 5
    <2> DEFINE ros(x) == [k \in 1..Len(x.objects) |-> ObjectToRos(x.objects[k])]
               told(x) == [k \in 1..Len(x.objects) |-> [x.objects[k] EXCEPT !.todo = Default]]
    <2>1. /\ c = [containerId |-> 5, number |-> c.number, objects |-> c.objects]
          /\ d = [containerId |-> 5, number |-> d.number, objects |-> d.objects]
          /\ c.objects \in Seq(PerceivedObject) /\ d.objects \in Seq(PerceivedObject)
        BY <1>6, CpTsAssumption DEF Container
    <2>2. ros(c) = ros(d) <=> told(c) = told(d)
        BY <2>1, ObjectsTold
    <2>3. /\ ContainerToRos(c) =
                [container_id |-> 5, number |-> c.number, objects |-> ros(c)]
          /\ ContainerToRos(d) =
                [container_id |-> 5, number |-> d.number, objects |-> ros(d)]
        BY <1>6 DEF ContainerToRos
    <2>4. /\ ToldOfContainer(c) = [c EXCEPT !.objects = told(c)]
          /\ ToldOfContainer(d) = [d EXCEPT !.objects = told(d)]
        BY <1>6, CpTsAssumption DEF ToldOfContainer
    <2> HIDE DEF ros, told
    <2>5. /\ ToldOfContainer(c) =
                [containerId |-> 5, number |-> c.number, objects |-> told(c)]
          /\ ToldOfContainer(d) =
                [containerId |-> 5, number |-> d.number, objects |-> told(d)]
        BY <2>1, <2>4
    <2> QED BY <2>2, <2>3, <2>5
<1>7. CASE c.containerId \in OtherIds /\ c.containerId = d.containerId
    <2>1. /\ c = [containerId |-> c.containerId, data |-> c.data]
          /\ d = [containerId |-> d.containerId, data |-> d.data]
        BY <1>7, CpTsAssumption DEF Container
    <2>2. c.containerId \notin 1..5
        BY <1>7, CpTsAssumption
    <2>3. /\ ContainerToRos(c) = [container_id |-> c.containerId]
          /\ ContainerToRos(d) = [container_id |-> c.containerId]
        BY <1>7, <2>2 DEF ContainerToRos
    <2>4. /\ ToldOfContainer(c) = [c EXCEPT !.data = Default]
          /\ ToldOfContainer(d) = [d EXCEPT !.data = Default]
        BY <1>7, <2>2 DEF ToldOfContainer
    <2> QED BY <1>7, <2>1, <2>3, <2>4
<1>8. c.containerId \in {1, 2, 3, 4, 5} \cup OtherIds
    BY ContainerId
<1> QED BY <1>1, <1>2, <1>3, <1>4, <1>5, <1>6, <1>7, <1>8

\* No container of a ends the conversion.
Convertible(a) == \A k \in 1..Len(a.containers) : ~Crashes(a.containers[k])

LEMMA CpmsTold ==
    ASSUME NEW a \in CpmTs, NEW b \in CpmTs, Convertible(a), Convertible(b)
    PROVE  CpmToRos(a) = CpmToRos(b) <=> ToldOfCpm(a) = ToldOfCpm(b)
<1> DEFINE g == a.containers
           h == b.containers
           m == Len(g)
           n == Len(h)
           rosG == ContainersToRos(g)
           rosH == ContainersToRos(h)
           toldG == [k \in 1..m |-> ToldOfContainer(g[k])]
           toldH == [k \in 1..n |-> ToldOfContainer(h[k])]
<1>1. g \in Seq(Container) /\ h \in Seq(Container)
    BY DEF CpmTs
<1>2. /\ m \in Nat /\ n \in Nat
      /\ \A k \in 1..m : g[k] \in Container /\ ~Crashes(g[k])
      /\ \A k \in 1..n : h[k] \in Container /\ ~Crashes(h[k])
    BY <1>1 DEF Convertible
<1>3. /\ IsList(rosG, m) /\ IsList(rosH, n) /\ IsList(toldG, m) /\ IsList(toldH, n)
      /\ \A k \in 1..m : rosG[k] = ContainerToRos(g[k]) /\ toldG[k] = ToldOfContainer(g[k])
      /\ \A k \in 1..n : rosH[k] = ContainerToRos(h[k]) /\ toldH[k] = ToldOfContainer(h[k])
    BY DEF IsList, ContainersToRos
<1>4. /\ CpmToRos(a) = [fields |-> a.fields, containers |-> rosG]
      /\ CpmToRos(b) = [fields |-> b.fields, containers |-> rosH]
    BY DEF CpmToRos
<1>5. /\ ToldOfCpm(a) = [fields |-> a.fields, todo |-> Default, containers |-> toldG]
      /\ ToldOfCpm(b) = [fields |-> b.fields, todo |-> Default, containers |-> toldH]
    <2>1. /\ ToldOfCpm(a) = [a EXCEPT !.todo = Default, !.containers = toldG]
          /\ ToldOfCpm(b) = [b EXCEPT !.todo = Default, !.containers = toldH]
        BY DEF ToldOfCpm
    <2> HIDE DEF toldG, toldH
    <2> QED BY <2>1 DEF CpmTs
<1> HIDE DEF g, h, m, n, rosG, rosH, toldG, toldH
<1>6. ASSUME m = n, NEW k \in 1..m
      PROVE  rosG[k] = rosH[k] <=> toldG[k] = toldH[k]
    <2>1. g[k] \in Container /\ ~Crashes(g[k]) /\ h[k] \in Container /\ ~Crashes(h[k])
        BY <1>2, <1>6, Zenon
    <2>2. /\ rosG[k] = ContainerToRos(g[k]) /\ toldG[k] = ToldOfContainer(g[k])
          /\ rosH[k] = ContainerToRos(h[k]) /\ toldH[k] = ToldOfContainer(h[k])
        BY <1>3, <1>6, Zenon
    <2>3. ContainerToRos(g[k]) = ContainerToRos(h[k])
          <=> ToldOfContainer(g[k]) = ToldOfContainer(h[k])
        BY <2>1, ContainersTold, Zenon
    <2> QED BY <2>2, <2>3, Zenon
<1>7. Paired(rosG, toldG, m, rosH, toldH, n)
    BY <1>2, <1>3, <1>6, Zenon DEF Paired
<1>8. rosG = rosH <=> toldG = toldH
    BY <1>7, SamePairs
<1> QED BY <1>4, <1>5, <1>8

---------------------------------------------------------------------------
(* Types of what the nodes publish. *)

LEMMA ListType ==
    ASSUME NEW S, NEW T, NEW s \in Seq(S), NEW Op,
           Op \in [1..Len(s) -> T]
    PROVE  Op \in Seq(T) /\ Len(Op) = Len(s)
<1>1. Len(s) \in Nat
    OBVIOUS
<1> QED BY <1>1, AsSequence

LEMMA HistoryType ==
    ASSUME NEW history \in Seq(EventPoint)
    PROVE  EventHistoryToRos(history) \in Seq(RosEventPoint)
<1>1. \A k \in 1..Len(history) : history[k] \in EventPoint
    OBVIOUS
<1>2. EventHistoryToRos(history) \in [1..Len(history) -> RosEventPoint]
    BY <1>1 DEF EventHistoryToRos, EventPoint, RosEventPoint
<1> QED BY <1>2, ListType

LEMMA SituationType ==
    ASSUME NEW s \in Situation
    PROVE  SituationToRos(s) \in RosSituation
<1>1. /\ s.eventType \in Values /\ s.linkedCause \in Optional(Values)
      /\ s.eventHistory \in Optional(Seq(EventPoint))
    BY DEF Situation
<1>2. ValueOr(s.linkedCause, Default) \in Values
    BY <1>1, ValueOrType, Asn1Assumption
<1>3. ValueOr(s.eventHistory, << >>) \in Seq(EventPoint)
    BY <1>1, ValueOrType, EmptySeq
<1>4. EventHistoryToRos(ValueOr(s.eventHistory, << >>)) \in Seq(RosEventPoint)
    BY <1>3, HistoryType
<1> QED BY <1>1, <1>2, <1>4 DEF SituationToRos, RosSituation

LEMMA TracesType ==
    ASSUME NEW traces \in Seq(Seq(PathPoint))
    PROVE  [k \in 1..Len(traces) |-> PathToRos(traces[k])] \in Seq(Seq(RosPathPoint))
<1>1. \A k \in 1..Len(traces) : traces[k] \in Seq(PathPoint)
    OBVIOUS
<1>2. \A k \in 1..Len(traces) : PathToRos(traces[k]) \in Seq(RosPathPoint)
    BY <1>1, PathToRosIs
<1>3. [k \in 1..Len(traces) |-> PathToRos(traces[k])]
        \in [1..Len(traces) -> Seq(RosPathPoint)]
    BY <1>2
<1> QED BY <1>3, ListType

LEMMA LocationType ==
    ASSUME NEW l \in DenLocation
    PROVE  LocationToRos(l) \in RosLocation
<1>1. /\ l.eventSpeed \in Optional(Values) /\ l.eventPositionHeading \in Optional(Values)
      /\ l.roadType \in Optional(Values) /\ l.traces \in Seq(Seq(PathPoint))
    BY DEF DenLocation
<1>2. /\ ValueOr(l.eventSpeed, Default) \in Values
      /\ ValueOr(l.eventPositionHeading, Default) \in Values
      /\ ValueOr(l.roadType, Default) \in Values
    BY <1>1, ValueOrType, Asn1Assumption
<1>3. [k \in 1..Len(l.traces) |-> PathToRos(l.traces[k])] \in Seq(Seq(RosPathPoint))
    BY <1>1, TracesType
<1> QED BY <1>2, <1>3 DEF LocationToRos, RosLocation

LEMMA DenmType ==
    ASSUME NEW a \in Denm
    PROVE  DenmToRos(a) \in RosDenm
<1> DEFINE situation == IF a.situation = Absent THEN RosDefaultSituation
                        ELSE SituationToRos(a.situation[1])
           location == IF a.location = Absent THEN RosDefaultLocation
                       ELSE LocationToRos(a.location[1])
<1>1. /\ a.fields \in Values /\ a.situation \in Optional(Situation)
      /\ a.location \in Optional(DenLocation)
    BY DEF Denm
<1>2. situation \in RosSituation
    <2>1. RosDefaultSituation \in RosSituation
        BY EmptySeq, Asn1Assumption DEF RosDefaultSituation, RosSituation
    <2> QED BY <1>1, <2>1, OptionalIs, SituationType
<1>3. location \in RosLocation
    <2>1. RosDefaultLocation \in RosLocation
        BY EmptySeq, Asn1Assumption DEF RosDefaultLocation, RosLocation
    <2> QED BY <1>1, <2>1, OptionalIs, LocationType
<1>4. DenmToRos(a) = [message_id |-> Default, fields |-> a.fields, termination |-> Default,
                      has_situation |-> a.situation # Absent, situation |-> situation,
                      has_location |-> a.location # Absent, location |-> location]
    BY Zenon DEF DenmToRos
<1> HIDE DEF situation, location
<1> QED BY <1>1, <1>2, <1>3, <1>4, Asn1Assumption DEF RosDenm

LEMMA MapReferenceType ==
    ASSUME NEW m \in MapReference
    PROVE  MapReferenceToRos(m) \in RosMapReference
<1>1. CASE m.present = "nothing"
    BY <1>1, Asn1Assumption DEF MapReferenceToRos, RosMapReference
<1>2. CASE m.present # "nothing"
    <2>1. m.present \in {"roadsegment", "intersection"} /\ m.id \in Values
          /\ m.region \in Optional(Values)
        BY <1>2 DEF MapReference
    <2>2. ValueOr(m.region, Default) \in Values /\ MapReference_PR[m.present] \in Nat
        BY <2>1, ValueOrType, Asn1Assumption DEF MapReference_PR
    <2> QED BY <1>2, <2>1, <2>2 DEF MapReferenceToRos, RosMapReference
<1> QED BY <1>1, <1>2

LEMMA VertexType ==
    ASSUME NEW v \in Vertex
    PROVE  VertexToRos(v) \in RosVertex
<1>1. ValueOr(v.zCoordinate, Default) \in Values /\ v.fields \in Values
    BY ValueOrType, Asn1Assumption DEF Vertex
<1> QED BY <1>1 DEF VertexToRos, RosVertex

LEMMA ShapeType ==
    ASSUME NEW s \in Shape
    PROVE  ShapeToRos(s) \in RosShape
<1> DEFINE dims == IF s.present \in {"nothing", "polygonal"} THEN Default ELSE s.dims
           polygon == IF s.present = "polygonal"
                      THEN [k \in 1..Len(s.polygon) |-> VertexToRos(s.polygon[k])]
                      ELSE << >>
           details == IF s.present = "radialShapes" THEN s.details ELSE << >>
<1>1. /\ s.present = "polygonal" => s.polygon \in Seq(Vertex)
      /\ s.present = "radialShapes" => s.details \in Seq(Values)
      /\ s.present \notin {"nothing", "polygonal"} => s.dims \in Values
      /\ s.present \in {"nothing", "rectangular", "circular", "elliptical", "radial",
                        "polygonal", "radialShapes"}
    BY DEF Shape
<1>2. Shape_PR[s.present] \in Nat
    BY <1>1 DEF Shape_PR
<1>3. dims \in Values /\ details \in Seq(Values)
    BY <1>1, Asn1Assumption, EmptySeq
<1>4. polygon \in Seq(RosVertex)
    <2>1. CASE s.present = "polygonal"
        <3>1. s.polygon \in Seq(Vertex)
            BY <1>1, <2>1
        <3>2. \A k \in 1..Len(s.polygon) : s.polygon[k] \in Vertex
            BY <3>1
        <3>3. [k \in 1..Len(s.polygon) |-> VertexToRos(s.polygon[k])]
                \in [1..Len(s.polygon) -> RosVertex]
            BY <3>2, VertexType
        <3>4. [k \in 1..Len(s.polygon) |-> VertexToRos(s.polygon[k])] \in Seq(RosVertex)
            BY <3>1, <3>3, ListType
        <3> QED BY <2>1, <3>4
    <2> QED BY <2>1, EmptySeq
<1>5. ShapeToRos(s) = [choice |-> Shape_PR[s.present], dims |-> dims,
                       polygon |-> polygon, details |-> details]
    BY DEF ShapeToRos
<1> HIDE DEF dims, polygon, details
<1> QED BY <1>2, <1>3, <1>4, <1>5 DEF RosShape

LEMMA ObjectType ==
    ASSUME NEW o \in PerceivedObject
    PROVE  ObjectToRos(o) \in RosPerceivedObject
<1>1. /\ o.fields \in Values
      /\ ValueOr(o.objectId, Default) \in Values
      /\ ValueOr(o.zCoordinate, Default) \in Values
    BY ValueOrType, Asn1Assumption DEF PerceivedObject
<1> QED BY <1>1 DEF ObjectToRos, RosPerceivedObject

LEMMA ContainerType ==
    ASSUME NEW c \in Container, ~Crashes(c)
    PROVE  ContainerToRos(c) \in RosContainer
<1>1. CASE c.containerId = 1
    <2>1. c.vehicle \in Values
        BY <1>1, CpTsAssumption DEF Container
    <2>2. ContainerToRos(c) = [container_id |-> 1, vehicle |-> c.vehicle]
        BY <1>1 DEF ContainerToRos
    <2> QED BY <2>1, <2>2 DEF RosContainer
<1>2. CASE c.containerId = 2
    <2>1. c.mapReference \in Optional(MapReference) /\ c.mapReference # Absent
        BY <1>2, CpTsAssumption DEF Container, Crashes
    <2>2. MapReferenceToRos(c.mapReference[1]) \in RosMapReference
        BY <2>1, OptionalIs, MapReferenceType
    <2>3. ContainerToRos(c) =
            [container_id |-> 2, rsu |-> MapReferenceToRos(c.mapReference[1])]
        BY <1>2 DEF ContainerToRos
    <2> QED BY <2>2, <2>3 DEF RosContainer
<1>3. CASE c.containerId = 3
    <2>1. c.sensors \in Seq(Values)
        BY <1>3, CpTsAssumption DEF Container
    <2>2. ContainerToRos(c) = [container_id |-> 3, sensors |-> c.sensors]
        BY <1>3 DEF ContainerToRos
    <2> QED BY <2>1, <2>2 DEF RosContainer
<1>4. CASE c.containerId = 4
    <2> DEFINE region(k) == [fields |-> c.regions[k].fields,
                             shape |-> ShapeToRos(c.regions[k].shape)]
               ros == [k \in 1..Len(c.regions) |-> region(k)]
               T == [fields : Values, shape : RosShape]
    <2>1. c.regions \in Seq(PerceptionRegion)
        BY <1>4, CpTsAssumption DEF Container
    <2>2. \A k \in 1..Len(c.regions) : c.regions[k] \in PerceptionRegion
        BY <2>1
    <2>3. ASSUME NEW k \in 1..Len(c.regions) PROVE region(k) \in T
        BY <2>2, ShapeType DEF PerceptionRegion
    <2>4. ros \in [1..Len(c.regions) -> T]
        BY <2>3
    <2>5. ros \in Seq(T)
        BY <2>1, <2>4, ListType
    <2>6. ContainerToRos(c) = [container_id |-> 4, regions |-> ros]
        BY <1>4 DEF ContainerToRos
    <2> HIDE DEF ros
    <2> QED BY <2>5, <2>6 DEF RosContainer
<1>5. CASE c.containerId = 5
    <2> DEFINE ros == [k \in 1..Len(c.objects) |-> ObjectToRos(c.objects[k])]
    <2>1. c.number \in Values /\ c.objects \in Seq(PerceivedObject)
        BY <1>5, CpTsAssumption DEF Container
    <2>2. \A k \in 1..Len(c.objects) : c.objects[k] \in PerceivedObject
        BY <2>1
    <2>3. ros \in [1..Len(c.objects) -> RosPerceivedObject]
        BY <2>2, ObjectType
    <2>4. ros \in Seq(RosPerceivedObject)
        BY <2>1, <2>3, ListType
    <2>5. ContainerToRos(c) = [container_id |-> 5, number |-> c.number, objects |-> ros]
        BY <1>5 DEF ContainerToRos
    <2> HIDE DEF ros
    <2> QED BY <2>1, <2>4, <2>5 DEF RosContainer
<1>6. CASE c.containerId \in OtherIds
    <2>1. c.containerId \notin 1..5
        BY <1>6, CpTsAssumption
    <2>2. ContainerToRos(c) = [container_id |-> c.containerId]
        BY <2>1 DEF ContainerToRos
    <2> QED BY <1>6, <2>2 DEF RosContainer
<1>7. c.containerId \in {1, 2, 3, 4, 5} \cup OtherIds
    BY ContainerId
<1> QED BY <1>1, <1>2, <1>3, <1>4, <1>5, <1>6, <1>7

LEMMA CpmType ==
    ASSUME NEW a \in CpmTs, Convertible(a)
    PROVE  CpmToRos(a) \in RosCpmTs /\ Len(CpmToRos(a).containers) = Len(a.containers)
<1>1. a.fields \in Values /\ a.containers \in Seq(Container)
    BY DEF CpmTs
<1>2. \A k \in 1..Len(a.containers) :
        a.containers[k] \in Container /\ ~Crashes(a.containers[k])
    BY <1>1 DEF Convertible
<1>3. ContainersToRos(a.containers) \in [1..Len(a.containers) -> RosContainer]
    BY <1>2, ContainerType DEF ContainersToRos
<1>4. /\ ContainersToRos(a.containers) \in Seq(RosContainer)
      /\ Len(ContainersToRos(a.containers)) = Len(a.containers)
    BY <1>1, <1>3, ListType
<1> QED BY <1>1, <1>4 DEF CpmToRos, RosCpmTs

---------------------------------------------------------------------------
(* The inductive invariant. *)

Hop == [asn1 : Cam, ros : RosCam]

\* What the node has done with its messages is what the conversions say; and
\* a CAM sent on is the one before it as it went out.
CamInv ==
    /\ built \in Optional(RosCam)
    /\ hops \in Seq(Hop)
    /\ \A k \in 1..Len(hops) : hops[k].ros = CamToRos(hops[k].asn1)
    /\ LosesOnlyOnce
    /\ built # Absent => Len(hops) > 0 /\ hops[1].asn1 = CamToAsn1(built[1])

DenmInv ==
    /\ denms \in Seq([asn1 : Denm, ros : RosDenm])
    /\ \A k \in 1..Len(denms) : denms[k].ros = DenmToRos(denms[k].asn1)

CpmInv ==
    /\ cpms \in Seq([asn1 : CpmTs, ros : RosCpmTs])
    /\ \A k \in 1..Len(cpms) :
        Convertible(cpms[k].asn1) /\ cpms[k].ros = CpmToRos(cpms[k].asn1)
    /\ stoppedBy \in Optional(CpmTs)
    /\ stoppedBy # Absent => ~Convertible(stoppedBy[1])

NodeInv == node \in {"ca_rx", "den_rx", "cp_ts_rx"}

ConversionsInv == NodeInv /\ CamInv /\ DenmInv /\ CpmInv

LEMMA ConversionsInit ==
    ASSUME Init
    PROVE  ConversionsInv
<1>1. /\ hops = << >> /\ denms = << >> /\ cpms = << >>
      /\ built = Absent /\ stoppedBy = Absent
    BY DEF Init
<1>2. /\ hops \in Seq(Hop) /\ denms \in Seq([asn1 : Denm, ros : RosDenm])
      /\ cpms \in Seq([asn1 : CpmTs, ros : RosCpmTs])
      /\ Len(hops) = 0 /\ Len(denms) = 0 /\ Len(cpms) = 0
    BY <1>1, EmptySeq
<1>3. Absent \in Optional(RosCam) /\ Absent \in Optional(CpmTs)
    BY OptionalIs
<1>4. CamInv
    BY <1>1, <1>2, <1>3 DEF CamInv, LosesOnlyOnce
<1>5. DenmInv /\ CpmInv /\ NodeInv
    BY <1>1, <1>2, <1>3 DEF DenmInv, CpmInv, NodeInv, Init
<1> QED BY <1>4, <1>5 DEF ConversionsInv

\* The first station: the message of a station, or an application's.
LEMMA FirstHop ==
    ASSUME hops = << >>, NEW a \in Cam, Arrives(a)
    PROVE  /\ hops' \in Seq(Hop) /\ Len(hops') = 1
           /\ hops'[1].asn1 = a /\ hops'[1].ros = CamToRos(a)
<1> DEFINE hop == [asn1 |-> a, ros |-> CamToRos(a)]
<1>1. hop \in Hop
    BY CamToRosType DEF Hop
<1>2. hops' = Append(hops, hop) /\ hops \in Seq(Hop) /\ Len(hops) = 0
    BY EmptySeq DEF Arrives
<1>3. hop.asn1 = a /\ hop.ros = CamToRos(a)
    OBVIOUS
<1> HIDE DEF hop
<1>4. hops' \in Seq(Hop) /\ Len(hops') = 1 /\ hops'[1] = hop
    BY <1>1, <1>2, AppendProperties
<1> QED BY <1>3, <1>4

\* Every further station.
LEMMA NextHop ==
    ASSUME CamInv, SendCamOn
    PROVE  CamInv'
<1> DEFINE n == Len(hops)
           first == hops[1].asn1
           a == CamToAsn1(hops[n].ros)
           hop == [asn1 |-> a, ros |-> CamToRos(a)]
<1>1. /\ hops \in Seq(Hop) /\ built \in Optional(RosCam)
      /\ \A k \in 1..n : hops[k].ros = CamToRos(hops[k].asn1)
      /\ \A k \in 1..n : hops[k].ros = hops[1].ros
      /\ \A k \in 1..n : k > 1 => hops[k].asn1 = SentOn(first)
      /\ built # Absent => n > 0 /\ first = CamToAsn1(built[1])
    BY DEF CamInv, LosesOnlyOnce
<1>2. hops' = Append(hops, hop) /\ hops # << >> /\ built' = built
    BY DEF SendCamOn, Arrives
<1>3. n \in Nat /\ n > 0
    BY <1>1, <1>2, EmptySeq
<1>4. hops[n] \in Hop /\ hops[1] \in Hop
    BY <1>1, <1>3
<1>5. hops[n].ros \in RosCam /\ first \in Cam
    BY <1>4 DEF Hop
<1>6. hops[n].ros = CamToRos(first) /\ hops[1].ros = CamToRos(first)
    BY <1>1, <1>3
<1>7. a = SentOn(first) /\ CamToRos(a) = hops[1].ros
    BY <1>5, <1>6, CamAgain
<1>8. hop \in Hop
    BY <1>5, CamToAsn1Type, CamToRosType DEF Hop
<1>9. hop.asn1 = a /\ hop.ros = CamToRos(a)
    OBVIOUS
<1> HIDE DEF n, first, a, hop
<1>10. /\ hops' \in Seq(Hop) /\ Len(hops') = n + 1
       /\ \A k \in 1..n : hops'[k] = hops[k]
       /\ hops'[n + 1] = hop
    BY <1>1, <1>2, <1>8, AppendProperties DEF n
<1>11. hops'[1] = hops[1] /\ 1..(n + 1) = (1..n) \cup {n + 1}
    BY <1>3, <1>10
<1>12. \A k \in 1..(n + 1) : hops'[k].ros = CamToRos(hops'[k].asn1)
    BY <1>1, <1>9, <1>10, <1>11
<1>13. \A k \in 1..(n + 1) : hops'[k].ros = hops'[1].ros
    BY <1>1, <1>7, <1>9, <1>10, <1>11
<1>14. \A k \in 1..(n + 1) : k > 1 => hops'[k].asn1 = SentOn(hops'[1].asn1)
    BY <1>1, <1>7, <1>9, <1>10, <1>11 DEF first
<1>15. LosesOnlyOnce'
    BY <1>10, <1>13, <1>14 DEF LosesOnlyOnce
<1>16. built' # Absent => Len(hops') > 0 /\ hops'[1].asn1 = CamToAsn1(built'[1])
    BY <1>1, <1>2, <1>3, <1>10, <1>11 DEF first
<1> QED BY <1>1, <1>2, <1>10, <1>12, <1>15, <1>16 DEF CamInv

LEMMA CamStep ==
    ASSUME CamInv, [Next]_vars
    PROVE  CamInv'
<1>1. ASSUME NEW a \in Cams, ReceiveCam(a) PROVE CamInv'
    <2>1. a \in Cam /\ hops = << >> /\ Arrives(a) /\ built' = built
        BY <1>1, ConversionsAssumption DEF ReceiveCam
    <2>2. /\ hops' \in Seq(Hop) /\ Len(hops') = 1
          /\ hops'[1].asn1 = a /\ hops'[1].ros = CamToRos(a)
        BY <2>1, FirstHop
    <2>3. built = Absent
        BY <2>1, EmptySeq DEF CamInv
    <2> QED BY <2>1, <2>2, <2>3 DEF CamInv, LosesOnlyOnce
<1>2. ASSUME NEW r \in RosCams, SendBuiltCam(r) PROVE CamInv'
    <2>1. r \in RosCam /\ hops = << >> /\ Arrives(CamToAsn1(r)) /\ built' = <<r>>
        BY <1>2, ConversionsAssumption DEF SendBuiltCam
    <2>2. CamToAsn1(r) \in Cam /\ <<r>> \in Optional(RosCam)
        BY <2>1, CamToAsn1Type, OptionalIs
    <2>3. /\ hops' \in Seq(Hop) /\ Len(hops') = 1
          /\ hops'[1].asn1 = CamToAsn1(r) /\ hops'[1].ros = CamToRos(CamToAsn1(r))
        BY <2>1, <2>2, FirstHop
    <2> HIDE DEF Absent
    <2> QED BY <2>1, <2>2, <2>3 DEF CamInv, LosesOnlyOnce
<1>3. CASE SendCamOn
    BY <1>3, NextHop
<1>4. CASE hops' = hops /\ built' = built
    BY <1>4 DEF CamInv, LosesOnlyOnce
<1> QED BY <1>1, <1>2, <1>3, <1>4 DEF Next, vars, ConvertDenm, ConvertCpm

LEMMA DenmStep ==
    ASSUME DenmInv, [Next]_vars
    PROVE  DenmInv'
<1>1. ASSUME NEW a \in Denms, ConvertDenm(a) PROVE DenmInv'
    <2> DEFINE T == [asn1 : Denm, ros : RosDenm]
               e == [asn1 |-> a, ros |-> DenmToRos(a)]
    <2>1. e \in T /\ e.ros = DenmToRos(e.asn1)
        BY ConversionsAssumption, DenmType
    <2>2. denms' = Append(denms, e) /\ denms \in Seq(T)
        BY <1>1 DEF ConvertDenm, DenmInv
    <2> HIDE DEF T, e
    <2>3. /\ denms' \in Seq(T) /\ Len(denms') = Len(denms) + 1 /\ Len(denms) \in Nat
          /\ \A k \in 1..Len(denms) : denms'[k] = denms[k]
          /\ denms'[Len(denms) + 1] = e
        BY <2>1, <2>2, AppendProperties
    <2>4. \A k \in 1..Len(denms') : denms'[k].ros = DenmToRos(denms'[k].asn1)
        BY <2>1, <2>3 DEF DenmInv
    <2> QED BY <2>3, <2>4 DEF DenmInv, T
<1>2. CASE denms' = denms
    BY <1>2 DEF DenmInv
<1> QED BY <1>1, <1>2 DEF Next, vars, ReceiveCam, SendBuiltCam, SendCamOn, ConvertCpm

LEMMA CpmStep ==
    ASSUME CpmInv, [Next]_vars
    PROVE  CpmInv'
<1>1. ASSUME NEW a \in CpmsTs, ConvertCpm(a) PROVE CpmInv'
    <2>1. a \in CpmTs
        BY ConversionsAssumption
    <2>2. CASE Convertible(a)
        <3> DEFINE T == [asn1 : CpmTs, ros : RosCpmTs]
                   e == [asn1 |-> a, ros |-> CpmToRos(a)]
        <3>1. e \in T /\ e.ros = CpmToRos(e.asn1) /\ Convertible(e.asn1)
            BY <2>1, <2>2, CpmType
        <3>2. cpms' = Append(cpms, e) /\ cpms \in Seq(T) /\ stoppedBy' = stoppedBy
            BY <1>1, <2>2 DEF ConvertCpm, CpmInv, Convertible
        <3> HIDE DEF T, e
        <3>3. /\ cpms' \in Seq(T) /\ Len(cpms') = Len(cpms) + 1 /\ Len(cpms) \in Nat
              /\ \A k \in 1..Len(cpms) : cpms'[k] = cpms[k]
              /\ cpms'[Len(cpms) + 1] = e
            BY <3>1, <3>2, AppendProperties
        <3>4. \A k \in 1..Len(cpms') :
                Convertible(cpms'[k].asn1) /\ cpms'[k].ros = CpmToRos(cpms'[k].asn1)
            BY <3>1, <3>3 DEF CpmInv
        <3> QED BY <3>2, <3>3, <3>4 DEF CpmInv, T
    <2>3. CASE ~Convertible(a)
        <3>1. stoppedBy' = <<a>> /\ cpms' = cpms
            BY <1>1, <2>3 DEF ConvertCpm, Convertible
        <3>2. <<a>> \in Optional(CpmTs) /\ stoppedBy'[1] = a
            BY <2>1, <3>1, OptionalIs
        <3> QED BY <2>3, <3>1, <3>2 DEF CpmInv
    <2> QED BY <2>2, <2>3
<1>2. CASE cpms' = cpms /\ stoppedBy' = stoppedBy
    BY <1>2 DEF CpmInv
<1> QED BY <1>1, <1>2 DEF Next, vars, ReceiveCam, SendBuiltCam, SendCamOn, ConvertDenm

LEMMA NodeStep ==
    ASSUME NodeInv, [Next]_vars
    PROVE  NodeInv'
  BY DEF NodeInv, Next, vars, ReceiveCam, SendBuiltCam, SendCamOn, ConvertDenm, ConvertCpm

THEOREM ConversionsInvariant == Spec => []ConversionsInv
<1>1. ConversionsInv /\ [Next]_vars => ConversionsInv'
    BY CamStep, DenmStep, CpmStep, NodeStep DEF ConversionsInv
<1> QED BY <1>1, ConversionsInit, PTL DEF Spec

---------------------------------------------------------------------------
(* Theorems. *)

\* Every decoded message is converted into a message of its ROS type, and
\* every ROS CAM into a CAM.
THEOREM TypeCorrect == Spec => []TypeOK
<1>1. ConversionsInv => TypeOK
    BY DEF ConversionsInv, NodeInv, CamInv, DenmInv, CpmInv, TypeOK, Hop
<1> QED BY <1>1, ConversionsInvariant, PTL

\* A CAM loses at the first station what it is ever to lose, however often it
\* is converted to and fro and whatever its path.
THEOREM LossCorrect == Spec => []LosesOnlyOnce
<1>1. ConversionsInv => LosesOnlyOnce
    BY DEF ConversionsInv, CamInv
<1> QED BY <1>1, ConversionsInvariant, PTL

LEMMA SameLightsReversed ==
    ASSUME NEW byte \in Octet
    PROVE  SameLights(byte, reverse_byte(byte)) /\ SameLights(reverse_byte(byte), byte)
<1>1. \A i \in 0..7 : i \in reverse_byte(byte) <=> (7 - i) \in byte
    BY ReversedBit
<1>2. ASSUME NEW i \in 0..7 PROVE (7 - i) \in reverse_byte(byte) <=> i \in byte
    <2>1. 7 - i \in 0..7 /\ 7 - (7 - i) = i
        OBVIOUS
    <2> QED BY <1>1, <2>1
<1> QED BY <1>1, <1>2 DEF SameLights

\* The exterior lights and the acceleration control are the same bits on both
\* sides of a conversion, for every octet.
THEOREM LightsCorrect == Spec => []LightsMatchMasks
<1>1. ASSUME CamInv PROVE LightsMatchMasks
    <2>1. ASSUME NEW k \in 1..Len(hops),
                 IsBasic(hops[k].asn1.lf), hops[k].asn1.lf[1].lights # Absent
          PROVE  SameLights(hops[k].asn1.lf[1].lights[1], hops[k].ros.lf.lights)
        <3> DEFINE a == hops[k].asn1
        <3>1. hops[k] \in Hop /\ hops[k].ros = CamToRos(a)
            BY <1>1 DEF CamInv
        <3>2. a \in Cam
            BY <3>1 DEF Hop
        <3>3. a.lf[1] \in LowFrequency
            BY <2>1, <3>2, OptionalIs DEF IsBasic, Cam
        <3>4. a.lf[1].lights[1] \in Octet
            BY <2>1, <3>3, OptionalIs DEF LowFrequency
        <3>5. CamToRos(a).lf = LfToRos(a.lf[1])
            BY <2>1, CamToRosIs
        <3>6. hops[k].ros.lf.lights = reverse_byte(a.lf[1].lights[1])
            BY <2>1, <3>1, <3>5 DEF LfToRos
        <3> QED BY <3>4, <3>6, SameLightsReversed
    <2>2. ASSUME built # Absent, built[1].has_acceleration_control
          PROVE  /\ hops[1].asn1.hf.accelerationControl # Absent
                 /\ SameLights(hops[1].asn1.hf.accelerationControl[1],
                               built[1].acceleration_control)
        <3> DEFINE r == built[1]
        <3>1. hops[1].asn1 = CamToAsn1(r) /\ built[1] \in RosCam
            BY <1>1, <2>2, OptionalIs DEF CamInv
        <3>2. r.acceleration_control \in Octet
            BY <3>1 DEF RosCam
        <3>3. CamToAsn1(r).hf.accelerationControl = <<reverse_byte(r.acceleration_control)>>
            BY <2>2, CamToAsn1Is
        <3> QED BY <3>1, <3>2, <3>3, SameLightsReversed DEF Absent
    <2> QED BY <2>1, <2>2 DEF LightsMatchMasks
<1>2. ConversionsInv => LightsMatchMasks
    BY <1>1 DEF ConversionsInv
<1> QED BY <1>2, ConversionsInvariant, PTL

\* Two DENMs are published alike exactly when they differ in nothing but what
\* the conversion leaves out, with histories and traces of any length.
THEOREM DenmsCorrect == Spec => []DenmsToldApart
<1>1. ASSUME DenmInv PROVE DenmsToldApart
    <2>1. ASSUME NEW i \in 1..Len(denms)
          PROVE  denms[i].asn1 \in Denm /\ denms[i].ros = DenmToRos(denms[i].asn1)
        <3>1. denms[i] \in [asn1 : Denm, ros : RosDenm]
            <4> DEFINE T == [asn1 : Denm, ros : RosDenm]
            <4>1. denms \in Seq(T)
                BY <1>1 DEF DenmInv
            <4> HIDE DEF T
            <4>2. denms[i] \in T
                BY <4>1
            <4> QED BY <4>2 DEF T
        <3>2. denms[i].asn1 \in Denm
            BY <3>1
        <3> QED BY <1>1, <3>2 DEF DenmInv
    <2>2. ASSUME NEW i \in 1..Len(denms), NEW j \in 1..Len(denms)
          PROVE  denms[i].ros = denms[j].ros
                 <=> ToldOfDenm(denms[i].asn1) = ToldOfDenm(denms[j].asn1)
        BY <2>1, DenmsTold
    <2> QED BY <2>2 DEF DenmsToldApart
<1>2. ConversionsInv => DenmsToldApart
    BY <1>1 DEF ConversionsInv
<1> QED BY <1>2, ConversionsInvariant, PTL

\* The same of CPMs, with any number of containers, regions, vertices and
\* objects.
THEOREM CpmsCorrect == Spec => []CpmsToldApart
<1>1. ASSUME CpmInv PROVE CpmsToldApart
    <2>1. ASSUME NEW i \in 1..Len(cpms)
          PROVE  /\ cpms[i].asn1 \in CpmTs /\ Convertible(cpms[i].asn1)
                 /\ cpms[i].ros = CpmToRos(cpms[i].asn1)
        <3>1. cpms[i] \in [asn1 : CpmTs, ros : RosCpmTs]
            <4> DEFINE T == [asn1 : CpmTs, ros : RosCpmTs]
            <4>1. cpms \in Seq(T)
                BY <1>1 DEF CpmInv
            <4> HIDE DEF T
            <4>2. cpms[i] \in T
                BY <4>1
            <4> QED BY <4>2 DEF T
        <3>2. cpms[i].asn1 \in CpmTs
            BY <3>1
        <3> QED BY <1>1, <3>2 DEF CpmInv
    <2>2. ASSUME NEW i \in 1..Len(cpms), NEW j \in 1..Len(cpms)
          PROVE  cpms[i].ros = cpms[j].ros
                 <=> ToldOfCpm(cpms[i].asn1) = ToldOfCpm(cpms[j].asn1)
        BY <2>1, CpmsTold
    <2> QED BY <2>2 DEF CpmsToldApart
<1>2. ConversionsInv => CpmsToldApart
    BY <1>1 DEF ConversionsInv
<1> QED BY <1>2, ConversionsInvariant, PTL

\* A CPM is converted with every one of its containers or it ends the node.
THEOREM WholeCorrect == Spec => []WholeOrStopped
<1>1. ASSUME CpmInv PROVE WholeOrStopped
    <2>1. ASSUME NEW n \in 1..Len(cpms)
          PROVE  /\ Len(cpms[n].ros.containers) = Len(cpms[n].asn1.containers)
                 /\ \A k \in 1..Len(cpms[n].asn1.containers) :
                    /\ cpms[n].ros.containers[k].container_id
                         = cpms[n].asn1.containers[k].containerId
                    /\ ~Crashes(cpms[n].asn1.containers[k])
        <3> DEFINE a == cpms[n].asn1
        <3>0. cpms[n] \in [asn1 : CpmTs, ros : RosCpmTs]
            <4> DEFINE T == [asn1 : CpmTs, ros : RosCpmTs]
            <4>1. cpms \in Seq(T)
                BY <1>1 DEF CpmInv
            <4> HIDE DEF T
            <4>2. cpms[n] \in T
                BY <4>1
            <4> QED BY <4>2 DEF T
        <3>1. a \in CpmTs /\ Convertible(a) /\ cpms[n].ros = CpmToRos(a)
            <4>1. a \in CpmTs
                BY <3>0
            <4> QED BY <1>1, <4>1 DEF CpmInv
        <3>2. Len(CpmToRos(a).containers) = Len(a.containers)
            BY <3>1, CpmType
        <3>3. CpmToRos(a).containers =
                [k \in 1..Len(a.containers) |-> ContainerToRos(a.containers[k])]
            BY DEF CpmToRos, ContainersToRos
        <3>4. \A k \in 1..Len(a.containers) : a.containers[k] \in Container
            BY <3>1 DEF CpmTs
        <3> HIDE DEF a
        <3>5. \A k \in 1..Len(a.containers) :
                CpmToRos(a).containers[k].container_id = a.containers[k].containerId
            BY <3>3, <3>4, ContainerId
        <3>6. \A k \in 1..Len(a.containers) : ~Crashes(a.containers[k])
            BY <3>1 DEF Convertible
        <3> QED BY <3>1, <3>2, <3>5, <3>6 DEF a
    <2>2. stoppedBy # Absent =>
            \E k \in 1..Len(stoppedBy[1].containers) : Crashes(stoppedBy[1].containers[k])
        BY <1>1 DEF CpmInv, Convertible
    <2> QED BY <2>1, <2>2 DEF WholeOrStopped
<1>2. ConversionsInv => WholeOrStopped
    BY <1>1 DEF ConversionsInv
<1> QED BY <1>2, ConversionsInvariant, PTL
==============================================================================
