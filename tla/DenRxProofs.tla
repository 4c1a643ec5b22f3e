----------------------------- MODULE DenRxProofs -----------------------------
(***************************************************************************)
(* Theorems about DenRx, for every clock, every set of events and of       *)
(* cooldowns and any number of indications.                                *)
(***************************************************************************)
EXTENDS DenRx, SequenceTheorems, TLAPS

\* The node's clock reading of its last publication is the time stamp of the
\* last message it published.
LastIsStamped ==
    published # << >> => last_publish_time_ = published[Len(published)].time

SinceStart == published = << >> => last_publish_time_ = 0

IInv == TypeOK /\ LastIsStamped /\ SinceStart /\ RateBound /\ SuppressedInCooldown

\* One more period of a cooldown.
LEMMA OneMore ==
    ASSUME NEW n \in Nat, NEW c \in Nat
    PROVE  (n + 1) * c = n * c + c
  OBVIOUS

LEMMA TypeInit == Init => TypeOK
  BY DenRxAssumption DEF Init, TypeOK, DefaultCooldown

LEMMA TypeStep == TypeOK /\ [Next]_vars => TypeOK'
<1> SUFFICES ASSUME TypeOK, [Next]_vars PROVE TypeOK'
    OBVIOUS
<1> USE DenRxAssumption
<1>1. CASE ClockTick
    BY <1>1 DEF TypeOK, ClockTick
<1>2. ASSUME NEW c \in Cooldowns, SetCooldown(c) PROVE TypeOK'
    BY <1>2 DEF TypeOK, SetCooldown
<1>3. ASSUME NEW e \in Events, NEW ok \in BOOLEAN, onIndication(e, ok) PROVE TypeOK'
    <2> DEFINE denm == Received(e)
               late == [denm |-> Received(e), after |-> Len(published)]
    <2>1. published \in Seq(Denm) /\ suppressed \in Seq(Suppressed)
        BY DEF TypeOK
    <2>2. denm \in Denm /\ late \in Suppressed
        BY <2>1 DEF TypeOK, Received, Denm, Suppressed
    <2>3. published' = published \/ published' = Append(published, denm)
        BY <1>3 DEF onIndication
    <2>4. suppressed' = suppressed \/ suppressed' = Append(suppressed, late)
        BY <1>3 DEF onIndication
    <2>5. last_publish_time_' \in {last_publish_time_, now}
        BY <1>3 DEF onIndication
    <2>6. publish_cooldown_' = cooldown /\ now' = now /\ cooldown' = cooldown
        BY <1>3 DEF onIndication
    <2> HIDE DEF denm, late
    <2>7. published' \in Seq(Denm)
        BY <2>1, <2>2, <2>3, AppendProperties
    <2>8. suppressed' \in Seq(Suppressed)
        BY <2>1, <2>2, <2>4, AppendProperties
    <2> QED BY <2>5, <2>6, <2>7, <2>8 DEF TypeOK
<1>4. CASE UNCHANGED vars
    BY <1>4 DEF TypeOK, vars
<1> QED BY <1>1, <1>2, <1>3, <1>4 DEF Next

\* The rate bound of one publication more: the new message comes its cooldown
\* or more after the one before it, which was as far from the others as the
\* bound says.
LEMMA RateOfOneMore ==
    ASSUME TypeOK, LastIsStamped, RateBound,
           NEW denm \in Denm, denm.time - last_publish_time_ >= denm.cooldown,
           published' = Append(published, denm)
    PROVE  RateBound'
<1> USE DenRxAssumption
<1> DEFINE n == Len(published)
<1>1. published \in Seq(Denm) /\ n \in Nat
    BY DEF TypeOK
<1>2. /\ Len(published') = n + 1
      /\ published'[n + 1] = denm
      /\ \A k \in 1..n : published'[k] = published[k]
    BY <1>1
<1>3. \A k \in 1..n : published[k] \in Denm
    BY <1>1
<1> SUFFICES ASSUME NEW i \in 1..n+1, NEW j \in 1..n+1, NEW c \in Cooldowns, i < j,
                    \A k \in i+1..j : published'[k].cooldown >= c
             PROVE  published'[j].time - published'[i].time >= (j - i) * c
    BY <1>2 DEF RateBound
<1>4. c \in Nat
    OBVIOUS
<1>8. denm.time - last_publish_time_ >= denm.cooldown /\ last_publish_time_ \in Nat
    BY DEF TypeOK
<1>5. CASE j <= n
    <2>1. \A k \in i+1..j : published[k].cooldown >= c
        BY <1>1, <1>2, <1>5
    <2>2. published[j].time - published[i].time >= (j - i) * c
        BY <1>1, <1>5, <2>1 DEF RateBound
    <2> QED BY <1>1, <1>2, <1>5, <2>2
<1>6. CASE j = n + 1 /\ i = n
    <2>1. denm.cooldown >= c
        BY <1>1, <1>2, <1>6
    <2>2. last_publish_time_ = published[n].time
        BY <1>1, <1>6 DEF LastIsStamped
    <2>3. denm.time \in Nat /\ denm.cooldown \in Nat /\ published[n].time \in Nat
        BY <1>1, <1>3, <1>6 DEF Denm
    <2>4. denm.time - published[n].time >= c
        BY <1>4, <2>1, <2>2, <2>3
    <2>5. (j - i) * c = c
        BY <1>1, <1>4, <1>6
    <2> QED BY <1>1, <1>2, <1>6, <2>4, <2>5
<1>7. CASE j = n + 1 /\ i < n
    <2>1. denm.cooldown >= c
        BY <1>1, <1>2, <1>7
    <2>2. last_publish_time_ = published[n].time
        BY <1>1, <1>7 DEF LastIsStamped
    <2>3. \A k \in i+1..n : published[k].cooldown >= c
        BY <1>1, <1>2, <1>7
    <2>4. published[n].time - published[i].time >= (n - i) * c
        <3>1. i \in 1..Len(published) /\ n \in 1..Len(published)
            BY <1>1, <1>7
        <3> HIDE DEF n
        <3>2. i < n
            BY <1>7
        <3> QED BY <2>3, <3>1, <3>2, Zenon DEF RateBound
    <2>5. /\ denm.time \in Nat /\ denm.cooldown \in Nat
          /\ published[n].time \in Nat /\ published[i].time \in Nat
        <3>1. i \in 1..n /\ n \in 1..n
            BY <1>1, <1>7
        <3>2. published[n] \in Denm /\ published[i] \in Denm
            BY <1>3, <3>1
        <3> QED BY <3>2 DEF Denm
    <2>6. n - i \in Nat /\ j - i = (n - i) + 1
        BY <1>1, <1>7
    <2>7. (j - i) * c = (n - i) * c + c
        BY <1>4, <2>6, OneMore
    <2>8. (n - i) * c \in Nat
        BY <1>4, <2>6
    <2>9. denm.time - published[i].time >= (n - i) * c + c
        <3> DEFINE rest == (n - i) * c
        <3>1. rest \in Nat /\ published[n].time - published[i].time >= rest
            BY <2>4, <2>8
        <3> HIDE DEF rest, n
        <3>2. denm.time - published[n].time >= c
            BY <1>4, <1>8, <2>1, <2>2, <2>5
        <3>3. denm.time - published[i].time >= rest + c
            BY <1>4, <2>5, <3>1, <3>2, SMTT(30)
        <3> QED BY <3>3 DEF rest
    <2> QED BY <1>1, <1>2, <1>7, <2>7, <2>9
<1> QED BY <1>1, <1>5, <1>6, <1>7

\* A publication leaves what was suppressed before it as it was.
LEMMA SuppressedBefore ==
    ASSUME TypeOK, SuppressedInCooldown, UNCHANGED suppressed,
           NEW denm \in Denm, published' = Append(published, denm)
    PROVE  SuppressedInCooldown'
<1>1. published \in Seq(Denm) /\ suppressed \in Seq(Suppressed)
    BY DEF TypeOK
<1>2. /\ Len(published') = Len(published) + 1
      /\ \A k \in 1..Len(published) : published'[k] = published[k]
    BY <1>1, AppendProperties
<1>3. \A k \in 1..Len(suppressed) : suppressed[k] \in Suppressed
    BY <1>1
<1>4. \A k \in 1..Len(suppressed) : suppressed[k].after \in Nat
    BY <1>3 DEF Suppressed
<1> QED BY <1>1, <1>2, <1>4 DEF SuppressedInCooldown

\* A suppressed message was less than the cooldown behind the node's last
\* publication.
LEMMA SuppressedOneMore ==
    ASSUME TypeOK, LastIsStamped, SinceStart, SuppressedInCooldown,
           UNCHANGED published, NEW late \in Suppressed, late.after = Len(published),
           late.denm.time - last_publish_time_ < late.denm.cooldown,
           suppressed' = Append(suppressed, late)
    PROVE  SuppressedInCooldown'
<1>1. published \in Seq(Denm) /\ suppressed \in Seq(Suppressed)
    BY DEF TypeOK
<1>2. /\ Len(suppressed') = Len(suppressed) + 1
      /\ suppressed'[Len(suppressed) + 1] = late
      /\ \A k \in 1..Len(suppressed) : suppressed'[k] = suppressed[k]
    BY <1>1, AppendProperties
<1>3. late.denm.time \in Nat /\ late.denm.cooldown \in Nat /\ last_publish_time_ \in Nat
    BY DEF Suppressed, Denm, TypeOK
<1>4. late.denm.time < late.denm.cooldown + last_publish_time_
    BY <1>3
<1>5. last_publish_time_ = IF late.after = 0 THEN 0 ELSE published[late.after].time
    BY <1>1, EmptySeq DEF LastIsStamped, SinceStart
<1>6. late.after <= Len(published)
    BY <1>1
<1> QED BY <1>1, <1>2, <1>4, <1>5, <1>6 DEF SuppressedInCooldown

LEMMA InvStep == IInv /\ [Next]_vars => IInv'
<1> SUFFICES ASSUME IInv, [Next]_vars PROVE IInv'
    OBVIOUS
<1>1. TypeOK'
    BY TypeStep DEF IInv
<1>2. CASE UNCHANGED <<published, last_publish_time_, suppressed>>
    BY <1>1, <1>2 DEF IInv, LastIsStamped, SinceStart, RateBound, SuppressedInCooldown
<1>3. ASSUME NEW e \in Events, CooledDown(Received(e)),
             published' = Append(published, Received(e)),
             last_publish_time_' = now, UNCHANGED suppressed
      PROVE  IInv'
    <2> DEFINE denm == Received(e)
    <2>1. denm \in Denm /\ denm.time = now /\ denm.cooldown = cooldown
        BY DEF IInv, TypeOK, Denm, Received
    <2>2. denm.time - last_publish_time_ >= denm.cooldown
        BY <1>3 DEF CooledDown
    <2>3. published \in Seq(Denm) /\ published' = Append(published, denm)
        BY <1>3 DEF IInv, TypeOK
    <2> HIDE DEF denm
    <2>4. RateBound'
        BY <2>1, <2>2, <2>3, RateOfOneMore DEF IInv
    <2>5. SuppressedInCooldown'
        BY <1>3, <2>1, <2>3, SuppressedBefore DEF IInv
    <2>6. published' # << >> /\ published'[Len(published')] = denm
        BY <2>1, <2>3, AppendProperties
    <2>7. LastIsStamped' /\ SinceStart'
        BY <1>3, <2>1, <2>6 DEF LastIsStamped, SinceStart
    <2> QED BY <1>1, <2>4, <2>5, <2>7 DEF IInv
<1>4. ASSUME NEW e \in Events, ~CooledDown(Received(e)),
             suppressed' = Append(suppressed,
                 [denm |-> Received(e), after |-> Len(published)]),
             UNCHANGED <<published, last_publish_time_>>
      PROVE  IInv'
    <2> DEFINE late == [denm |-> Received(e), after |-> Len(published)]
    <2>1. published \in Seq(Denm)
        BY DEF IInv, TypeOK
    <2>2. /\ late \in Suppressed /\ late.denm = Received(e)
          /\ late.after = Len(published)
        BY <2>1 DEF IInv, TypeOK, Suppressed, Denm, Received
    <2>3. late.denm.time - last_publish_time_ < late.denm.cooldown
        BY <1>4, <2>2 DEF IInv, TypeOK, CooledDown, Received
    <2>4. suppressed' = Append(suppressed, late)
        BY <1>4
    <2> HIDE DEF late
    <2>5. SuppressedInCooldown'
        BY <1>4, <2>2, <2>3, <2>4, SuppressedOneMore DEF IInv
    <2>6. LastIsStamped' /\ SinceStart' /\ RateBound'
        BY <1>4 DEF IInv, LastIsStamped, SinceStart, RateBound
    <2> QED BY <1>1, <2>5, <2>6 DEF IInv
<1>5. CASE ClockTick \/ \E c \in Cooldowns : SetCooldown(c)
    BY <1>2, <1>5 DEF ClockTick, SetCooldown
<1>6. ASSUME NEW e \in Events, NEW ok \in BOOLEAN, onIndication(e, ok)
      PROVE  IInv'
    BY <1>2, <1>3, <1>4, <1>6 DEF onIndication
<1> QED BY <1>2, <1>5, <1>6 DEF Next, vars

LEMMA Invariant == Spec => []IInv
<1>1. Init => IInv
    BY TypeInit DEF Init, IInv, LastIsStamped, SinceStart, RateBound, SuppressedInCooldown
<1> QED BY <1>1, InvStep, PTL DEF Spec

\* Every variable of den_rx keeps its type.
THEOREM TypeCorrect == Spec => []TypeOK
  BY Invariant, PTL DEF IInv

\* The cooldown bounds the rate of publication whatever the clock shows, at
\* whatever values the parameter is set and whenever: n publications in a row
\* with at least c in force take n*c or more.
THEOREM RateCorrect == Spec => []RateBound
  BY Invariant, PTL DEF IInv

\* Only a publication less than the cooldown away suppresses a message, or one
\* that is later by a clock that was set back since.
THEOREM SuppressionCorrect == Spec => []SuppressedInCooldown
  BY Invariant, PTL DEF IInv

---------------------------------------------------------------------------
\* What setting the clock back is to blame for, and what it is not.
ClockNeverSetBack == [][now' >= now]_vars

SteadyInv == last_publish_time_ <= now /\ DefaultSuppressesNothing

LEMMA SteadyStep ==
    IInv /\ SteadyInv /\ [Next]_vars /\ [now' >= now]_vars => SteadyInv'
<1> SUFFICES ASSUME IInv, SteadyInv, [Next]_vars, [now' >= now]_vars PROVE SteadyInv'
    OBVIOUS
<1>1. /\ now \in Nat /\ last_publish_time_ \in Nat /\ cooldown \in Nat
      /\ suppressed \in Seq(Suppressed) /\ now' \in Nat
    BY TypeStep DEF IInv, TypeOK
<1>2. now' >= now
    BY <1>1 DEF vars
<1>3. CASE UNCHANGED <<last_publish_time_, suppressed>>
    BY <1>1, <1>2, <1>3 DEF SteadyInv, DefaultSuppressesNothing
<1>4. CASE last_publish_time_' = now /\ UNCHANGED suppressed
    BY <1>1, <1>2, <1>4 DEF SteadyInv, DefaultSuppressesNothing
<1>5. ASSUME NEW e \in Events, ~CooledDown(Received(e)), UNCHANGED last_publish_time_,
             suppressed' = Append(suppressed,
                 [denm |-> Received(e), after |-> Len(published)])
      PROVE  SteadyInv'
    <2> DEFINE late == [denm |-> Received(e), after |-> Len(published)]
    <2>1. late.denm.cooldown # DefaultCooldown
        BY <1>1, <1>5 DEF SteadyInv, CooledDown, Received, DefaultCooldown
    <2>2. suppressed' = Append(suppressed, late)
        BY <1>5
    <2> HIDE DEF late
    <2>3. suppressed \in Seq(Suppressed \cup {late})
        BY <1>1
    <2>4. /\ Len(suppressed') = Len(suppressed) + 1
          /\ suppressed'[Len(suppressed) + 1] = late
          /\ \A k \in 1..Len(suppressed) : suppressed'[k] = suppressed[k]
        BY <2>2, <2>3, AppendProperties
    <2>5. \A k \in 1..Len(suppressed') : k \in 1..Len(suppressed) \/ k = Len(suppressed) + 1
        BY <1>1, <2>4
    <2>6. DefaultSuppressesNothing'
        BY <2>1, <2>4, <2>5 DEF SteadyInv, DefaultSuppressesNothing
    <2> QED BY <1>1, <1>2, <1>5, <2>6 DEF SteadyInv
<1>6. CASE ClockTick \/ (\E c \in Cooldowns : SetCooldown(c)) \/ UNCHANGED vars
    BY <1>3, <1>6 DEF ClockTick, SetCooldown, vars
<1>7. ASSUME NEW e \in Events, NEW ok \in BOOLEAN, onIndication(e, ok)
      PROVE  SteadyInv'
    BY <1>3, <1>4, <1>5, <1>7 DEF onIndication
<1> QED BY <1>6, <1>7 DEF Next

\* While the clock is never set back, nothing is suppressed under the default
\* cooldown: whatever it was set to before and however often it changed, no
\* publication under a longer one mutes the node once it is zero again.
THEOREM SteadyClockCorrect == Spec /\ ClockNeverSetBack => []DefaultSuppressesNothing
<1>1. Init => SteadyInv
    BY DenRxAssumption DEF Init, SteadyInv, DefaultSuppressesNothing
<1>2. SteadyInv => DefaultSuppressesNothing
    BY DEF SteadyInv
<1> QED BY <1>1, <1>2, SteadyStep, Invariant, PTL DEF Spec, ClockNeverSetBack
==============================================================================
