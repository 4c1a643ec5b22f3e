------------------------------- MODULE DenRx -------------------------------
(***************************************************************************)
(* The node den_rx (src/den_rx.cpp): publishes a decoded DENM only when    *)
(* its cooldown has passed since the last one it published, whatever event *)
(* that was about, by the node's clock. The cooldown is a parameter that   *)
(* may be set while the node runs; the clock is the system's (or the       *)
(* simulation's) and may be set back.                                      *)
(***************************************************************************)
EXTENDS Integers, Sequences

CONSTANTS
    Events,             \* the events that DENMs are about (their action ids)
    Times,              \* what the clock may show, in seconds
    Cooldowns,          \* values the parameter may be given
    MaxIndications      \* bound: DENM indications handled

\* Variant: a negative number for "no cooldown".
NegativeCooldown == -1

DefaultCooldown == 0    \* declare_parameter("cooldown", 0.0)

ASSUME DenRxAssumption ==
    /\ Times \subseteq Nat
    /\ Cooldowns \subseteq Nat
    /\ MaxIndications \in Nat

VARIABLES
    now,                \* the node's clock
    cooldown,           \* the parameter
    last_publish_time_,
    publish_cooldown_,  \* the parameter as last read
    published,          \* history: event, time stamp and cooldown of each publication
    suppressed          \* history: the same of each decoded DENM not published, and
                        \* how many had been published

vars == <<now, cooldown, last_publish_time_, publish_cooldown_, published, suppressed>>

\* rclcpp::Time and the double start at zero (the double is read only after
\* the first get_parameter).
Init ==
    /\ now \in Times
    /\ cooldown = DefaultCooldown
    /\ last_publish_time_ = 0
    /\ publish_cooldown_ = DefaultCooldown
    /\ published = << >>
    /\ suppressed = << >>

ClockTick ==
    /\ now' \in Times
    /\ UNCHANGED <<cooldown, last_publish_time_, publish_cooldown_, published, suppressed>>

SetCooldown(c) ==
    /\ cooldown' = c
    /\ UNCHANGED <<now, last_publish_time_, publish_cooldown_, published, suppressed>>

\* A DENM about event e, decoded now.
Received(e) == [event |-> e, time |-> now, cooldown |-> cooldown]

\* Variant: the comparison is strict.
CooledDownStrictly(d) == d.time - last_publish_time_ > d.cooldown

\* Variant: each event has a cooldown of its own.
CooledDownPerEvent(d) ==
    \A k \in 1..Len(published) :
        published[k].event = d.event => d.time - published[k].time >= d.cooldown

CooledDown(d) == d.time - last_publish_time_ >= d.cooldown

\* An indication of port 2002 about event e, which the decoder takes (ok) or
\* not. The parameter is read before decoding; what passes is stamped with the
\* time read then.
onIndication(e, ok) ==
    /\ Len(published) + Len(suppressed) < MaxIndications
    /\ publish_cooldown_' = cooldown
    /\ \/ /\ ok /\ CooledDown(Received(e))
          /\ published' = Append(published, Received(e))
          /\ last_publish_time_' = now
          /\ UNCHANGED suppressed
       \/ /\ ok /\ ~CooledDown(Received(e))
          /\ suppressed' = Append(suppressed,
                 [denm |-> Received(e), after |-> Len(published)])
          /\ UNCHANGED <<published, last_publish_time_>>
       \/ /\ ~ok
          /\ UNCHANGED <<published, last_publish_time_, suppressed>>
    /\ UNCHANGED <<now, cooldown>>

Next ==
    \/ ClockTick
    \/ \E c \in Cooldowns : SetCooldown(c)
    \/ \E e \in Events, ok \in BOOLEAN : onIndication(e, ok)

Spec == Init /\ [][Next]_vars

---------------------------------------------------------------------------
Denm == [event : Events, time : Nat, cooldown : Nat]
Suppressed == [denm : Denm, after : Nat]

\* Every variable has its type.
TypeOK ==
    /\ now \in Nat
    /\ cooldown \in Nat
    /\ last_publish_time_ \in Nat
    /\ publish_cooldown_ \in Nat
    /\ published \in Seq(Denm)
    /\ suppressed \in Seq(Suppressed)

\* However the clock is set, whatever the parameter becomes in between and
\* whichever events the messages are about: if the cooldown was at least c for
\* each of n publications in a row, the last of them is n*c or more after the
\* one before them.
RateBound ==
    \A i, j \in 1..Len(published) : \A c \in Cooldowns :
        (i < j /\ \A k \in i+1..j : published[k].cooldown >= c)
            => published[j].time - published[i].time >= (j - i) * c

\* Nothing is suppressed but for the sake of a publication (or, on a clock
\* that has just started, of its zero): the last one before it is less than
\* the cooldown in force away, or later by the clock, which was set back. Not
\* even a suppressed message extends the wait of the next.
SuppressedInCooldown ==
    \A k \in 1..Len(suppressed) :
        LET d == suppressed[k].denm
            n == suppressed[k].after
        IN  /\ n <= Len(published)
            /\ d.time < d.cooldown + (IF n = 0 THEN 0 ELSE published[n].time)

---------------------------------------------------------------------------
\* "No cooldown by default", den_rx.cpp: nothing decoded is suppressed while
\* the parameter has its default.
DefaultSuppressesNothing ==
    \A k \in 1..Len(suppressed) : suppressed[k].denm.cooldown # DefaultCooldown
=============================================================================
