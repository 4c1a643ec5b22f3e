----------------------------- MODULE LossyFeed -----------------------------
(***************************************************************************)
(* What the stack promises its users, inbound and outbound: a receiver     *)
(* gets items that were offered, of the kind it wants, each at most once   *)
(* and in the order of the offers. Any of them may be lost: topics drop    *)
(* what does not fit, sends fail and nodes stop.                           *)
(***************************************************************************)
EXTENDS Integers, Sequences

CONSTANTS
    Receivers,      \* who gets items
    Ids,            \* numbers of the items, in the order of the offers
    Headers,        \* what an item is, as far as it decides who wants it
    WantedBy        \* for each receiver, the headers of its items

VARIABLES
    offered,        \* the items so far: records of an id and a header
    delivered       \* per receiver, the ids it got

vars == <<offered, delivered>>

Init ==
    /\ offered = {}
    /\ delivered = [r \in Receivers |-> << >>]

Offer(i, h) ==
    /\ \A m \in offered : m.id < i
    /\ offered' = offered \cup {[id |-> i, header |-> h]}
    /\ UNCHANGED delivered

Deliver(r) ==
    /\ \E m \in offered :
          /\ m.header \in WantedBy[r]
          /\ \A k \in DOMAIN delivered[r] : delivered[r][k] < m.id
          /\ delivered' = [delivered EXCEPT ![r] = Append(@, m.id)]
    /\ UNCHANGED offered

Next ==
    \/ \E i \in Ids, h \in Headers : Offer(i, h)
    \/ \E r \in Receivers : Deliver(r)

Spec == Init /\ [][Next]_vars
=============================================================================
