------------------------------ MODULE RosTopic ------------------------------
(***************************************************************************)
(* What the nodes rely on of a ROS 2 topic with the default QoS (reliable, *)
(* volatile, KEEP_LAST). What a topic's publishers sent is a log. A        *)
(* subscription is the position in the log of the next sample the          *)
(* middleware will hand over, and the queue of positions handed over that  *)
(* the executor has not taken yet. A subscription gets nothing published   *)
(* before it was matched with the publisher, the publisher's history holds *)
(* its last samples only, and a full queue drops its oldest entry; samples *)
(* of one topic are never reordered.                                       *)
(***************************************************************************)
EXTENDS Integers, Sequences

\* A subscription that has not been matched with the topic's one publisher,
\* and one to a topic whose publishers come and go.
Unmatched == [next |-> 0, queue |-> << >>]
Listening == [next |-> 1, queue |-> << >>]

IsSubscription(sub) ==
    sub \in [next : Nat, queue : Seq(Nat)]

CanMatch(sub) == sub.next = 0

\* The subscription is discovered: it will get what is published from now on.
Match(sub, log) == [sub EXCEPT !.next = Len(log) + 1]

\* The oldest sample of the log that the subscription has not been handed
\* over and that the publisher's history, `held' samples, still has.
NextSample(sub, log, held) ==
    IF sub.next > Len(log) - held THEN sub.next ELSE Len(log) - held + 1

CanTransmit(sub, log, held) ==
    /\ ~CanMatch(sub)
    /\ NextSample(sub, log, held) \in 1..Len(log)

\* A queue of the given depth gets x; when it is full its oldest entry goes.
KeepLast(queue, x, depth) ==
    IF Len(queue) < depth THEN Append(queue, x) ELSE Append(Tail(queue), x)

Transmit(sub, log, held, depth) ==
    LET i == NextSample(sub, log, held)
    IN  [next |-> i + 1, queue |-> KeepLast(sub.queue, i, depth)]

\* The executor runs the callback on the oldest sample of the queue.
HasSample(sub) == sub.queue # << >>
Sample(sub, log) == log[Head(sub.queue)]
Taken(sub) == [sub EXCEPT !.queue = Tail(@)]

\* The k-th sample waits in the queue; the subscription, once matched, still
\* owes its node the k-th sample.
Queued(sub, k) == \E j \in DOMAIN sub.queue : sub.queue[j] = k
Awaits(sub, k) == sub.next \in 1..k \/ Queued(sub, k)
=============================================================================
