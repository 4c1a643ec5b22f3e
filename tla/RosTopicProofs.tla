--------------------------- MODULE RosTopicProofs ---------------------------
(***************************************************************************)
(* Order across one hop: a node takes the samples of one topic's log and   *)
(* publishes some of them on another. The logs are sequences of numbers    *)
(* here, which identify what was published.                                *)
(***************************************************************************)
EXTENDS RosTopic, SequenceTheorems, TLAPS

Ascends(ids) == \A i, j \in 1..Len(ids) : i < j => ids[i] < ids[j]

\* The position k of the log may still be taken.
Pending(sub, k) == k >= sub.next \/ \E j \in 1..Len(sub.queue) : sub.queue[j] = k

\* What was published on, out, is in order and before all that is pending.
InOrder(sub, log, out) ==
    /\ IsSubscription(sub)
    /\ \A j \in 1..Len(sub.queue) : sub.queue[j] \in 1..Len(log) /\ sub.queue[j] < sub.next
    /\ Ascends(sub.queue)
    /\ \A n \in 1..Len(out), k \in 1..Len(log) : Pending(sub, k) => out[n] < log[k]
    /\ Ascends(out)

LEMMA SubscriptionFields ==
    ASSUME NEW sub, IsSubscription(sub)
    PROVE  sub.next \in Nat /\ sub.queue \in Seq(Nat)
  BY DEF IsSubscription

LEMMA AscendsAppend ==
    ASSUME NEW ids \in Seq(Nat), NEW x \in Nat, Ascends(ids),
           \A i \in 1..Len(ids) : ids[i] < x
    PROVE  Ascends(Append(ids, x))
<1>1. /\ Len(Append(ids, x)) = Len(ids) + 1
      /\ Append(ids, x)[Len(ids) + 1] = x
      /\ \A i \in 1..Len(ids) : Append(ids, x)[i] = ids[i]
    BY AppendProperties
<1>2. Len(ids) \in Nat
    OBVIOUS
<1> QED BY <1>1, <1>2 DEF Ascends

LEMMA AscendsTail ==
    ASSUME NEW ids \in Seq(Nat), ids # << >>, Ascends(ids)
    PROVE  /\ Tail(ids) \in Seq(Nat)
           /\ Len(Tail(ids)) = Len(ids) - 1
           /\ \A i \in 1..Len(ids)-1 : Tail(ids)[i] = ids[i + 1]
           /\ Ascends(Tail(ids))
<1>1. /\ Tail(ids) \in Seq(Nat) /\ Len(ids) \in Nat /\ Len(ids) > 0
      /\ Len(Tail(ids)) = Len(ids) - 1
      /\ \A i \in 1..Len(ids)-1 : Tail(ids)[i] = ids[i + 1]
    BY HeadTailProperties, EmptySeq
<1> QED BY <1>1 DEF Ascends

\* A new sample, later than all that was published on, keeps the order.
LEMMA LogGrows ==
    ASSUME NEW sub, NEW log \in Seq(Nat), NEW out \in Seq(Nat), InOrder(sub, log, out),
           NEW x \in Nat, \A n \in 1..Len(out) : out[n] < x
    PROVE  InOrder(sub, Append(log, x), out)
<1>1. /\ Len(Append(log, x)) = Len(log) + 1
      /\ Append(log, x)[Len(log) + 1] = x
      /\ \A i \in 1..Len(log) : Append(log, x)[i] = log[i]
    BY AppendProperties
<1>2. Len(log) \in Nat
    OBVIOUS
<1>3. \A k \in 1..Len(log)+1 : k \in 1..Len(log) \/ k = Len(log) + 1
    BY <1>2
<1> QED BY <1>1, <1>2, <1>3, SMTT(30) DEF InOrder

\* Discovery gives up what is in the log.
LEMMA MatchKeepsOrder ==
    ASSUME NEW sub, NEW log \in Seq(Nat), NEW out \in Seq(Nat), InOrder(sub, log, out),
           CanMatch(sub)
    PROVE  InOrder(Match(sub, log), log, out)
<1> DEFINE new == Match(sub, log)
<1>1. sub.next = 0 /\ sub.queue \in Seq(Nat) /\ Len(log) \in Nat
    BY SubscriptionFields DEF InOrder, CanMatch
<1>2. new = [next |-> Len(log) + 1, queue |-> sub.queue]
    BY DEF Match, InOrder, IsSubscription
<1>3. new.next = Len(log) + 1 /\ new.queue = sub.queue /\ IsSubscription(new)
    BY <1>1, <1>2 DEF IsSubscription
<1>4. \A k \in 1..Len(log) : Pending(new, k) => Pending(sub, k)
    BY <1>1, <1>3 DEF Pending
<1> HIDE DEF new
<1>5. \A j \in 1..Len(new.queue) : new.queue[j] \in 1..Len(log) /\ new.queue[j] < new.next
    BY <1>1, <1>3 DEF InOrder
<1> QED BY <1>3, <1>4, <1>5 DEF InOrder, new

\* A queue with one more entry, later than those it has.
LEMMA KeepLastKeeps ==
    ASSUME NEW queue \in Seq(Nat), NEW x \in Nat, NEW depth \in Nat \ {0}, Ascends(queue),
           \A j \in 1..Len(queue) : queue[j] < x
    PROVE  LET new == KeepLast(queue, x, depth)
           IN  /\ new \in Seq(Nat)
               /\ Ascends(new)
               /\ \A j \in 1..Len(new) :
                     new[j] = x \/ \E i \in 1..Len(queue) : new[j] = queue[i]
<1>1. Len(queue) \in Nat
    OBVIOUS
<1>2. ASSUME NEW rest \in Seq(Nat), Ascends(rest),
             \A j \in 1..Len(rest) : \E i \in 1..Len(queue) : rest[j] = queue[i]
      PROVE  /\ Append(rest, x) \in Seq(Nat)
             /\ Ascends(Append(rest, x))
             /\ \A j \in 1..Len(Append(rest, x)) :
                   Append(rest, x)[j] = x \/ \E i \in 1..Len(queue) : Append(rest, x)[j] = queue[i]
    <2>1. \A j \in 1..Len(rest) : rest[j] < x
        BY <1>2
    <2>2. Ascends(Append(rest, x))
        BY <1>2, <2>1, AscendsAppend
    <2>3. /\ Append(rest, x) \in Seq(Nat)
          /\ Len(Append(rest, x)) = Len(rest) + 1
          /\ Append(rest, x)[Len(rest) + 1] = x
          /\ \A i \in 1..Len(rest) : Append(rest, x)[i] = rest[i]
        BY AppendProperties
    <2>4. \A j \in 1..Len(rest)+1 : j \in 1..Len(rest) \/ j = Len(rest) + 1
        OBVIOUS
    <2> QED BY <1>2, <2>2, <2>3, <2>4
<1>3. CASE Len(queue) < depth
    <2>1. \A j \in 1..Len(queue) : \E i \in 1..Len(queue) : queue[j] = queue[i]
        OBVIOUS
    <2>2. KeepLast(queue, x, depth) = Append(queue, x)
        BY <1>3 DEF KeepLast
    <2> QED BY <1>2, <2>1, <2>2
<1>4. CASE ~(Len(queue) < depth)
    <2>1. queue # << >>
        BY <1>1, <1>4, EmptySeq
    <2>2. /\ Tail(queue) \in Seq(Nat) /\ Len(Tail(queue)) = Len(queue) - 1
          /\ \A i \in 1..Len(queue)-1 : Tail(queue)[i] = queue[i + 1]
          /\ Ascends(Tail(queue))
        BY <2>1, AscendsTail
    <2>3. \A j \in 1..Len(Tail(queue)) : j + 1 \in 1..Len(queue) /\ Tail(queue)[j] = queue[j + 1]
        BY <1>1, <2>2
    <2>4. KeepLast(queue, x, depth) = Append(Tail(queue), x)
        BY <1>4 DEF KeepLast
    <2>5. \A j \in 1..Len(Tail(queue)) : \E i \in 1..Len(queue) : Tail(queue)[j] = queue[i]
        BY <2>3
    <2> DEFINE rest == Tail(queue)
    <2> HIDE DEF rest
    <2>6. /\ rest \in Seq(Nat) /\ Ascends(rest) /\ KeepLast(queue, x, depth) = Append(rest, x)
          /\ \A j \in 1..Len(rest) : \E i \in 1..Len(queue) : rest[j] = queue[i]
        BY <2>2, <2>4, <2>5 DEF rest
    <2> QED BY <1>2, <2>6
<1> QED BY <1>3, <1>4

\* The middleware hands over the next sample.
LEMMA TransmitKeepsOrder ==
    ASSUME NEW sub, NEW log \in Seq(Nat), NEW out \in Seq(Nat), InOrder(sub, log, out),
           NEW held \in Nat \ {0}, NEW depth \in Nat \ {0}, CanTransmit(sub, log, held)
    PROVE  InOrder(Transmit(sub, log, held, depth), log, out)
<1> DEFINE x == NextSample(sub, log, held)
           queue == KeepLast(sub.queue, x, depth)
           new == Transmit(sub, log, held, depth)
<1>1. sub.next \in Nat /\ sub.queue \in Seq(Nat)
    BY SubscriptionFields DEF InOrder
<1>2. x \in 1..Len(log) /\ x >= sub.next
    BY <1>1 DEF CanTransmit, NextSample
<1>3. new.next = x + 1 /\ new.queue = queue /\ new = [next |-> x + 1, queue |-> queue]
    BY DEF Transmit
<1> HIDE DEF x, queue, new
<1>4. \A j \in 1..Len(sub.queue) : sub.queue[j] < x /\ sub.queue[j] \in 1..Len(log)
    <2>1. \A j \in 1..Len(sub.queue) :
              sub.queue[j] \in 1..Len(log) /\ sub.queue[j] < sub.next
        BY DEF InOrder
    <2>2. Len(log) \in Nat /\ x \in Nat
        BY <1>2
    <2>3. ASSUME NEW j \in 1..Len(sub.queue)
          PROVE  sub.queue[j] < x
        <3>1. sub.queue[j] \in Nat /\ sub.queue[j] < sub.next
            BY <1>1, <2>1
        <3> QED BY <1>1, <1>2, <2>2, <3>1, SMTT(30)
    <2> QED BY <2>1, <2>3
<1>5. /\ queue \in Seq(Nat)
      /\ Ascends(queue)
      /\ \A j \in 1..Len(queue) :
            queue[j] = x \/ \E i \in 1..Len(sub.queue) : queue[j] = sub.queue[i]
    <2>1. x \in Nat
        BY <1>2
    <2>2. Ascends(sub.queue) /\ \A j \in 1..Len(sub.queue) : sub.queue[j] < x
        BY <1>4 DEF InOrder
    <2> QED BY <1>1, <2>1, <2>2, KeepLastKeeps, ZenonT(30) DEF queue
<1>6. IsSubscription(new)
    BY <1>2, <1>3, <1>5 DEF IsSubscription
<1>7. \A j \in 1..Len(new.queue) : new.queue[j] \in 1..Len(log) /\ new.queue[j] < new.next
    <2> SUFFICES ASSUME NEW j \in 1..Len(queue)
                 PROVE  queue[j] \in 1..Len(log) /\ queue[j] < x + 1
        BY <1>3
    <2>1. CASE queue[j] = x
        BY <1>2, <2>1
    <2>2. CASE \E i \in 1..Len(sub.queue) : queue[j] = sub.queue[i]
        <3>1. PICK i \in 1..Len(sub.queue) : queue[j] = sub.queue[i]
            BY <2>2
        <3>2. queue[j] \in 1..Len(log) /\ queue[j] < x
            BY <1>4, <3>1
        <3> QED BY <1>2, <3>2
    <2> QED BY <1>5, <2>1, <2>2
<1>8. \A k \in 1..Len(log) : Pending(new, k) => Pending(sub, k)
    <2> SUFFICES ASSUME NEW k \in 1..Len(log), Pending(new, k)
                 PROVE  Pending(sub, k)
        OBVIOUS
    <2>1. CASE k >= new.next
        BY <1>1, <1>2, <1>3, <2>1 DEF Pending
    <2>2. CASE \E j \in 1..Len(new.queue) : new.queue[j] = k
        <3>1. PICK j \in 1..Len(queue) : queue[j] = k
            BY <1>3, <2>2
        <3>2. CASE queue[j] = x
            BY <1>1, <1>2, <3>1, <3>2 DEF Pending
        <3>3. CASE \E i \in 1..Len(sub.queue) : queue[j] = sub.queue[i]
            BY <3>1, <3>3 DEF Pending
        <3> QED BY <1>5, <3>2, <3>3
    <2> QED BY <2>1, <2>2 DEF Pending
<1> QED BY <1>3, <1>5, <1>6, <1>7, <1>8 DEF InOrder, new

\* The executor takes the oldest sample of the queue; all that is pending
\* then is later in the log.
LEMMA TakenKeepsOrder ==
    ASSUME NEW sub, NEW log \in Seq(Nat), NEW out \in Seq(Nat), InOrder(sub, log, out),
           Ascends(log), HasSample(sub)
    PROVE  LET x == Sample(sub, log)
           IN  /\ Head(sub.queue) \in 1..Len(log)
               /\ \A n \in 1..Len(out) : out[n] < x
               /\ InOrder(Taken(sub), log, out)
               /\ InOrder(Taken(sub), log, Append(out, x))
<1> DEFINE h == Head(sub.queue)  x == log[h]  new == Taken(sub)
<1>1. sub.next \in Nat /\ sub.queue \in Seq(Nat) /\ sub.queue # << >>
    BY SubscriptionFields DEF InOrder, HasSample
<1>2. /\ Len(sub.queue) \in Nat /\ 1 \in 1..Len(sub.queue) /\ h = sub.queue[1]
      /\ Tail(sub.queue) \in Seq(Nat)
      /\ Len(Tail(sub.queue)) = Len(sub.queue) - 1
      /\ \A i \in 1..Len(sub.queue)-1 : Tail(sub.queue)[i] = sub.queue[i + 1]
      /\ Ascends(Tail(sub.queue))
    BY <1>1, AscendsTail, HeadTailProperties, EmptySeq DEF InOrder
<1>3. new = [next |-> sub.next, queue |-> Tail(sub.queue)]
    <2> DEFINE t == Tail(sub.queue)
    <2>1. new = [sub EXCEPT !.queue = t]
        BY DEF Taken
    <2> HIDE DEF t, new
    <2>2. new = [next |-> sub.next, queue |-> t]
        BY <2>1 DEF InOrder, IsSubscription
    <2> QED BY <2>2 DEF t
<1>4. new.next = sub.next /\ new.queue = Tail(sub.queue) /\ IsSubscription(new)
    BY <1>1, <1>2, <1>3 DEF IsSubscription
<1>5. h \in 1..Len(log) /\ h < sub.next /\ x \in Nat
    BY <1>2 DEF InOrder
<1>6. \A i \in 1..Len(new.queue) : i + 1 \in 1..Len(sub.queue) /\ new.queue[i] = sub.queue[i + 1]
    BY <1>2, <1>4
<1>7. \A k \in 1..Len(log) : Pending(new, k) => Pending(sub, k) /\ h < k
    <2> SUFFICES ASSUME NEW k \in 1..Len(log), Pending(new, k)
                 PROVE  Pending(sub, k) /\ h < k
        OBVIOUS
    <2>1. CASE k >= new.next
        <3>1. k >= sub.next /\ k \in Nat
            BY <1>4, <2>1
        <3> QED BY <1>1, <1>5, <3>1, SMTT(30) DEF Pending
    <2>2. CASE \E i \in 1..Len(new.queue) : new.queue[i] = k
        <3>1. PICK i \in 1..Len(new.queue) : new.queue[i] = k
            BY <2>2
        <3>2. i + 1 \in 1..Len(sub.queue) /\ sub.queue[i + 1] = k /\ 1 < i + 1
            BY <1>2, <1>4, <1>6, <3>1
        <3> QED BY <1>2, <3>2 DEF InOrder, Ascends, Pending
    <2> QED BY <2>1, <2>2 DEF Pending
<1>8. Pending(sub, h)
    BY <1>2 DEF Pending
<1>9. \A n \in 1..Len(out) : out[n] < x
    BY <1>5, <1>8 DEF InOrder
<1>10. /\ Len(Append(out, x)) = Len(out) + 1
       /\ Append(out, x)[Len(out) + 1] = x
       /\ \A n \in 1..Len(out) : Append(out, x)[n] = out[n]
    BY <1>5, AppendProperties
<1>11. Ascends(Append(out, x))
    BY <1>5, <1>9, AscendsAppend DEF InOrder
<1> HIDE DEF h, x, new
<1>12. \A j \in 1..Len(new.queue) : new.queue[j] \in 1..Len(log) /\ new.queue[j] < new.next
    BY <1>4, <1>6 DEF InOrder
<1>13. Ascends(new.queue)
    BY <1>2, <1>4
<1>14. \A k \in 1..Len(log) : Pending(new, k) => x < log[k]
    BY <1>5, <1>7 DEF Ascends, x
<1>15. InOrder(new, log, out)
    BY <1>4, <1>7, <1>12, <1>13 DEF InOrder
<1>16. \A n \in 1..Len(out)+1 : n \in 1..Len(out) \/ n = Len(out) + 1
    OBVIOUS
<1>17. InOrder(new, log, Append(out, x))
    BY <1>4, <1>7, <1>10, <1>11, <1>12, <1>13, <1>14, <1>16 DEF InOrder
<1> QED BY <1>5, <1>9, <1>15, <1>17 DEF Sample, h, x, new

---------------------------------------------------------------------------
\* The ids of what a log holds.
Ids(log) == [k \in 1..Len(log) |-> log[k].id]

LEMMA IdsType ==
    ASSUME NEW M, \A m \in M : m.id \in Nat, NEW log \in Seq(M)
    PROVE  /\ Ids(log) \in Seq(Nat)
           /\ Len(Ids(log)) = Len(log)
           /\ \A k \in 1..Len(log) : Ids(log)[k] = log[k].id
  BY DEF Ids

LEMMA IdsAppend ==
    ASSUME NEW M, \A m \in M : m.id \in Nat, NEW log \in Seq(M), NEW m \in M
    PROVE  Ids(Append(log, m)) = Append(Ids(log), m.id)
<1> DEFINE new == Append(log, m)
<1>1. /\ new \in Seq(M) /\ Len(new) = Len(log) + 1 /\ new[Len(log) + 1] = m
      /\ \A k \in 1..Len(log) : new[k] = log[k]
    BY AppendProperties
<1>2. /\ Ids(log) \in Seq(Nat) /\ Len(Ids(log)) = Len(log)
      /\ \A k \in 1..Len(log) : Ids(log)[k] = log[k].id
    BY IdsType
<1>3. m.id \in Nat /\ Len(log) \in Nat
    OBVIOUS
<1>4. /\ Append(Ids(log), m.id) \in Seq(Nat)
      /\ Len(Append(Ids(log), m.id)) = Len(log) + 1
      /\ Append(Ids(log), m.id)[Len(log) + 1] = m.id
      /\ \A k \in 1..Len(log) : Append(Ids(log), m.id)[k] = log[k].id
    BY <1>2, <1>3, AppendProperties
<1> HIDE DEF new
<1>5. /\ Ids(new) \in Seq(Nat) /\ Len(Ids(new)) = Len(new)
      /\ \A k \in 1..Len(new) : Ids(new)[k] = new[k].id
    BY <1>1, IdsType
<1>6. \A k \in 1..Len(log)+1 : k \in 1..Len(log) \/ k = Len(log) + 1
    BY <1>3
<1>7. \A k \in 1..Len(log)+1 : Ids(new)[k] = Append(Ids(log), m.id)[k]
    BY <1>1, <1>4, <1>5, <1>6
<1> QED BY <1>1, <1>4, <1>5, <1>7, SeqEqual DEF new

\* What a publication keeps of a log.
LEMMA LogAppend ==
    ASSUME NEW M, NEW log \in Seq(M), NEW m \in M
    PROVE  /\ Append(log, m) \in Seq(M)
           /\ Len(log) \in Nat
           /\ Len(Append(log, m)) = Len(log) + 1
           /\ Append(log, m)[Len(log) + 1] = m
           /\ \A k \in 1..Len(log) : k \in 1..Len(Append(log, m)) /\ Append(log, m)[k] = log[k]
           /\ \A k \in 1..Len(Append(log, m)) : k \in 1..Len(log) \/ k = Len(log) + 1
  BY AppendProperties

\* What a subscription does depends on the length of the log only.
LEMMA MatchLengthOnly ==
    ASSUME NEW sub, NEW log, NEW ids, Len(log) = Len(ids)
    PROVE  Match(sub, log) = Match(sub, ids)
  BY DEF Match

LEMMA LengthOnly ==
    ASSUME NEW sub, NEW log, NEW ids, Len(log) = Len(ids), NEW held, NEW depth
    PROVE  /\ CanTransmit(sub, log, held) <=> CanTransmit(sub, ids, held)
           /\ Transmit(sub, log, held, depth) = Transmit(sub, ids, held, depth)
  BY DEF CanTransmit, NextSample, Transmit

---------------------------------------------------------------------------
\* Nothing is dropped but for newer samples. The entries of a queue are
\* distinct positions below the next one, so a queue that is full when its
\* oldest entry goes has as many newer ones behind it as it is deep.
Below(queue, next) ==
    \A j \in 1..Len(queue) : queue[j] + (Len(queue) - j) < next

Spaced(sub) == Below(sub.queue, sub.next)

LEMMA UnmatchedIsSpaced == Spaced(Unmatched) /\ \A k : ~Awaits(Unmatched, k)
  BY DEF Spaced, Below, Awaits, Queued, Unmatched

LEMMA ListeningIsSpaced == Spaced(Listening)
  BY DEF Spaced, Below, Listening

\* Which entries the queue has afterwards.
LEMMA KeepLastEntries ==
    ASSUME NEW queue \in Seq(Nat), NEW x \in Nat, NEW depth \in Nat \ {0}
    PROVE  LET new == KeepLast(queue, x, depth)  n == Len(queue)
           IN  /\ new \in Seq(Nat) /\ n \in Nat
               /\ \/ /\ Len(new) = n + 1 /\ new[n + 1] = x
                     /\ \A j \in 1..n : new[j] = queue[j]
                  \/ /\ n >= depth /\ n > 0 /\ Len(new) = n /\ new[n] = x
                     /\ \A j \in 1..n-1 : new[j] = queue[j + 1]
<1> DEFINE new == KeepLast(queue, x, depth)  n == Len(queue)
<1>1. n \in Nat
    OBVIOUS
<1>2. CASE n < depth
    <2>1. new = Append(queue, x)
        BY <1>2 DEF KeepLast
    <2>2. new \in Seq(Nat) /\ Len(new) = n + 1 /\ new[n + 1] = x /\ \A j \in 1..n : new[j] = queue[j]
        BY <2>1, AppendProperties
    <2> QED BY <1>1, <2>2
<1>3. CASE ~(n < depth)
    <2>1. queue # << >> /\ n > 0 /\ n >= depth
        BY <1>1, <1>3, EmptySeq
    <2> DEFINE rest == Tail(queue)
    <2>2. /\ rest \in Seq(Nat) /\ Len(rest) = n - 1
          /\ \A i \in 1..n-1 : rest[i] = queue[i + 1]
        BY <2>1, HeadTailProperties
    <2>3. new = Append(rest, x)
        BY <1>3 DEF KeepLast
    <2> HIDE DEF rest, new
    <2>4. /\ new \in Seq(Nat) /\ Len(new) = Len(rest) + 1
          /\ new[Len(rest) + 1] = x
          /\ \A j \in 1..Len(rest) : new[j] = rest[j]
        BY <2>2, <2>3, AppendProperties
    <2> HIDE DEF n
    <2>5. Len(new) = n /\ new[n] = x /\ \A j \in 1..n-1 : new[j] = queue[j + 1]
        BY <1>1, <2>2, <2>4
    <2> QED BY <1>1, <2>1, <2>4, <2>5 DEF new, n
<1> QED BY <1>2, <1>3

LEMMA KeepLastStaysBelow ==
    ASSUME NEW queue \in Seq(Nat), NEW next \in Nat, Below(queue, next),
           NEW x \in Nat, x >= next, NEW depth \in Nat \ {0}
    PROVE  Below(KeepLast(queue, x, depth), x + 1)
<1> DEFINE new == KeepLast(queue, x, depth)  n == Len(queue)
<1>1. /\ new \in Seq(Nat) /\ n \in Nat
      /\ \/ /\ Len(new) = n + 1 /\ new[n + 1] = x
            /\ \A j \in 1..n : new[j] = queue[j]
         \/ /\ n > 0 /\ Len(new) = n /\ new[n] = x
            /\ \A j \in 1..n-1 : new[j] = queue[j + 1]
    BY KeepLastEntries
<1>2. \A j \in 1..n : queue[j] \in Nat /\ queue[j] + (n - j) < next
    BY DEF Below
<1> HIDE DEF new, n
<1>3. CASE Len(new) = n + 1 /\ new[n + 1] = x /\ \A j \in 1..n : new[j] = queue[j]
    <2> SUFFICES ASSUME NEW j \in 1..Len(new) PROVE new[j] + (Len(new) - j) < x + 1
        BY DEF Below, new
    <2>1. CASE j = n + 1
        BY <1>1, <1>3, <2>1
    <2>2. CASE j \in 1..n
        <3>1. queue[j] \in Nat /\ queue[j] + (n - j) < next /\ new[j] = queue[j]
            BY <1>2, <1>3, <2>2
        <3>2. Len(new) = n + 1 /\ n \in Nat /\ j \in Nat
            BY <1>1, <1>3, <2>2
        <3> QED BY <3>1, <3>2
    <2> QED BY <1>1, <1>3, <2>1, <2>2
<1>4. CASE n > 0 /\ Len(new) = n /\ new[n] = x /\ \A j \in 1..n-1 : new[j] = queue[j + 1]
    <2> SUFFICES ASSUME NEW j \in 1..n PROVE new[j] + (n - j) < x + 1
        BY <1>4 DEF Below, new
    <2>1. CASE j = n
        BY <1>1, <1>4, <2>1
    <2>2. CASE j \in 1..n-1
        <3>1. j + 1 \in 1..n
            BY <1>1, <2>2
        <3>2. queue[j + 1] \in Nat /\ queue[j + 1] + (n - (j + 1)) < next /\ new[j] = queue[j + 1]
            BY <1>2, <1>4, <2>2, <3>1
        <3>3. n \in Nat /\ j \in Nat
            BY <1>1, <2>2
        <3>4. queue[j + 1] + (n - (j + 1)) + 1 < x + 1
            BY <3>2, <3>3
        <3> QED BY <3>2, <3>3, <3>4
    <2> QED BY <1>1, <2>1, <2>2
<1> QED BY <1>1, <1>3, <1>4

\* An entry stays, unless the queue was full and it the oldest.
LEMMA KeepLastKeepsEntry ==
    ASSUME NEW queue \in Seq(Nat), NEW next \in Nat, Below(queue, next),
           NEW x \in Nat, x >= next, NEW depth \in Nat \ {0},
           NEW k \in Nat, k = x \/ \E j \in 1..Len(queue) : queue[j] = k
    PROVE  LET new == KeepLast(queue, x, depth)
           IN  (\E j \in DOMAIN new : new[j] = k) \/ x >= k + depth
<1> DEFINE new == KeepLast(queue, x, depth)  n == Len(queue)
<1>1. /\ new \in Seq(Nat) /\ n \in Nat /\ DOMAIN new = 1..Len(new)
      /\ \/ /\ Len(new) = n + 1 /\ new[n + 1] = x
            /\ \A j \in 1..n : new[j] = queue[j]
         \/ /\ n >= depth /\ n > 0 /\ Len(new) = n /\ new[n] = x
            /\ \A j \in 1..n-1 : new[j] = queue[j + 1]
    BY KeepLastEntries
<1>2. \A j \in 1..n : queue[j] \in Nat /\ queue[j] + (n - j) < next
    BY DEF Below
<1>3. k = x \/ \E j \in 1..n : queue[j] = k
    OBVIOUS
<1> HIDE DEF new, n
<1> SUFFICES (\E j \in DOMAIN new : new[j] = k) \/ x >= k + depth
    BY DEF new
<1>4. CASE k = x
    <2>1. /\ n \in Nat
          /\ \/ Len(new) = n + 1 /\ new[n + 1] = x
             \/ n > 0 /\ Len(new) = n /\ new[n] = x
        BY <1>1
    <2>2. Len(new) \in 1..Len(new) /\ new[Len(new)] = x
        BY <2>1
    <2> QED BY <1>1, <1>4, <2>2
<1>5. CASE \E j \in 1..n : queue[j] = k
    <2>1. PICK j \in 1..n : queue[j] = k
        BY <1>5
    <2>2. CASE Len(new) = n + 1 /\ \A i \in 1..n : new[i] = queue[i]
        <3>1. j \in 1..Len(new) /\ new[j] = k
            BY <1>1, <2>1, <2>2
        <3> QED BY <1>1, <3>1
    <2>3. CASE n >= depth /\ Len(new) = n /\ \A i \in 1..n-1 : new[i] = queue[i + 1]
        <3>1. CASE j = 1
            <4>1. k + (n - 1) < next
                BY <1>2, <2>1, <3>1
            <4> QED BY <1>1, <2>3, <4>1
        <3>2. CASE j # 1
            <4>1. j - 1 \in 1..n-1 /\ j - 1 \in 1..Len(new) /\ (j - 1) + 1 = j
                BY <1>1, <2>1, <2>3, <3>2
            <4>2. new[j - 1] = queue[(j - 1) + 1]
                BY <2>3, <4>1
            <4> QED BY <1>1, <2>1, <4>1, <4>2
        <3> QED BY <3>1, <3>2
    <2> QED BY <1>1, <2>2, <2>3
<1> QED BY <1>3, <1>4, <1>5

\* Before discovery nothing is queued, and discovery queues nothing.
LEMMA MatchKeepsSpaced ==
    ASSUME NEW sub, NEW log, Len(log) \in Nat, IsSubscription(sub), Spaced(sub), CanMatch(sub)
    PROVE  Spaced(Match(sub, log)) /\ \A k \in Nat : ~Awaits(sub, k)
<1> DEFINE new == Match(sub, log)
<1>1. sub.next = 0 /\ sub.queue \in Seq(Nat) /\ Len(sub.queue) \in Nat
    BY SubscriptionFields DEF CanMatch
<1>2. Len(sub.queue) = 0
    <2> SUFFICES ASSUME Len(sub.queue) # 0 PROVE FALSE
        OBVIOUS
    <2>1. Len(sub.queue) \in 1..Len(sub.queue) /\ sub.queue[Len(sub.queue)] \in Nat
        BY <1>1
    <2> QED BY <1>1, <2>1 DEF Spaced, Below
<1>3. new.queue = sub.queue /\ DOMAIN sub.queue = 1..Len(sub.queue)
    BY <1>1 DEF Match, IsSubscription
<1> HIDE DEF new
<1>4. Spaced(new) /\ \A k \in Nat : ~Awaits(sub, k)
    BY <1>1, <1>2, <1>3 DEF Spaced, Below, Awaits, Queued
<1> QED BY <1>4 DEF new

LEMMA TransmitFields ==
    ASSUME NEW sub, NEW log, Len(log) \in Nat, IsSubscription(sub),
           NEW held \in Nat \ {0}, NEW depth \in Nat \ {0}, CanTransmit(sub, log, held)
    PROVE  LET x == NextSample(sub, log, held)  new == Transmit(sub, log, held, depth)
           IN  /\ x \in Nat /\ 1 <= x /\ x <= Len(log) /\ x >= sub.next /\ sub.next > 0
               /\ x # sub.next => x = Len(log) - held + 1
               /\ new.next = x + 1
               /\ new.queue = KeepLast(sub.queue, x, depth)
<1>1. sub.next \in Nat
    BY SubscriptionFields
<1> QED BY <1>1 DEF CanTransmit, CanMatch, NextSample, Transmit

LEMMA TransmitKeepsSpaced ==
    ASSUME NEW sub, NEW log, Len(log) \in Nat, IsSubscription(sub), Spaced(sub),
           NEW held \in Nat \ {0}, NEW depth \in Nat \ {0}, CanTransmit(sub, log, held)
    PROVE  Spaced(Transmit(sub, log, held, depth))
<1> DEFINE x == NextSample(sub, log, held)  new == Transmit(sub, log, held, depth)
<1>1. /\ sub.next \in Nat /\ sub.queue \in Seq(Nat) /\ x \in Nat /\ x >= sub.next
      /\ new.next = x + 1 /\ new.queue = KeepLast(sub.queue, x, depth)
    BY SubscriptionFields, TransmitFields
<1> HIDE DEF x, new
<1>2. Below(KeepLast(sub.queue, x, depth), x + 1)
    BY <1>1, KeepLastStaysBelow DEF Spaced
<1> QED BY <1>1, <1>2 DEF Spaced, new

\* What the subscription owes it still owes after a transmission, unless the
\* publisher's history or the queue had no room left for it.
LEMMA TransmitKeepsAwaited ==
    ASSUME NEW sub, NEW log, Len(log) \in Nat, IsSubscription(sub), Spaced(sub),
           NEW held \in Nat \ {0}, NEW depth \in Nat \ {0}, CanTransmit(sub, log, held),
           NEW k \in Nat, Awaits(sub, k)
    PROVE  \/ Awaits(Transmit(sub, log, held, depth), k)
           \/ Len(log) >= k + held
           \/ Len(log) >= k + depth
<1> DEFINE x == NextSample(sub, log, held)  new == Transmit(sub, log, held, depth)
           queue == sub.queue  next == sub.next
<1>0. /\ next \in Nat /\ next > 0 /\ x \in Nat /\ x >= next /\ x <= Len(log)
      /\ x # next => x = Len(log) - held + 1
      /\ new.next = x + 1
    BY SubscriptionFields, TransmitFields
<1>1. /\ queue \in Seq(Nat) /\ DOMAIN queue = 1..Len(queue)
      /\ new.queue = KeepLast(queue, x, depth)
    BY SubscriptionFields, TransmitFields
<1>2. Below(queue, next)
    BY DEF Spaced
<1>3. next \in 1..k \/ \E j \in 1..Len(queue) : queue[j] = k
    BY <1>1 DEF Awaits, Queued
<1> HIDE DEF x, new, queue, next
<1>4. CASE x < k
    <2>1. new.next \in 1..k
        BY <1>0, <1>4
    <2> QED BY <2>1 DEF Awaits, Queued, new
<1>5. CASE k = x \/ \E j \in 1..Len(queue) : queue[j] = k
    <2> DEFINE kept == KeepLast(queue, x, depth)
    <2>0. (\E j \in DOMAIN kept : kept[j] = k) \/ x >= k + depth
        BY <1>0, <1>1, <1>2, <1>5, KeepLastKeepsEntry
    <2>1. (\E j \in DOMAIN new.queue : new.queue[j] = k) \/ x >= k + depth
        BY <1>1, <2>0
    <2>2. CASE \E j \in DOMAIN new.queue : new.queue[j] = k
        BY <2>2 DEF Awaits, Queued, new
    <2>3. CASE x >= k + depth
        BY <1>0, <2>3
    <2> QED BY <2>1, <2>2, <2>3
<1>6. CASE x > k /\ next \in 1..k
    BY <1>0, <1>6
<1>7. x < k \/ k = x \/ x > k
    BY <1>0
<1> QED BY <1>3, <1>4, <1>5, <1>6, <1>7

\* What waits in the queue goes on waiting after a transmission, unless the
\* queue was full and it the oldest.
LEMMA TransmitKeepsQueued ==
    ASSUME NEW sub, NEW log, Len(log) \in Nat, IsSubscription(sub), Spaced(sub),
           NEW held \in Nat \ {0}, NEW depth \in Nat \ {0}, CanTransmit(sub, log, held),
           NEW k \in Nat, Queued(sub, k)
    PROVE  Queued(Transmit(sub, log, held, depth), k) \/ Len(log) >= k + depth
<1> DEFINE x == NextSample(sub, log, held)  new == Transmit(sub, log, held, depth)
           queue == sub.queue  next == sub.next
           kept == KeepLast(queue, x, depth)
<1>1. /\ next \in Nat /\ x \in Nat /\ x >= next /\ x <= Len(log)
      /\ queue \in Seq(Nat) /\ DOMAIN queue = 1..Len(queue)
      /\ new.queue = kept
    BY SubscriptionFields, TransmitFields
<1>2. Below(queue, next) /\ \E j \in 1..Len(queue) : queue[j] = k
    BY <1>1 DEF Spaced, Queued
<1> HIDE DEF x, new, queue, next
<1>3. (\E j \in DOMAIN kept : kept[j] = k) \/ x >= k + depth
    BY <1>1, <1>2, KeepLastKeepsEntry
<1> HIDE DEF kept
<1>4. Queued(new, k) \/ x >= k + depth
    BY <1>1, <1>3 DEF Queued
<1>5. x >= k + depth => Len(log) >= k + depth
    BY <1>1
<1> QED BY <1>4, <1>5 DEF new

\* The executor takes the oldest entry and leaves the others.
LEMMA TakenKeepsQueued ==
    ASSUME NEW sub, IsSubscription(sub), HasSample(sub), NEW k, Queued(sub, k)
    PROVE  Queued(Taken(sub), k) \/ Head(sub.queue) = k
<1> DEFINE new == Taken(sub)  queue == sub.queue  rest == Tail(queue)  n == Len(queue)
<1>1. queue \in Seq(Nat) /\ queue # << >>
    BY SubscriptionFields DEF HasSample
<1>2. /\ n \in Nat /\ n > 0 /\ Head(queue) = queue[1]
      /\ rest \in Seq(Nat) /\ Len(rest) = n - 1
      /\ \A i \in 1..n-1 : rest[i] = queue[i + 1]
      /\ DOMAIN queue = 1..n /\ DOMAIN rest = 1..n-1
    BY <1>1, HeadTailProperties, EmptySeq
<1>3. new = [sub EXCEPT !.queue = rest]
    BY DEF Taken
<1> HIDE DEF new, rest
<1>4. new.queue = rest
    BY <1>3 DEF IsSubscription
<1>5. PICK j \in 1..n : queue[j] = k
    BY <1>2 DEF Queued
<1> HIDE DEF queue, n
<1>6. CASE j # 1
    <2>1. j - 1 \in 1..n-1 /\ (j - 1) + 1 = j
        BY <1>2, <1>6
    <2>2. rest[j - 1] = queue[(j - 1) + 1]
        BY <1>2, <2>1
    <2> QED BY <1>2, <1>4, <1>5, <2>1, <2>2 DEF Queued, new
<1>7. CASE j = 1
    BY <1>2, <1>5, <1>7 DEF queue
<1> QED BY <1>6, <1>7

LEMMA TakenKeepsAwaited ==
    ASSUME NEW sub, IsSubscription(sub), Spaced(sub), HasSample(sub)
    PROVE  /\ Spaced(Taken(sub))
           /\ \A k \in Nat : Awaits(sub, k) => Awaits(Taken(sub), k) \/ Head(sub.queue) = k
<1> DEFINE new == Taken(sub)  queue == sub.queue  rest == Tail(queue)  n == Len(queue)
           next == sub.next
<1>1. next \in Nat /\ queue \in Seq(Nat) /\ queue # << >>
    BY SubscriptionFields DEF HasSample
<1>2. /\ n \in Nat /\ n > 0 /\ Head(queue) = queue[1]
      /\ rest \in Seq(Nat) /\ Len(rest) = n - 1
      /\ \A i \in 1..n-1 : rest[i] = queue[i + 1]
      /\ DOMAIN queue = 1..n /\ DOMAIN rest = 1..n-1
    BY <1>1, HeadTailProperties, EmptySeq
<1>3. new = [sub EXCEPT !.queue = rest]
    BY DEF Taken
<1>4. \A j \in 1..n : queue[j] \in Nat /\ queue[j] + (n - j) < next
    <2>1. \A j \in 1..n : queue[j] \in Nat
        BY <1>1
    <2>2. \A j \in 1..n : queue[j] + (n - j) < next
        BY DEF Spaced, Below
    <2> QED BY <2>1, <2>2
<1> HIDE DEF new, rest
<1>5. new.next = next /\ new.queue = rest
    BY <1>3 DEF IsSubscription
<1> HIDE DEF queue, n, next
<1>6. Below(rest, next)
    <2> SUFFICES ASSUME NEW i \in 1..n-1
                 PROVE  rest[i] + ((n - 1) - i) < next
        BY <1>2 DEF Below
    <2>1. i + 1 \in 1..n
        BY <1>2
    <2>2. queue[i + 1] \in Nat /\ queue[i + 1] + (n - (i + 1)) < next /\ rest[i] = queue[i + 1]
        BY <1>2, <1>4, <2>1
    <2> QED BY <1>1, <1>2, <2>2
<1>7. ASSUME NEW k \in Nat, Awaits(sub, k)
      PROVE  Awaits(new, k) \/ Head(queue) = k
    <2>1. next \in 1..k \/ Queued(sub, k)
        BY <1>7 DEF Awaits, next
    <2>2. Queued(sub, k) => Queued(new, k) \/ Head(queue) = k
        BY TakenKeepsQueued DEF new, queue
    <2> QED BY <1>5, <2>1, <2>2 DEF Awaits
<1>8. Spaced(new)
    BY <1>5, <1>6 DEF Spaced
<1> QED BY <1>7, <1>8 DEF new, queue
=============================================================================
