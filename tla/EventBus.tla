------------------------------ MODULE EventBus ------------------------------
(***************************************************************************)
(* The in-process event bus (blackboxrs/core/event_bus.py).  Any thread    *)
(* publishes; every subscriber owns a bounded queue.  publish() takes the  *)
(* lock only to copy the list of target queues and to count a drop, so     *)
(* subscribe, unsubscribe, the consumers and other publishers interleave   *)
(* with the deliveries of one publish.                                     *)
(*                                                                         *)
(* Abstractions.  An event is <<publisher, number>>.  The subscriber lists *)
(* are sets: publish() walks them in registration order, the model in any  *)
(* order.  A queue object is in at most one list because subscribe() makes *)
(* it, so one set (listed) and the channel each queue was made for (home)  *)
(* stand for _global_subscribers and _subscribers.                         *)
(***************************************************************************)
EXTENDS Naturals, Sequences, FiniteSets

CONSTANTS
    Queues,         \* queue objects subscribe() can return
    Publishers,     \* threads that call publish()
    Channels,       \* event sources
    Global,         \* channel=None
    Fresh,          \* home of a queue that does not exist yet
    NoQueue,        \* "put_nowait did not raise Full"
    Capacity,       \* maxsize of every queue
    MaxEvents       \* bound: events one publisher publishes

ASSUME EventBusAssumption ==
    /\ Capacity \in Nat \ {0}
    /\ MaxEvents \in Nat
    /\ NoQueue \notin Queues
    /\ Global \notin Channels
    /\ Fresh \notin Channels \cup {Global}
    /\ IsFiniteSet(Publishers)

VARIABLES
    home,       \* channel each queue was created for
    listed,     \* queues in _subscribers or _global_subscribers
    dropped,    \* _dropped_counts
    buf,        \* content of each queue
    sent,       \* number of the latest event of each publisher
    targets,    \* queues the publish() in progress has still to visit
    full,       \* queue that raised Full and whose drop is not counted yet
    offered,    \* history: events that copied the queue as a target
    accepted    \* history: events put into the queue, in order

vars == <<home, listed, dropped, buf, sent, targets, full, offered, accepted>>

Event == Publishers \X (1 .. MaxEvents)
ChannelArg == Channels \cup {Global}

\* The event publisher p published last.
Latest(p) == <<p, sent[p]>>

\* The publish() of p has deliveries or a drop count left.
Busy(p) == targets[p] # {} \/ full[p] # NoQueue

TypeOK ==
    /\ home \in [Queues -> ChannelArg \cup {Fresh}]
    /\ listed \in SUBSET Queues
    /\ DOMAIN dropped \in SUBSET Queues
    /\ dropped \in [DOMAIN dropped -> Nat]
    /\ buf \in [Queues -> Seq(Event)]
    /\ \A q \in Queues : Len(buf[q]) <= Capacity
    /\ sent \in [Publishers -> 0 .. MaxEvents]
    /\ targets \in [Publishers -> SUBSET Queues]
    /\ full \in [Publishers -> Queues \cup {NoQueue}]
    /\ offered \in [Queues -> Nat]
    /\ accepted \in [Queues -> Seq(Event)]

Init ==
    /\ home = [q \in Queues |-> Fresh]
    /\ listed = {}
    /\ dropped = [q \in {} |-> 0]
    /\ buf = [q \in Queues |-> <<>>]
    /\ sent = [p \in Publishers |-> 0]
    /\ targets = [p \in Publishers |-> {}]
    /\ full = [p \in Publishers |-> NoQueue]
    /\ offered = [q \in Queues |-> 0]
    /\ accepted = [q \in Queues |-> <<>>]

-----------------------------------------------------------------------------
\* subscribe(channel): a new queue enters its list with its counter at 0.
Subscribe(q, c) ==
    /\ home[q] = Fresh
    /\ home' = [home EXCEPT ![q] = c]
    /\ listed' = listed \cup {q}
    /\ dropped' = [r \in DOMAIN dropped \cup {q} |-> IF r = q THEN 0 ELSE dropped[r]]
    /\ UNCHANGED <<buf, sent, targets, full, offered, accepted>>

\* unsubscribe(queue, channel): the queue leaves its list, if it is still
\* there, and its counter goes.  Callers name the channel they subscribed
\* with, as every caller in the repository does.
Unsubscribe(q, c) ==
    /\ home[q] # Fresh
    /\ c = home[q]
    /\ listed' = listed \ {q}
    /\ dropped' = [r \in DOMAIN dropped \ {q} |-> dropped[r]]
    /\ UNCHANGED <<home, buf, sent, targets, full, offered, accepted>>

\* Faulty: the copy still holds queues that were unsubscribed.
AudienceStale(c) == {q \in Queues : home[q] \in {Global, c}}

\* The queues publish() copies under the lock for an event of source c.
Audience(c) == {q \in listed : home[q] \in {Global, c}}

\* publish(event), the locked part.
Publish(p, c) ==
    /\ ~Busy(p)
    /\ sent[p] < MaxEvents
    /\ sent' = [sent EXCEPT ![p] = @ + 1]
    /\ targets' = [targets EXCEPT ![p] = Audience(c)]
    /\ offered' = [q \in Queues |-> offered[q] + (IF q \in Audience(c) THEN 1 ELSE 0)]
    /\ UNCHANGED <<home, listed, dropped, buf, full, accepted>>

\* Faulty: a queue without a capacity.
DeliverUnbounded(p, q) ==
    /\ full[p] = NoQueue
    /\ q \in targets[p]
    /\ targets' = [targets EXCEPT ![p] = @ \ {q}]
    /\ buf' = [buf EXCEPT ![q] = Append(@, Latest(p))]
    /\ accepted' = [accepted EXCEPT ![q] = Append(@, Latest(p))]
    /\ UNCHANGED <<home, listed, dropped, sent, full, offered>>

\* Faulty: the target is not ticked off, and is served again.
DeliverAgain(p, q) ==
    /\ full[p] = NoQueue
    /\ q \in targets[p]
    /\ Len(buf[q]) < Capacity
    /\ buf' = [buf EXCEPT ![q] = Append(@, Latest(p))]
    /\ accepted' = [accepted EXCEPT ![q] = Append(@, Latest(p))]
    /\ UNCHANGED <<home, listed, dropped, sent, targets, full, offered>>

\* put_nowait on one target, outside the lock.
Deliver(p, q) ==
    /\ full[p] = NoQueue
    /\ q \in targets[p]
    /\ Len(buf[q]) < Capacity
    /\ targets' = [targets EXCEPT ![p] = @ \ {q}]
    /\ buf' = [buf EXCEPT ![q] = Append(@, Latest(p))]
    /\ accepted' = [accepted EXCEPT ![q] = Append(@, Latest(p))]
    /\ UNCHANGED <<home, listed, dropped, sent, full, offered>>

\* put_nowait raises Full.
Refuse(p, q) ==
    /\ full[p] = NoQueue
    /\ q \in targets[p]
    /\ Len(buf[q]) >= Capacity
    /\ targets' = [targets EXCEPT ![p] = @ \ {q}]
    /\ full' = [full EXCEPT ![p] = q]
    /\ UNCHANGED <<home, listed, dropped, buf, sent, offered, accepted>>

\* Faulty: the drop is logged and not counted.
CountDropNever(q) == dropped

\* Faulty: the counter is written whether or not the queue still has one.
CountDropAlways(q) ==
    [r \in DOMAIN dropped \cup {q} |->
        IF r # q THEN dropped[r] ELSE IF q \in DOMAIN dropped THEN dropped[q] + 1 ELSE 1]

\* The counters after _record_drop(q): written only if q still has one.
CountDrop(q) ==
    [r \in DOMAIN dropped |-> IF r = q THEN dropped[r] + 1 ELSE dropped[r]]

\* _record_drop, under the lock.
RecordDrop(p) ==
    /\ full[p] # NoQueue
    /\ dropped' = CountDrop(full[p])
    /\ full' = [full EXCEPT ![p] = NoQueue]
    /\ UNCHANGED <<home, listed, buf, sent, targets, offered, accepted>>

\* A consumer's get(); it may hold the queue after unsubscribing it.
Get(q) ==
    /\ buf[q] # <<>>
    /\ buf' = [buf EXCEPT ![q] = Tail(@)]
    /\ UNCHANGED <<home, listed, dropped, sent, targets, full, offered, accepted>>

\* One step of a publish() that has begun.
Proceed(p) == RecordDrop(p) \/ \E q \in Queues : Deliver(p, q) \/ Refuse(p, q)

Next ==
    \/ \E q \in Queues, c \in ChannelArg : Subscribe(q, c) \/ Unsubscribe(q, c)
    \/ \E p \in Publishers, c \in Channels : Publish(p, c)
    \/ \E p \in Publishers : Proceed(p)
    \/ \E q \in Queues : Get(q)

Spec == Init /\ [][Next]_vars

-----------------------------------------------------------------------------
\* The publishers whose current event is on its way to q: not put into q,
\* and not counted as dropped either.
InFlight(q) == {p \in Publishers : q \in targets[p] \/ full[p] = q}

\* An event offered to a queue is in the queue's history, on its way, or
\* counted as dropped: while a subscription has a counter, the counter
\* accounts for every event its consumer missed.
EveryMissCounted ==
    \A q \in DOMAIN dropped :
        offered[q] = Len(accepted[q]) + Cardinality(InFlight(q)) + dropped[q]

\* A queue receives the events of one publisher in the order they were
\* published, and none of them twice, however publishers interleave.
PublisherOrder ==
    \A q \in Queues : \A i, j \in 1 .. Len(accepted[q]) :
        i < j /\ accepted[q][i][1] = accepted[q][j][1]
            => accepted[q][i][2] < accepted[q][j][2]

\* A publisher that was on its way to a queue when it was unsubscribed does
\* not bring the queue's drop counter back (the comment in _record_drop).
NoCounterResurrected == DOMAIN dropped \subseteq listed
=============================================================================
