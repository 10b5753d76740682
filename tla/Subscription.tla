---------------------------- MODULE Subscription ----------------------------
(***************************************************************************)
(* What the event bus promises one subscriber: while the subscription is   *)
(* open, events may be offered; each event is offered once, and each       *)
(* offered event is either put into the bounded box or, if the box was     *)
(* full when it was tried, counted as lost.  The counter reads 0 before    *)
(* and after the subscription (EventBus.dropped_count).  Events still on   *)
(* their way when the subscription closes may arrive later.                *)
(***************************************************************************)
EXTENDS Naturals, Sequences

CONSTANTS Event, Capacity

VARIABLES
    phase,      \* "fresh", "open", "closed"
    pending,    \* events offered and not tried yet
    refused,    \* events that found the box full, not counted yet
    box,        \* what the consumer has still to read
    seen,       \* every event that was put into the box
    lost        \* the drop counter

vars == <<phase, pending, refused, box, seen, lost>>

Init ==
    /\ phase = "fresh"
    /\ pending = {} /\ refused = {} /\ seen = {}
    /\ box = <<>>
    /\ lost = 0

Open ==
    /\ phase = "fresh"
    /\ phase' = "open"
    /\ UNCHANGED <<pending, refused, box, seen, lost>>

Close ==
    /\ phase = "open"
    /\ phase' = "closed"
    /\ lost' = 0
    /\ UNCHANGED <<pending, refused, box, seen>>

Offer(e) ==
    /\ phase = "open"
    /\ e \notin pending \cup refused \cup seen
    /\ pending' = pending \cup {e}
    /\ UNCHANGED <<phase, refused, box, seen, lost>>

Accept(e) ==
    /\ e \in pending
    /\ e \notin seen
    /\ Len(box) < Capacity
    /\ pending' = pending \ {e}
    /\ box' = Append(box, e)
    /\ seen' = seen \cup {e}
    /\ UNCHANGED <<phase, refused, lost>>

Refuse(e) ==
    /\ e \in pending
    /\ Len(box) = Capacity
    /\ pending' = pending \ {e}
    /\ refused' = refused \cup {e}
    /\ UNCHANGED <<phase, box, seen, lost>>

Count(e) ==
    /\ e \in refused
    /\ refused' = refused \ {e}
    /\ lost' = IF phase = "open" THEN lost + 1 ELSE 0
    /\ UNCHANGED <<phase, pending, box, seen>>

Take ==
    /\ box # <<>>
    /\ box' = Tail(box)
    /\ UNCHANGED <<phase, pending, refused, seen, lost>>

Next ==
    \/ Open \/ Close \/ Take
    \/ \E e \in Event : Offer(e) \/ Accept(e) \/ Refuse(e) \/ Count(e)

Spec == Init /\ [][Next]_vars
=============================================================================
