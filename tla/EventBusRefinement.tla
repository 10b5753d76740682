------------------------- MODULE EventBusRefinement -------------------------
(***************************************************************************)
(* The event bus, seen by any one queue, implements Subscription.  The     *)
(* mapping reads the drop counter as dropped_count() does and takes        *)
(* unlisted queues for closed subscriptions.                               *)
(***************************************************************************)
EXTENDS EventBus

Phase(q) ==
    IF home[q] = Fresh THEN "fresh" ELSE IF q \in listed THEN "open" ELSE "closed"

Pending(q) == {Latest(p) : p \in {r \in Publishers : q \in targets[r]}}

Refused(q) == {Latest(p) : p \in {r \in Publishers : full[r] = q}}

Seen(q) == {accepted[q][i] : i \in 1 .. Len(accepted[q])}

\* dropped_count(queue).
DroppedCount(q) == IF q \in DOMAIN dropped THEN dropped[q] ELSE 0

Sub(q) == INSTANCE Subscription WITH
    phase <- Phase(q), pending <- Pending(q), refused <- Refused(q),
    box <- buf[q], seen <- Seen(q), lost <- DroppedCount(q)

\* Every queue of the bus behaves as a subscription promises: each event is
\* offered to it once and, whatever the other threads do, is then either
\* put or counted.  This is \A q \in Queues : Sub(q)!Spec with the
\* quantifier moved inside the box, the form TLC evaluates step by step.
EveryQueueIsASubscription ==
    /\ \A q \in Queues : Sub(q)!Init
    /\ [][\A q \in Queues : Sub(q)!Next \/ UNCHANGED Sub(q)!vars]_vars
=============================================================================
