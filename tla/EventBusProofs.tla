--------------------------- MODULE EventBusProofs ---------------------------
(***************************************************************************)
(* Invariance proofs for the event bus, for every set of queues, channels  *)
(* and (finitely many) publishers, every capacity and any number of        *)
(* events, and the proof that every queue is a Subscription.               *)
(***************************************************************************)
EXTENDS EventBusRefinement, FiniteSetTheorems, TLAPS

\* A queue that does not exist yet has no trace anywhere.
FreshIsUnknown ==
    \A q \in Queues : home[q] = Fresh =>
        /\ q \notin listed
        /\ offered[q] = 0
        /\ accepted[q] = <<>>
        /\ InFlight(q) = {}

\* The queue whose drop is being counted has been visited.
FullIsVisited == \A p \in Publishers : full[p] \notin targets[p]

\* A queue has nothing newer than its publisher's current event, and not
\* that one either while it is still on its way.
CurrentNotAccepted ==
    \A q \in Queues : \A i \in 1 .. Len(accepted[q]) :
        LET p == accepted[q][i][1] IN
        /\ accepted[q][i][2] <= sent[p]
        /\ p \in InFlight(q) => accepted[q][i][2] < sent[p]

\* A publisher has something to deliver only after its first publish().
BusyHasEvent == \A p \in Publishers : Busy(p) => sent[p] > 0

\* The inductive invariant.
IInv ==
    /\ TypeOK
    /\ BusyHasEvent
    /\ NoCounterResurrected
    /\ FreshIsUnknown
    /\ FullIsVisited
    /\ CurrentNotAccepted
    /\ PublisherOrder
    /\ EveryMissCounted

USE EventBusAssumption

\* The shape of every variable survives every action; an event put into a
\* queue is one because a busy publisher has published.
LEMMA TypeStep ==
  ASSUME TypeOK, BusyHasEvent, [Next]_vars
  PROVE  TypeOK' /\ BusyHasEvent'
<1>1. ASSUME NEW q \in Queues, NEW c \in ChannelArg, Subscribe(q, c)
      PROVE  TypeOK' /\ BusyHasEvent'
  BY <1>1 DEF TypeOK, BusyHasEvent, Busy, Subscribe
<1>2. ASSUME NEW q \in Queues, NEW c \in ChannelArg, Unsubscribe(q, c)
      PROVE  TypeOK' /\ BusyHasEvent'
  BY <1>2 DEF TypeOK, BusyHasEvent, Busy, Unsubscribe
<1>3. ASSUME NEW p \in Publishers, NEW c \in Channels, Publish(p, c)
      PROVE  TypeOK' /\ BusyHasEvent'
  BY <1>3 DEF TypeOK, BusyHasEvent, Busy, Publish, Audience
<1>4. ASSUME NEW p \in Publishers, NEW q \in Queues, Deliver(p, q)
      PROVE  TypeOK' /\ BusyHasEvent'
  <2>1. Latest(p) \in Event
    <3>1. sent[p] \in 0 .. MaxEvents /\ sent[p] > 0
      BY <1>4 DEF TypeOK, BusyHasEvent, Busy, Deliver
    <3>2. sent[p] \in 1 .. MaxEvents
      BY <3>1
    <3>3. QED
      BY <3>2 DEF Latest, Event
  <2>2. buf'[q] \in Seq(Event) /\ Len(buf'[q]) <= Capacity
    BY <1>4, <2>1 DEF TypeOK, Deliver
  <2>3. accepted'[q] \in Seq(Event)
    BY <1>4, <2>1 DEF TypeOK, Deliver
  <2>4. BusyHasEvent'
    BY <1>4 DEF TypeOK, BusyHasEvent, Busy, Deliver
  <2>5. buf' \in [Queues -> Seq(Event)] /\ accepted' \in [Queues -> Seq(Event)]
    BY <1>4, <2>2, <2>3 DEF TypeOK, Deliver
  <2>6. targets' \in [Publishers -> SUBSET Queues]
    BY <1>4 DEF TypeOK, Deliver
  <2>7. \A r \in Queues : Len(buf'[r]) <= Capacity
    BY <1>4, <2>2 DEF TypeOK, Deliver
  <2>8. QED
    BY <1>4, <2>4, <2>5, <2>6, <2>7 DEF TypeOK, Deliver
<1>5. ASSUME NEW p \in Publishers, NEW q \in Queues, Refuse(p, q)
      PROVE  TypeOK' /\ BusyHasEvent'
  BY <1>5 DEF TypeOK, BusyHasEvent, Busy, Refuse
<1>6. ASSUME NEW p \in Publishers, RecordDrop(p)
      PROVE  TypeOK' /\ BusyHasEvent'
  <2>1. DOMAIN dropped' \in SUBSET Queues /\ dropped' \in [DOMAIN dropped' -> Nat]
    BY <1>6 DEF TypeOK, RecordDrop, CountDrop
  <2>2. full' \in [Publishers -> Queues \cup {NoQueue}]
    BY <1>6 DEF TypeOK, RecordDrop
  <2>3. BusyHasEvent'
    BY <1>6 DEF TypeOK, BusyHasEvent, Busy, RecordDrop
  <2>4. QED
    BY <1>6, <2>1, <2>2, <2>3 DEF TypeOK, RecordDrop
<1>7. ASSUME NEW q \in Queues, Get(q)
      PROVE  TypeOK' /\ BusyHasEvent'
  BY <1>7 DEF TypeOK, BusyHasEvent, Busy, Get
<1>8. CASE UNCHANGED vars
  BY <1>8 DEF TypeOK, BusyHasEvent, Busy, vars
<1>9. QED
  BY <1>1, <1>2, <1>3, <1>4, <1>5, <1>6, <1>7, <1>8 DEF Next, Proceed

\* The event bus keeps the shape of its state.
THEOREM TypeCorrect == Spec => []TypeOK
<1>1. Init => TypeOK /\ BusyHasEvent
  BY DEF Init, TypeOK, BusyHasEvent, Busy
<1>2. TypeOK /\ BusyHasEvent /\ [Next]_vars => TypeOK' /\ BusyHasEvent'
  BY TypeStep
<1>3. QED
  BY <1>1, <1>2, PTL DEF Spec

-----------------------------------------------------------------------------
(* How each action moves a publisher in and out of a queue's InFlight. *)

\* The set is finite, and counts members as they come and go.
LEMMA InFlightSize ==
  ASSUME NEW q
  PROVE  /\ Cardinality(InFlight(q)) \in Nat
         /\ \A p : p \notin InFlight(q) =>
              Cardinality(InFlight(q) \cup {p}) = Cardinality(InFlight(q)) + 1
         /\ \A p : p \in InFlight(q) =>
              Cardinality(InFlight(q) \ {p}) = Cardinality(InFlight(q)) - 1
<1>1. IsFiniteSet(InFlight(q))
  BY FS_Subset DEF InFlight, EventBusAssumption
<1>2. QED
  BY <1>1, FS_CardinalityType, FS_AddElement, FS_RemoveElement

\* It depends on the targets and full queues alone.
LEMMA InFlightKept ==
  ASSUME UNCHANGED <<targets, full>>
  PROVE  \A q : InFlight(q)' = InFlight(q)
BY DEF InFlight

\* Who publishes is in flight to the queues of its audience.
LEMMA InFlightPublish ==
  ASSUME TypeOK, NEW p \in Publishers, NEW c \in Channels, Publish(p, c), NEW q \in Queues
  PROVE  /\ p \notin InFlight(q)
         /\ InFlight(q)' = IF q \in Audience(c) THEN InFlight(q) \cup {p} ELSE InFlight(q)
<1>1. targets[p] = {} /\ full[p] = NoQueue /\ full[p] # q
  BY DEF Publish, Busy, EventBusAssumption
<1>2. \A r \in Publishers : targets'[r] = IF r = p THEN Audience(c) ELSE targets[r]
  BY DEF Publish, TypeOK
<1>3. full' = full
  BY DEF Publish
<1>4. QED
  BY <1>1, <1>2, <1>3 DEF InFlight

\* A delivery ends one flight.
LEMMA InFlightDeliver ==
  ASSUME TypeOK, NEW p \in Publishers, NEW q \in Queues, Deliver(p, q)
  PROVE  /\ p \in InFlight(q)
         /\ InFlight(q)' = InFlight(q) \ {p}
         /\ \A r \in Queues \ {q} : InFlight(r)' = InFlight(r)
<1>1. q \in targets[p] /\ full[p] # q /\ full' = full
  BY DEF Deliver, EventBusAssumption
<1>2. \A s \in Publishers : targets'[s] = IF s = p THEN targets[s] \ {q} ELSE targets[s]
  BY DEF Deliver, TypeOK
<1>3. QED
  BY <1>1, <1>2 DEF InFlight

\* A full queue is still to be counted.
LEMMA InFlightRefuse ==
  ASSUME TypeOK, NEW p \in Publishers, NEW q \in Queues, Refuse(p, q)
  PROVE  \A r \in Queues : InFlight(r)' = InFlight(r)
<1>1. q \in targets[p] /\ full[p] = NoQueue
  BY DEF Refuse
<1>2. \A s \in Publishers :
        /\ targets'[s] = IF s = p THEN targets[s] \ {q} ELSE targets[s]
        /\ full'[s] = IF s = p THEN q ELSE full[s]
  BY DEF Refuse, TypeOK
<1>3. QED
  BY <1>1, <1>2 DEF InFlight, EventBusAssumption

\* Counting the drop ends the flight.
LEMMA InFlightRecordDrop ==
  ASSUME TypeOK, FullIsVisited, NEW p \in Publishers, RecordDrop(p),
         NEW q \in Queues, q = full[p]
  PROVE  /\ p \in InFlight(q)
         /\ InFlight(q)' = InFlight(q) \ {p}
         /\ \A r \in Queues \ {q} : InFlight(r)' = InFlight(r)
<1>1. q \notin targets[p] /\ targets' = targets
  BY DEF RecordDrop, FullIsVisited
<1>2. \A s \in Publishers : full'[s] = IF s = p THEN NoQueue ELSE full[s]
  BY DEF RecordDrop, TypeOK
<1>3. QED
  BY <1>1, <1>2 DEF InFlight, EventBusAssumption

-----------------------------------------------------------------------------
(* The queues' side of the invariant. *)

\* A queue that does not exist yet stays out of everything, and no drop is
\* counted for a queue that is still to be visited.
LEMMA FreshStep ==
  ASSUME TypeOK, FreshIsUnknown, FullIsVisited, [Next]_vars
  PROVE  FreshIsUnknown' /\ FullIsVisited'
<1>1. ASSUME NEW q \in Queues, NEW c \in ChannelArg, Subscribe(q, c)
      PROVE  FreshIsUnknown' /\ FullIsVisited'
  <2>1. \A r \in Queues : InFlight(r)' = InFlight(r)
    BY <1>1, InFlightKept DEF Subscribe
  <2>2. c # Fresh
    BY DEF ChannelArg, EventBusAssumption
  <2>3. QED
    BY <1>1, <2>1, <2>2 DEF TypeOK, FreshIsUnknown, FullIsVisited, Subscribe
<1>2. ASSUME NEW q \in Queues, NEW c \in ChannelArg, Unsubscribe(q, c)
      PROVE  FreshIsUnknown' /\ FullIsVisited'
  <2>1. \A r \in Queues : InFlight(r)' = InFlight(r)
    BY <1>2, InFlightKept DEF Unsubscribe
  <2>2. QED
    BY <1>2, <2>1 DEF FreshIsUnknown, FullIsVisited, Unsubscribe
<1>3. ASSUME NEW p \in Publishers, NEW c \in Channels, Publish(p, c)
      PROVE  FreshIsUnknown' /\ FullIsVisited'
  <2>1. FullIsVisited'
    BY <1>3 DEF Publish, Busy, FullIsVisited, TypeOK, Audience, EventBusAssumption
  <2>2. ASSUME NEW q \in Queues, home'[q] = Fresh
        PROVE  /\ q \notin listed' /\ offered'[q] = 0
               /\ accepted'[q] = <<>> /\ InFlight(q)' = {}
    <3>1. home[q] = Fresh /\ q \notin listed /\ q \notin Audience(c)
      BY <1>3, <2>2 DEF Publish, FreshIsUnknown, Audience
    <3>2. InFlight(q)' = InFlight(q)
      BY <1>3, <3>1, InFlightPublish
    <3>3. offered'[q] = offered[q] + 0
      BY <1>3, <3>1 DEF Publish
    <3>4. QED
      BY <1>3, <3>1, <3>2, <3>3 DEF Publish, FreshIsUnknown
  <2>3. QED
    BY <2>1, <2>2 DEF FreshIsUnknown
<1>4. ASSUME NEW p \in Publishers, NEW q \in Queues, Deliver(p, q)
      PROVE  FreshIsUnknown' /\ FullIsVisited'
  <2>1. FullIsVisited'
    BY <1>4 DEF Deliver, FullIsVisited, TypeOK
  <2>2. /\ home[q] # Fresh
        /\ \A r \in Queues \ {q} : InFlight(r)' = InFlight(r)
    BY <1>4, InFlightDeliver DEF FreshIsUnknown
  <2>3. QED
    BY <1>4, <2>1, <2>2 DEF Deliver, FreshIsUnknown, TypeOK
<1>5. ASSUME NEW p \in Publishers, NEW q \in Queues, Refuse(p, q)
      PROVE  FreshIsUnknown' /\ FullIsVisited'
  <2>1. FullIsVisited'
    BY <1>5 DEF Refuse, FullIsVisited, TypeOK
  <2>2. \A r \in Queues : InFlight(r)' = InFlight(r)
    BY <1>5, InFlightRefuse
  <2>3. QED
    BY <1>5, <2>1, <2>2 DEF Refuse, FreshIsUnknown
<1>6. ASSUME NEW p \in Publishers, RecordDrop(p)
      PROVE  FreshIsUnknown' /\ FullIsVisited'
  <2>1. FullIsVisited'
    BY <1>6 DEF RecordDrop, FullIsVisited, TypeOK, EventBusAssumption
  <2>2. PICK q \in Queues : q = full[p]
    BY <1>6 DEF RecordDrop, TypeOK
  <2>3. /\ home[q] # Fresh
        /\ \A r \in Queues \ {q} : InFlight(r)' = InFlight(r)
    BY <1>6, <2>2, InFlightRecordDrop DEF FreshIsUnknown
  <2>4. QED
    BY <1>6, <2>1, <2>3 DEF RecordDrop, FreshIsUnknown
<1>7. ASSUME NEW q \in Queues, Get(q)
      PROVE  FreshIsUnknown' /\ FullIsVisited'
  <2>1. \A r \in Queues : InFlight(r)' = InFlight(r)
    BY <1>7, InFlightKept DEF Get
  <2>2. QED
    BY <1>7, <2>1 DEF FreshIsUnknown, FullIsVisited, Get
<1>8. CASE UNCHANGED vars
  <2>1. \A r \in Queues : InFlight(r)' = InFlight(r)
    BY <1>8, InFlightKept DEF vars
  <2>2. QED
    BY <1>8, <2>1 DEF FreshIsUnknown, FullIsVisited, vars
<1>9. QED
  BY <1>1, <1>2, <1>3, <1>4, <1>5, <1>6, <1>7, <1>8 DEF Next, Proceed

\* The guard in _record_drop: counters exist only for listed queues.
LEMMA CounterStep ==
  ASSUME NoCounterResurrected, [Next]_vars
  PROVE  NoCounterResurrected'
BY DEF NoCounterResurrected, Next, Proceed, Subscribe, Unsubscribe, Publish, Deliver,
       Refuse, RecordDrop, CountDrop, Get, vars

-----------------------------------------------------------------------------
(* The order of what a queue accepted. *)

\* The two facts about one queue, so that they can be carried over at once.
OrderAt(q) ==
    /\ \A i \in 1 .. Len(accepted[q]) :
        /\ accepted[q][i][2] <= sent[accepted[q][i][1]]
        /\ accepted[q][i][1] \in InFlight(q) =>
              accepted[q][i][2] < sent[accepted[q][i][1]]
    /\ \A i, j \in 1 .. Len(accepted[q]) :
        i < j /\ accepted[q][i][1] = accepted[q][j][1]
            => accepted[q][i][2] < accepted[q][j][2]

\* The order is a matter of each queue.
LEMMA OrderSplit ==
  CurrentNotAccepted /\ PublisherOrder <=> \A q \in Queues : OrderAt(q)
BY DEF CurrentNotAccepted, PublisherOrder, OrderAt

\* An entry of a queue's history names a publisher and one of its events.
LEMMA AcceptedEntry ==
  ASSUME TypeOK, NEW q \in Queues, NEW i \in 1 .. Len(accepted[q])
  PROVE  /\ accepted[q][i] \in Event
         /\ accepted[q][i][1] \in Publishers
         /\ accepted[q][i][2] \in 1 .. MaxEvents
         /\ sent[accepted[q][i][1]] \in 0 .. MaxEvents
<1>1. accepted[q] \in Seq(Event)
  BY DEF TypeOK
<1>2. accepted[q][i] \in Publishers \X (1 .. MaxEvents)
  BY <1>1 DEF Event
<1>3. QED
  BY <1>2 DEF TypeOK, Event

\* A queue whose history and publishers' counters stay as they are keeps its
\* order when nobody new is on the way to it.
LEMMA OrderKept ==
  ASSUME NEW q \in Queues, OrderAt(q), sent' = sent,
         accepted'[q] = accepted[q], InFlight(q)' \subseteq InFlight(q)
  PROVE  OrderAt(q)'
BY DEF OrderAt

\* Every step keeps the order.
LEMMA OrderStep ==
  ASSUME TypeOK, FullIsVisited, CurrentNotAccepted, PublisherOrder, [Next]_vars
  PROVE  CurrentNotAccepted' /\ PublisherOrder'
<1> SUFFICES ASSUME NEW q \in Queues
             PROVE  OrderAt(q)'
  BY DEF CurrentNotAccepted, PublisherOrder, OrderAt
<1>0. OrderAt(q)
  BY OrderSplit
<1>1. ASSUME NEW r \in Queues, NEW c \in ChannelArg, Subscribe(r, c) \/ Unsubscribe(r, c)
      PROVE  OrderAt(q)'
  BY <1>0, <1>1, InFlightKept, OrderKept DEF Subscribe, Unsubscribe
<1>2. ASSUME NEW p \in Publishers, NEW c \in Channels, Publish(p, c)
      PROVE  OrderAt(q)'
  <2>1. accepted' = accepted
    BY <1>2 DEF Publish
  <2>2. \A s \in Publishers : sent'[s] = IF s = p THEN sent[s] + 1 ELSE sent[s]
    BY <1>2 DEF Publish, TypeOK
  <2>3. InFlight(q)' \subseteq InFlight(q) \cup {p}
    BY <1>2, InFlightPublish
  <2>4. ASSUME NEW i \in 1 .. Len(accepted[q])
        PROVE  /\ accepted[q][i][2] <= sent'[accepted[q][i][1]]
               /\ accepted[q][i][1] \in InFlight(q)' =>
                     accepted[q][i][2] < sent'[accepted[q][i][1]]
    <3> DEFINE s == accepted[q][i][1]
               n == accepted[q][i][2]
    <3>1. s \in Publishers /\ n \in Nat /\ sent[s] \in Nat
      BY AcceptedEntry
    <3>2. n <= sent[s] /\ (s \in InFlight(q) => n < sent[s])
      BY <1>0 DEF OrderAt
    <3> HIDE DEF s, n
    <3>3. n <= sent'[s] /\ (s \in InFlight(q)' => n < sent'[s])
      BY <2>2, <2>3, <3>1, <3>2
    <3>4. QED
      BY <3>3 DEF s, n
  <2>5. QED
    BY <1>0, <2>1, <2>4 DEF OrderAt
<1>3. ASSUME NEW p \in Publishers, NEW r \in Queues, Deliver(p, r)
      PROVE  OrderAt(q)'
  <2>1. CASE r # q
    BY <1>0, <1>3, <2>1, InFlightDeliver, OrderKept DEF Deliver, TypeOK
  <2>2. CASE r = q
    <3> DEFINE n == Len(accepted[q])
    <3>1. /\ accepted'[q] = Append(accepted[q], <<p, sent[p]>>)
          /\ sent' = sent
          /\ accepted[q] \in Seq(Event)
      BY <1>3, <2>2 DEF Deliver, TypeOK, Latest
    <3>2. /\ Len(accepted'[q]) = n + 1
          /\ n \in Nat
          /\ \A i \in 1 .. n : accepted'[q][i] = accepted[q][i]
          /\ accepted'[q][n + 1] = <<p, sent[p]>>
      BY <3>1
    <3>3. p \in InFlight(q) /\ InFlight(q)' = InFlight(q) \ {p}
      BY <1>3, <2>2, InFlightDeliver
    <3>4. \A i \in 1 .. n : accepted[q][i][1] = p => accepted[q][i][2] < sent[p]
      BY <1>0, <3>3 DEF OrderAt
    <3>5. sent[p] \in Nat
      BY DEF TypeOK
    <3>6. ASSUME NEW i \in 1 .. (n + 1)
          PROVE  /\ accepted'[q][i][2] <= sent[accepted'[q][i][1]]
                 /\ accepted'[q][i][1] \in InFlight(q)' =>
                       accepted'[q][i][2] < sent[accepted'[q][i][1]]
      <4>1. CASE i = n + 1
        BY <3>2, <3>3, <3>5, <4>1
      <4>2. CASE i \in 1 .. n
        BY <1>0, <3>2, <3>3, <4>2 DEF OrderAt
      <4>3. QED
        BY <3>2, <4>1, <4>2
    <3>7. ASSUME NEW i \in 1 .. (n + 1), NEW j \in 1 .. (n + 1), i < j,
                 accepted'[q][i][1] = accepted'[q][j][1]
          PROVE  accepted'[q][i][2] < accepted'[q][j][2]
      <4>1. i \in 1 .. n
        BY <3>2, <3>7
      <4>2. CASE j = n + 1
        BY <3>2, <3>4, <3>7, <4>1, <4>2
      <4>3. CASE j \in 1 .. n
        BY <1>0, <3>2, <3>7, <4>1, <4>3 DEF OrderAt
      <4>4. QED
        BY <3>2, <4>2, <4>3
    <3>8. QED
      BY <3>1, <3>2, <3>6, <3>7 DEF OrderAt
  <2>3. QED
    BY <2>1, <2>2
<1>4. ASSUME NEW p \in Publishers, NEW r \in Queues, Refuse(p, r)
      PROVE  OrderAt(q)'
  BY <1>0, <1>4, InFlightRefuse, OrderKept DEF Refuse
<1>5. ASSUME NEW p \in Publishers, RecordDrop(p)
      PROVE  OrderAt(q)'
  <2>1. PICK r \in Queues : r = full[p]
    BY <1>5 DEF RecordDrop, TypeOK
  <2>2. InFlight(q)' \subseteq InFlight(q)
    BY <1>5, <2>1, InFlightRecordDrop
  <2>3. QED
    BY <1>0, <1>5, <2>2, OrderKept DEF RecordDrop
<1>6. ASSUME NEW r \in Queues, Get(r)
      PROVE  OrderAt(q)'
  BY <1>0, <1>6, InFlightKept, OrderKept DEF Get
<1>7. CASE UNCHANGED vars
  BY <1>0, <1>7, InFlightKept, OrderKept DEF vars
<1>8. QED
  BY <1>1, <1>2, <1>3, <1>4, <1>5, <1>6, <1>7 DEF Next, Proceed

-----------------------------------------------------------------------------
(* The account of what was offered. *)

AccountAt(q) ==
    q \in DOMAIN dropped =>
        offered[q] = Len(accepted[q]) + Cardinality(InFlight(q)) + dropped[q]

\* A step that touches none of a queue's figures keeps its account.
LEMMA AccountKept ==
  ASSUME NEW q \in Queues, AccountAt(q), offered'[q] = offered[q],
         accepted'[q] = accepted[q], InFlight(q)' = InFlight(q),
         q \in DOMAIN dropped' => q \in DOMAIN dropped /\ dropped'[q] = dropped[q]
  PROVE  AccountAt(q)'
BY DEF AccountAt

\* Every step keeps the count of what was missed.
LEMMA AccountStep ==
  ASSUME TypeOK, BusyHasEvent, FreshIsUnknown, FullIsVisited, EveryMissCounted,
         [Next]_vars
  PROVE  EveryMissCounted'
<1> SUFFICES ASSUME NEW q \in Queues
             PROVE  AccountAt(q)'
  <2>1. DOMAIN dropped' \subseteq Queues
    BY TypeStep DEF TypeOK
  <2>2. QED
    BY <2>1 DEF EveryMissCounted, AccountAt
<1>0. AccountAt(q) /\ (q \in DOMAIN dropped => dropped[q] \in Nat)
  BY DEF EveryMissCounted, AccountAt, TypeOK
<1>00. /\ Cardinality(InFlight(q)) \in Nat
       /\ Len(accepted[q]) \in Nat
       /\ offered[q] \in Nat
  BY InFlightSize DEF TypeOK
<1>1. ASSUME NEW r \in Queues, NEW c \in ChannelArg, Subscribe(r, c)
      PROVE  AccountAt(q)'
  <2>1. InFlight(q)' = InFlight(q) /\ offered' = offered /\ accepted' = accepted
    BY <1>1, InFlightKept DEF Subscribe
  <2>2. CASE q = r
    <3>1. dropped'[q] = 0
      BY <1>1, <2>2 DEF Subscribe
    <3>2. offered[q] = 0 /\ Len(accepted[q]) = 0 /\ InFlight(q) = {}
      BY <1>1, <2>2 DEF Subscribe, FreshIsUnknown
    <3>3. QED
      BY <2>1, <3>1, <3>2, FS_EmptySet DEF AccountAt
  <2>3. CASE q # r
    BY <1>0, <1>1, <2>1, <2>3, AccountKept DEF Subscribe
  <2>4. QED
    BY <2>2, <2>3
<1>2. ASSUME NEW r \in Queues, NEW c \in ChannelArg, Unsubscribe(r, c)
      PROVE  AccountAt(q)'
  <2>1. InFlight(q)' = InFlight(q)
    BY <1>2, InFlightKept DEF Unsubscribe
  <2>2. QED
    BY <1>0, <1>2, <2>1, AccountKept DEF Unsubscribe
<1>3. ASSUME NEW p \in Publishers, NEW c \in Channels, Publish(p, c)
      PROVE  AccountAt(q)'
  <2>1. /\ p \notin InFlight(q)
        /\ InFlight(q)' = IF q \in Audience(c) THEN InFlight(q) \cup {p} ELSE InFlight(q)
    BY <1>3, InFlightPublish
  <2>2. /\ offered'[q] = offered[q] + (IF q \in Audience(c) THEN 1 ELSE 0)
        /\ accepted' = accepted /\ dropped' = dropped
    BY <1>3 DEF Publish
  <2>3. CASE q \in Audience(c)
    <3>1. Cardinality(InFlight(q)') = Cardinality(InFlight(q)) + 1
      BY <2>1, <2>3, InFlightSize
    <3>2. offered'[q] = offered[q] + 1 /\ accepted'[q] = accepted[q] /\ dropped' = dropped
      BY <2>2, <2>3
    <3>3. AccountAt(q)' <=>
            (q \in DOMAIN dropped =>
               offered'[q] = Len(accepted[q]) + Cardinality(InFlight(q)') + dropped[q])
      BY <3>2 DEF AccountAt
    <3>4. AccountAt(q) <=>
            (q \in DOMAIN dropped =>
               offered[q] = Len(accepted[q]) + Cardinality(InFlight(q)) + dropped[q])
      BY DEF AccountAt
    <3>5. QED
      BY <1>0, <1>00, <3>1, <3>2, <3>3, <3>4
  <2>4. CASE q \notin Audience(c)
    <3>1. offered'[q] = offered[q]
      BY <2>2, <2>4 DEF TypeOK
    <3>2. QED
      BY <1>0, <2>1, <2>2, <2>4, <3>1, AccountKept
  <2>5. QED
    BY <2>3, <2>4
<1>4. ASSUME NEW p \in Publishers, NEW r \in Queues, Deliver(p, r)
      PROVE  AccountAt(q)'
  <2>1. CASE q # r
    BY <1>0, <1>4, <2>1, InFlightDeliver, AccountKept DEF Deliver, TypeOK
  <2>2. CASE q = r
    <3>1. p \in InFlight(q) /\ InFlight(q)' = InFlight(q) \ {p}
      BY <1>4, <2>2, InFlightDeliver
    <3>2. Cardinality(InFlight(q)') = Cardinality(InFlight(q)) - 1
      BY <3>1, InFlightSize
    <3>3. Len(accepted'[q]) = Len(accepted[q]) + 1
      BY <1>4, <2>2 DEF Deliver, TypeOK
    <3>4. offered' = offered /\ dropped' = dropped
      BY <1>4 DEF Deliver
    <3>5. QED
      BY <1>0, <1>00, <3>2, <3>3, <3>4 DEF AccountAt
  <2>3. QED
    BY <2>1, <2>2
<1>5. ASSUME NEW p \in Publishers, NEW r \in Queues, Refuse(p, r)
      PROVE  AccountAt(q)'
  BY <1>0, <1>5, InFlightRefuse, AccountKept DEF Refuse
<1>6. ASSUME NEW p \in Publishers, RecordDrop(p)
      PROVE  AccountAt(q)'
  <2>1. PICK r \in Queues : r = full[p]
    BY <1>6 DEF RecordDrop, TypeOK
  <2>2. offered' = offered /\ accepted' = accepted /\ DOMAIN dropped' = DOMAIN dropped
    BY <1>6 DEF RecordDrop, CountDrop
  <2>3. CASE q # r
    <3>1. InFlight(q)' = InFlight(q)
      BY <1>6, <2>1, <2>3, InFlightRecordDrop
    <3>2. q \in DOMAIN dropped => dropped'[q] = dropped[q]
      BY <1>6, <2>1, <2>3 DEF RecordDrop, CountDrop
    <3>3. QED
      BY <1>0, <2>2, <3>1, <3>2, AccountKept
  <2>4. CASE q = r
    <3>1. p \in InFlight(q) /\ InFlight(q)' = InFlight(q) \ {p}
      BY <1>6, <2>1, <2>4, InFlightRecordDrop
    <3>2. Cardinality(InFlight(q)') = Cardinality(InFlight(q)) - 1
      BY <3>1, InFlightSize
    <3>3. q \in DOMAIN dropped => dropped'[q] = dropped[q] + 1 /\ dropped[q] \in Nat
      BY <1>6, <2>1, <2>4 DEF RecordDrop, CountDrop, TypeOK
    <3>4. QED
      BY <1>0, <1>00, <2>2, <3>2, <3>3 DEF AccountAt
  <2>5. QED
    BY <2>3, <2>4
<1>7. ASSUME NEW r \in Queues, Get(r)
      PROVE  AccountAt(q)'
  BY <1>0, <1>7, InFlightKept, AccountKept DEF Get
<1>8. CASE UNCHANGED vars
  BY <1>0, <1>8, InFlightKept, AccountKept DEF vars
<1>9. QED
  BY <1>1, <1>2, <1>3, <1>4, <1>5, <1>6, <1>7, <1>8 DEF Next, Proceed

-----------------------------------------------------------------------------
\* The invariant holds at first ...
LEMMA InvInit == Init => IInv
<1> SUFFICES ASSUME Init PROVE IInv
  OBVIOUS
<1>1. \A q \in Queues : InFlight(q) = {}
  BY DEF Init, InFlight, EventBusAssumption
<1>2. QED
  BY <1>1 DEF Init, IInv, TypeOK, BusyHasEvent, Busy, NoCounterResurrected, FreshIsUnknown,
              FullIsVisited, CurrentNotAccepted, PublisherOrder, EveryMissCounted,
              EventBusAssumption

\* ... and every step keeps it.
LEMMA InvStep == IInv /\ [Next]_vars => IInv'
BY TypeStep, FreshStep, CounterStep, OrderStep, AccountStep DEF IInv

\* The inductive invariant holds of the bus.
THEOREM Invariance == Spec => []IInv
BY InvInit, InvStep, PTL DEF Spec

\* Whatever the interleaving of publishers, consumers, subscribers and
\* unsubscribers (through the wrong channel too), a queue's counter accounts
\* for every event it missed.
THEOREM MissesAreCounted == Spec => []EveryMissCounted
BY Invariance, PTL DEF IInv

\* No queue receives an event twice or two events of a publisher out of order.
THEOREM OrderIsKept == Spec => []PublisherOrder
BY Invariance, PTL DEF IInv

\* A late publisher never brings back the counter of an unsubscribed queue.
THEOREM CountersStayGone == Spec => []NoCounterResurrected
BY Invariance, PTL DEF IInv
-----------------------------------------------------------------------------
(* Every queue of the event bus is a Subscription.                         *)

\* Every queue that can still be a target has a counter.
ListedAreCounted == listed \subseteq DOMAIN dropped

\* Every listed queue keeps its counter.
LEMMA ListedStep ==
  ASSUME ListedAreCounted, [Next]_vars
  PROVE  ListedAreCounted'
BY DEF ListedAreCounted, Next, Proceed, Subscribe, Unsubscribe, Publish, Deliver,
       Refuse, RecordDrop, CountDrop, Get, vars

\* A queue that can be a target is never without a drop counter.
THEOREM ListedKeepCounter ==
  Spec => []ListedAreCounted
<1>1. Init => ListedAreCounted
  BY DEF Init, ListedAreCounted
<1>2. ListedAreCounted /\ [Next]_vars => ListedAreCounted'
  BY ListedStep
<1>3. QED
  BY <1>1, <1>2, PTL DEF Spec

-----------------------------------------------------------------------------
(* What the mapping makes of each variable. *)

\* An event on its way to q is the current event of a publisher in flight.
LEMMA CurrentIsNew ==
  ASSUME IInv, NEW q \in Queues, NEW p \in Publishers, p \in InFlight(q)
  PROVE  Latest(p) \notin Seen(q)
<1> SUFFICES ASSUME NEW i \in 1 .. Len(accepted[q]), accepted[q][i] = Latest(p)
             PROVE  FALSE
  BY DEF Seen
<1>1. accepted[q][i][2] < sent[p]
  BY DEF IInv, CurrentNotAccepted, Latest
<1>2. accepted[q][i][2] = sent[p] /\ sent[p] \in Nat
  BY DEF Latest, IInv, TypeOK
<1>3. QED
  BY <1>1, <1>2

\* A step that leaves everything the mapping reads of q is a stutter of q's
\* subscription.
LEMMA Stutter ==
  ASSUME NEW q \in Queues, Phase(q)' = Phase(q), sent' = sent,
         \A p \in Publishers : /\ q \in targets'[p] <=> q \in targets[p]
                               /\ full'[p] = q <=> full[p] = q,
         buf'[q] = buf[q], accepted'[q] = accepted[q],
         DroppedCount(q)' = DroppedCount(q)
  PROVE  UNCHANGED Sub(q)!vars
<1>1. Pending(q)' = Pending(q) /\ Refused(q)' = Refused(q) /\ Seen(q)' = Seen(q)
  BY DEF Pending, Refused, Seen, Latest
<1>2. QED
  BY <1>1 DEF Sub!vars

\* A subscription is the abstract Open, or another queue's.
LEMMA SubscribeOpens ==
  ASSUME IInv, NEW r \in Queues, NEW c \in ChannelArg, Subscribe(r, c), NEW q \in Queues
  PROVE  Sub(q)!Next \/ UNCHANGED Sub(q)!vars
<1>1. CASE r = q
  <2>1. Phase(q) = "fresh" /\ Phase(q)' = "open"
    <3>1. home[q] = Fresh /\ home'[q] = c /\ q \in listed'
      BY <1>1 DEF Subscribe, IInv, TypeOK
    <3>2. c # Fresh
      BY DEF ChannelArg, EventBusAssumption
    <3>3. QED
      BY <3>1, <3>2 DEF Phase
  <2>2. DroppedCount(q) = 0 /\ DroppedCount(q)' = 0
    BY <1>1 DEF Subscribe, DroppedCount, IInv, FreshIsUnknown, NoCounterResurrected
  <2>3. Pending(q)' = Pending(q) /\ Refused(q)' = Refused(q) /\ Seen(q)' = Seen(q)
    BY DEF Subscribe, Pending, Refused, Seen, Latest
  <2>4. Sub(q)!Open
    BY <2>1, <2>2, <2>3 DEF Sub!Open, Subscribe
  <2>5. QED
    BY <2>4 DEF Sub!Next
<1>2. CASE r # q
  <2>1. Phase(q)' = Phase(q) /\ DroppedCount(q)' = DroppedCount(q)
    BY <1>2 DEF Subscribe, Phase, DroppedCount, IInv, TypeOK
  <2>2. QED
    BY <2>1, Stutter DEF Subscribe
<1>3. QED
  BY <1>1, <1>2

\* An unsubscription closes it.
LEMMA UnsubscribeCloses ==
  ASSUME IInv, ListedAreCounted,
         NEW r \in Queues, NEW c \in ChannelArg, Unsubscribe(r, c), NEW q \in Queues
  PROVE  Sub(q)!Next \/ UNCHANGED Sub(q)!vars
<1>0. c = home[r] /\ listed' = listed \ {r} /\ home[r] # Fresh
  BY DEF Unsubscribe
<1>1. CASE r = q /\ q \in listed
  <2>1. Phase(q) = "open" /\ Phase(q)' = "closed"
    BY <1>0, <1>1 DEF Unsubscribe, Phase
  <2>2. DroppedCount(q)' = 0
    BY <1>1 DEF Unsubscribe, DroppedCount
  <2>3. Pending(q)' = Pending(q) /\ Refused(q)' = Refused(q) /\ Seen(q)' = Seen(q)
    BY DEF Unsubscribe, Pending, Refused, Seen, Latest
  <2>4. Sub(q)!Close
    BY <2>1, <2>2, <2>3 DEF Sub!Close, Unsubscribe
  <2>5. QED
    BY <2>4 DEF Sub!Next
<1>2. CASE ~(r = q /\ q \in listed)
  <2>1. q \in listed' <=> q \in listed
    BY <1>0, <1>2
  <2>2. q \in DOMAIN dropped' <=> q \in DOMAIN dropped
    BY <1>2 DEF Unsubscribe, IInv, NoCounterResurrected
  <2>3. q \in DOMAIN dropped' => dropped'[q] = dropped[q]
    BY DEF Unsubscribe
  <2>4. Phase(q)' = Phase(q) /\ DroppedCount(q)' = DroppedCount(q)
    BY <2>1, <2>2, <2>3 DEF Unsubscribe, Phase, DroppedCount
  <2>5. QED
    BY <2>4, Stutter DEF Unsubscribe
<1>3. QED
  BY <1>1, <1>2

\* A publish call offers an event to the queues of its channel.
LEMMA PublishOffers ==
  ASSUME IInv, NEW p \in Publishers, NEW c \in Channels, Publish(p, c), NEW q \in Queues
  PROVE  Sub(q)!Next \/ UNCHANGED Sub(q)!vars
<1>1. /\ \A r \in Publishers : sent'[r] = IF r = p THEN sent[r] + 1 ELSE sent[r]
      /\ \A r \in Publishers : targets'[r] = IF r = p THEN Audience(c) ELSE targets[r]
      /\ UNCHANGED <<home, listed, dropped, buf, full, accepted>>
      /\ targets[p] = {} /\ full[p] = NoQueue
  BY DEF Publish, Busy, IInv, TypeOK
<1>2. sent[p] \in Nat /\ sent[p] + 1 \in 1 .. MaxEvents
  <2>1. sent[p] \in 0 .. MaxEvents /\ sent[p] < MaxEvents
    BY DEF Publish, IInv, TypeOK
  <2>2. QED
    BY <2>1 DEF EventBusAssumption
<1>3. Phase(q)' = Phase(q) /\ DroppedCount(q)' = DroppedCount(q) /\ Seen(q)' = Seen(q)
  BY <1>1 DEF Phase, DroppedCount, Seen
<1>4. Refused(q)' = Refused(q)
  <2>1. \A r \in Publishers : full[r] = q => sent'[r] = sent[r]
    BY <1>1 DEF EventBusAssumption
  <2>2. QED
    BY <1>1, <2>1 DEF Refused, Latest
<1>5. CASE q \in Audience(c)
  <2> DEFINE e == <<p, sent[p] + 1>>
  <2>1. e \in Event
    BY <1>2 DEF Event
  <2>2. Phase(q) = "open"
    BY <1>5 DEF Phase, Audience, IInv, FreshIsUnknown
  <2>3. e \notin Pending(q) \cup Refused(q)
    BY <1>1, <1>2 DEF Pending, Refused, Latest, EventBusAssumption
  <2>4. e \notin Seen(q)
    <3> SUFFICES ASSUME NEW i \in 1 .. Len(accepted[q]), accepted[q][i] = e
                 PROVE  FALSE
      BY DEF Seen
    <3>1. accepted[q][i][2] <= sent[p]
      BY DEF IInv, CurrentNotAccepted
    <3>2. QED
      BY <3>1, <1>2
  <2>5. Pending(q)' = Pending(q) \cup {e}
    BY <1>1, <1>5 DEF Pending, Latest
  <2>6. Sub(q)!Offer(e)
    BY <1>1, <1>3, <1>4, <2>2, <2>3, <2>4, <2>5 DEF Sub!Offer
  <2>7. QED
    BY <2>1, <2>6 DEF Sub!Next
<1>6. CASE q \notin Audience(c)
  <2>1. Pending(q)' = Pending(q)
    BY <1>1, <1>6 DEF Pending, Latest
  <2>2. QED
    BY <1>1, <1>3, <1>4, <2>1 DEF Sub!vars
<1>7. QED
  BY <1>5, <1>6

\* A put that succeeds is an accepted offer.
LEMMA DeliverAccepts ==
  ASSUME IInv, NEW p \in Publishers, NEW r \in Queues, Deliver(p, r), NEW q \in Queues
  PROVE  Sub(q)!Next \/ UNCHANGED Sub(q)!vars
<1>1. /\ \A s \in Publishers : targets'[s] = IF s = p THEN targets[s] \ {r} ELSE targets[s]
      /\ UNCHANGED <<home, listed, dropped, sent, full>>
      /\ r \in targets[p]
  BY DEF Deliver, IInv, TypeOK
<1>2. Phase(q)' = Phase(q) /\ DroppedCount(q)' = DroppedCount(q)
  BY <1>1 DEF Phase, DroppedCount
<1>3. CASE r # q
  <2>1. buf'[q] = buf[q] /\ accepted'[q] = accepted[q]
    BY <1>3 DEF Deliver, IInv, TypeOK
  <2>2. QED
    BY <1>1, <1>2, <1>3, <2>1, Stutter
<1>4. CASE r = q
  <2> DEFINE e == Latest(p)
  <2>1. e \in Pending(q) /\ e \in Event
    <3>1. e \in Pending(q)
      BY <1>1, <1>4 DEF Pending
    <3>2. sent[p] \in 0 .. MaxEvents /\ sent[p] > 0
      BY <1>1 DEF IInv, TypeOK, BusyHasEvent, Busy
    <3>3. sent[p] \in 1 .. MaxEvents
      BY <3>2
    <3>4. QED
      BY <3>1, <3>3 DEF Latest, Event
  <2>2. e \notin Seen(q)
    BY <1>1, <1>4, CurrentIsNew DEF InFlight
  <2>3. Len(buf[q]) < Capacity /\ buf'[q] = Append(buf[q], e)
    BY <1>4 DEF Deliver, IInv, TypeOK
  <2>4. Pending(q)' = Pending(q) \ {e}
    <3>1. \A x : x \in Pending(q) <=>
                   \E s \in Publishers : q \in targets[s] /\ x = <<s, sent[s]>>
      BY DEF Pending, Latest
    <3>2. \A x : x \in Pending(q)' <=>
                   \E s \in Publishers : q \in targets'[s] /\ x = <<s, sent[s]>>
      BY <1>1 DEF Pending, Latest
    <3>3. \A s \in Publishers : q \in targets'[s] <=> q \in targets[s] /\ s # p
      BY <1>1, <1>4
    <3>4. QED
      BY <3>1, <3>2, <3>3 DEF Latest
  <2>5. Refused(q)' = Refused(q)
    BY <1>1 DEF Refused, Latest
  <2>6. Seen(q)' = Seen(q) \cup {e}
    <3>1. accepted'[q] = Append(accepted[q], e) /\ accepted[q] \in Seq(Event)
      BY <1>4 DEF Deliver, IInv, TypeOK
    <3>2. /\ Len(accepted'[q]) = Len(accepted[q]) + 1
          /\ \A i \in 1 .. Len(accepted[q]) : accepted'[q][i] = accepted[q][i]
          /\ accepted'[q][Len(accepted[q]) + 1] = e
          /\ Len(accepted[q]) \in Nat
      BY <3>1
    <3>3. \A i : i \in 1 .. Len(accepted'[q]) <=>
                   i \in 1 .. Len(accepted[q]) \/ i = Len(accepted[q]) + 1
      BY <3>2
    <3>4. QED
      BY <3>2, <3>3 DEF Seen
  <2>7. Sub(q)!Accept(e)
    BY <1>2, <2>1, <2>2, <2>3, <2>4, <2>5, <2>6 DEF Sub!Accept
  <2>8. QED
    BY <2>1, <2>7 DEF Sub!Next
<1>5. QED
  BY <1>3, <1>4

\* A put that finds the queue full is refused.
LEMMA RefuseRefuses ==
  ASSUME IInv, NEW p \in Publishers, NEW r \in Queues, Refuse(p, r), NEW q \in Queues
  PROVE  Sub(q)!Next \/ UNCHANGED Sub(q)!vars
<1>1. /\ \A s \in Publishers : targets'[s] = IF s = p THEN targets[s] \ {r} ELSE targets[s]
      /\ \A s \in Publishers : full'[s] = IF s = p THEN r ELSE full[s]
      /\ UNCHANGED <<home, listed, dropped, buf, sent, accepted>>
      /\ r \in targets[p] /\ full[p] # q
  BY DEF Refuse, IInv, TypeOK, EventBusAssumption
<1>2. /\ Phase(q)' = Phase(q) /\ DroppedCount(q)' = DroppedCount(q)
      /\ Seen(q)' = Seen(q)
  BY <1>1 DEF Phase, DroppedCount, Seen
<1>3. CASE r # q
  BY <1>1, <1>2, <1>3, Stutter
<1>4. CASE r = q
  <2> DEFINE e == Latest(p)
  <2>1. e \in Pending(q) /\ e \in Event
    <3>1. e \in Pending(q)
      BY <1>1, <1>4 DEF Pending
    <3>2. sent[p] \in 0 .. MaxEvents /\ sent[p] > 0
      BY <1>1 DEF IInv, TypeOK, BusyHasEvent, Busy
    <3>3. sent[p] \in 1 .. MaxEvents
      BY <3>2
    <3>4. QED
      BY <3>1, <3>3 DEF Latest, Event
  <2>2. Len(buf[q]) = Capacity
    <3>1. Len(buf[q]) >= Capacity /\ Len(buf[q]) <= Capacity /\ buf[q] \in Seq(Event)
      BY <1>4 DEF Refuse, IInv, TypeOK
    <3>2. QED
      BY <3>1 DEF EventBusAssumption
  <2>3. Pending(q)' = Pending(q) \ {e}
    <3>1. \A x : x \in Pending(q) <=>
                   \E s \in Publishers : q \in targets[s] /\ x = <<s, sent[s]>>
      BY DEF Pending, Latest
    <3>2. \A x : x \in Pending(q)' <=>
                   \E s \in Publishers : q \in targets'[s] /\ x = <<s, sent[s]>>
      BY <1>1 DEF Pending, Latest
    <3>3. \A s \in Publishers : q \in targets'[s] <=> q \in targets[s] /\ s # p
      BY <1>1, <1>4
    <3>4. QED
      BY <3>1, <3>2, <3>3 DEF Latest
  <2>4. Refused(q)' = Refused(q) \cup {e}
    BY <1>1, <1>4 DEF Refused, Latest
  <2>5. Sub(q)!Refuse(e)
    BY <1>1, <1>2, <2>1, <2>2, <2>3, <2>4 DEF Sub!Refuse
  <2>6. QED
    BY <2>1, <2>5 DEF Sub!Next
<1>5. QED
  BY <1>3, <1>4

\* The drop is counted.
LEMMA RecordDropCounts ==
  ASSUME IInv, ListedAreCounted, NEW p \in Publishers, RecordDrop(p), NEW q \in Queues
  PROVE  Sub(q)!Next \/ UNCHANGED Sub(q)!vars
<1>1. /\ \A s \in Publishers : full'[s] = IF s = p THEN NoQueue ELSE full[s]
      /\ UNCHANGED <<home, listed, buf, sent, targets, accepted>>
      /\ DOMAIN dropped' = DOMAIN dropped
      /\ \A r \in DOMAIN dropped :
           dropped'[r] = IF r = full[p] THEN dropped[r] + 1 ELSE dropped[r]
  BY DEF RecordDrop, CountDrop, IInv, TypeOK
<1>2. Phase(q)' = Phase(q) /\ Seen(q)' = Seen(q) /\ Pending(q)' = Pending(q)
  BY <1>1 DEF Phase, Seen, Pending, Latest
<1>3. CASE full[p] # q
  <2>1. DroppedCount(q)' = DroppedCount(q)
    BY <1>1, <1>3 DEF DroppedCount
  <2>2. \A s \in Publishers : full'[s] = q <=> full[s] = q
    BY <1>1, <1>3 DEF EventBusAssumption
  <2>3. QED
    BY <1>1, <1>2, <2>1, <2>2, Stutter
<1>4. CASE full[p] = q
  <2> DEFINE e == Latest(p)
  <2>1. e \in Refused(q) /\ e \in Event
    <3>1. e \in Refused(q)
      BY <1>4 DEF Refused
    <3>2. sent[p] \in 0 .. MaxEvents /\ sent[p] > 0
      BY <1>4 DEF IInv, TypeOK, BusyHasEvent, Busy, EventBusAssumption
    <3>3. sent[p] \in 1 .. MaxEvents
      BY <3>2
    <3>4. QED
      BY <3>1, <3>3 DEF Latest, Event
  <2>2. Refused(q)' = Refused(q) \ {e}
    <3>1. \A x : x \in Refused(q) <=>
                   \E s \in Publishers : full[s] = q /\ x = <<s, sent[s]>>
      BY DEF Refused, Latest
    <3>2. \A x : x \in Refused(q)' <=>
                   \E s \in Publishers : full'[s] = q /\ x = <<s, sent[s]>>
      BY <1>1 DEF Refused, Latest
    <3>3. \A s \in Publishers : full'[s] = q <=> full[s] = q /\ s # p
      BY <1>1, <1>4 DEF EventBusAssumption
    <3>4. QED
      BY <3>1, <3>2, <3>3 DEF Latest
  <2>3. home[q] # Fresh
    BY <1>4 DEF IInv, FreshIsUnknown, InFlight
  <2>4. q \in listed <=> q \in DOMAIN dropped
    BY DEF ListedAreCounted, IInv, NoCounterResurrected
  <2>5. DroppedCount(q)' = IF Phase(q) = "open" THEN DroppedCount(q) + 1 ELSE 0
    BY <1>1, <1>4, <2>3, <2>4 DEF DroppedCount, Phase
  <2>6. Sub(q)!Count(e)
    BY <1>1, <1>2, <2>1, <2>2, <2>5 DEF Sub!Count
  <2>7. QED
    BY <2>1, <2>6 DEF Sub!Next
<1>5. QED
  BY <1>3, <1>4

\* The subscriber takes the oldest event.
LEMMA GetTakes ==
  ASSUME IInv, NEW r \in Queues, Get(r), NEW q \in Queues
  PROVE  Sub(q)!Next \/ UNCHANGED Sub(q)!vars
<1>1. UNCHANGED <<home, listed, dropped, sent, targets, full, accepted>>
  BY DEF Get
<1>2. /\ Phase(q)' = Phase(q) /\ DroppedCount(q)' = DroppedCount(q) /\ Seen(q)' = Seen(q)
      /\ Pending(q)' = Pending(q) /\ Refused(q)' = Refused(q)
  BY <1>1 DEF Phase, DroppedCount, Seen, Pending, Refused, Latest
<1>3. CASE r = q
  BY <1>2, <1>3 DEF Get, IInv, TypeOK, Sub!Take, Sub!Next
<1>4. CASE r # q
  BY <1>2, <1>4 DEF Get, IInv, TypeOK, Sub!vars
<1>5. QED
  BY <1>3, <1>4

\* One step of the bus is a step, or a stutter, of every subscription.
LEMMA StepImplements ==
  ASSUME IInv, ListedAreCounted, [Next]_vars, NEW q \in Queues
  PROVE  Sub(q)!Next \/ UNCHANGED Sub(q)!vars
<1>1. CASE UNCHANGED vars
  BY <1>1, Stutter DEF vars, Phase, DroppedCount
<1>2. QED
  BY <1>1, SubscribeOpens, UnsubscribeCloses, PublishOffers, DeliverAccepts,
     RefuseRefuses, RecordDropCounts, GetTakes DEF Next, Proceed

\* Every queue of the bus is a Subscription: it is offered each event once,
\* receives or counts it, and its counter reads 0 outside the subscription.
THEOREM ImplementsSubscription ==
  Spec => EveryQueueIsASubscription
<1>1. Init => \A q \in Queues : Sub(q)!Init
  BY DEF Init, Sub!Init, Phase, Pending, Refused, Seen, DroppedCount, EventBusAssumption
<1>2. IInv /\ ListedAreCounted /\ [Next]_vars =>
        [\A q \in Queues : Sub(q)!Next \/ UNCHANGED Sub(q)!vars]_vars
  BY StepImplements
<1>3. Spec => []ListedAreCounted
  BY ListedKeepCounter
<1>4. QED
  BY <1>1, <1>2, <1>3, Invariance, PTL DEF Spec, EveryQueueIsASubscription
=============================================================================
