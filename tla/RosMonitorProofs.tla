-------------------------- MODULE RosMonitorProofs --------------------------
(***************************************************************************)
(* The topic watch and the TF snapshotter, each with its detector, for any *)
(* topics, edges, window, timeouts and queue.  With threads that keep up a *)
(* regular topic is not alarmed, an outage is alarmed once, and an alert   *)
(* is lifted; and alarms about the TF tree rest on what was heard.         *)
(***************************************************************************)
EXTENDS TopicWatch, TfWatch, FiniteSetTheorems, SequenceTheorems, TLAPS

-----------------------------------------------------------------------------
(* The TF tree                                                             *)

\* What the table of edges and the histories of it are.
TableTypes ==
    /\ now \in Nat /\ due \in 0 .. Period
    /\ DOMAIN table \subseteq Edges
    /\ table = [e \in DOMAIN table |-> table[e]]
    /\ \A e \in DOMAIN table : table[e].stamp \in Nat /\ table[e].static \in BOOLEAN
    /\ newest \in [Edges -> Nat \cup {-1}]

\* An entry is as new as the newest transform heard, also when they were
\* reordered, and newer than one that was outdated by a static transform.
EntryIsNewest ==
    /\ \A e \in Edges : ~Known(e) => newest[e] = -1
    /\ \A e \in DOMAIN table :
        /\ newest[e] <= table[e].stamp
        /\ ~table[e].static => newest[e] = table[e].stamp

\* The static entries are the ones latched.
StaticIsLatched == latched = {e \in DOMAIN table : table[e].static}

\* An entry that was fresh when it was written and has been in no snapshot
\* as stale is at most a period older than the timeout.
UntoldIsRecent ==
    \A e \in DOMAIN table : ~table[e].static /\ e \notin told /\ e \notin belated
        => now - table[e].stamp <= StaleTimeout + (Period - due)

TfInv == TableTypes /\ EntryIsNewest /\ StaticIsLatched /\ UntoldIsRecent

\* An empty table.
LEMMA TfInitInv == TfInit => TfInv
<1> SUFFICES ASSUME TfInit PROVE TfInv
  OBVIOUS
<1>1. DOMAIN table = {} /\ table = [e \in DOMAIN table |-> table[e]]
  BY DEF TfInit
<1>2. now \in Nat /\ due \in 0 .. Period /\ newest \in [Edges -> Nat \cup {-1}]
  BY TfAssumption DEF TfInit
<1> QED
  BY <1>1, <1>2 DEF TfInit, TfInv, TableTypes, EntryIsNewest, StaticIsLatched, UntoldIsRecent,
     Known

\* A transform that is received.
LEMMA ReceiveKeeps ==
    ASSUME TfInv, NEW e \in Edges, NEW static \in BOOLEAN, NEW stamp \in Nat,
           Receive(e, stamp, static)
    PROVE  TfInv'
<1>1. /\ UNCHANGED <<now, due>> /\ due \in 0 .. Period /\ Period \in Nat /\ StaleTimeout \in Nat
      /\ now \in Nat
      /\ newest' = [newest EXCEPT ![e] = IF static THEN -1 ELSE IF stamp > @ THEN stamp ELSE @]
      /\ newest \in [Edges -> Nat \cup {-1}]
  BY TfAssumption DEF Receive, TfInv, TableTypes
<1>2. /\ newest' \in [Edges -> Nat \cup {-1}]
      /\ newest'[e] = IF static THEN -1 ELSE IF stamp > newest[e] THEN stamp ELSE newest[e]
      /\ \A f \in Edges \ {e} : newest'[f] = newest[f]
  BY <1>1
<1>3. CASE Outdated(e, stamp, static)
  <2>1. UNCHANGED <<table, latched, told, belated>> /\ ~static /\ e \in DOMAIN table
        /\ stamp < table[e].stamp
    BY <1>3 DEF Receive, Outdated, Known
  <2>2. EntryIsNewest'
    BY <1>1, <1>2, <2>1 DEF TfInv, TableTypes, EntryIsNewest, Known
  <2> QED
    BY <1>1, <1>2, <2>1, <2>2 DEF TfInv, TableTypes, StaticIsLatched, UntoldIsRecent
<1>4. CASE ~Outdated(e, stamp, static)
  <2>1. /\ table' = Written(e, stamp, static)
        /\ latched' = IF static THEN latched \cup {e} ELSE latched \ {e}
        /\ told' = told \ {e}
        /\ belated' = IF ~static /\ now - stamp > StaleTimeout THEN belated \cup {e}
                                                               ELSE belated \ {e}
    BY <1>4 DEF Receive
  <2>2. /\ DOMAIN table' = DOMAIN table \cup {e}
        /\ table' = [f \in DOMAIN table' |-> table'[f]]
        /\ table'[e].stamp = stamp /\ table'[e].static = static
        /\ \A f \in DOMAIN table \ {e} : table'[f] = table[f]
    BY <2>1 DEF Written
  <2>3. TableTypes'
    BY <1>1, <1>2, <2>2 DEF TfInv, TableTypes
  <2>4. EntryIsNewest'
    <3>1. ~static => newest[e] <= stamp
      <4>1. CASE e \in DOMAIN table
        BY <1>1, <1>4, <4>1 DEF Outdated, Known, TfInv, TableTypes, EntryIsNewest
      <4>2. CASE e \notin DOMAIN table
        BY <4>2 DEF Known, TfInv, EntryIsNewest
      <4> QED
        BY <4>1, <4>2
    <3>2. newest'[e] <= stamp /\ (~static => newest'[e] = stamp)
      BY <1>1, <1>2, <3>1
    <3>3. ASSUME NEW f \in DOMAIN table'
          PROVE  newest'[f] <= table'[f].stamp /\ (~table'[f].static => newest'[f] = table'[f].stamp)
      <4>1. CASE f = e
        BY <2>2, <3>2, <4>1
      <4>2. CASE f # e
        BY <1>2, <2>2, <4>2 DEF TfInv, TableTypes, EntryIsNewest
      <4> QED
        BY <4>1, <4>2
    <3>4. ASSUME NEW f \in Edges, f \notin DOMAIN table' PROVE newest'[f] = -1
      BY <1>2, <2>2, <3>4 DEF TfInv, EntryIsNewest, Known
    <3> QED
      BY <3>3, <3>4 DEF EntryIsNewest, Known
  <2>5. StaticIsLatched'
    <3>1. \A f : f \in latched' <=> f \in DOMAIN table' /\ table'[f].static
      BY <2>1, <2>2 DEF TfInv, StaticIsLatched
    <3> QED
      BY <3>1 DEF StaticIsLatched
  <2>6. UntoldIsRecent'
    <3>1. SUFFICES ASSUME NEW f \in DOMAIN table', ~table'[f].static, f \notin told', f \notin belated'
                   PROVE  now - table'[f].stamp <= StaleTimeout + (Period - due)
      BY <1>1 DEF UntoldIsRecent
    <3>2. CASE f = e
      BY <1>1, <2>1, <2>2, <3>1, <3>2
    <3>3. CASE f # e
      <4>1. f \in DOMAIN table /\ table'[f] = table[f] /\ f \notin told /\ f \notin belated
        BY <2>1, <2>2, <3>1, <3>3
      <4> QED
        BY <3>1, <4>1 DEF TfInv, UntoldIsRecent
    <3> QED
      BY <3>2, <3>3
  <2> QED
    BY <2>3, <2>4, <2>5, <2>6 DEF TfInv
<1> QED
  BY <1>3, <1>4

\* What a snapshot keeps.
LEMMA KeptEntries ==
    ASSUME TfInv
    PROVE  /\ DOMAIN Kept = {e \in DOMAIN table : ~Garbage(table[e])}
           /\ Kept = [e \in DOMAIN Kept |-> Kept[e]]
           /\ \A e \in DOMAIN Kept : Kept[e] = table[e]
BY DEF Kept, Restrict

\* A stale entry is older than the timeout, whatever the clock.
LEMMA StaleIsOld ==
    ASSUME TfInv, NEW e \in DOMAIN table
    PROVE  Stale(table[e]) <=> ~table[e].static /\ now - table[e].stamp > StaleTimeout
<1>1. now \in Nat /\ table[e].stamp \in Nat /\ StaleTimeout \in Nat
  BY TfAssumption DEF TfInv, TableTypes
<1> QED
  BY <1>1 DEF Stale, Age

\* A snapshot drops edges and reports others: what it leaves is fresh or told.
LEMMA SnapshotKeeps ==
    ASSUME StaleTimeout + Period <= GcAge, TfInv, EmitSnapshot
    PROVE  TfInv'
<1>1. /\ due = 0 /\ due' = Period /\ UNCHANGED <<now, latched, belated>> /\ table' = Kept
      /\ told' = told \cup IF found' = Healthy THEN {} ELSE StaleEdges(Kept)
      /\ newest' = [e \in Edges |-> IF e \in DOMAIN Kept THEN newest[e] ELSE -1]
  BY DEF EmitSnapshot
<1>2. /\ DOMAIN table' = {e \in DOMAIN table : ~Garbage(table[e])}
      /\ table' = [e \in DOMAIN table' |-> table'[e]]
      /\ \A e \in DOMAIN table' : table'[e] = table[e]
  BY <1>1, KeptEntries
<1>3. TableTypes'
  BY <1>1, <1>2, TfAssumption DEF TfInv, TableTypes
<1>4. EntryIsNewest'
  BY <1>1, <1>2 DEF TfInv, TableTypes, EntryIsNewest, Known
<1>5. StaticIsLatched'
  BY <1>1, <1>2 DEF TfInv, StaticIsLatched, Garbage
<1>6. UntoldIsRecent'
  <2>1. SUFFICES ASSUME NEW e \in DOMAIN table', ~table'[e].static, e \notin told', e \notin belated
                 PROVE  now - table'[e].stamp <= StaleTimeout + (Period - Period)
    BY <1>1 DEF UntoldIsRecent
  <2>2. found' # Healthy \/ StaleEdges(Kept) = {}
    BY DEF EmitSnapshot, TopologyCheck, Healthy
  <2>3. e \notin StaleEdges(Kept)
    BY <1>1, <2>1, <2>2
  <2>4. e \in DOMAIN table /\ table'[e] = table[e] /\ ~Stale(table[e])
    BY <1>1, <1>2, <2>1, <2>3 DEF StaleEdges
  <2>5. now \in Nat /\ table[e].stamp \in Nat /\ StaleTimeout \in Nat /\ Period \in Nat
    BY <2>4, TfAssumption DEF TfInv, TableTypes
  <2>6. ~(now - table[e].stamp > StaleTimeout)
    BY <2>1, <2>4, StaleIsOld
  <2> QED
    BY <2>4, <2>5, <2>6
<1> QED
  BY <1>3, <1>4, <1>5, <1>6 DEF TfInv

\* The clock and the timer: what one is set back or moves on by, and what the
\* other has left.
LEMMA ClockAndTimer ==
    ASSUME NEW t \in Int, NEW u \in Int, NEW d \in Int, NEW r \in Int, NEW p \in Int,
           NEW s \in Int, NEW w \in Int,
           u - (p - r) <= t - (p - d), t - s <= w + (p - d)
    PROVE  u - s <= w + (p - r)
OBVIOUS

\* Every step; as time passes an entry ages no faster than the timer runs down.
LEMMA TfStepKeeps ==
    ASSUME StaleTimeout + Period <= GcAge, TfInv, [TfNext]_tfVars PROVE TfInv'
<1>1. CASE Start \/ Stop \/ UNCHANGED tfVars
  BY <1>1 DEF Start, Stop, tfVars, hist, TfInv, TableTypes, EntryIsNewest, StaticIsLatched,
     UntoldIsRecent, Known
<1>2. CASE TimePasses \/ Rewind
  <2>1. UNCHANGED <<table, newest, latched, told, belated>>
    BY <1>2 DEF TimePasses, Rewind, hist
  <2>2. /\ now' \in Nat /\ due' \in 0 .. Period
        /\ now' - (Period - due') <= now - (Period - due)
    <3>1. now \in Nat /\ due \in 0 .. Period /\ Period \in Nat
      BY TfAssumption DEF TfInv, TableTypes
    <3>2. CASE TimePasses
      BY <3>1, <3>2 DEF TimePasses
    <3>3. CASE Rewind
      <4>1. now' \in 0 .. now - 1 /\ due' = due
        BY <3>3 DEF Rewind
      <4>2. now' \in Nat /\ now' <= now
        BY <3>1, <4>1
      <4>3. due' \in 0 .. Period
        BY <3>1, <4>1
      <4>4. \A t, u, c \in Int : u <= t => u - c <= t - c
        OBVIOUS
      <4>5. now \in Int /\ now' \in Int /\ due \in Int /\ Period \in Int
        BY <3>1, <4>2
      <4>6. Period - due \in Int
        BY <4>5
      <4>7. now' - (Period - due) <= now - (Period - due)
        BY <4>2, <4>4, <4>5, <4>6
      <4> QED
        BY <4>1, <4>2, <4>3, <4>7
    <3> QED
      BY <1>2, <3>2, <3>3
  <2>3. UntoldIsRecent'
    <3>1. ASSUME NEW e \in DOMAIN table, ~table[e].static, e \notin told, e \notin belated
          PROVE  now' - table[e].stamp <= StaleTimeout + (Period - due')
      <4>1. now - table[e].stamp <= StaleTimeout + (Period - due)
        BY <3>1 DEF TfInv, UntoldIsRecent
      <4>2. table[e].stamp \in Nat /\ StaleTimeout \in Nat /\ Period \in Nat /\ due \in 0 .. Period
            /\ now \in Nat
        BY TfAssumption DEF TfInv, TableTypes
      <4>3. /\ now \in Int /\ now' \in Int /\ due \in Int /\ due' \in Int /\ Period \in Int
            /\ table[e].stamp \in Int /\ StaleTimeout \in Int
        BY <2>2, <4>2
      <4> QED
        BY <2>2, <4>1, <4>3, ClockAndTimer
    <3> QED
      BY <2>1, <3>1 DEF UntoldIsRecent
  <2> QED
    BY <2>1, <2>2, <2>3 DEF TfInv, TableTypes, EntryIsNewest, StaticIsLatched, Known
<1>3. CASE EmitSnapshot
  BY <1>3, SnapshotKeeps
<1>4. ASSUME NEW e \in Edges, NEW static \in BOOLEAN,
             NEW stamp \in {s \in 0 .. now + Lead : s >= now - Lag}, Receive(e, stamp, static)
      PROVE  TfInv'
  <2>1. stamp \in Nat
    OBVIOUS
  <2> QED
    BY <1>4, <2>1, ReceiveKeeps
<1> QED
  BY <1>1, <1>2, <1>3, <1>4 DEF TfNext

\* The invariant of the TF tree.
LEMMA TfInvariance ==
    ASSUME StaleTimeout + Period <= GcAge PROVE TfSpec => []TfInv
<1>1. TfInv /\ [TfNext]_tfVars => TfInv'
  BY TfStepKeeps
<1> QED
  BY <1>1, TfInitInv, PTL DEF TfSpec

\* When edges are kept for a period longer than it takes them to become
\* stale, an alarm about the tree rests on what was heard, in whatever order
\* transforms come and wherever the clock is set back to.
THEOREM TreeAlarmsRestOnAges ==
    ASSUME StaleTimeout + Period <= GcAge PROVE TfSpec => AlarmsRestOnAges
<1>1. ASSUME TfInv, EmitSnapshot, NEW e \in Edges, found'.kind = "stale_edge", found'.edge = e
      PROVE  now - newest[e] > StaleTimeout
  <2>1. e \in StaleEdges(Kept)
    BY <1>1 DEF EmitSnapshot, TopologyCheck, Healthy
  <2>2. e \in DOMAIN table /\ Stale(table[e])
    BY <1>1, <2>1, KeptEntries DEF StaleEdges
  <2> QED
    BY <1>1, <2>2, StaleIsOld DEF TfInv, EntryIsNewest
<1>2. ASSUME TfInv, EmitSnapshot, found'.kind = "multi_parent", NEW p \in found'.parents
      PROVE  \E e \in Edges : /\ e.parent = p /\ e.child = found'.frame
                              /\ e \in latched \/ (newest[e] >= 0 /\ now - newest[e] <= GcAge)
  <2>1. found'.parents = ParentsOf(Kept, found'.frame)
    BY <1>2 DEF EmitSnapshot, TopologyCheck, Healthy
  <2>2. PICK e \in DOMAIN Kept : e.parent = p /\ e.child = found'.frame
    BY <1>2, <2>1 DEF ParentsOf
  <2>3. e \in DOMAIN table /\ ~Garbage(table[e]) /\ e \in Edges
    BY <1>2, KeptEntries DEF TfInv, TableTypes
  <2>4. CASE table[e].static
    BY <1>2, <2>2, <2>3, <2>4 DEF TfInv, StaticIsLatched
  <2>5. CASE ~table[e].static
    <3>1. newest[e] = table[e].stamp /\ table[e].stamp \in Nat /\ now \in Nat /\ GcAge \in Nat
      BY <1>2, <2>3, <2>5, TfAssumption DEF TfInv, TableTypes, EntryIsNewest
    <3> QED
      BY <2>2, <2>3, <2>5, <3>1 DEF Garbage
  <2> QED
    BY <2>4, <2>5
<1>3. TfInv /\ [TfNext]_tfVars
        => [\A e \in Edges : (EmitSnapshot /\ found'.kind = "stale_edge" /\ found'.edge = e)
                => now - newest[e] > StaleTimeout]_tfVars
  BY <1>1
<1>4. TfInv /\ [TfNext]_tfVars
        => [(EmitSnapshot /\ found'.kind = "multi_parent") =>
              \A p \in found'.parents : \E e \in Edges :
                /\ e.parent = p /\ e.child = found'.frame
                /\ e \in latched \/ (newest[e] >= 0 /\ now - newest[e] <= GcAge)]_tfVars
  BY <1>2
<1> QED
  BY <1>3, <1>4, TfInvariance, PTL
     DEF TfSpec, AlarmsRestOnAges, FreshEdgeNotAlarmed, OldParentForgotten

\* On the same terms static edges stay, and no other edge leaves the tree
\* before an alarm was raised while it was stale.
THEOREM EdgesAreNotLost ==
    ASSUME StaleTimeout + Period <= GcAge PROVE TfSpec => NoEdgeLost
<1>1. TfInv => StaticEdgeStays
  BY DEF TfInv, StaticIsLatched, StaticEdgeStays, Known, Age
<1>2. ASSUME TfInv, EmitSnapshot, NEW e \in DOMAIN table, e \notin DOMAIN table', e \notin belated
      PROVE  e \in told
  <2>1. SUFFICES ASSUME e \notin told PROVE FALSE
    OBVIOUS
  <2>2. Garbage(table[e]) /\ due = 0
    BY <1>2, KeptEntries DEF EmitSnapshot
  <2>3. /\ table[e].stamp \in Nat /\ StaleTimeout \in Nat /\ Period \in Nat /\ now \in Nat
        /\ GcAge \in Nat
    BY <1>2, TfAssumption DEF TfInv, TableTypes
  <2>4. now - table[e].stamp <= StaleTimeout + Period
    BY <1>2, <2>1, <2>2, <2>3 DEF TfInv, UntoldIsRecent, Garbage
  <2> QED
    BY <2>2, <2>3, <2>4 DEF Garbage
<1>3. TfInv /\ [TfNext]_tfVars
        => [\A e \in DOMAIN table :
              EmitSnapshot /\ e \notin DOMAIN table' /\ e \notin belated => e \in told]_tfVars
  BY <1>2
<1> QED
  BY <1>1, <1>3, TfInvariance, PTL DEF TfSpec, NoEdgeLost, NoEdgeLostSilently

USE TopicWatchAssumption

-----------------------------------------------------------------------------
(* Ages, queues and the order of the tracked topics                        *)

\* An age grows by one up to its cap.
LEMMA OlderAge ==
    ASSUME NEW cap \in Nat, NEW age \in 0 .. cap
    PROVE  /\ Older(age, cap) \in 0 .. cap
           /\ Older(age, cap) = IF age < cap THEN age + 1 ELSE cap
           /\ age <= Older(age, cap) /\ Older(age, cap) <= age + 1
BY DEF Older

\* An arrival that is out of reach stays so as time passes.
LEMMA GoneStaysGone ==
    /\ Gone \in Nat
    /\ Older(Gone, Gone) = Gone
    /\ \A age \in 0 .. Gone : Older(age, Gone) \in 0 .. Gone
BY DEF Older, Gone

\* A queue that has room takes every event; one that has not loses only what
\* was published last.
LEMMA PublishedEvents ==
    ASSUME NEW q \in Seq(Events), NEW events \in Seq(Events), Len(q) <= QueueMax
    PROVE  /\ Published(q, events) \in Seq(Events)
           /\ Len(Published(q, events)) <= QueueMax
           /\ Len(Published(q, events)) <= Len(q) + Len(events)
           /\ Range(q) \subseteq Range(Published(q, events))
           /\ Range(Published(q, events)) \subseteq Range(q) \cup Range(events)
           /\ Len(q) + Len(events) <= QueueMax
                => Range(events) \subseteq Range(Published(q, events))
<1> DEFINE all == q \o events
           m == IF Len(all) <= QueueMax THEN Len(all) ELSE QueueMax
           r == SubSeq(all, 1, m)
<1>1. /\ all \in Seq(Events) /\ Len(all) = Len(q) + Len(events)
      /\ \A i \in 1 .. Len(q) + Len(events) :
            all[i] = IF i <= Len(q) THEN q[i] ELSE events[i - Len(q)]
  BY ConcatProperties
<1>2. Len(q) \in Nat /\ Len(events) \in Nat /\ DOMAIN q = 1 .. Len(q)
      /\ DOMAIN events = 1 .. Len(events)
  BY LenProperties
<1> HIDE DEF all
<1>3. m \in Nat /\ m <= QueueMax /\ Len(q) <= m /\ m <= Len(all)
  BY <1>1, <1>2
<1> HIDE DEF m
<1>4. \A i \in 1 .. m : all[i] \in Events
  BY <1>1, <1>3, ElementOfSeq
<1>5. /\ r \in Seq(Events) /\ Len(r) = m
      /\ \A i \in 1 .. m : r[i] = all[i]
  BY <1>3, <1>4, SubSeqProperties
<1>6. DOMAIN r = 1 .. m
  BY <1>5, LenProperties
<1> HIDE DEF r
<1>7. Range(q) \subseteq Range(r)
  <2>1. ASSUME NEW i \in 1 .. Len(q) PROVE i \in DOMAIN r /\ r[i] = q[i]
    BY <1>1, <1>2, <1>3, <1>5, <1>6
  <2> QED
    BY <1>2, <2>1 DEF Range
<1>8. Range(r) \subseteq Range(q) \cup Range(events)
  <2>1. ASSUME NEW i \in 1 .. m PROVE r[i] \in Range(q) \cup Range(events)
    <3>1. CASE i <= Len(q)
      <4>1. i \in DOMAIN q /\ r[i] = q[i]
        BY <3>1, <1>1, <1>2, <1>3, <1>5
      <4> QED
        BY <4>1 DEF Range
    <3>2. CASE ~(i <= Len(q))
      <4>1. i - Len(q) \in DOMAIN events /\ r[i] = events[i - Len(q)]
        BY <3>2, <1>1, <1>2, <1>3, <1>5
      <4> QED
        BY <4>1 DEF Range
    <3> QED
      BY <3>1, <3>2
  <2> QED
    BY <1>6, <2>1 DEF Range
<1>9. ASSUME Len(q) + Len(events) <= QueueMax
      PROVE  Range(events) \subseteq Range(r)
  <2>1. m = Len(all)
    BY <1>9, <1>1 DEF m
  <2>2. ASSUME NEW i \in 1 .. Len(events)
        PROVE  i + Len(q) \in DOMAIN r /\ r[i + Len(q)] = events[i]
    <3>1. i + Len(q) \in 1 .. m /\ i + Len(q) - Len(q) = i /\ ~(i + Len(q) <= Len(q))
      BY <1>1, <1>2, <2>1
    <3> QED
      BY <1>1, <1>2, <1>5, <1>6, <3>1
  <2> QED
    BY <1>2, <2>2 DEF Range
<1>10. Published(q, events) = r
  BY DEF Published, r, m, all
<1> QED
  BY <1>1, <1>3, <1>5, <1>7, <1>8, <1>9, <1>10

\* Taking the head of a queue leaves the rest.
LEMMA TailEvents ==
    ASSUME NEW S, NEW q \in Seq(S), q # <<>>
    PROVE  /\ Head(q) \in S /\ Tail(q) \in Seq(S) /\ Len(Tail(q)) = Len(q) - 1
           /\ Range(q) = {Head(q)} \cup Range(Tail(q))
<1>1. /\ Head(q) \in S /\ Tail(q) \in Seq(S) /\ Len(Tail(q)) = Len(q) - 1
      /\ \A i \in 1 .. Len(Tail(q)) : Tail(q)[i] = q[i + 1]
  BY HeadTailProperties
<1>2. Len(q) \in Nat \ {0} /\ DOMAIN q = 1 .. Len(q) /\ DOMAIN Tail(q) = 1 .. Len(Tail(q))
  BY <1>1, EmptySeq, LenProperties
<1>3. Head(q) = q[1]
  BY <1>2
<1>4. ASSUME NEW i \in 1 .. Len(q) PROVE q[i] \in {Head(q)} \cup Range(Tail(q))
  <2>1. CASE i = 1
    BY <2>1, <1>3
  <2>2. CASE i # 1
    <3>1. i - 1 \in 1 .. Len(Tail(q)) /\ Tail(q)[i - 1] = q[i]
      BY <2>2, <1>1, <1>2
    <3> QED
      BY <3>1, <1>2 DEF Range
  <2> QED
    BY <2>1, <2>2
<1>5. ASSUME NEW i \in 1 .. Len(Tail(q)) PROVE Tail(q)[i] \in Range(q)
  <2>1. i + 1 \in 1 .. Len(q)
    BY <1>1, <1>2
  <2> QED
    BY <2>1, <1>1, <1>2 DEF Range
<1>6. 1 \in DOMAIN q
  BY <1>2
<1> QED
  BY <1>1, <1>2, <1>3, <1>4, <1>5, <1>6 DEF Range

\* The order in which a finite set is reported has all of it, once each.
LEMMA ReportsAll ==
    ASSUME NEW S, IsFiniteSet(S), NEW s \in SetToSeqs(S)
    PROVE  s \in Seq(S) /\ Len(s) = Cardinality(S) /\ Range(s) = S
<1>1. Cardinality(S) \in Nat
  BY FS_CardinalityType
<1>2. s \in [1 .. Cardinality(S) -> S]
      /\ \A i, j \in 1 .. Cardinality(S) : i # j => s[i] # s[j]
  BY DEF SetToSeqs
<1>3. s \in Seq(S) /\ Len(s) = Cardinality(S)
  BY <1>1, <1>2
<1>4. s \in Injection(1 .. Cardinality(S), S)
  BY <1>2 DEF Injection, IsInjective
<1>5. Cardinality(1 .. Cardinality(S)) = Cardinality(S)
  BY <1>1, FS_Interval
<1>6. s \in Surjection(1 .. Cardinality(S), S)
  BY <1>4, <1>5, FS_Injection
<1> QED
  BY <1>2, <1>3, <1>6 DEF Surjection, Range

-----------------------------------------------------------------------------
(* Rates and subscriptions                                                 *)

\* The part of TypeOK the argument needs.
WindowType == window \in [Topics -> [latest : 0..Gone, previous : 0..Gone]]

RatesInv == WindowType /\ subs \subseteq Topics /\ graph \subseteq Topics /\ RatesOnlyForSubscribed

\* At first no topic is subscribed and none has a rate.
LEMMA RatesInit == Init => RatesInv
BY DEF Init, RatesInv, WindowType, RatesOnlyForSubscribed, NoArrivals, Gone, Available

\* A rate comes with a message of a subscribed topic and goes with the subscription.
LEMMA RatesStep == RatesInv /\ [Next]_vars => RatesInv'
<1> SUFFICES ASSUME RatesInv, [Next]_vars PROVE RatesInv'
  OBVIOUS
<1> USE DEF RatesInv, WindowType, RatesOnlyForSubscribed
<1>1. CASE GraphChange
  BY <1>1 DEF GraphChange, monitorVars, Available
<1>2. ASSUME NEW t \in Topics, OnMessage(t) PROVE RatesInv'
  <2>1. window'[t] = [latest |-> 0, previous |-> window[t].latest] /\ t \in subs'
    BY <1>2 DEF OnMessage
  <2>2. window' \in [Topics -> [latest : 0..Gone, previous : 0..Gone]]
    BY <1>2 DEF OnMessage, Gone
  <2>3. QED
    BY <1>2, <2>1, <2>2 DEF OnMessage
<1>3. CASE Tick
  <2>1. ASSUME NEW t \in Topics, window[t] = NoArrivals PROVE window'[t] = NoArrivals
    BY <1>3, <2>1, GoneStaysGone DEF Tick, NoArrivals
  <2>2. window' \in [Topics -> [latest : 0..Gone, previous : 0..Gone]]
    BY <1>3, GoneStaysGone DEF Tick
  <2>3. QED
    BY <1>3, <2>1, <2>2 DEF Tick
<1>4. CASE PollGraph
  <2>1. PICK failed \in SUBSET (graph \ subs) : subs' = graph \ failed
    BY <1>4 DEF PollGraph
  <2>2. window' \in [Topics -> [latest : 0..Gone, previous : 0..Gone]]
    BY <1>4 DEF PollGraph, Pruned, NoArrivals, Gone
  <2>3. ASSUME NEW t \in Topics, window'[t] # NoArrivals PROVE t \in subs'
    <3>1. t \notin subs \ graph /\ window[t] # NoArrivals
      BY <1>4, <2>3 DEF PollGraph, Pruned
    <3>2. QED
      BY <2>1, <3>1
  <2>4. QED
    BY <1>4, <2>1, <2>2, <2>3 DEF PollGraph
<1>5. CASE PollFails \/ EmitFrequencies \/ SkipAnomaly \/ Check \/ UNCHANGED vars
  BY <1>5 DEF PollFails, EmitFrequencies, SkipAnomaly, Check, monitorVars, vars
<1>6. QED
  BY <1>1, <1>2, <1>3, <1>4, <1>5 DEF Next

\* Whatever topics come, go and come back, and however late the timers run,
\* the tracker holds arrivals only of topics the monitor is subscribed to.
THEOREM RatesNeedSubscription == Spec => []RatesOnlyForSubscribed
<1>1. RatesInv => RatesOnlyForSubscribed
  BY DEF RatesInv
<1>2. QED
  BY <1>1, RatesInit, RatesStep, PTL DEF Spec

-----------------------------------------------------------------------------
(* Threads that keep up                                                    *)

\* A topic is regular when it is heard often enough for the window always to
\* hold two arrivals, and for long enough that the window has seen them.
RegularIsHeard == Gap \in 1 .. Timeout /\ 2 * Gap <= Window /\ 2 * Gap < Horizon

\* The queue takes what one tick can publish: the events of a poll and a
\* report of each topic.
QueueHolds == IsFiniteSet(Topics) /\ 1 + 2 * Cardinality(Topics) <= QueueMax

\* Each timer publishes once in a tick, and an anomaly takes the place of the
\* event that gave rise to it.
Room == prompt =>
    Len(queue) <= (IF pollDue THEN 0 ELSE 1 + Cardinality(Topics))
                    + (IF rateDue THEN 0 ELSE Cardinality(Topics))

\* A topic that lost its subscription is not subscribed again within the tick.
OnePoll(t) == t \notin subs /\ pollDue => regular[t] = 0 /\ quiet[t] > 0

\* The window holds what was heard since the topic became regular.
Recent(t) ==
    /\ regular[t] > 0 => quiet[t] <= Gap
    /\ t \in subs /\ regular[t] >= quiet[t] => window[t].latest <= quiet[t]
    /\ t \in subs /\ regular[t] >= window[t].latest + Gap
         => window[t].previous <= window[t].latest + Gap

\* So a regular topic is reported, and the report clears it.
Reported(t) ==
    prompt /\ ~rateDue /\ t \in subs /\ regular[t] >= 2 * Gap
        => t \in Range(queue) \/ (t \notin alerted /\ lastSeen[t] = 0)

\* Once cleared it stays so, also when it is pruned before its next report.
Cleared(t) == prompt /\ regular[t] = Horizon => t \notin alerted /\ lastSeen[t] <= 1

\* What has a rate is reported by the end of the tick,
NewsReported(t) ==
    prompt /\ ~rateDue /\ quiet[t] >= 1 /\ HasRate(t)
        => t \in Range(queue) \/ (t \in Range(tracked) /\ lastSeen[t] = 0)

\* so a report of what was heard before the last tick is no news.
NewsKnown(t) ==
    prompt /\ quiet[t] >= 2 /\ (HasRate(t) \/ t \in Range(queue))
        => t \in Range(tracked) /\ lastSeen[t] <= 1

\* A topic not heard since its alarm is not reported and keeps its alert.
Unheard(t) ==
    prompt /\ t \notin heard
        => ~HasRate(t) /\ t \notin Range(queue) /\ (t \in Range(tracked) => t \in alerted)

TopicInv(t) ==
    /\ OnePoll(t) /\ Recent(t) /\ Reported(t) /\ Cleared(t)
    /\ NewsReported(t) /\ NewsKnown(t) /\ Unheard(t)

PromptInv == TypeOK /\ Room /\ \A t \in Topics : TopicInv(t)

\* What the types say of one topic.
LEMMA TopicTypes ==
    ASSUME TypeOK, NEW t \in Topics
    PROVE  /\ window[t].latest \in 0 .. Gone /\ window[t].previous \in 0 .. Gone
           /\ quiet[t] \in 0 .. Timeout + 1 /\ lastSeen[t] \in 0 .. Timeout + 1
           /\ regular[t] \in 0 .. Horizon
BY DEF TypeOK

\* A topic regular for long enough has a rate while it is subscribed.
LEMMA RegularHasRate ==
    ASSUME RegularIsHeard, TypeOK, NEW t \in Topics, Recent(t),
           t \in subs, regular[t] >= 2 * Gap
    PROVE  HasRate(t)
<1>1. quiet[t] <= Gap /\ window[t].latest <= Gap
  BY TopicTypes DEF RegularIsHeard, Recent
<1>2. window[t].previous <= 2 * Gap
  BY <1>1, TopicTypes DEF RegularIsHeard, Recent, Gone
<1> QED
  BY <1>2, TopicTypes DEF RegularIsHeard, HasRate, Gone

\* Nothing is tracked, queued or alerted yet.
LEMMA PromptInit ==
    ASSUME RegularIsHeard, QueueHolds, Init PROVE PromptInv
<1>1. TypeOK
  <2>1. graph \subseteq Topics /\ <<>> \in Seq(Events) /\ <<>> \in Seq(Topics) /\ Len(<<>>) = 0
    BY EmptySeq DEF Init, Available
  <2>2. window \in [Topics -> [latest : 0 .. Gone, previous : 0 .. Gone]]
    BY GoneStaysGone DEF Init, NoArrivals
  <2>3. /\ lastSeen \in [Topics -> 0 .. (Timeout + 1)]
        /\ quiet \in [Topics -> 0 .. (Timeout + 1)]
        /\ regular \in [Topics -> 0 .. Horizon]
    BY DEF Init
  <2>4. /\ queue \in Seq(Events) /\ Len(queue) <= QueueMax /\ tracked \in Seq(Topics)
    BY <2>1 DEF Init
  <2>5. /\ subs \subseteq Topics /\ pollDue \in BOOLEAN /\ rateDue \in BOOLEAN
        /\ alerted \subseteq Topics /\ prompt \in BOOLEAN /\ heard \subseteq Topics
    BY DEF Init
  <2> QED
    BY <2>1, <2>2, <2>3, <2>4, <2>5 DEF TypeOK
<1>2. Room
  BY FS_CardinalityType DEF Init, Room, QueueHolds
<1>3. ASSUME NEW t \in Topics PROVE TopicInv(t)
  <2>1. ~HasRate(t)
    BY DEF Init, HasRate, NoArrivals, Gone
  <2>2. t \notin subs /\ regular[t] = 0 /\ quiet[t] = Timeout + 1 /\ ~pollDue /\ alerted = {}
        /\ lastSeen[t] = 0 /\ tracked = <<>> /\ queue = <<>>
    BY DEF Init
  <2>3. Range(tracked) = {} /\ Range(queue) = {}
    BY <2>2 DEF Range
  <2> QED
    BY <2>1, <2>2, <2>3 DEF TopicInv, OnePoll, Recent, Reported, Cleared, NewsReported,
         NewsKnown, Unheard, RegularIsHeard
<1> QED
  BY <1>1, <1>2, <1>3 DEF PromptInv

\* Publishers come and go: only what the next poll finds changes.
LEMMA GraphChangeKeeps ==
    ASSUME QueueHolds, PromptInv, GraphChange \/ PollFails \/ UNCHANGED vars
    PROVE  PromptInv'
<1>1. /\ UNCHANGED <<subs, window, rateDue, queue, tracked, lastSeen, alerted, prompt,
                     quiet, regular, heard>>
      /\ graph' \subseteq Topics /\ pollDue' \in BOOLEAN /\ (pollDue' => pollDue)
  <2>1. graph \subseteq Topics /\ pollDue \in BOOLEAN
    BY DEF PromptInv, TypeOK
  <2>2. CASE GraphChange
    <3>1. graph' \subseteq Topics
      BY <2>2 DEF GraphChange, Available
    <3> QED
      BY <2>1, <2>2, <3>1 DEF GraphChange, monitorVars, detectorVars, historyVars
  <2>3. CASE PollFails
    BY <2>1, <2>3 DEF PollFails, monitorVars, detectorVars, historyVars
  <2>4. CASE UNCHANGED vars
    BY <2>1, <2>4 DEF vars, monitorVars, detectorVars, historyVars
  <2> QED
    BY <2>2, <2>3, <2>4
<1>2. TypeOK'
  BY <1>1 DEF PromptInv, TypeOK
<1>3. Room'
  <2>1. Len(queue) \in Nat /\ Cardinality(Topics) \in Nat
    BY LenProperties, FS_CardinalityType DEF PromptInv, TypeOK, QueueHolds
  <2> QED
    BY <1>1, <2>1 DEF PromptInv, Room
<1>4. ASSUME NEW t \in Topics PROVE TopicInv(t)'
  BY <1>1 DEF PromptInv, TopicInv, OnePoll, Recent, Reported, Cleared, NewsReported,
       NewsKnown, Unheard, HasRate
<1> QED
  BY <1>2, <1>3, <1>4 DEF PromptInv

\* A message is in the window, and ends its topic's outage.
LEMMA OnMessageKeeps ==
    ASSUME RegularIsHeard, PromptInv, NEW u \in Topics, OnMessage(u)
    PROVE  PromptInv'
<1>1. TypeOK'
  <2>1. window' \in [Topics -> [latest : 0 .. Gone, previous : 0 .. Gone]]
    <3>1. /\ [latest |-> 0, previous |-> window[u].latest]
               \in [latest : 0 .. Gone, previous : 0 .. Gone]
          /\ window \in [Topics -> [latest : 0 .. Gone, previous : 0 .. Gone]]
      <4>1. window[u].latest \in 0 .. Gone /\ 0 \in 0 .. Gone
        BY TopicTypes, GoneStaysGone DEF PromptInv
      <4> QED
        BY <4>1 DEF PromptInv, TypeOK
    <3>2. window' = [window EXCEPT ![u] = [latest |-> 0, previous |-> window[u].latest]]
      BY DEF OnMessage
    <3> QED
      BY <3>1, <3>2
  <2>2. quiet' \in [Topics -> 0 .. (Timeout + 1)] /\ heard' \subseteq Topics
    BY DEF PromptInv, TypeOK, OnMessage
  <2> QED
    BY <2>1, <2>2 DEF PromptInv, TypeOK, OnMessage, detectorVars
<1>2. Room'
  BY DEF PromptInv, Room, OnMessage
<1>3. ASSUME NEW t \in Topics PROVE TopicInv(t)'
  <2>0. /\ u \in subs /\ TypeOK /\ TopicInv(t)
        /\ window' = [window EXCEPT ![u] = [latest |-> 0, previous |-> @.latest]]
        /\ quiet' = [quiet EXCEPT ![u] = 0]
        /\ heard' = IF prompt THEN heard \cup {u} ELSE heard
        /\ UNCHANGED <<subs, pollDue, rateDue, queue, tracked, lastSeen, alerted, prompt, regular>>
    BY DEF OnMessage, detectorVars, PromptInv
  <2>1. CASE t = u
    <3>1. window'[t] = [latest |-> 0, previous |-> window[t].latest] /\ quiet'[t] = 0
          /\ t \in subs'
      BY <2>0, <2>1 DEF TypeOK
    <3>2. Recent(t)'
      <4>1. regular[t] >= Gap => window[t].latest <= Gap
        BY <2>0, <2>1, TopicTypes DEF TopicInv, Recent, RegularIsHeard
      <4> QED
        BY <2>0, <3>1, <4>1, TopicTypes DEF Recent, RegularIsHeard
    <3>3. prompt => t \in heard'
      BY <2>0, <2>1
    <3>4. OnePoll(t)' /\ Reported(t)' /\ Cleared(t)'
      BY <2>0, <3>1 DEF TopicInv, OnePoll, Reported, Cleared
    <3>5. NewsReported(t)' /\ NewsKnown(t)' /\ Unheard(t)'
      BY <2>0, <3>1, <3>3 DEF NewsReported, NewsKnown, Unheard
    <3> QED
      BY <3>2, <3>4, <3>5 DEF TopicInv
  <2>2. CASE t # u
    <3>1. window'[t] = window[t] /\ quiet'[t] = quiet[t] /\ (t \in heard' <=> t \in heard)
      BY <2>0, <2>2 DEF TypeOK
    <3> QED
      BY <2>0, <3>1 DEF TopicInv, OnePoll, Recent, Reported, Cleared, NewsReported,
           NewsKnown, Unheard, HasRate
  <2> QED
    BY <2>1, <2>2
<1> QED
  BY <1>1, <1>2, <1>3 DEF PromptInv

\* Time passes: a regular topic has been heard within its gap.
LEMMA TickKeeps ==
    ASSUME RegularIsHeard, QueueHolds, PromptInv, Tick
    PROVE  PromptInv'
<1>1. ASSUME NEW t \in Topics
      PROVE  /\ window'[t].latest = Older(window[t].latest, Gone)
             /\ window'[t].previous = Older(window[t].previous, Gone)
             /\ lastSeen'[t] = IF t \in Range(tracked) THEN Older(lastSeen[t], Timeout + 1)
                                                       ELSE lastSeen[t]
             /\ quiet'[t] = Older(quiet[t], Timeout + 1)
             /\ regular'[t] = IF prompt /\ t \in subs /\ quiet'[t] <= Gap
                              THEN Older(regular[t], Horizon) ELSE 0
  BY DEF Tick
<1>2. ASSUME NEW t \in Topics
      PROVE  /\ quiet'[t] \in 1 .. Timeout + 1
             /\ quiet'[t] = IF quiet[t] <= Timeout THEN quiet[t] + 1 ELSE quiet[t]
             /\ window'[t].latest \in 0 .. Gone
             /\ window'[t].latest = IF window[t].latest < Gone THEN window[t].latest + 1
                                                               ELSE window[t].latest
             /\ window'[t].previous \in 0 .. Gone
             /\ window[t].previous <= window'[t].previous
             /\ window'[t].previous <= window[t].previous + 1
             /\ lastSeen'[t] \in 0 .. Timeout + 1 /\ lastSeen'[t] <= lastSeen[t] + 1
             /\ regular'[t] \in 0 .. Horizon /\ regular'[t] <= regular[t] + 1
             /\ regular'[t] > 0 => prompt /\ t \in subs /\ quiet'[t] <= Gap
  BY <1>1, TopicTypes, GoneStaysGone DEF PromptInv, Older
<1>3. TypeOK'
  <2>1. window' \in [Topics -> [latest : 0 .. Gone, previous : 0 .. Gone]]
    BY TopicTypes, GoneStaysGone DEF Tick, PromptInv
  <2>2. /\ lastSeen' \in [Topics -> 0 .. (Timeout + 1)]
        /\ quiet' \in [Topics -> 0 .. (Timeout + 1)]
        /\ regular' \in [Topics -> 0 .. Horizon]
    <3>1. DOMAIN lastSeen' = Topics /\ DOMAIN quiet' = Topics /\ DOMAIN regular' = Topics
          /\ lastSeen' = [t \in Topics |-> lastSeen'[t]]
          /\ quiet' = [t \in Topics |-> quiet'[t]]
          /\ regular' = [t \in Topics |-> regular'[t]]
      BY DEF Tick
    <3>2. \A t \in Topics : quiet'[t] \in 0 .. (Timeout + 1)
      BY <1>2
    <3> QED
      BY <1>2, <3>1, <3>2
  <2> QED
    BY <2>1, <2>2 DEF Tick, PromptInv, TypeOK
<1>4. Room'
  <2>1. prompt' = prompt /\ queue' = queue /\ (prompt => queue = <<>>)
    BY DEF Tick
  <2> QED
    BY <2>1 DEF Room, Tick
<1>5. ASSUME NEW t \in Topics PROVE TopicInv(t)'
  <2>1. /\ UNCHANGED <<subs, queue, tracked, alerted, prompt, heard>> /\ rateDue'
        /\ prompt => ~rateDue /\ queue = <<>>
    BY DEF Tick
  <2>2. prompt => t \notin Range(queue)
    BY <2>1 DEF Range
  <2>3. HasRate(t)' => HasRate(t)
    BY <1>2, TopicTypes DEF HasRate, Gone, PromptInv
  <2>4. OnePoll(t)'
    BY <1>2, <2>1 DEF OnePoll
  <2>5. Recent(t)'
    <3>1. regular'[t] > 0 => quiet'[t] <= Gap
      BY <1>2
    <3>2. t \in subs /\ regular'[t] >= quiet'[t] => window'[t].latest <= quiet'[t]
      BY <1>2, TopicTypes DEF PromptInv, TopicInv, Recent, RegularIsHeard
    <3>3. t \in subs /\ regular'[t] >= window'[t].latest + Gap
            => window'[t].previous <= window'[t].latest + Gap
      BY <1>2, TopicTypes DEF PromptInv, TopicInv, Recent, RegularIsHeard, Gone
    <3> QED
      BY <2>1, <3>1, <3>2, <3>3 DEF Recent
  <2>6. Cleared(t)'
    <3>1. SUFFICES ASSUME prompt, regular'[t] = Horizon
                   PROVE  t \notin alerted /\ lastSeen'[t] <= 1
      BY <2>1 DEF Cleared
    <3>2. t \in subs /\ regular[t] >= 2 * Gap
      BY <1>2, <3>1, TopicTypes DEF RegularIsHeard, PromptInv
    <3>3. t \notin alerted /\ lastSeen[t] = 0
      BY <2>1, <2>2, <3>1, <3>2 DEF PromptInv, TopicInv, Reported
    <3> QED
      BY <1>2, <3>3
  <2>7. NewsKnown(t)'
    <3>1. SUFFICES ASSUME prompt, quiet'[t] >= 2, HasRate(t)'
                   PROVE  t \in Range(tracked) /\ lastSeen'[t] <= 1
      BY <2>1, <2>2 DEF NewsKnown
    <3>2. t \in Range(tracked) /\ lastSeen[t] = 0
      BY <1>2, <2>1, <2>2, <2>3, <3>1, TopicTypes DEF PromptInv, TopicInv, NewsReported
    <3> QED
      BY <1>2, <3>2
  <2>8. Unheard(t)'
    BY <2>1, <2>3 DEF PromptInv, TopicInv, Unheard
  <2> QED
    BY <2>1, <2>4, <2>5, <2>6, <2>7, <2>8 DEF TopicInv, Reported, NewsReported
<1> QED
  BY <1>3, <1>4, <1>5 DEF PromptInv

\* A poll queues an event about the graph and one for each of its topics.
LEMMA PollGraphKeeps ==
    ASSUME RegularIsHeard, QueueHolds, PromptInv, PollGraph
    PROVE  PromptInv'
<1> DEFINE events == [i \in 1 .. (1 + Cardinality(graph)) |-> "other"]
<1>1. Cardinality(graph) \in Nat /\ Cardinality(Topics) \in Nat
      /\ Cardinality(graph) <= Cardinality(Topics)
  BY FS_CardinalityType, FS_Subset DEF PromptInv, TypeOK, QueueHolds
<1>2. events \in Seq(Events) /\ Len(events) = 1 + Cardinality(graph) /\ Range(events) = {"other"}
  BY <1>1 DEF Events, Range
<1>3. queue \in Seq(Events) /\ Len(queue) \in Nat /\ Len(queue) <= QueueMax
  BY LenProperties DEF PromptInv, TypeOK
<1>4. queue' = Published(queue, events)
  BY DEF PollGraph
<1> HIDE DEF events
<1>5. /\ queue' \in Seq(Events) /\ Len(queue') <= QueueMax
      /\ Len(queue') <= Len(queue) + 1 + Cardinality(graph)
      /\ \A t \in Topics : t \in Range(queue') <=> t \in Range(queue)
  <2>1. /\ queue' \in Seq(Events) /\ Len(queue') <= QueueMax
        /\ Len(queue') <= Len(queue) + Len(events)
        /\ Range(queue) \subseteq Range(queue')
        /\ Range(queue') \subseteq Range(queue) \cup {"other"}
    BY <1>2, <1>3, <1>4, PublishedEvents
  <2>2. Len(queue') \in Nat
    BY <2>1, LenProperties
  <2>3. \A t \in Topics : t # "other"
    OBVIOUS
  <2> QED
    BY <1>1, <1>2, <1>3, <2>1, <2>2, <2>3
<1>6. /\ pollDue /\ pollDue' = FALSE /\ subs' \subseteq graph
      /\ UNCHANGED <<graph, rateDue, tracked, lastSeen, alerted, prompt, quiet, regular, heard>>
  BY DEF PollGraph, detectorVars, historyVars
<1>7. ASSUME NEW t \in Topics
      PROVE  /\ t \in subs /\ t \in subs' => window'[t] = window[t]
             /\ HasRate(t)' => HasRate(t)
  <2>1. window'[t] = IF t \in subs \ graph THEN NoArrivals ELSE window[t]
    BY DEF PollGraph, Pruned
  <2> QED
    BY <1>6, <2>1 DEF HasRate, NoArrivals, Gone
<1>8. TypeOK'
  <2>1. window' \in [Topics -> [latest : 0 .. Gone, previous : 0 .. Gone]]
    BY GoneStaysGone DEF PollGraph, Pruned, NoArrivals, PromptInv, TypeOK
  <2> QED
    BY <1>5, <1>6, <2>1 DEF PromptInv, TypeOK
<1>9. Room'
  BY <1>1, <1>3, <1>5, <1>6, LenProperties DEF PromptInv, Room
<1>10. ASSUME NEW t \in Topics PROVE TopicInv(t)'
  <2>1. t \in subs' /\ t \notin subs => regular[t] = 0 /\ quiet[t] > 0
    BY <1>6 DEF PromptInv, TopicInv, OnePoll
  <2>2. Recent(t)'
    <3>1. CASE t \in subs
      BY <1>6, <1>7, <3>1 DEF PromptInv, TopicInv, Recent
    <3>2. CASE t \in subs' /\ t \notin subs
      <4>1. window'[t].latest \in Nat
        BY <1>8 DEF TypeOK, Gone
      <4> QED
        BY <1>6, <2>1, <3>2, <4>1, TopicTypes DEF PromptInv, Recent, RegularIsHeard
    <3>3. CASE t \notin subs'
      BY <1>6, <3>3 DEF PromptInv, TopicInv, Recent
    <3> QED
      BY <3>1, <3>2, <3>3
  <2>3. Reported(t)'
    BY <1>5, <1>6, <2>1 DEF PromptInv, TopicInv, Reported, RegularIsHeard
  <2> QED
    BY <1>5, <1>6, <1>7, <2>2, <2>3
       DEF PromptInv, TopicInv, OnePoll, Cleared, NewsReported, NewsKnown, Unheard
<1> QED
  BY <1>8, <1>9, <1>10 DEF PromptInv

\* A report queues the rates of the subscribed topics.
LEMMA EmitKeeps ==
    ASSUME RegularIsHeard, QueueHolds, PromptInv, EmitFrequencies
    PROVE  PromptInv'
<1> DEFINE rated == {t \in Topics : HasRate(t)}
<1>1. Cardinality(rated) \in Nat /\ Cardinality(Topics) \in Nat
      /\ Cardinality(rated) <= Cardinality(Topics) /\ IsFiniteSet(rated)
  BY FS_CardinalityType, FS_Subset DEF QueueHolds
<1>2. PICK reports \in SetToSeqs(rated) : queue' = Published(queue, reports)
  BY DEF EmitFrequencies
<1>3. /\ reports \in Seq(Events) /\ Len(reports) = Cardinality(rated)
      /\ Range(reports) = rated
  <2>1. reports \in Seq(rated) /\ Len(reports) = Cardinality(rated) /\ Range(reports) = rated
    BY <1>1, <1>2, ReportsAll
  <2>2. rated \subseteq Events
    BY DEF Events
  <2> QED
    BY <2>1, <2>2, SeqMonotonic
<1>4. queue \in Seq(Events) /\ Len(queue) \in Nat /\ Len(queue) <= QueueMax
  BY LenProperties DEF PromptInv, TypeOK
<1>5. /\ rateDue /\ rateDue' = FALSE
      /\ UNCHANGED <<graph, subs, window, pollDue, tracked, lastSeen, alerted, prompt,
                     quiet, regular, heard>>
  BY DEF EmitFrequencies, monitorVars, detectorVars, historyVars
<1> HIDE DEF rated
<1>6. /\ queue' \in Seq(Events) /\ Len(queue') <= QueueMax
      /\ Len(queue') <= Len(queue) + Cardinality(rated)
      /\ Range(queue') \subseteq Range(queue) \cup rated
      /\ Len(queue) + Cardinality(rated) <= QueueMax => rated \subseteq Range(queue')
  BY <1>2, <1>3, <1>4, PublishedEvents
<1>7. prompt => Len(queue) + Cardinality(rated) <= QueueMax
  BY <1>1, <1>4, <1>5 DEF PromptInv, Room, QueueHolds
<1>8. TypeOK'
  BY <1>5, <1>6 DEF PromptInv, TypeOK
<1>9. Room'
  BY <1>1, <1>4, <1>5, <1>6, LenProperties DEF PromptInv, Room
<1>10. ASSUME NEW t \in Topics PROVE TopicInv(t)'
  <2>1. TopicInv(t) /\ TypeOK
    BY DEF PromptInv
  <2>2. HasRate(t) /\ prompt => t \in Range(queue')
    BY <1>6, <1>7 DEF rated
  <2>3. t \in Range(queue') => HasRate(t) \/ t \in Range(queue)
    BY <1>6 DEF rated
  <2>4. Reported(t)'
    BY <1>5, <2>1, <2>2, RegularHasRate DEF TopicInv, Reported
  <2>5. NewsReported(t)'
    BY <1>5, <2>1, <2>2 DEF NewsReported, HasRate
  <2>6. NewsKnown(t)' /\ Unheard(t)'
    BY <1>5, <2>1, <2>3 DEF TopicInv, NewsKnown, Unheard, HasRate
  <2> QED
    BY <1>5, <2>1, <2>4, <2>5, <2>6 DEF TopicInv, OnePoll, Recent, Cleared
<1> QED
  BY <1>8, <1>9, <1>10 DEF PromptInv

\* An anomaly that is skipped was news of no topic.
LEMMA SkipKeeps ==
    ASSUME QueueHolds, PromptInv, SkipAnomaly
    PROVE  PromptInv'
<1>1. queue \in Seq(Events) /\ queue # <<>> /\ queue' = Tail(queue) /\ Head(queue) = "anomaly"
  BY DEF SkipAnomaly, PromptInv, TypeOK
<1>2. /\ queue' \in Seq(Events) /\ Len(queue') = Len(queue) - 1 /\ Len(queue) \in Nat
      /\ \A t \in Topics : t \in Range(queue') <=> t \in Range(queue)
  BY <1>1, TailEvents, LenProperties
<1>3. UNCHANGED <<graph, subs, window, pollDue, rateDue, tracked, lastSeen, alerted, prompt,
                  quiet, regular, heard>>
  BY DEF SkipAnomaly, monitorVars, detectorVars, historyVars
<1>4. TypeOK'
  BY <1>2, <1>3 DEF PromptInv, TypeOK
<1>5. Room'
  <2>1. prompt => Len(queue') <= (IF pollDue THEN 0 ELSE 1 + Cardinality(Topics))
                                  + (IF rateDue THEN 0 ELSE Cardinality(Topics))
    BY <1>2, FS_CardinalityType DEF PromptInv, Room, QueueHolds
  <2> QED
    BY <1>3, <2>1 DEF Room
<1>6. ASSUME NEW t \in Topics PROVE TopicInv(t)'
  BY <1>2, <1>3 DEF PromptInv, TopicInv, OnePoll, Recent, Reported, Cleared, NewsReported,
       NewsKnown, Unheard, HasRate
<1> QED
  BY <1>4, <1>5, <1>6 DEF PromptInv

\* The detector's order holds the tracked topics and the one just reported,
\* and what it finds is silent and not yet alerted.
LEMMA DetectorFinds ==
    ASSUME TypeOK, queue # <<>>, Head(queue) # "anomaly"
    PROVE  /\ Order \in Seq(Topics)
           /\ Range(Order) = Range(tracked) \cup Alive
           /\ \A t \in Found : /\ t \in Range(Order) /\ t \notin Standing
                               /\ Silence(t) > Timeout /\ t \notin Alive
           /\ \A t, u \in Found : t = u
<1>1. Order \in Seq(Topics) /\ Range(Order) = Range(tracked) \cup Alive
  <2>1. CASE Alive \subseteq Range(tracked)
    BY <2>1 DEF Order, TypeOK
  <2>2. CASE ~(Alive \subseteq Range(tracked))
    <3>1. Head(queue) \in Topics /\ Alive = {Head(queue)} /\ Order = Append(tracked, Head(queue))
      BY <2>2 DEF Alive, Order
    <3>2. tracked \in Seq(Topics) /\ Len(tracked) \in Nat /\ DOMAIN tracked = 1 .. Len(tracked)
      BY LenProperties DEF TypeOK
    <3>3. /\ Order \in Seq(Topics) /\ DOMAIN Order = 1 .. Len(tracked) + 1
          /\ \A i \in 1 .. Len(tracked) : Order[i] = tracked[i]
          /\ Order[Len(tracked) + 1] = Head(queue)
      BY <3>1, <3>2, AppendProperties, LenProperties
    <3>4. Range(Order) = {Order[i] : i \in 1 .. Len(tracked)} \cup {Order[Len(tracked) + 1]}
      <4>1. 1 .. Len(tracked) + 1 = (1 .. Len(tracked)) \cup {Len(tracked) + 1}
        BY <3>2
      <4> QED
        BY <3>3, <4>1 DEF Range
    <3> QED
      BY <3>1, <3>2, <3>3, <3>4 DEF Range
  <2> QED
    BY <2>1, <2>2
<1>2. ASSUME NEW t \in Found
      PROVE  t \in Range(Order) /\ t \notin Standing /\ Silence(t) > Timeout /\ t \notin Alive
  <2>1. PICK i \in DOMAIN Order :
            t = Order[i] /\ Silence(Order[i]) > Timeout /\ Order[i] \notin Standing
    BY DEF Found, FirstOf
  <2> QED
    BY <2>1 DEF Range, Silence
<1>3. ASSUME NEW t \in Found, NEW u \in Found PROVE t = u
  <2>1. DOMAIN Order = 1 .. Len(Order) /\ Len(Order) \in Nat
    BY <1>1, LenProperties
  <2> DEFINE dead == {i \in DOMAIN Order : Silence(Order[i]) > Timeout /\ Order[i] \notin Standing}
  <2>2. PICK i \in dead : t = Order[i] /\ \A k \in dead : i <= k
    BY DEF Found, FirstOf
  <2>3. PICK j \in dead : u = Order[j] /\ \A k \in dead : j <= k
    BY DEF Found, FirstOf
  <2>4. i = j
    BY <2>1, <2>2, <2>3
  <2> QED
    BY <2>2, <2>3, <2>4
<1> QED
  BY <1>1, <1>2, <1>3

\* The detector alarms a topic it has not been told of in time, and no other.
LEMMA CheckKeeps ==
    ASSUME RegularIsHeard, QueueHolds, PromptInv, Check
    PROVE  PromptInv'
<1> DEFINE news == IF Found = {} THEN <<>> ELSE <<"anomaly">>
<1>1. /\ queue \in Seq(Events) /\ queue # <<>> /\ Head(queue) # "anomaly"
      /\ queue' = Published(Tail(queue), news) /\ TypeOK
  BY DEF Check, PromptInv, TypeOK
<1>2. /\ Tail(queue) \in Seq(Events) /\ Len(Tail(queue)) = Len(queue) - 1 /\ Len(queue) \in Nat
      /\ Range(queue) = {Head(queue)} \cup Range(Tail(queue))
      /\ Len(queue) <= QueueMax
  BY <1>1, TailEvents, LenProperties DEF TypeOK
<1>3. news \in Seq(Events) /\ Len(news) \in Nat /\ Len(news) <= 1 /\ Range(news) \subseteq {"anomaly"}
  <2>1. CASE Found = {}
    BY <2>1 DEF Range
  <2>2. CASE Found # {}
    <3>1. <<"anomaly">> \in Seq(Events) /\ Len(<<"anomaly">>) = 1
      BY DEF Events
    <3>2. Range(<<"anomaly">>) = {"anomaly"}
      BY DEF Range
    <3> QED
      BY <2>2, <3>1, <3>2
  <2> QED
    BY <2>1, <2>2
<1> HIDE DEF news
<1>4. /\ queue' \in Seq(Events) /\ Len(queue') <= QueueMax /\ Len(queue') <= Len(queue)
      /\ \A t \in Topics : t \in Range(queue') <=> t \in Range(Tail(queue))
      /\ Len(queue') \in Nat
  <2>1. Len(Tail(queue)) <= QueueMax
    BY <1>2
  <2>2. /\ queue' \in Seq(Events) /\ Len(queue') <= QueueMax
        /\ Len(queue') <= Len(Tail(queue)) + Len(news)
        /\ Range(Tail(queue)) \subseteq Range(queue')
        /\ Range(queue') \subseteq Range(Tail(queue)) \cup {"anomaly"}
    BY <1>1, <1>2, <1>3, <2>1, PublishedEvents
  <2>3. Len(queue') \in Nat
    BY <2>2, LenProperties
  <2>4. \A t \in Topics : t # "anomaly"
    OBVIOUS
  <2>5. \A t \in Topics : t \in Range(queue') <=> t \in Range(Tail(queue))
    BY <2>2, <2>4
  <2>6. Len(queue') <= Len(queue)
    <3>1. Len(queue') <= Len(queue) - 1 + Len(news)
      BY <1>2, <2>2
    <3> QED
      BY <1>2, <1>3, <2>3, <3>1
  <2> QED
    BY <2>2, <2>3, <2>5, <2>6
<1>5. /\ Order \in Seq(Topics) /\ Range(Order) = Range(tracked) \cup Alive
      /\ \A t \in Found : /\ t \in Range(Order) /\ t \notin Standing
                          /\ Silence(t) > Timeout /\ t \notin Alive
  BY <1>1, DetectorFinds
<1>6. Found \subseteq Topics
  BY <1>5 DEF TypeOK, Alive, Range
<1>7. /\ tracked' = Order /\ alerted' = Standing \cup Found
      /\ heard' = heard \ {t \in Found : quiet[t] > 1}
      /\ UNCHANGED <<graph, subs, window, pollDue, rateDue, prompt, quiet, regular>>
      /\ \A t \in Topics : lastSeen'[t] = Silence(t)
  BY DEF Check, monitorVars
<1>8. TypeOK'
  <2>1. lastSeen' \in [Topics -> 0 .. (Timeout + 1)]
    BY DEF Check, Silence, PromptInv, TypeOK
  <2>2. alerted' \subseteq Topics /\ heard' \subseteq Topics
    BY <1>1, <1>6, <1>7 DEF TypeOK, Standing
  <2> QED
    BY <1>1, <1>4, <1>5, <1>7, <2>1, <2>2 DEF TypeOK
<1>9. Room'
  <2>1. prompt => Len(queue') <= (IF pollDue THEN 0 ELSE 1 + Cardinality(Topics))
                                  + (IF rateDue THEN 0 ELSE Cardinality(Topics))
    BY <1>2, <1>4, FS_CardinalityType DEF PromptInv, Room, QueueHolds
  <2> QED
    BY <1>7, <2>1 DEF Room
<1>10. ASSUME NEW t \in Topics PROVE TopicInv(t)'
  <2>1. TopicInv(t)
    BY DEF PromptInv
  <2>2. t \in Alive <=> t = Head(queue)
    BY DEF Alive
  <2>3. t \in Range(queue) <=> t \in Alive \/ t \in Range(queue')
    BY <1>2, <1>4, <2>2
  <2>4. /\ t \in Alive => lastSeen'[t] = 0 /\ t \notin alerted' /\ t \in Range(tracked')
        /\ t \notin Alive => lastSeen'[t] = lastSeen[t]
        /\ t \in Range(tracked) => t \in Range(tracked')
        /\ t \in Range(tracked') => t \in Range(tracked) \/ t \in Alive
        /\ t \in alerted' => t \in alerted \/ t \in Found
        /\ t \in alerted /\ t \notin Alive => t \in alerted'
        /\ t \in Found => lastSeen[t] > 1 /\ t \in Range(tracked) /\ t \notin Alive
                          /\ t \notin alerted
    <3>1. lastSeen[t] \in Nat
      BY <1>1, TopicTypes
    <3> QED
      BY <1>5, <1>7, <3>1 DEF Silence, Standing
  <2>5. Reported(t)' /\ Cleared(t)'
    BY <1>7, <2>1, <2>3, <2>4, TopicTypes, <1>1 DEF TopicInv, Reported, Cleared
  <2>6. NewsReported(t)' /\ NewsKnown(t)'
    BY <1>7, <2>1, <2>3, <2>4, TopicTypes, <1>1 DEF TopicInv, NewsReported, NewsKnown, HasRate
  <2>7. Unheard(t)'
    <3>1. SUFFICES ASSUME prompt, t \notin heard'
                   PROVE  /\ ~HasRate(t) /\ t \notin Range(queue')
                          /\ t \in Range(tracked') => t \in alerted'
      BY <1>7 DEF Unheard, HasRate
    <3>2. CASE t \notin heard
      BY <2>1, <2>3, <2>4, <3>1, <3>2 DEF TopicInv, Unheard
    <3>3. CASE t \in Found /\ quiet[t] > 1
      <4>1. ~HasRate(t) /\ t \notin Range(queue)
        BY <1>1, <2>1, <2>4, <3>1, <3>3, TopicTypes DEF TopicInv, NewsKnown
      <4> QED
        BY <1>7, <2>3, <3>3, <4>1
    <3> QED
      BY <1>7, <3>1, <3>2, <3>3
  <2> QED
    BY <1>7, <2>1, <2>5, <2>6, <2>7 DEF TopicInv, OnePoll, Recent
<1> QED
  BY <1>8, <1>9, <1>10 DEF PromptInv

\* Every step, one lemma each.
LEMMA PromptStep ==
    ASSUME RegularIsHeard, QueueHolds, PromptInv, [Next]_vars PROVE PromptInv'
BY GraphChangeKeeps, OnMessageKeeps, TickKeeps, PollGraphKeeps, EmitKeeps, SkipKeeps,
   CheckKeeps DEF Next

\* The invariant of the watch with prompt threads.
LEMMA PromptInvariance ==
    ASSUME RegularIsHeard, QueueHolds PROVE Spec => []PromptInv
<1>1. Init => PromptInv
  BY PromptInit
<1>2. PromptInv /\ [Next]_vars => PromptInv'
  BY PromptStep
<1> QED
  BY <1>1, <1>2, PTL DEF Spec

\* With threads that keep up and a queue that takes what a tick publishes, a
\* topic that is regular again has its alert lifted.
THEOREM RecoveredTopicsAreCleared ==
    ASSUME RegularIsHeard, QueueHolds PROVE Spec => []RecoveredTopicCleared
<1>1. PromptInv => RecoveredTopicCleared
  BY DEF PromptInv, TopicInv, Cleared, RecoveredTopicCleared
<1> QED
  BY <1>1, PromptInvariance, PTL

\* On the same terms a regular topic is never declared dead.
THEOREM RegularTopicsAreNotAlarmed ==
    ASSUME RegularIsHeard, QueueHolds PROVE Spec => RegularTopicNeverAlarmed
<1>1. ASSUME PromptInv, NEW t \in Topics, prompt, Alarms(t)
      PROVE  regular[t] < Horizon
  <2>1. t \notin Alive /\ lastSeen[t] > Timeout
    BY <1>1, DetectorFinds DEF Alarms, Check, PromptInv, Silence
  <2>2. ~(lastSeen[t] <= 1)
    BY <1>1, <2>1, TopicTypes DEF PromptInv
  <2> QED
    BY <1>1, <2>2, TopicTypes DEF PromptInv, TopicInv, Cleared
<1>2. PromptInv /\ [Next]_vars
        => [\A t \in Topics : prompt /\ Alarms(t) => regular[t] < Horizon]_vars
  BY <1>1
<1> QED
  BY <1>2, PromptInvariance, PTL DEF Spec, RegularTopicNeverAlarmed

\* And between two alarms about a topic there is a message of it.
THEOREM OutagesAreAlarmedOnce ==
    ASSUME RegularIsHeard, QueueHolds PROVE Spec => OneAlarmPerOutage
<1>1. ASSUME PromptInv, NEW t \in Topics, prompt, Alarms(t)
      PROVE  t \in heard
  <2>1. /\ queue # <<>> /\ Head(queue) # "anomaly" /\ TypeOK /\ t \in Found
        /\ queue \in Seq(Events)
    BY <1>1 DEF Alarms, Check, PromptInv, TypeOK
  <2>2. t \in Range(tracked) /\ t \notin Alive /\ t \notin Standing
    BY <2>1, DetectorFinds
  <2> QED
    BY <1>1, <2>2 DEF PromptInv, TopicInv, Unheard, Standing
<1>2. PromptInv /\ [Next]_vars
        => [\A t \in Topics : prompt /\ Alarms(t) => t \in heard]_vars
  BY <1>1
<1> QED
  BY <1>2, PromptInvariance, PTL DEF Spec, OneAlarmPerOutage
=============================================================================
