------------------------------ MODULE TfWatch ------------------------------
(***************************************************************************)
(* The TF snapshotter of the ROS monitor (ros_monitor/tf_snapshotter.py)   *)
(* and the detector it feeds (anomaly_engine/detectors/tf_topology.py).    *)
(* The snapshotter keeps, per edge, the last stamp it heard; a timer drops *)
(* the dynamic edges that are too old and publishes the rest with their    *)
(* ages, and the detector names the first thing wrong with them.           *)
(*                                                                         *)
(* Transforms arrive late, reordered or stamped ahead of the node's clock, *)
(* and the clock may be set back (a bag that loops).  The executor is      *)
(* single threaded: a callback is one step.  Time is in units of the       *)
(* shortest interval that matters, and the timer is on time.               *)
(***************************************************************************)
EXTENDS Integers, FiniteSets, Functions

CONSTANTS
    Edges,          \* records [parent, child]
    ExpectedSets,   \* values of expected_frames to consider
    Less(_, _),     \* the order of frame names
    StaleTimeout,   \* stale_timeout_sec
    GcAge,          \* gc_age_sec
    Period,         \* 1 / snapshot_hz
    Lag, Lead,      \* bounds: how old, how far ahead a stamp may be
    LastTime,       \* bound: the last time
    MaxRewinds      \* bound: how often the clock is set back

ASSUME TfAssumption ==
    /\ StaleTimeout \in Nat /\ GcAge \in Nat /\ Period \in Nat \ {0}
    /\ Lag \in Nat /\ Lead \in Nat /\ LastTime \in Nat /\ MaxRewinds \in Nat

VARIABLES
    monitor,    \* the ROS monitor: "new", "up", "noTf", "stopped"
    expected,   \* expected_frames
    now,        \* the node's clock
    due,        \* ticks until the timer fires
    rewinds,
    table,      \* TfSnapshotState._edges
    found,      \* the anomaly found in the last snapshot
    newest,     \* history: edge -> the newest stamp heard on /tf since the edge
                \* was last dropped or latched, or -1
    latched,    \* history: edges heard on /tf_static, and not since then on
                \* /tf with a later stamp
    told,       \* history: edges that were stale in a snapshot with an
                \* anomaly since their entry was last written
    belated     \* history: edges whose entry was stale when it was written

hist == <<newest, latched, told, belated>>
tfVars == <<monitor, expected, now, due, rewinds, table, found, hist>>

Healthy == [kind |-> "healthy"]
Known(e) == e \in DOMAIN table
Age(x) == IF x.static \/ now < x.stamp THEN 0 ELSE now - x.stamp

TfInit ==
    /\ monitor = "new"
    /\ expected \in ExpectedSets
    /\ now = 0 /\ due = Period /\ rewinds = 0
    /\ table = <<>> /\ found = Healthy
    /\ newest = [e \in Edges |-> -1]
    /\ latched = {} /\ told = {} /\ belated = {}

\* RosMonitor.start: a snapshotter that cannot start (no node clock, no
\* tf2_msgs) is done without.
Start ==
    /\ monitor = "new"
    /\ monitor' \in {"up", "noTf"}
    /\ UNCHANGED <<expected, now, due, rewinds, table, found, hist>>

\* RosMonitor.stop, once the executor's thread has ended: subscriptions and
\* timer are destroyed.
Stop ==
    /\ monitor \in {"up", "noTf"}
    /\ monitor' = "stopped"
    /\ UNCHANGED <<expected, now, due, rewinds, table, found, hist>>

\* A bug: the last message wins, whatever its stamp.
OutdatedNever(e, stamp, static) == FALSE

\* A dynamic transform older than the one known is a replay out of order.
Outdated(e, stamp, static) == ~static /\ Known(e) /\ stamp < table[e].stamp

\* The entry of an edge is assigned.
Written(e, stamp, static) ==
    [f \in DOMAIN table \cup {e} |->
        IF f = e THEN [stamp |-> stamp, static |-> static] ELSE table[f]]

\* _ingest and record: one transform of a message on /tf or /tf_static.
Receive(e, stamp, static) ==
    /\ monitor = "up" /\ due > 0
    /\ IF Outdated(e, stamp, static)
         THEN UNCHANGED <<table, latched, told, belated>>
         ELSE /\ table' = Written(e, stamp, static)
              /\ latched' = IF static THEN latched \cup {e} ELSE latched \ {e}
              /\ told' = told \ {e}
              /\ belated' = IF ~static /\ now - stamp > StaleTimeout THEN belated \cup {e}
                                                                ELSE belated \ {e}
    /\ newest' = [newest EXCEPT ![e] = IF static THEN -1 ELSE IF stamp > @ THEN stamp ELSE @]
    /\ UNCHANGED <<monitor, expected, now, due, rewinds, found>>

\* A bug: an edge is dropped as soon as it is stale.
GarbageWhenStale(x) == ~x.static /\ now - x.stamp > StaleTimeout

\* build_payload drops dynamic edges past gc_age_sec.
Garbage(x) == ~x.static /\ now - x.stamp > GcAge

Kept == Restrict(table, {e \in DOMAIN table : ~Garbage(table[e])})

\* The detector, over the edges of a payload: an expected frame that is in no
\* edge, then a child with several parents, then a stale dynamic edge.
Children(s) == {e.child : e \in DOMAIN s}
Parents(s) == {e.parent : e \in DOMAIN s}
ParentsOf(s, f) == {e.parent : e \in {d \in DOMAIN s : d.child = f}}
Orphans(s) == expected \ (Children(s) \cup Parents(s))
Torn(s) == {f \in Children(s) : Cardinality(ParentsOf(s, f)) > 1}
First(names) == CHOOSE f \in names : \A g \in names \ {f} : Less(f, g)
Stale(x) == ~x.static /\ Age(x) > StaleTimeout
StaleEdges(s) == {e \in DOMAIN s : Stale(s[e])}

\* The anomaly it names.  Of several stale edges that is the first in the
\* order of the dict, which is not kept here: it may be any of them.
TopologyCheck(s, anomaly) ==
    \/ /\ Orphans(s) # {}
       /\ anomaly = [kind |-> "orphan_frame", frame |-> First(Orphans(s))]
    \/ /\ Orphans(s) = {} /\ Torn(s) # {}
       /\ anomaly = [kind |-> "multi_parent", frame |-> First(Torn(s)),
                      parents |-> ParentsOf(s, First(Torn(s)))]
    \/ /\ Orphans(s) = {} /\ Torn(s) = {}
       /\ \E e \in StaleEdges(s) : anomaly = [kind |-> "stale_edge", edge |-> e]
    \/ /\ Orphans(s) = {} /\ Torn(s) = {} /\ StaleEdges(s) = {}
       /\ anomaly = Healthy

\* emit_snapshot, and what the detector makes of it.
EmitSnapshot ==
    /\ monitor = "up" /\ due = 0
    /\ due' = Period
    /\ table' = Kept
    /\ TopologyCheck(Kept, found')
    /\ told' = told \cup IF found' = Healthy THEN {} ELSE StaleEdges(Kept)
    /\ newest' = [e \in Edges |-> IF e \in DOMAIN Kept THEN newest[e] ELSE -1]
    /\ UNCHANGED <<monitor, expected, now, rewinds, latched, belated>>

\* Time passes; the timer is on time.
TimePasses ==
    /\ monitor = "up" /\ due > 0 /\ now < LastTime
    /\ now' = now + 1 /\ due' = due - 1
    /\ UNCHANGED <<monitor, expected, rewinds, table, found, hist>>

\* The simulated clock jumps back.
Rewind ==
    /\ monitor = "up" /\ due > 0 /\ rewinds < MaxRewinds
    /\ now' \in 0 .. now - 1
    /\ rewinds' = rewinds + 1
    /\ UNCHANGED <<monitor, expected, due, table, found, hist>>

TfNext ==
    \/ Start \/ Stop \/ EmitSnapshot \/ TimePasses \/ Rewind
    \/ \E e \in Edges, static \in BOOLEAN, stamp \in {s \in 0 .. now + Lead : s >= now - Lag} :
           Receive(e, stamp, static)

TfSpec == TfInit /\ [][TfNext]_tfVars
-----------------------------------------------------------------------------
\* An edge of which a stamp within the timeout was heard is not reported
\* stale, however its messages were reordered and the clock was set back.
FreshEdgeNotAlarmed ==
    [][\A e \in Edges :
        (EmitSnapshot /\ found'.kind = "stale_edge" /\ found'.edge = e)
            => now - newest[e] > StaleTimeout]_tfVars

\* A frame that changed its parent is reported with several parents only
\* while each of them was heard within gc_age_sec, or is static.
OldParentForgotten ==
    [][(EmitSnapshot /\ found'.kind = "multi_parent") =>
        \A p \in found'.parents : \E e \in Edges :
            /\ e.parent = p /\ e.child = found'.frame
            /\ e \in latched \/ (newest[e] >= 0 /\ now - newest[e] <= GcAge)]_tfVars

\* An alarm about the tree rests on what was heard, not on the order it was
\* heard in (TfSnapshotState, TfTopologyDetector).
AlarmsRestOnAges == FreshEdgeNotAlarmed /\ OldParentForgotten

\* The class TfSnapshotState: static edges are never garbage-collected, also
\* long after they were latched.  (One that is broadcast on /tf with a later
\* stamp is no static edge any more.)
StaticEdgeStays ==
    \A e \in latched : Known(e) /\ Age(table[e]) = 0

\* No dynamic edge disappears unnoticed: before it is dropped, unless its last
\* message was already stale on arrival, a snapshot with an anomaly had it as
\* stale.
NoEdgeLostSilently ==
    [][\A e \in DOMAIN table :
        EmitSnapshot /\ e \notin DOMAIN table' /\ e \notin belated => e \in told]_tfVars

\* An edge leaves the tree only for a reason somebody was told
\* (TfSnapshotState.build_payload).
NoEdgeLost == []StaticEdgeStays /\ NoEdgeLostSilently
=============================================================================
