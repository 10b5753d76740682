-------------------------- MODULE IncidentAnalysis --------------------------
(***************************************************************************)
(* What an incident bundle concludes from a slice of the event log: the    *)
(* snapshots (blackboxrs/core/snapshots.py), the rows derived from them    *)
(* and from the log (incident/derived.py), the timeline                    *)
(* (incident/timeline.py), the fingerprint (incident/fingerprint.py), the  *)
(* differences to an earlier bundle (incident/diff.py) and the ranking of  *)
(* the likely causes (incident/cause.py).                                  *)
(*                                                                         *)
(* An event is a record [t, type, subject, value, class, severity,         *)
(* session]: for "ros.frequency" the subject is the topic, for "ros.qos"   *)
(* value is its publisher count and class its QoS label, for the system    *)
(* metrics value is the sample, for "anomaly" class is the detector's.     *)
(* Time is in steps, scores are integers (hundredths times Unit), and a    *)
(* topic's name stands for every field of it nothing here depends on.  No  *)
(* part of the program publishes "ros.graph", so snapshots have no nodes.  *)
(***************************************************************************)
EXTENDS Integers, FiniteSets, Sequences, SequencesExt, FiniteSetsExt, Functions

CONSTANTS
    Silence,        \* DeadTopicConfig.timeout_sec
    Sustain,        \* sustain_sec of resource_excursions
    Limits,         \* AnomalyThresholds, by event type; a metric may have none
    Cadence,        \* of the snapshots
    MaxSnapshots,   \* _MAX_SNAPSHOTS
    Horizon,        \* _PRECURSOR_WINDOW_SEC
    None            \* Python's None

ASSUME IncidentAnalysisAssumption ==
    /\ Silence \in Int /\ Sustain \in Nat
    /\ {Cadence, Horizon} \subseteq Nat \ {0}
    /\ MaxSnapshots \in Nat \ {0, 1}

MinOf(a, b) == IF a < b THEN a ELSE b

Where(events, type) == {i \in DOMAIN events : events[i].type = type}
Triggers(events) == Where(events, "anomaly")
-----------------------------------------------------------------------------
(* Snapshots *)

\* sorted() by timestamp, which is stable.
Earlier(events, i, j) ==
    \/ events[i].t < events[j].t
    \/ events[i].t = events[j].t /\ i < j

Latest(events, S) == CHOOSE i \in S : \A j \in S \ {i} : Earlier(events, j, i)

\* A bug: the grid is that of the clock, not of the window.
SnapshotTimesOfClock(w) ==
    LET first == Cadence * ((w.start + Cadence - 1) \div Cadence)
    IN  [n \in 1 .. MinOf(MaxSnapshots, (w.end - first) \div Cadence + 1) |->
            first + (n - 1) * Cadence]

\* Up to MaxSnapshots times from start to end; a longer window is stretched,
\* the instants rounded down to the step.
SnapshotTimes(w) ==
    LET span  == w.end - w.start
        steps == span \div Cadence + 1
    IN  IF span < 0 THEN <<>>
        ELSE IF steps <= MaxSnapshots THEN [n \in 1 .. steps |-> w.start + (n - 1) * Cadence]
        ELSE [n \in 1 .. MaxSnapshots |-> w.start + ((n - 1) * span) \div (MaxSnapshots - 1)]

\* _MutableState.update over the events up to t: the last report of a topic
\* counts, and a topic once seen stays.
TopicsAt(events, t) ==
    LET seen     == {i \in DOMAIN events : events[i].t <= t}
        qos(p)   == {i \in seen \cap Where(events, "ros.qos") : events[i].subject = p}
        label(p) == {i \in qos(p) : events[i].class # None}
    IN  [p \in {events[i].subject : i \in seen \cap
                    (Where(events, "ros.qos") \cup Where(events, "ros.frequency"))} |->
            [pubs |-> IF qos(p) = {} THEN 0 ELSE events[Latest(events, qos(p))].value,
             qos  |-> IF label(p) = {} THEN None ELSE events[Latest(events, label(p))].class]]

\* Nothing observed yet: no row.  A GPU at 0 degrees counts as not observed.
NothingAt(events, t) ==
    \A i \in DOMAIN events : events[i].t <= t =>
        \/ events[i].type = "anomaly"
        \/ events[i].type = "system.gpu" /\
            LET gpu == {j \in Where(events, "system.gpu") : events[j].t <= t}
            IN  events[Latest(events, gpu)].value = 0

\* SystemSnapshotter.project: what was seen at each of the times that show
\* anything, by the number of the time.
Snapshots(events, w) ==
    LET at == SnapshotTimes(w)
    IN  [n \in {k \in DOMAIN at : ~NothingAt(events, at[k])} |->
            [t |-> at[n], topics |-> TopicsAt(events, at[n])]]
-----------------------------------------------------------------------------
(* Derived rows *)

Row(t, kind, subsystem, subject, refs) ==
    [t |-> t, kind |-> kind, subsystem |-> subsystem, subject |-> subject, refs |-> refs]

\* silence_intervals: two consecutive rate reports of a topic lie more than
\* the timeout apart; the row is dated when the timeout ran out.
Silences(events) ==
    LET rates == Where(events, "ros.frequency")
        next(i, j) ==
            /\ events[i].subject = events[j].subject /\ Earlier(events, i, j)
            /\ \A k \in rates : events[k].subject = events[i].subject
                   => ~(Earlier(events, i, k) /\ Earlier(events, k, j))
    IN  IF Silence <= 0 THEN {}
        ELSE {Row(events[p[1]].t + Silence, "silence_interval", "ros", events[p[1]].subject,
                  {p[1], p[2]}) :
                p \in {q \in rates \X rates : next(q[1], q[2])
                                              /\ events[q[2]].t - events[q[1]].t > Silence}}

\* graph_deltas: topics that appeared or disappeared between consecutive
\* snapshots, and changed publisher counts.
Deltas(snaps) ==
    LET next(m, n) == m < n /\ \A k \in DOMAIN snaps : k <= m \/ k >= n
        differ(old, new) ==
            {p \in DOMAIN old \cup DOMAIN new :
                ~(p \in DOMAIN old \cap DOMAIN new /\ old[p].pubs = new[p].pubs)}
    IN  UNION {{Row(snaps[q[2]].t, "graph_delta", "ros", p, {}) :
                    p \in differ(snaps[q[1]].topics, snaps[q[2]].topics)} :
               q \in {q \in (DOMAIN snaps) \X (DOMAIN snaps) : next(q[1], q[2])}}

MetricSubsystem == [type \in {"system.cpu", "system.memory", "system.gpu"} |->
    IF type = "system.gpu" THEN "gpu" ELSE "system"]

\* Maximal runs of samples of a metric, in the order of the log, above its
\* limit, from first to last at least Sustain.
Runs(events, type) ==
    LET samples  == Where(events, type)
        above(i) == events[i].value > Limits[type]
        run(i, j) == i <= j /\ \A k \in samples : k \in i .. j => above(k)
        maximal(i, j) ==
            /\ run(i, j)
            /\ \A k \in samples : (k < i => ~run(k, j)) /\ (k > j => ~run(i, k))
    IN  {p \in samples \X samples :
            maximal(p[1], p[2]) /\ events[p[2]].t - events[p[1]].t >= Sustain}

\* resource_excursions
Excursions(events) ==
    UNION {{Row(events[p[1]].t, "resource_excursion", MetricSubsystem[type], type,
                {p[1], p[2]}) : p \in Runs(events, type)} :
           type \in DOMAIN Limits \cap DOMAIN MetricSubsystem}

\* The derived rows of the timeline.
Derived(events, w) ==
    Silences(events) \cup Deltas(Snapshots(events, w)) \cup Excursions(events)

\* reconstruct: every event and every derived row.  The order the rows are
\* listed in is left out: what reads them does not depend on it.
Timeline(events, w) ==
    {Row(events[i].t, events[i].type, "raw", events[i].subject, {i}) : i \in DOMAIN events}
        \cup Derived(events, w)
=============================================================================
