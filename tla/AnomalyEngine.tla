--------------------------- MODULE AnomalyEngine ---------------------------
(***************************************************************************)
(* The anomaly engine (blackboxrs/anomaly_engine/engine.py): its thread    *)
(* takes events from a bounded queue and shows each to every detector; an  *)
(* anomaly goes back to the bus, and so to the engine's own queue.  The    *)
(* detectors here are those that keep counters (frequency, threshold,      *)
(* clock skew, process signals), the QoS check, and detectors the user     *)
(* configured, which may raise.  Dead topics are in TopicWatch, the TF     *)
(* tree in TfWatch.                                                        *)
(*                                                                         *)
(* A built-in detector looks at one type of event only, so a behaviour     *)
(* has one producer (feed); the others would not touch its state.          *)
(***************************************************************************)
EXTENDS Naturals, Sequences, FiniteSets, Functions

CONSTANTS
    Feeds,              \* which producers to consider
    Entries,            \* custom_detectors of the configuration, in order
    MinConsecutive,     \* min_consecutive_samples
    LearningSamples,    \* _LEARNING_SAMPLES
    Tolerance,          \* tolerance_percent
    Limit,              \* the limit of a threshold, a process or a skew
    QueueMax,           \* the engine's queue
    MaxEvents,          \* bound: events produced
    Payloads            \* feed -> the events its producer may publish

ASSUME EngineAssumption ==
    /\ MinConsecutive \in Nat \ {0}
    /\ LearningSamples \in Nat \ {0}
    /\ Tolerance \in 0 .. 100
    /\ QueueMax \in Nat \ {0}
    /\ MaxEvents \in Nat
    /\ Entries \in Seq(Range(Entries))
    /\ Range(Entries) \cap (Feeds \cup {"hysteresis", "qos"}) = {}
    /\ "anomaly" \notin Feeds
    /\ \A f \in Feeds : \A e \in Payloads[f] : e.kind = f
    /\ "frequency" \in Feeds => \A e \in Payloads["frequency"] : e.hz \in Nat

VARIABLES
    feed,       \* the producer of this behaviour
    running,    \* _running
    worker,     \* the thread: "new", "check", "get", "exited"
    queue,      \* _queue; <<>> once unsubscribed
    produced,   \* events offered so far
    samples,    \* FrequencyDetector._samples, as their number and sum
    baseline,   \* FrequencyDetector._baselines, as the sum of the samples
    counts,     \* _violation_counts of the detector in use
    log         \* history: what was handled, with the anomalies it led to

vars == <<feed, running, worker, queue, produced, samples, baseline, counts, log>>

\* What check() gives: nothing, an exception or an anomaly.
Nothing == [kind |-> "nothing"]
Raised == [kind |-> "raised"]
Anomaly(d, k) == [kind |-> "anomaly", detector |-> d, key |-> k]

NoKeys == [k \in {} |-> 0]
Get(dict, k) == IF k \in DOMAIN dict THEN dict[k] ELSE 0
Put(dict, k, v) == [x \in DOMAIN dict \cup {k} |-> IF x = k THEN v ELSE dict[x]]
-----------------------------------------------------------------------------
(* The detectors that count.  A verdict is "bad" or "good", or "unheard"   *)
(* if the event leaves the counts alone.                                   *)

\* FrequencyDetector: the first samples of a topic are learned.
Learning(e) == e.topic \notin DOMAIN baseline
Learned(e) ==
    IF e.topic \in DOMAIN samples
    THEN [n |-> samples[e.topic].n + 1, sum |-> samples[e.topic].sum + e.hz]
    ELSE [n |-> 1, sum |-> e.hz]
Enough(e) == Learned(e).n >= LearningSamples

\* A bug: the sum of the samples taken for their mean.
BelowFloorOfSum(e) == e.hz * 100 < baseline[e.topic] * (100 - Tolerance)

\* frequency_hz < baseline * (1 - tolerance / 100), baseline = sum / samples.
BelowFloor(e) ==
    e.hz * LearningSamples * 100 < baseline[e.topic] * (100 - Tolerance)

FrequencyVerdict(e) ==
    IF Learning(e) THEN "unheard"
    ELSE IF BelowFloor(e) THEN "bad" ELSE "good"

\* ThresholdDetector: one rule per type of event; a value that is absent
\* says nothing, one that is no number ("text") is healthy.
ThresholdVerdict(e) ==
    CASE e.value = "absent" -> "unheard"
      [] e.value = "over" -> "bad"
      [] OTHER -> "good"

\* ClockSkewDetector: the first pair of sources with the largest skew.
Skew(s, i, j) == IF s[i].epoch > s[j].epoch THEN s[i].epoch - s[j].epoch
                                            ELSE s[j].epoch - s[i].epoch
Scoreable(s) == SelectSeq(s, LAMBDA r : r.epoch \in Nat)
IndexPairs(s) == {p \in (1 .. Len(s)) \X (1 .. Len(s)) : p[1] < p[2]}
EarlierPair(p, q) == p[1] < q[1] \/ (p[1] = q[1] /\ p[2] < q[2])
WorstPair(s) ==
    CHOOSE p \in IndexPairs(s) : \A q \in IndexPairs(s) \ {p} :
        \/ Skew(s, p[1], p[2]) > Skew(s, q[1], q[2])
        \/ Skew(s, p[1], p[2]) = Skew(s, q[1], q[2]) /\ EarlierPair(p, q)
SkewVerdict(e) ==
    LET s == Scoreable(e.sources)
        p == WorstPair(s) IN
    IF Len(s) < 2 THEN "unheard"
    ELSE IF Skew(s, p[1], p[2]) > Limit THEN "bad" ELSE "good"
SkewKey(e) == LET s == Scoreable(e.sources)
                  p == WorstPair(s) IN {s[p[1]].name, s[p[2]].name}

\* ProcessSignalsDetector: the first process with the highest CPU if that
\* is over its limit, else the first with the highest RSS.
Candidates(e) == SelectSeq(e.processes, LAMBDA p : p.cpu \in Nat /\ p.rss \in Nat)
Peak(s, field) ==
    CHOOSE i \in 1 .. Len(s) : \A j \in 1 .. Len(s) :
        s[i][field] > s[j][field] \/ (s[i][field] = s[j][field] /\ i <= j)
PeakOver(s, field) == s[Peak(s, field)][field] > Limit
ProcessVerdict(e) ==
    LET s == Candidates(e) IN
    IF s = <<>> THEN "unheard"
    ELSE IF PeakOver(s, "cpu") \/ PeakOver(s, "rss") THEN "bad" ELSE "good"
ProcessKey(e) ==
    LET s == Candidates(e)
        f == IF PeakOver(s, "cpu") THEN "cpu" ELSE "rss" IN
    <<s[Peak(s, f)].name, f>>

Verdict(e) ==
    CASE e.kind = "frequency" -> FrequencyVerdict(e)
      [] e.kind = "threshold" -> ThresholdVerdict(e)
      [] e.kind = "clock_skew" -> SkewVerdict(e)
      [] e.kind = "process_signals" -> ProcessVerdict(e)
      [] OTHER -> "unheard"

Key(e) ==
    CASE e.kind = "frequency" -> e.topic
      [] e.kind = "threshold" -> e.metric
      [] e.kind = "clock_skew" -> SkewKey(e)
      [] e.kind = "process_signals" -> ProcessKey(e)

\* A healthy reading ends the count of its topic or metric; a healthy
\* snapshot ends the counts of every pair or process.
Grouped == {"clock_skew", "process_signals"}

\* A bug: a healthy sample leaves the count as it is.
CountedUnreset(e) ==
    CASE Verdict(e) = "bad" -> Put(counts, Key(e), Get(counts, Key(e)) + 1)
      [] Verdict(e) = "good" /\ e.kind \in Grouped -> NoKeys
      [] OTHER -> counts

\* _violation_counts after the event.
Counted(e) ==
    CASE Verdict(e) = "unheard" -> counts
      [] Verdict(e) = "bad" -> Put(counts, Key(e), Get(counts, Key(e)) + 1)
      [] Verdict(e) = "good" /\ e.kind \in Grouped -> NoKeys
      [] OTHER -> Put(counts, Key(e), 0)

\* An anomaly from the violation that fills the count on, each time.
Hysteresis(e) ==
    IF Verdict(e) = "bad" /\ Get(Counted(e), Key(e)) >= MinConsecutive
      THEN Anomaly(e.kind, Key(e)) ELSE Nothing
-----------------------------------------------------------------------------
\* QoSMismatchDetector: a subscription that demands more than a publisher
\* offers; a policy without a rank (SYSTEM_DEFAULT, absent) is compatible.
Rank == [reliability |-> [RELIABLE |-> 2, BEST_EFFORT |-> 1],
         durability |-> [TRANSIENT_LOCAL |-> 2, VOLATILE |-> 1]]
Ranked(q, d) == d \in DOMAIN q /\ q[d] \in DOMAIN Rank[d]
Stricter(pub, sub, d) ==
    Ranked(pub, d) /\ Ranked(sub, d) /\ Rank[d][pub[d]] < Rank[d][sub[d]]
Mismatch(e, d) == \E p \in Range(e.pubs), s \in Range(e.subs) : Stricter(p, s, d)
QosCheck(e) ==
    IF e.kind = "qos" /\ \E d \in DOMAIN Rank : Mismatch(e, d)
      THEN Anomaly("qos", <<e.topic, {d \in DOMAIN Rank : Mismatch(e, d)}>>)
      ELSE Nothing
-----------------------------------------------------------------------------
\* load_custom_detectors: an entry without a dotted class, whose module or
\* class is not there, is no detector or raises in its constructor is skipped.
Loads(entry) == entry \notin {"no_class", "no_dot", "no_module", "no_attribute",
                              "no_detector", "constructor_raises"}

\* _init_detectors, by place: the built-in ones, of which those that count
\* are one entry, as only one of them is concerned; then the configured ones.
Configured == <<"hysteresis", "qos">> \o Entries
Detectors == {d \in DOMAIN Configured : d <= 2 \/ Loads(Configured[d])}

\* A custom detector may do anything: "echo" answers every event, "raises"
\* raises.
Outcome(d, e) ==
    CASE d = "hysteresis" -> Hysteresis(e)
      [] d = "qos" -> QosCheck(e)
      [] d = "raises" -> Raised
      [] OTHER -> Anomaly(d, d)

\* A bug: an exception ends the loop over the detectors.
FindingUntilError(e) ==
    {d \in Detectors :
        /\ Outcome(Configured[d], e).kind = "anomaly"
        /\ \A c \in Detectors : c < d => Outcome(Configured[c], e).kind # "raised"}

\* Which detectors find something.
Finding(e) == {d \in Detectors : Outcome(Configured[d], e).kind = "anomaly"}

\* The anomalies the engine publishes for an event, by detector.
Anomalies(e) == [d \in Finding(e) |-> Outcome(Configured[d], e)]
-----------------------------------------------------------------------------
Init ==
    /\ feed \in Feeds
    /\ running = FALSE /\ worker = "new"
    /\ queue = <<>>
    /\ produced = 0
    /\ samples = NoKeys /\ baseline = NoKeys
    /\ counts = NoKeys
    /\ log = <<>>

detvars == <<samples, baseline, counts, log>>

\* start(): subscribe, then the thread.
Start ==
    /\ worker = "new"
    /\ running' = TRUE /\ worker' = "check"
    /\ UNCHANGED <<feed, queue, produced, detvars>>

\* stop(): the thread sees it at the top of its loop, within a quarter of a
\* second; then the queue is unsubscribed.
StopCall ==
    /\ running
    /\ running' = FALSE
    /\ UNCHANGED <<feed, worker, queue, produced, detvars>>

Unsubscribe ==
    /\ worker = "exited" /\ queue # <<>>
    /\ queue' = <<>>
    /\ UNCHANGED <<feed, running, worker, produced, detvars>>

\* publish: what a full queue does not take is dropped.
Delivered(q, es) ==
    LET all == q \o es
    IN  SubSeq(all, 1, IF Len(all) > QueueMax THEN QueueMax ELSE Len(all))

Produce(e) ==
    /\ worker \in {"check", "get"} /\ produced < MaxEvents
    /\ produced' = produced + 1
    /\ queue' = Delivered(queue, <<e>>)
    /\ UNCHANGED <<feed, running, worker, detvars>>

Loop ==
    /\ worker = "check"
    /\ worker' = IF running THEN "get" ELSE "exited"
    /\ UNCHANGED <<feed, running, queue, produced, detvars>>

\* queue.get timed out.
Empty ==
    /\ worker = "get" /\ queue = <<>>
    /\ worker' = "check"
    /\ UNCHANGED <<feed, running, queue, produced, detvars>>

\* In the queue an anomaly is only told from the other events.
AnomalyEvent == [kind |-> "anomaly"]

\* The event is shown to each detector, and what it finds is published.
Handle(e) ==
    /\ queue' = Delivered(Tail(queue), [n \in 1 .. Cardinality(Finding(e)) |-> AnomalyEvent])
    /\ log' = Append(log, [event |-> e, anomalies |-> Anomalies(e)])
    /\ counts' = Counted(e)
    /\ IF e.kind = "frequency" /\ Learning(e)
         THEN IF Enough(e)
                THEN /\ baseline' = Put(baseline, e.topic, Learned(e).sum)
                     /\ samples' = Restrict(samples, DOMAIN samples \ {e.topic})
                ELSE /\ samples' = Put(samples, e.topic, Learned(e))
                     /\ UNCHANGED baseline
         ELSE UNCHANGED <<samples, baseline>>

\* An anomaly is skipped, which keeps detectors from answering each other.
Take ==
    /\ worker = "get" /\ queue # <<>>
    /\ worker' = "check"
    /\ IF Head(queue).kind = "anomaly"
         THEN queue' = Tail(queue) /\ UNCHANGED detvars
         ELSE Handle(Head(queue))
    /\ UNCHANGED <<feed, running, produced>>

Next ==
    \/ Start \/ StopCall \/ Unsubscribe
    \/ \E e \in Payloads[feed] : Produce(e)
    \/ Loop \/ Empty \/ Take

Spec == Init /\ [][Next]_vars
-----------------------------------------------------------------------------
\* The log only grows: what held of its last entry holds of it for ever.
Latest == {Len(log)} \ {0}

AlarmedAt(i) ==
    \E d \in DOMAIN log[i].anomalies : log[i].anomalies[d].detector = feed

\* The events handled up to the i-th about the same topic or metric, those
\* that say nothing left out.
Readings(i) ==
    LET same(e, f) == IF feed = "frequency" THEN f.topic = e.topic
                      ELSE f.metric = e.metric /\ f.value # "absent"
    IN  {j \in 1 .. i : same(log[i].event, log[j].event)}

\* The sum of some readings of a log.
PartialSums(g) ==
    LET sum[n \in Nat] == IF n = 0 THEN 0 ELSE sum[n - 1] + g[n] IN sum
SumOver(l, R) == PartialSums([n \in Nat |-> IF n \in R THEN l[n].event.hz ELSE 0])[Len(l)]

\* The readings of a topic that were learned, and the violations, which for
\* a topic are readings far below the mean of the learned.
LearnedOf(R) == {j \in R : Cardinality({k \in R : k < j}) < LearningSamples}
Bad(R, j) ==
    IF feed = "frequency"
      THEN /\ j \notin LearnedOf(R)
           /\ log[j].event.hz * LearningSamples * 100 <
                SumOver(log, LearnedOf(R)) * (100 - Tolerance)
      ELSE log[j].event.value = "over"

\* A rate or a metric is alarmed exactly when its last min_consecutive_samples
\* readings were all violations, whatever came in between on other topics and
\* however often events were dropped.
AlarmIffSustained ==
    feed \in {"frequency", "threshold"} =>
        \A i \in Latest :
            LET R == Readings(i)
            IN  AlarmedAt(i) <=>
                    /\ i \in R
                    /\ \E j \in 1 .. i :
                        /\ Cardinality({k \in R : k >= j}) >= MinConsecutive
                        /\ \A k \in R : k >= j => Bad(R, k)

\* A topic whose readings stay within the tolerance of each other is never
\* alarmed, whichever of them were learned.
SteadyTopicNeverAlarmed ==
    feed = "frequency" =>
        \A i \in Latest :
            (\A j, k \in Readings(i) :
                log[j].event.hz * 100 >= log[k].event.hz * (100 - Tolerance))
            => ~AlarmedAt(i)

\* Of the snapshots up to the i-th, the violations with the same worst pair or
\* process as the i-th and no healthy snapshot since.
Offences(i) ==
    {k \in 1 .. i :
        /\ Verdict(log[k].event) = "bad"
        /\ Key(log[k].event) = Key(log[i].event)
        /\ \A m \in k .. i : Verdict(log[m].event) # "good"}

\* A pair of clocks or a process is alarmed exactly when it is the worst of a
\* violating snapshot, and was so min_consecutive_samples times or more since every
\* source or process was last healthy.  That is what the code does; the docstrings of
\* both classes ask for consecutive snapshots of the same pair or process,
\* while here others may be the worst in between, and it may itself be healthy.
AlarmIffRepeated ==
    feed \in Grouped =>
        \A i \in Latest :
            AlarmedAt(i) <=> /\ Verdict(log[i].event) = "bad"
                             /\ Cardinality(Offences(i)) >= MinConsecutive

\* When the detectors that count speak up: neither sooner nor later.
AlarmsSustained == AlarmIffSustained /\ AlarmIffRepeated

\* A detector that raises costs no other detector an event, and no anomaly
\* leads to another: each event is shown once to each detector.
ShownOnceToEach ==
    \A i \in Latest :
        /\ log[i].event.kind = feed
        /\ {d \in DOMAIN log[i].anomalies : log[i].anomalies[d].detector = "echo"}
             = {d \in Detectors : Configured[d] = "echo"}
=============================================================================
