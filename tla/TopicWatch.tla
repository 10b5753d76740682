----------------------------- MODULE TopicWatch -----------------------------
(***************************************************************************)
(* How a silent ROS topic becomes an anomaly.  Three parts share the work: *)
(* the ROS monitor (blackboxrs/ros_monitor/monitor.py) subscribes to the   *)
(* topics on the graph and turns the arrivals it counts                    *)
(* (ros_monitor/frequency_tracker.py) into ros.frequency events on a       *)
(* timer; the event bus carries them, among others, to the anomaly         *)
(* engine's queue; the engine thread (anomaly_engine/engine.py) runs the   *)
(* dead-topic detector (detectors/dead_topic.py) on each event.            *)
(*                                                                         *)
(* Time is counted in ticks, the period of the two monitor timers (1 s by  *)
(* default), and kept as ages, each capped one above the largest value the *)
(* code compares it with.  All monitor callbacks run on one executor       *)
(* thread and are atomic to each other; the engine thread, the arrival of  *)
(* messages and the clock interleave with them.                            *)
(***************************************************************************)
EXTENDS Naturals, Sequences, SequencesExt, FiniteSets

CONSTANTS
    Topics,   \* the topics that pass the filters
    Lagging,  \* bound: those there are when the threads lag
    Window,   \* FrequencyTracker._window_sec, in ticks
    Timeout,  \* DeadTopicConfig.timeout_sec, in ticks
    QueueMax, \* the engine queue's maxsize
    Gap,      \* history only: a topic is regular while heard every Gap ticks
    Horizon   \* history only: the bound of the counter of regular ticks

ASSUME TopicWatchAssumption ==
    /\ Lagging \subseteq Topics
    /\ Topics \cap {"other", "anomaly"} = {}
    /\ Window \in Nat \ {0}
    /\ Timeout \in Nat \ {0}
    /\ QueueMax \in Nat \ {0}
    /\ Gap \in Nat
    /\ Horizon \in Nat

VARIABLES
    graph,     \* the topics on the ROS graph
    subs,      \* RosMonitor._subscriptions
    window,    \* FrequencyTracker._windows: ages of the two latest arrivals
    pollDue,   \* the poll timer has expired and _poll_graph has not yet run
    rateDue,   \* the same for _emit_frequency_events
    queue,     \* the engine's subscription queue
    tracked,   \* the keys of DeadTopicDetector._last_seen, in insertion order
    lastSeen,  \* the ages of its values
    alerted,   \* DeadTopicDetector._alerted
    prompt,    \* the executor and the engine finish their work within a tick
    quiet,     \* history: age of the latest message received from a topic
               \* the next two are kept in prompt behaviours only
    regular,   \* history: ticks the topic has now been regular
    heard      \* history: topics heard since their last alarm, or at most a
               \* tick before it, when no report can yet have shown it

monitorVars == <<subs, window>>
detectorVars == <<tracked, lastSeen, alerted>>
historyVars == <<quiet, regular, heard>>
vars == <<graph, monitorVars, pollDue, rateDue, queue, detectorVars, prompt, historyVars>>

\* What the detector tells apart: a frequency report is its topic, and
\* everything else is no topic's name.  ros.topology and ros.qos events are
\* alike to the detector, anomalies are skipped.
Events == Topics \cup {"other", "anomaly"}

\* The topics nodes can bring to the graph.
Available == IF prompt THEN Topics ELSE Lagging

\* Ages beyond a cap are alike: Older(a, cap) is one tick later.
Older(age, cap) == IF age < cap THEN age + 1 ELSE cap

\* An arrival no read of the window would find: pruned, forgotten or none.
Gone == Window + 1
NoArrivals == [latest |-> Gone, previous |-> Gone]

\* Faulty: an arrival exactly as old as the window is dropped.
HasRateStrictly(t) == window[t].previous < Window

\* A rate needs two arrivals within the window, so of the deque only the
\* two latest arrivals matter.
HasRate(t) == window[t].previous <= Window

TypeOK ==
    /\ graph \subseteq Topics
    /\ subs \subseteq Topics
    /\ window \in [Topics -> [latest : 0..Gone, previous : 0..Gone]]
    /\ pollDue \in BOOLEAN
    /\ rateDue \in BOOLEAN
    /\ queue \in Seq(Events) /\ Len(queue) <= QueueMax
    /\ tracked \in Seq(Topics)
    /\ lastSeen \in [Topics -> 0..(Timeout + 1)]
    /\ alerted \subseteq Topics
    /\ prompt \in BOOLEAN
    /\ quiet \in [Topics -> 0..(Timeout + 1)]
    /\ regular \in [Topics -> 0..Horizon]
    /\ heard \subseteq Topics

Init ==
    /\ prompt \in BOOLEAN
    /\ graph \in SUBSET Available
    /\ subs = {}
    /\ window = [t \in Topics |-> NoArrivals]
    /\ pollDue = FALSE
    /\ rateDue = FALSE
    /\ queue = <<>>
    /\ tracked = <<>>
    /\ lastSeen = [t \in Topics |-> 0]
    /\ alerted = {}
    /\ quiet = [t \in Topics |-> Timeout + 1]
    /\ regular = [t \in Topics |-> 0]
    /\ heard = {}

-----------------------------------------------------------------------------
(* The surroundings: nodes, publishers and the clock.                      *)

\* Nodes join and leave; a topic is on the graph while some node holds it.
GraphChange ==
    /\ \E g \in SUBSET Available \ {graph} : graph' = g
    /\ UNCHANGED <<monitorVars, pollDue, rateDue, queue, detectorVars, prompt, historyVars>>

\* A message reaches the monitor's subscription: _on_message records it.
OnMessage(t) ==
    /\ t \in subs
    /\ window' = [window EXCEPT ![t] = [latest |-> 0, previous |-> @.latest]]
    /\ quiet' = [quiet EXCEPT ![t] = 0]
    /\ heard' = IF prompt THEN heard \cup {t} ELSE heard
    /\ UNCHANGED <<graph, subs, pollDue, rateDue, queue, detectorVars, prompt, regular>>

\* A tick passes and both timers expire.  In a prompt behaviour the threads
\* have first done what the previous tick gave them to do.
Tick ==
    /\ prompt => ~pollDue /\ ~rateDue /\ queue = <<>>
    /\ pollDue' = TRUE
    /\ rateDue' = TRUE
    /\ window' = [t \in Topics |-> [latest   |-> Older(window[t].latest, Gone),
                                    previous |-> Older(window[t].previous, Gone)]]
    /\ lastSeen' = [t \in Topics |-> IF t \in Range(tracked)
                                     THEN Older(lastSeen[t], Timeout + 1)
                                     ELSE lastSeen[t]]
    /\ quiet' = [t \in Topics |-> Older(quiet[t], Timeout + 1)]
    /\ regular' = [t \in Topics |-> IF prompt /\ t \in subs /\ quiet'[t] <= Gap
                                    THEN Older(regular[t], Horizon)
                                    ELSE 0]
    /\ UNCHANGED <<graph, subs, queue, tracked, alerted, prompt, heard>>

-----------------------------------------------------------------------------
(* The ROS monitor's timer callbacks.                                      *)

\* Events are put one after the other; what finds the queue full is dropped.
Published(q, events) == SubSeq(q \o events, 1, IF Len(q \o events) <= QueueMax
                                               THEN Len(q \o events) ELSE QueueMax)

\* Faulty: the subscription goes, the tracker keeps its window.
PrunedNot(live) == window

\* What _prune_stale_subscriptions does to the tracker: a subscribed topic
\* that left the graph is forgotten.
Pruned(live) == [t \in Topics |-> IF t \in subs \ live THEN NoArrivals ELSE window[t]]

\* _poll_graph: one ros.topology event and a ros.qos event per topic, then
\* the new topics are subscribed, those whose type or subscription fails are
\* left for the next poll, and stale subscriptions are dropped.
PollGraph ==
    /\ pollDue
    /\ pollDue' = FALSE
    /\ queue' = Published(queue, [i \in 1..(1 + Cardinality(graph)) |-> "other"])
    /\ \E failed \in SUBSET (graph \ subs) : subs' = graph \ failed
    /\ window' = Pruned(graph)
    /\ UNCHANGED <<graph, rateDue, detectorVars, prompt, historyVars>>

\* _poll_graph when the snapshot raises: it returns early.
PollFails ==
    /\ pollDue
    /\ pollDue' = FALSE
    /\ UNCHANGED <<graph, monitorVars, rateDue, queue, detectorVars, prompt, historyVars>>

\* _emit_frequency_events: a report for each topic that has a rate.
EmitFrequencies ==
    /\ rateDue
    /\ rateDue' = FALSE
    /\ \E reports \in SetToSeqs({t \in Topics : HasRate(t)}) :
          queue' = Published(queue, reports)
    /\ UNCHANGED <<graph, monitorVars, pollDue, detectorVars, prompt, historyVars>>

-----------------------------------------------------------------------------
(* The engine's loop and the detector.                                     *)

\* The engine does not show anomalies to its detectors.
SkipAnomaly ==
    /\ queue # <<>>
    /\ Head(queue) = "anomaly"
    /\ queue' = Tail(queue)
    /\ UNCHANGED <<graph, monitorVars, pollDue, rateDue, detectorVars, prompt, historyVars>>

\* The topic the next event reports alive, if it is a frequency report.
Alive == {Head(queue)} \cap Topics

\* The topics tracked and their silence once the next event has been noted.
Order == IF Alive \subseteq Range(tracked) THEN tracked ELSE Append(tracked, Head(queue))

\* Faulty: only the first report of a topic is noted.
SilenceSinceFirst(t) == IF t \in Alive \ Range(tracked) THEN 0 ELSE lastSeen[t]

Silence(t) == IF t \in Alive THEN 0 ELSE lastSeen[t]

\* Faulty: a report does not lift an alert.
StandingForEver == alerted

\* The alerts the next event does not lift.
Standing == alerted \ Alive

\* Of some places in the order, what is at the first.
FirstOf(places) == {Order[i] : i \in {k \in places : \A j \in places : k <= j}}

\* Faulty: an alert does not keep its topic from being found again.
FoundAgain == FirstOf({i \in DOMAIN Order : Silence(Order[i]) > Timeout})

\* The first topic silent past the timeout and not yet alerted, if any.
Found ==
    FirstOf({i \in DOMAIN Order : Silence(Order[i]) > Timeout /\ Order[i] \notin Standing})

\* DeadTopicDetector.check on the next event: a frequency report refreshes
\* its topic and lifts its alert; then one topic found dead is alerted and
\* its anomaly published, to the engine's own queue as to all others.
Check ==
    /\ queue # <<>>
    /\ Head(queue) # "anomaly"
    /\ tracked' = Order
    /\ lastSeen' = [t \in Topics |-> Silence(t)]
    /\ alerted' = Standing \cup Found
    /\ queue' = Published(Tail(queue), IF Found = {} THEN <<>> ELSE <<"anomaly">>)
    /\ heard' = heard \ {t \in Found : quiet[t] > 1}
    /\ UNCHANGED <<graph, monitorVars, pollDue, rateDue, prompt, quiet, regular>>

-----------------------------------------------------------------------------
Next ==
    \/ GraphChange
    \/ \E t \in Topics : OnMessage(t)
    \/ Tick
    \/ PollGraph
    \/ PollFails
    \/ EmitFrequencies
    \/ SkipAnomaly
    \/ Check

Spec == Init /\ [][Next]_vars

\* Time passes, due timers run, the engine drains its queue, and the graph
\* snapshot does not fail for ever.  Nodes and publishers owe nothing.
FairSpec ==
    /\ Spec
    /\ WF_vars(Tick)
    /\ WF_vars(EmitFrequencies)
    /\ WF_vars(SkipAnomaly \/ Check)
    /\ WF_vars(PollGraph \/ PollFails) /\ SF_vars(PollGraph)

-----------------------------------------------------------------------------
\* The step publishes an anomaly about t.
Alarms(t) == Check /\ t \in Found

\* The tracker reports rates only for topics the monitor is subscribed to:
\* once a topic is pruned, no later timer callback reports it, however its
\* leaving, its messages and its coming back interleave (monitor.py, the
\* comment in _poll_graph).
RatesOnlyForSubscribed == \A t \in Topics : window[t] # NoArrivals => t \in subs

\* With threads that keep up, a topic heard at least every Gap ticks for the
\* last Horizon ticks is never declared dead (dead_topic.py, check), as long
\* as the window holds two such gaps, the timeout one, Horizon is longer than
\* the two, and the queue takes what a tick publishes.
RegularTopicNeverAlarmed ==
    [][\A t \in Topics : prompt /\ Alarms(t) => regular[t] < Horizon]_vars

\* "Only one anomaly event is emitted per topic until that topic becomes
\* active again": with threads that keep up, two alarms about it have a
\* message of the topic between them, at the earliest the tick before the
\* first, whose report the detector had not yet seen (dead_topic.py, check).
OneAlarmPerOutage ==
    [][\A t \in Topics : prompt /\ Alarms(t) => t \in heard]_vars

\* A topic the detector tracks is heard again or declared dead, also when
\* the engine lags, events are dropped, other topics die with it, or the
\* topic has left the graph (dead_topic.py, check; engine.py, run).
SilentTopicAlarmed ==
    \A t \in Topics : t \in Range(tracked) ~> (t \in alerted \/ quiet[t] = 0)

\* With threads that keep up, a topic that has again been heard at least
\* every Gap ticks for Horizon ticks has its alert lifted by the time the
\* tick's work is done (dead_topic.py, check), on the terms of
\* RegularTopicNeverAlarmed.
RecoveredTopicCleared ==
    \A t \in Topics :
        prompt /\ regular[t] = Horizon /\ ~pollDue /\ ~rateDue /\ queue = <<>>
            => t \notin alerted

=============================================================================
