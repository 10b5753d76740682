# BlackBoxRS in TLA+

BlackBoxRS is a flight recorder for ROS 2 robots: monitors publish events on an
in-process bus, detectors turn some of them into anomalies, a pipeline writes
everything to rotating JSONL files, and an anomaly may start a rosbag capture.
Afterwards an incident is built from the log into an evidence bundle, which ranks
likely causes and recommends a rule, and preflight runs check such rules. These
modules model it from the threads that record to the gate that blocks; TLC checks
them on small instances, and TLAPS proves all their safety properties but one, which is
violated, for every instance.

`PROJECT.json` lists components, runs, mutants, findings, hazards and theorems,
and maps every definition to the lines of code it models. Paths below are
relative to the repository.

## The system

| Component | State | Operations | Talks to |
|---|---|---|---|
| event bus (`core/event_bus.py`) | subscriber lists, bounded queues, drop counters | subscribe, unsubscribe, publish, dropped_count | every other component, from any thread |
| anomaly engine, detectors, loader (`anomaly_engine/`) | queue, per-topic baselines, violation counters, alerted sets | start, stop, run loop, check(event) per detector | bus: all events in, anomalies out |
| rosbag2 recorder (`recording/rosbag2.py`) | active capture, quota, cooldown, skip flags | start, stop, run loop, triggers | bus: anomalies in, life-cycle events out; `ros2 bag record` by signals |
| logging pipeline, writer (`logging/`) | current file and size, directory | write, rotate, prune, expire, close | bus: all events in; the log directory |
| reader, follower (`logging/reader.py`, `cli/app.py`) | open file, position | read_all, tail, logs --follow | the log directory, from another process |
| daemon (`cli/daemon.py`, `cli/app.py`) | components, PID file, signal handlers | start, stop, status | components by calls, other processes by PID file and SIGTERM |
| ROS monitor, TF snapshotter (`ros_monitor/`) | subscriptions, frequency windows, edge table | poll, callbacks, timers | rclpy; bus |
| system monitor (`system_monitor/`) | collectors, clock node, process cache | rounds of its thread, stop | psutil, chrony, nvidia-smi; bus |
| prometheus exporter (`metrics/`) | gauges | run loop | bus; HTTP |
| snapshots, timeline, fingerprint, diff, ranking (`core/snapshots.py`, `incident/`) | none: functions of a slice of the log | project, reconstruct, compute, rank | log directory |
| incident builder, recurrence (`incident/`, `core/signatures/`) | bundle directories | build, write, look up earlier bundles | log, bundles of other builds |
| preflight and adoption (`prevention/`, `cli/incident_cmd.py`) | rule files | adopt, run, exit code | bundles, ROS graph |
| bag replay (`recording/bag_replay.py`) | virtual clock | replay | detectors |

What is hard here:

- *Interleaving.* The bus is used by every thread and holds its lock only to copy
  lists and to count. The recorder shares unlocked state between its thread and
  the thread that calls `stop()`. All `stop()` methods join with a time limit and
  then tear down what the thread may still be using.
- *Files and other processes.* A follower reads a directory another process
  rotates and prunes. Any number of commands read, check and remove one PID file.
  Any number of builds write, read and rewrite bundles.
- *Crashes.* The daemon may die between any two file operations; the next start
  continues in the same directory, with PIDs that may have been reused.
- *Partial failure.* A detector, a collector, a query or a check may raise, and
  the others must not suffer.
- *Time.* Stamps come late, reordered and across a clock set back; clocks are
  read one after the other; windows, timeouts and periods interact.
- *Bounds.* Queues, log files, file sizes, captures, retries and scores are all
  limited.

What makes each part correct: the bus loses nothing uncounted and keeps the
order of a publisher; the recorder runs one capture at a time, within its quota,
and ends it; the log is always its newest end, in order, within its limits; a
follower prints in order and does not get stuck; commands never signal or
mistake a foreign process; a stopped daemon ends; an alarm means what its
configuration says and an outage does not go without one; a bundle that is
announced is whole, and says the same of the same failure; a recurrence is found;
what was learned from an incident blocks its return.

## Modules

### Event bus: `Subscription`, `EventBus`, `EventBusRefinement`

`EventBus` has one action per locked section or queue operation. `Publish` is
the locked copy of the target queues; the loop that follows is `Deliver`
(`put_nowait` succeeds), `Refuse` (it raises `Full`) and `RecordDrop` (the locked
`_record_drop`), and everything else may come between them. `home`/`listed` stand
for the two subscriber tables: a queue object is made by one `subscribe` and is
in at most one list. `dropped` is a function whose domain is the key set of
`_dropped_counts`. `offered` and `accepted` are histories. `publish()` walks its
targets in registration order; the model takes any order, which allows more.
Callers name `unsubscribe` the channel they subscribed with, as all callers in
the repository do.

`Subscription` is what one subscriber is promised: events are offered once each
while the subscription is open, and each is put into the box or, if the box was
full, counted. `EventBusRefinement` maps the bus, seen from one queue, to it:
the phase from `home` and `listed`, the counter through `dropped_count()`.

### Recorder: `Rosbag2Recorder`

Two threads, `worker` (`run`) and `stopper` (the caller of `stop()`), each with a
`pc`. Each read or write of `_active`, each `poll`, `wait`, signal and event is a
step of its own where the other thread could tell. `_stop_active_recording` and
`_finish_recording` are modelled once and run by both. Captures are
`none`, `alive`, `zombie` (exited, not collected) or `reaped`: `poll` and `wait`
collect, and `killpg` of a collected process raises `OSError`. Time is
`overdue` (past `stop_deadline`), `cooling` (before `_cooldown_until`), and a wait
with a timeout that may see the exit or time out. The published events are not
kept except the final one of each capture (`ended`).

### Log: `RotatingLog`, `LogTail`

`RotatingLog` splits `write()` at its file operations: `Write` (the decision, and
`close()` of a rotation), `OpenNew`, `Retain` and `Unlink` one file at a time,
`Expire`, `AppendLine`. A crash may come between any two, and may leave a torn
line; opening, unlinking and appending may fail (`MaxFaults` failures).
`Close` is `LoggingPipeline.stop`, whose join may time out in any of these
steps. A file is its creation number; its name is the pair of creation time and
collision suffix, compared like the strings. Assumed: the wall clock is not set
back, and a file is not deleted within the microsecond in which it was created
(else a name would be used twice). `Expired` files may go in any order because
`glob()` gives them in any order, and may stay because `stat` or `unlink` fails.

`LogTail` adds a follower in another process: `_iter_tail_events` with a step at
each `readline`, directory listing and `open`. An unlinked file stays readable
for a process that has it open. It is checked with `MaxAge = 0`, the default:
with expiry on, an expired newest file can be removed before older ones by the
next start, and the follower would go back to an older file.

### Daemon: `DaemonLifecycle`

Processes are numbered in the order they start; the number is the start time
`/proc/<pid>/stat` shows. Commands (`start`, `stop`, `status`) run `is_running()`
step by step: read the file, `kill(pid, 0)`, start time, command line, and clean
up; `Kill0Denied` is a process of another user, whose file stays. A `start` (a
process with `--foreground`) that finds nothing becomes the daemon: starts its components,
writes the file, installs handlers, waits; SIGTERM runs `stop()`, possibly inside
another `stop()`. A `launch` is `start` without `--foreground`: it asks once, spawns a
`start` (`Spawn`, `SpawnFails`), and then asks again and again (`Poll`) until the answer is yes
or its 5 s are over (`GiveUp`, which may happen at any of the polls, as nothing bounds
the time the daemon needs). Daemons crash and foreign processes end anywhere, and PIDs
are reused. Commands overlap freely. The history `orderly` remembers whether each command was
typed when no other was running, whether a launch gave up on a living daemon not in the file,
and whether a `stop()` was nested in another. Assumed: no PID is
reused while a command is checking it.

### Topic watch: `TopicWatch`

The monitor, the frequency tracker, the engine's queue and the dead-topic
detector together, because what one calls silence depends on all of them. A tick
is the period of the monitor's timers (`pollDue`, `rateDue`); times are ages in
ticks. `OnMessage`, `PollGraph`, `PollFails` and `EmitFrequencies` are the
callbacks of the one executor thread, each atomic to the others; `Check` and
`SkipAnomaly` are one turn of the engine's loop, with the dead-topic detector only.
Of a topic's deque `window` keeps the two latest arrivals, which is what decides
whether there is a rate; `tracked` is the insertion order of `_last_seen`, and
`Found` the first topic in it that is dead. `prompt` behaviours finish a tick's work within the tick; in the
others the executor and the engine lag without bound. In the code the
queue holds at least 4096 events; here it is small so that it overflows. An event
other than a frequency report or an anomaly is `other`. A subscription that
cannot be made is tried again at the next poll. Assumed: the wall clock
the detector subtracts runs evenly. `start()` and `stop()` are not part of it.

### Anomaly engine: `AnomalyEngine`

The engine's thread with `start()` and `stop()`, its queue (a full one drops), and
the loop that shows one event to every detector. `Handle` is one turn of it, all
detectors included, as nothing else touches their state. The four detectors that
count share their shape, so `Verdict` and `Key` say how each judges an event and
which counter it moves, and `Counted` is the common rule: a healthy reading
resets its own topic or metric, but in clock skew and process signals a healthy
*snapshot* resets everything and a bad one moves only the worst: `AlarmIffRepeated` states
what follows for these two. A built-in
detector looks at one type of event, so a behaviour has one producer (`feed`) and the
event's type is `kind`. Baselines are sums, and comparisons are multiplied out, so
that all numbers are integers. Custom detectors answer every event (`echo`) or
raise; `Loads` says which configured entries the loader keeps.

### TF tree: `TfWatch`

The snapshotter's edge table and the topology detector, whose input is the
table's snapshot. `Receive` is one transform of a message (a callback handles
several, one after the other), `EmitSnapshot` is the timer: garbage collection,
snapshot, check. The stamp of a transform may be late or ahead, and `Rewind` sets
the node's clock back, as a simulation that restarts does. The detector names one
problem per snapshot, of the first kind there is in a fixed order; `table` does not
keep the order of the dict, so of several stale edges it may name any. The timer is
on time (`due`), and transforms come between its firings.

### System monitor: `SystemMonitor`

One round of the thread is `Collect` (the stateless collectors, each of which
answers, has nothing or raises), `Publish`, `ClockTick` and `ProcessTick`, then `Wait`.
`stop()` may come at any of them, and its join may time out while a round works,
not while it waits, since the stop event ends the wait. A clock is
its offset from the system clock; a tool that takes
`d` gives a reading dated `d` later, which is what the sampling budget is there for. `Budget`
is a constant of its own, since the monitor takes half of the *default* `max_skew_sec`. Of
a process only whether its CPU reading is measured, zero or impossible is kept. In `Wait`
a process may end and another take its PID; psutil before 6.0 looks for that
(`rechecks`), and later versions hand out the reading of the process before.

### Incident: `IncidentAnalysis`, `CauseRanking`, `IncidentBuilder`

`IncidentAnalysis` holds what is computed from the events of a window:
snapshot times and the topics of each snapshot, silence intervals, graph
deltas, resource excursions, and the timeline's rows. `CauseRanking` holds the
fingerprint, the diff of signatures and the ranking with every score of
`cause.py`; a score is an integer, hundredths times `Unit`, so that linear decay
and the factors 0.55 and 1.5 stay whole, and the confidence is rounded as the code
rounds it. Both are operators without state. They are written to be reasoned about:
a snapshot is named by the number of its time, a slice of the log and a ranking give
the n-th place to the element with n others up to it, which is what the code's
filters and its stable sort do, and a sum is a recursive function (`SumOf`).
`IncidentBuilder` assumes of its logs what the schema of an event says: integer
stamps, and alarms of the four severities the ranking knows.

`IncidentBuilder` is `build()` as a process: `Begin` (read the log, collect the
signatures, compute), `Scan` and `LoadBaseline` (the earlier bundle to diff with),
`RankCauses` (with the recurrence lookup), then for each file `Open`, which truncates,
and `Fill`. The content of a file is the number of the build that wrote it. Two
builds may run side by side, also of one bundle, and write over each other; each may
die anywhere; the log may lose its oldest events and the robot may be upgraded
between. Left out are the files only the report reads (`events.jsonl`,
`snapshots.json`, `diff.json`, `timeline.json`); the ones kept are in the order of
`build()`. A scan of the incidents directory is one step.

### Gate: `Preflight`, `Prevention`

`Preflight` holds the seven checks as operators on a robot (what the graph,
the environment and the host would answer), the runner that turns their outcomes
into results, the exit code and the loading of rules. `Prevention` composes it with
`IncidentBuilder`: `Adopt` is `prevention adopt`, which reads two files of a
bundle, takes the top hypothesis and writes a rule. `from` in a rule is a history:
the build that wrote the incident it was adopted from; handwritten rules have none.
A run is one step.

## Runs

| Run | Instance | Shows |
|---|---|---|
| `event_bus` | 2 queues of capacity 1, 2 publishers with 2 events, 2 channels and the global one; symmetry in queues, publishers and channels | `EveryMissCounted`, `PublisherOrder`, `NoCounterResurrected`, and that each queue implements `Subscription` |
| `recorder` | 3 possible captures, quota 2 | `OneCaptureAtATime`, `QuotaKept`, `EndReportedOnce`, `WorkerSurvives`, `StopEndsCapture`, `CaptureIsBounded`, `StopReturns` |
| `recorder_orphan` | the same | finding: `stop()` can leave a capture running for ever |
| `rotating_log` | files of 2 units, lines of 1 and 3, 2 files, expiry after 1, 4 events, 3 clock ticks, 2 starts, 1 failure | `OldestGoFirst`, `ReadAllInOrder`, `CurrentIsNewest`, `LimitsKept` (file sizes, and the number of files after a rotation) |
| `log_tail` | files of 1 line, 1 file, 3 events, 2 starts, no failures | `TailInOrder`, `TailCatchesUp` |
| `daemon` | 4 processes ever, 3 PIDs | `StopIsSafe` (a verdict is about a daemon, and only daemons are signalled), `SerialUserServed` (one daemon, and it is found, while `orderly`), `StopIsObeyed` |
| `topic_watch` | 2 topics (symmetric), window and timeout 2 ticks, queue of 5, threads that keep up | `RatesOnlyForSubscribed`, `RegularTopicNeverAlarmed` (a message every tick for 3 ticks), `OneAlarmPerOutage`, `RecoveredTopicCleared` |
| `topic_watch_live` | 2 topics, window and timeout 1, queue of 3; 1 topic when the threads lag | `SilentTopicAlarmed` |
| `anomaly_engine` | one of 5 feeds per behaviour, 5 events, queue of 2, 2 samples to learn, 2 violations to an alarm, tolerance 25 %, 8 custom entries | `AlarmsSustained` (exactly when a detector alarms), `SteadyTopicNeverAlarmed`, `ShownOnceToEach` |
| `tf_watch` | 2 edges that give a frame two parents, with or without expected frames, stamps up to 2 late and 1 ahead, timeout 1, garbage after 2, 4 units of time, 1 clock set back | `AlarmsRestOnAges`, `NoEdgeLost` |
| `system_monitor` | 2 rounds, 2 processes with room for 1, tools that take 0 or the whole budget, every pair of NTP tool outputs | `SkewNotInvented`, `RoundIsSound`, `SilentAfterStop` |
| `incident` | every part of a log of 7 events, a noisy log, and a log with one outage twice, which 3 builds (2 at a time, 1 fault) of 3 windows contend for; 2 uses of the gate, 7 robots, 8 rules | `AnnouncedIsWhole`, `OnlyThePast`, `EarlierTwinIsFound`, `SameFailureSameFingerprint`, `NoiseNeverOutranksQos`, `AdoptedRuleBlocks` |

Why these bounds suffice. *Bus*: capacity 1 with 2 publishers makes every queue
both full and empty during a publish; 2 events per publisher are the least that
can be put in the wrong order. *Recorder*: quota 2 with a spare capture shows both
the second admission and the refused third; the two threads are all there are.
*Log*: 4 events with files of 2 units rotate three times, so retention works with an
excess file, and a line longer than a file occurs; 2 starts give a crash at every
step and everything a restart can find; several files share one clock tick.
*Follower*: one line per file rotates at each event, the worst case for a reader.
*Daemon*: 4 processes are a launch, its daemon, and two that interfere: another launch,
a command, a second daemon or a foreign process; 3 PIDs force reuse. *Topic watch*: the detector handles one topic per
event, so two dead topics contend; a window of 2 ticks is the least in which a
message every tick always gives a rate (with a gap as long as the window,
reports and messages that miss each other make a false alarm); 5 is the most
one tick puts in the queue of two topics, and 3 overflows. *Engine*: 5 events are two to
learn, two to alarm and one that interrupts; two offenders with 2 violations each
take turns; echoes fill the queue of 2. *TF*: a stamp that is late by the
garbage age, an edge that goes stale and is dropped, and one heard again after the clock was set
back all fit in 4 units. *System monitor*: 2 rounds are what a second CPU
reading and a restarted process need, and the first in which a late stop still
finds a thread. *Incident*: the parts of the busy log have every kind of row with
and without the others; 3 builds are an earlier bundle, its twin and a rebuild of
either; two at a time is what contention for one bundle takes. There the log, the
builds and the gate are not all varied at once: the gate is used with the logs in
`Adoptable` and between builds, and faults with the log in `Contended`.

Every property has a mutant of the modelled code that violates it
(`PROJECT.json`); the mutated operators stand beside the originals and are
marked as bugs. Deadlock is checked for `event_bus`, where a
consumer, a caller or a publisher can always move until every event is used up,
and for the topic watch, where time always passes; the other systems may rightly stop (the process has ended, or the bounds are used up).

### Fairness

- `Rosbag2Recorder.FairSpec`: both threads are scheduled, the duration of a
  capture elapses, and a process sent SIGKILL exits. Captures need not obey other
  signals and `stop()` need not be called.
- `LogTail.FairSpec`: the follower keeps polling. The writer may stop anywhere.
- `TopicWatch.FairSpec`: time passes, timers that are due run, the engine drains
  its queue, and graph snapshots do not fail for ever (the detector only acts on
  events, and `ros.topology` is the one that comes when all topics are silent).
  Nodes and publishers owe nothing.
- `DaemonLifecycle.FairSpec`: a daemon's own steps are taken. No command need be
  issued.

The engine, the TF tree, the system monitor and the incident builder are checked
for safety only: their loops do not wait for each other.

## Proofs

Each proof module extends the module it is about. Where a property is not
inductive, which is nearly always, its module defines the inductive invariant by
named parts, each with a comment that says what it is for, and has a lemma for
each action or each part. All of these were checked by TLC before they were
proved.

| Module | Theorems | For all |
|---|---|---|
| `EventBusProofs` | `TypeCorrect`, `MissesAreCounted`, `OrderIsKept`, `CountersStayGone`, `ImplementsSubscription` | finite sets of publishers, queues, channels, capacities |
| `Rosbag2RecorderProofs` | `TypeCorrect`, `OneCaptureRuns`, `QuotaIsKept`, `EndsAreReportedOnce`, `WorkerOutlivesCaptures`, `StopEndsItsCapture` | captures, quotas |
| `LogProofs` | `TypeCorrect`, `RetentionTakesTheOldest`, `LimitsAreKept`, `ReadersFindTheCurrent`, `EventsAreReadInOrder`, `FollowerKeepsTheOrder` | limits, line lengths, numbers of events, starts and failures |
| `DaemonLifecycleProofs` | `TypeCorrect`, `StopHitsTheDaemon`, `SerialUserIsServed` | numbers of processes, PIDs |
| `RosMonitorProofs` | `RatesNeedSubscription`, `RegularTopicsAreNotAlarmed`, `OutagesAreAlarmedOnce`, `RecoveredTopicsAreCleared`; `TreeAlarmsRestOnAges`, `EdgesAreNotLost` | topics, windows, timeouts, queues; edges, frames, lateness of stamps |
| `AnomalyEngineProofs` | `AlarmsAreSustained`, `SteadyTopics`, `EventsAreShownOnce` | payloads, thresholds, tolerances, detector entries, numbers of events |
| `SystemMonitorProofs` | `SkewIsNotInvented`, `RoundsAreSound`, `SilenceAfterStop` | tools, delays, processes, budgets |
| `PreventionProofs` | `AnnouncedBundlesAreWhole`, `RankingsLookBack`, `EarlierTwinsAreFound`, `NoiseIsOutranked`, `FingerprintsAgree`, `AdoptedRulesBlock` | logs, windows, robots, rules, numbers of builds and faults |

*Event bus.* `EveryMissCounted` counts the publishers on their way to a queue, so a
step of a publisher must change that number by exactly one: this needs that a
publisher is not both about to visit a queue and about to count its drop
(`FullIsVisited`), and that a queue nobody has made yet is unknown to everyone
(`FreshIsUnknown`), or `Subscribe` would start its counter at 0 with events behind
it. `PublisherOrder` needs that the event being delivered is newer than all of its
publisher's events in the queues still to visit (`CurrentNotAccepted`). The
refinement maps `Subscribe` to opening, `Unsubscribe` to closing, `Publish` to
offering, `Deliver`, `Refuse`, `RecordDrop` and `Get` to accepting, refusing, counting
and taking, and each is a stutter for the other queues. It rests on
`ListedKeepCounter`, which would not hold for callers that unsubscribe another channel.

*Recorder.* Without a lock, all depends on where the worker can still be once
`stop()` runs. A capture that is alive is registered, or the worker is about to
register it, or it is the worker's last (`AliveIsKnown`); the worker is alone
between admitting a trigger and registering its capture (`AdmittedAlone`); and when
`stop()` has ended a capture, none but the worker's last can be registered
(`StopperEnds`). A failed spawn costs nothing of the quota: it is only reported as reached
when as many captures exist (`QuotaUsedUp`). The last case is the one `recorder_orphan` exhibits, so the
invariant is as strong as the code allows.

*Log.* Names sort like the order of creation because the suffixes of one
instant have no gap over all files ever made (`NoGaps`), deleted ones included: as a
file outlives the instant it was created in, the first free suffix is the next. The
directory's contents enter through `DoomedAreOldest` and `DoomedAreEnough`, which hold
at each unlink of a cleanup, so a crash may end it anywhere. The size of a file is the number of its `Bytes`; the
counter agrees with it since a line in hand fits or is the first
(`InHandFits`), also when `close()` or a failure comes between rotation and append.
`FollowerKeepsTheOrder` has the hypothesis `MaxAge = 0`, the default, for the reason
given under *Log*: all lines ahead of the follower are later than what it printed
(`TailInv`), and the last file stays.

*Daemon.* A verdict rests on the start time: what a command has read names a
process that wrote the file (`NamesAreWriters`), and once the start time was
compared no other process can have the PID (`StatHolds`). `SerialUserServed` has to
get through the time in which a launch polls beside a daemon that is not in the file yet,
and both may find a stale file. At most one command and one daemon are there
(`OneCommand`, `OneStart`); the file names the daemon, unless the launch that spawned it is
still there (`FileIsOurs`); that launch and its daemon may be between the same steps, but
neither removes a file the daemon has written (`ReadersKeep`), and any other command gets
every answer right (`CommandFinds`). `orderly` says when the theorem applies, and its three conditions
are not for convenience: without any one of them there are two daemons, or one nobody finds
(see *Findings*).

*ROS monitor.* What the dead-topic detector does in time has two hypotheses.
`RegularIsHeard`: a topic counts as regular when its gaps fit twice into the
tracker's window and once into the timeout, and it was so for longer than two gaps.
`QueueHolds`: the queue takes what one tick can publish, `1 + 2 * |Topics|` events,
which 4096 places do for 2047 topics. Both hold in the run. `PromptInv` follows
a topic through the tick: what was heard is in the window (`Recent`), what has a
rate is reported and the report clears it (`Reported`, `Cleared`), and what was not heard
since its alarm has no rate, no report and keeps its alert (`Unheard`). The two
theorems about the TF tree assume that edges are kept for a period longer than it
takes them to become stale, `StaleTimeout + Period <= GcAge` (5 s, 1 s and 60 s by default); otherwise an edge can be
dropped between two snapshots without having been stale in one. `UntoldIsRecent`
says how old an edge can be that nobody was told about.

*Engine.* `AlarmInv` says of each key that its counter is the length of the run of
violations that ends the log (`CountIsRun`), and of each event that it was
alarmed exactly when that length reached the limit (`AlarmIsRun`); for pairs and
processes it is the number of violations of the same key since a healthy snapshot, which need
not be a run. What a
detector learned is the sum of the first readings (`LearnsTheFirst`); sums are
defined by recursion, and what they compute is proved by the smallest counterexample,
which needs no induction theorem. Assumed of the configuration: custom entries are
not named like a built-in detector, and an event's kind is that of its feed.

*System monitor.* A published clock was read within the window, and the window is within
the budget (`SkewIsNotInvented`). Psutil has no reading but of the process itself
(`OwnReadings`) if it looks for reused PIDs. `StopOrder` (nobody clears the stop event, and `stop()` goes on
only after the thread ended or its own patience did) and `RoundSoFar` (published
and pending events of a round are the collectors with data).

*Incidents.* `InOrder` says which files of a bundle are there when one build alone
has written it, at each step it can die in; `KnowsThePast` that all a build has read
of other bundles is by builds of the past, however many write into one bundle.
What a build concludes is a function of its slice of the log, and `Made` keeps that
true of every build; the rest is about the functions. *Ranking*: rows of a timeline
are finitely many (`TimelineIsFinite`), a sum of their relevances is a natural number
(`SumOfNat`), the cap bounds it by 30, and the scores of a metric alarm add up to at most 80
where a QoS mismatch starts at 85, both plus the bonus for severity (`Scores`); as the
ranking is sorted (`Ranked`), only a higher severity can turn that round. The order is
total because places in the log break the ties (`BeforeIsOrder`). *Fingerprint*: the
n-th snapshot of a window that is moved is the n-th snapshot moved, with the same
topics (`ShiftedTimes`, `ShiftedTopics`), so nothing in it depends on when the window
starts (`ShiftedFingerprint`). *Gate*: `RulesTraced` says of every
adopted rule that it blocks and, when one build alone wrote its bundle, that it asks
for a topic of one of that build's alarms or the build had an alarm that is not a dead topic.
With two builds of one bundle that fails: the rule is read from two files that
may not belong together.

The constants are assumed as the modules' `ASSUME`s say, which TLC evaluates in each
run: numbers are numbers, there is a PID, `Absent` and `Torn` are no builds, topic
names differ from the other events of the queue.

### Only model-checked

- Liveness (`CaptureIsBounded`, `StopReturns`, `TailCatchesUp`, `StopIsObeyed`,
  `SilentTopicAlarmed`): fairness and ENABLED are beyond the prover.
- `NoCaptureLeftBehind`, which is violated.
- That the operators of `CauseRanking` and `IncidentAnalysis` compute what the code
  does beyond what their three properties say of them.

## Findings

`Rosbag2Recorder.stop` looks for an active capture once; one the worker is about
to register is never stopped, and has a session of its own, so it outlives the
daemon (`recording/rosbag2.py:122`). `recorder_orphan` shows it.

Met on the way, without a run. Recording:

- `max_files` is only enforced by a rotation, so frequent restarts exceed it
  (`logging/writer.py:158`, against `:46-47`).
- `logs --follow` leaves a file after it has seen its end once and a newer file
  later, and misses what was appended in between (`cli/app.py:758`, against
  `:719-720`).
- `start` gives up on its daemon after 5 s and exits with 1, and the daemon starts all the
  same (`cli/app.py:142-162`). A user who then types `start` again gets a second one, and
  "the CLI can discover and manage" (`cli/daemon.py:124-125`) only the one that wrote the file
  last; a test says "A second `start` while the daemon is up must refuse, not
  double-spawn" (`tests/integration/test_cli_subprocess.py:364-365`). Two overlapping starts
  do the same without any delay, as each asks before the other writes (`cli/app.py:86`).
  `SerialUserServed` is `OneDaemon` and `DaemonIsFound` under `orderly`, which excludes
  both; without it TLC finds the second daemon.
- A second SIGTERM that comes before `stop()` has cleared `_running` runs it twice, and the second
  of the two removes whatever PID file is there by then, a new daemon's too
  (`cli/daemon.py:261-277`).
- Where `stop()` and the worker meet in `_finish_recording`, the final event of a capture may be
  missing, published twice, or about another capture (`recording/rosbag2.py:325-358`).
  `EndReportedOnce` therefore ends with the call of `stop()`.
- A line whose `write` or `flush` failed may still be in the buffer and reach the file later;
  it is not counted, so the file may outgrow `max_file_mb` (`logging/writer.py:102-104`).
  `ReadAllInOrder` covers such lines, `LimitsKept` leaves them out.
- `unsubscribe` with a channel other than the queue's removes its drop counter
  while the queue stays subscribed (`core/event_bus.py:110,130`); no caller does it.
- `docs/ARCHITECTURE.md:140` says there is no time-based retention, while the writer
  has `max_age_hours`; `README.md:170` gives all seven detectors a
  `min_consecutive_samples`, which three of them do not have.

Detection:

- The clock-skew and process detectors promise an alarm "only ... after
  `min_consecutive_samples` consecutive violating snapshots for the same worst pair"
  (`anomaly_engine/detectors/clock_skew.py:54-56`; for processes `process_signals.py:63-66`). In
  the code a bad snapshot moves the counter of its worst pair or process and leaves the
  others alone: with a limit of 2, A is alarmed at the end of A, B, A, although its
  violations were not consecutive and it may have been healthy under B.
  `AlarmIffRepeated` states what the code does.
- The window in which clocks are read may take "half of max_skew_sec"
  (`system_monitor/collectors/clock.py:275`, `:396`), "from the anomaly detector config"
  (`system_monitor/monitor.py:117`), which is a default `ClockSkewConfig()`, not the one that was
  configured (`monitor.py:122`). With a configured `max_skew_sec` below half of the default, a
  slow tool makes clocks that agree look skewed. `SkewNotInvented` bounds what is published by
  the budget, not by the tolerance.
- With psutil 6.0 or later, which `pyproject.toml:38` allows, `process_iter` no longer looks for
  reused PIDs, and the first CPU reading of a process that took over a tracked PID is measured
  against the one before it. `OnlyMeasuredProcesses` is about older versions.
- A round that outlasts the join of `stop()` goes on with collectors that were closed, and
  may make a ROS node that nobody destroys (`system_monitor/monitor.py:222-232`).
  `SilentAfterStop` says that this takes a join that timed out, and ends with the round.
- The dead-topic detector needs two messages within the monitor's fixed 5 s
  window to see a topic alive (`ros_monitor/frequency_tracker.py:25`); with a longer
  `timeout_sec`, slower topics are declared dead while they publish
  (`anomaly_engine/detectors/dead_topic.py:80`). `RegularTopicNeverAlarmed` has a timeout
  no longer than the window.
- The last `/clock` stamp is kept for ever and compared as if it were new
  (`system_monitor/collectors/clock.py:381`). `SkewNotInvented` is about the system clock
  and NTP peers.
- A process that used no CPU is not reported, whatever its memory
  (`system_monitor/collectors/process.py:99`).
- A TF frame with several parents masks stale edges until they are collected,
  as the detector names one problem at a time (`NoEdgeLost` takes any alarm of that
  snapshot); a dynamic transform that overwrites
  a static edge makes it one that can be collected.

Incidents and gate:

- The fingerprint keeps one entry per trigger, so the same failure with one
  alarm more has another id, although "two bundles whose triggers fire on the same
  detector classes against the same subsystems and topologies collide"
  (`incident/fingerprint.py:3-6`). `SameFailureSameFingerprint` has the same events.
- A check that ends in an error or is skipped leaves the exit code 0, which
  `prevention/runner.py:6` and `prevention/rules.py:96` call "all checks pass".
  `AdoptedRuleBlocks` is about runs that can look at the graph.
- `prevention adopt` makes the rule about the first trigger of the top
  hypothesis's detector, not about that hypothesis (`cli/incident_cmd.py:353`).
  `AdoptedRuleBlocks` is about incidents of one topic, and bundles of one build:
  `adopt` reads `triggers.json` after `incident.json`, and another build may have
  replaced it.
- Nothing publishes `"ros.graph"` (`core/snapshots.py:154`), so snapshots have no
  nodes. The first snapshots of a window show topics as appearing, and count as
  precursors.
- Two builds that rewrite one bundle at the same time may leave files of both,
  and `render()` may raise on a file the other has just truncated.
- A version query that fails appears as a change in the diff.
- Times are integers here, so what rounding does to an event that falls on a snapshot's time
  is not covered by `SameFailureSameFingerprint`.

## Not modelled, and the plan

Not modelled, because there is no state to get wrong or because it is I/O or
text: what the stateless collectors, the signature collectors and the ROS
introspection read; the prometheus exporter, whose gauges nothing reads back;
configuration, session and schemas, immutable once loaded; the text of reports,
summaries and terminal output; the Python API over bundles; the measurement
scripts. Bag replay is one thread that feeds a bag to what is modelled here. The
reader's `tail(n)`, `RosMonitor.start()` and `stop()` beyond the TF snapshotter, and the
session metadata the pipeline adds to events are not modelled.

Every safety property of the passing runs is proved. Next for proofs would be the
log as the refinement of an abstract one that only forgets its oldest lines, of which
`OldestGoFirst`, `CurrentIsNewest` and `ReadAllInOrder` are the steps.
