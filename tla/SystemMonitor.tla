--------------------------- MODULE SystemMonitor ---------------------------
(***************************************************************************)
(* The system monitor (blackboxrs/system_monitor/monitor.py): a thread     *)
(* that asks the host's collectors, the clock collector and the process    *)
(* collector in turn and publishes what they give, and stop(), which       *)
(* closes the collectors when the thread has ended or its patience has.    *)
(*                                                                         *)
(* A collector may raise, return nothing or take its time.  Clocks are     *)
(* read one after the other while time passes; the kernel's CPU usage of a *)
(* process needs two readings; processes come and go.                      *)
(***************************************************************************)
EXTENDS Integers, Sequences, SequencesExt, FiniteSets

CONSTANTS
    Backends,       \* values of gpu_backend to consider
    NtpTools,       \* values of ntp_tool to consider
    ChronycRuns,    \* what chronyc may print: sequences of [source, offset]
    NtpqRuns,       \* what ntpq may print: sequences of [marker, offset]
    Failed,         \* a tool that is missing, fails or times out
    Malformed,      \* an offset that is no number
    Durations,      \* how long a tool, or a spin of the ROS node, may take
    Budget,         \* _window_budget_sec: half of the default max_skew_sec, not of the
                    \* one configured for the detector
    Pids,           \* processes, numbered in the order of process_iter
    Tracked,        \* those whose command line matches a pattern
    MaxTracked,     \* max_tracked
    MaxTicks        \* bound: rounds of the thread

ASSUME MonitorAssumption ==
    /\ Budget \in Nat /\ MaxTracked \in Nat /\ MaxTicks \in Nat
    /\ Durations \subseteq Nat /\ Pids \subseteq Nat /\ Tracked \subseteq Pids
    /\ \A run \in ChronycRuns \ {Failed} : \A i \in DOMAIN run :
        run[i].offset = Malformed \/ run[i].offset \in Int
    /\ \A run \in NtpqRuns \ {Failed} : \A i \in DOMAIN run :
        run[i].offset = Malformed \/ run[i].offset \in Int

VARIABLES
    backend, tool, ros,     \* configuration and host: the GPU backend in use,
                            \* ntp_tool, whether rclpy can be used
    rechecks,   \* process_iter looks for reused PIDs: psutil does before 6.0
    running,    \* _running
    stopping,   \* _stop_event
    pc,         \* the thread: "new", "top", "publish", "clock", "process",
                \* "wait", "exited"
    stop,       \* stop(): "idle", "joining", "closing", "done"
    late,       \* history: the join timed out
    ticks,
    answers,    \* history: collector -> what collect() did in this round
    pending,    \* the collectors, by place, whose events of this round are
                \* still to be published
    node,       \* the clock collector's ROS node: "none", "subscribed"
    attempted,  \* _ros_sub_attempted
    rosAge,     \* age of _ros_clock_epoch, or -1 without one
    alive, primed,  \* processes there are, and those psutil has a reading for
    measured,   \* history: the reading is of the process itself
    out         \* history: events published since the stage of the round began

config == <<backend, tool, ros, rechecks>>
procs == <<alive, primed, measured>>
clocks == <<node, attempted, rosAge>>
vars == <<config, running, stopping, pc, stop, late, ticks, answers, pending,
          clocks, procs, out>>
-----------------------------------------------------------------------------
\* GpuCollector._resolve_backend: what was asked for, if it is there; "auto"
\* prefers the Jetson's.
Resolved(requested, jetson, smi) ==
    CASE requested \in {"tegrastats", "auto"} /\ jetson -> "tegrastats"
      [] requested \in {"nvidia-smi", "auto"} /\ smi
            /\ ~(requested = "auto" /\ jetson) -> "nvidia-smi"
      [] OTHER -> "none"

\* _init_collectors
Collectors == <<"cpu", "memory", "disk", "thermal">>
                \o IF backend = "none" THEN <<>> ELSE <<"gpu">>

\* A bug: one exception spoils the round.
HeardUntilError(a) ==
    IF \E c \in DOMAIN a : a[c] = "raises" THEN {}
    ELSE {i \in DOMAIN Collectors : a[Collectors[i]] \in {"dict", "list"}}

\* _collect_once: an exception and an empty result give no event.
Heard(a) == {i \in DOMAIN Collectors : a[Collectors[i]] \in {"dict", "list"}}
-----------------------------------------------------------------------------
(* Clocks, relative to the system clock at the start of the window.        *)

\* parse_chronyc_tracking: every peer with a readable offset (system - NTP).
Peers(run) ==
    {i \in DOMAIN run : run[i].source # "unsynchronised" /\ run[i].offset # Malformed}

\* parse_ntpq_peers: the last selected peer, else the first preferred one.
Marked(run, m) == {i \in DOMAIN run : run[i].marker = m /\ run[i].offset # Malformed}
Chosen(run) ==
    IF Marked(run, "*") # {} THEN {i \in Marked(run, "*") : \A j \in Marked(run, "*") : j <= i}
    ELSE {i \in Marked(run, "+") : \A j \in Marked(run, "+") : i <= j}

\* A clock that is offset from the system clock, read after d.  The system
\* clock is read first.
Clock(d, offset) == [time |-> d - offset, offset |-> offset]
System == Clock(0, 0)

\* A run of a tool that takes d: its peers are dated when it has ended.
Chronyc(run, d) == IF run = Failed THEN {} ELSE {Clock(d, run[i].offset) : i \in Peers(run)}
Ntpq(run, d) == IF run = Failed THEN {} ELSE {Clock(d, run[i].offset) : i \in Chosen(run)}

\* _read_ntp_sources: "auto" asks ntpq when chronyc has nothing.
Asks(c, d) == tool = "ntpq" \/ (tool = "auto" /\ Chronyc(c, d) = {})
NtpSources(c, d, n, d2) ==
    IF Asks(c, d) THEN Ntpq(n, IF tool = "auto" THEN d + d2 ELSE d2) ELSE Chronyc(c, d)
NtpTime(c, d, d2) ==
    (IF tool = "ntpq" THEN 0 ELSE d) + (IF Asks(c, d) THEN d2 ELSE 0)

\* A bug: the window is not looked at.
TooLongNever(window) == FALSE

\* tick(): readings taken too far apart are not compared.
TooLong(window) == window > Budget
-----------------------------------------------------------------------------
(* Processes.                                                              *)

\* _iter_matched_procs: the first max_tracked that match.
Matched(there) ==
    {p \in there \cap Tracked : Cardinality({q \in there \cap Tracked : q < p}) < MaxTracked}

\* cpu_percent: the first reading of a process is always 0.0 ("idle").
Percent(reading) ==
    [p \in DOMAIN reading |-> IF reading[p] = "busy" /\ p \notin primed THEN "idle" ELSE reading[p]]

\* proc_to_dict drops a process that cannot be read or used no CPU.
Reported(percent) == {p \in DOMAIN percent : percent[p] \notin {"gone", "idle"}}
-----------------------------------------------------------------------------
\* __init__, with the seeding of the process collector.
Init ==
    /\ \E requested \in Backends, jetson, smi \in BOOLEAN : backend = Resolved(requested, jetson, smi)
    /\ tool \in NtpTools
    /\ ros \in BOOLEAN /\ rechecks \in BOOLEAN
    /\ running = FALSE /\ stopping = FALSE
    /\ pc = "new" /\ stop = "idle" /\ late = FALSE /\ ticks = 0
    /\ answers = [c \in {} |-> "none"] /\ pending = {}
    /\ node = "none" /\ attempted = FALSE /\ rosAge = -1
    /\ alive \in SUBSET Pids
    /\ primed = Matched(alive) /\ measured = primed
    /\ out = {}

Start ==
    /\ pc = "new"
    /\ running' = TRUE /\ stopping' = FALSE /\ pc' = "top"
    /\ UNCHANGED <<config, stop, late, ticks, answers, pending, clocks, procs, out>>

\* The top of run(): the stop event, then _collect_once.
Exit ==
    /\ pc = "top" /\ stopping
    /\ pc' = "exited"
    /\ UNCHANGED <<config, running, stopping, stop, late, ticks, answers, pending, clocks,
                   procs, out>>

Collect ==
    /\ pc = "top" /\ ~stopping /\ ticks < MaxTicks
    /\ ticks' = ticks + 1
    /\ \E failing \in SUBSET ToSet(Collectors), how \in {"raises", "empty"} :
         answers' = [c \in ToSet(Collectors) |->
             IF c \in failing THEN how ELSE IF c = "thermal" THEN "list" ELSE "dict"]
    /\ pending' = Heard(answers')
    /\ out' = {}
    /\ pc' = "publish"
    /\ UNCHANGED <<config, running, stopping, stop, late, clocks, procs>>

\* In the order of the collectors.
Publish ==
    /\ pc = "publish"
    /\ \E i \in pending :
        /\ \A j \in pending : i <= j
        /\ pending' = pending \ {i}
        /\ out' = out \cup {[kind |-> Collectors[i]]}
    /\ UNCHANGED <<config, running, stopping, pc, stop, late, ticks, answers, clocks, procs>>

Published ==
    /\ pc = "publish" /\ pending = {}
    /\ pc' = "clock"
    /\ UNCHANGED <<config, running, stopping, stop, late, ticks, answers, pending, clocks,
                   procs, out>>

\* The first tick subscribes to /clock if it can; every tick looks once for a
\* message, and keeps the last stamp, however old.
RosSpin(heard) ==
    /\ attempted' = TRUE
    /\ node' = IF ~attempted /\ ros THEN "subscribed" ELSE node
    /\ rosAge' = IF node' = "subscribed" /\ heard THEN 0
                 ELSE IF rosAge = -1 THEN -1 ELSE 1

\* ClockSkewCollector.tick
ClockTick ==
    /\ pc = "clock"
    /\ pc' = "process"
    /\ \E c \in ChronycRuns, n \in NtpqRuns, d, d2, spin \in Durations, heard \in {ros, FALSE} :
         LET peers == NtpSources(c, d, n, d2)
             window == NtpTime(c, d, d2) + spin IN
         /\ RosSpin(heard)
         /\ out' = IF (peers = {} /\ rosAge' = -1) \/ TooLong(window) THEN {}
                   ELSE {[kind |-> "clock_skew", peers |-> peers, rosAge |-> rosAge']}
    /\ answers' = [c \in {} |-> "none"]
    /\ UNCHANGED <<config, running, stopping, stop, late, ticks, pending, procs>>

\* ProcessSignalsCollector.tick; psutil remembers each process it read.
ProcessTick ==
    /\ pc = "process"
    /\ pc' = "wait"
    /\ \E reading \in [Matched(alive) -> {"gone", "idle", "busy"}] :
         LET entries == Reported(Percent(reading)) IN
         /\ out' = IF entries = {} THEN {}
                   ELSE {[kind |-> "process_signals", processes |-> entries,
                          cold |-> entries \ measured]}
         /\ primed' = primed \cup {p \in Matched(alive) : reading[p] # "gone"}
         /\ measured' = measured \cup {p \in Matched(alive) : reading[p] # "gone"}
    /\ UNCHANGED <<config, running, stopping, stop, late, ticks, answers, pending, clocks, alive>>

\* The wait for the rest of the interval.  Processes come and go meanwhile,
\* also one after another with the same PID: psutil keeps the reading of the
\* one before unless it looks for that.
Wait ==
    /\ pc = "wait"
    /\ pc' = "top"
    /\ \E gone \in SUBSET alive, came \in SUBSET Pids :
         /\ came \cap alive \subseteq gone
         /\ Cardinality(gone \cup came) <= 1
         /\ alive' = (alive \ gone) \cup came
         /\ primed' = primed \ (IF rechecks THEN gone ELSE gone \ came)
         /\ measured' = measured \ gone
    /\ UNCHANGED <<config, running, stopping, stop, late, ticks, answers, pending, clocks, out>>

\* stop(), by the thread that stops the daemon.
StopCall ==
    /\ running
    /\ running' = FALSE /\ stopping' = TRUE /\ stop' = "joining"
    /\ UNCHANGED <<config, pc, late, ticks, answers, pending, clocks, procs, out>>

\* A bug: stop() does not wait for the thread.
JoinNever ==
    /\ stop = "joining"
    /\ stop' = "closing"
    /\ UNCHANGED <<config, running, stopping, pc, late, ticks, answers, pending, clocks,
                   procs, out>>

\* The join ends with the thread, or after interval_sec + 2 seconds: a round
\* that waits for nvidia-smi, chronyc and ntpq can take longer.
Join ==
    /\ stop = "joining" /\ pc = "exited"
    /\ stop' = "closing"
    /\ UNCHANGED <<config, running, stopping, pc, late, ticks, answers, pending, clocks,
                   procs, out>>

JoinTimesOut ==
    /\ stop = "joining" /\ pc \in {"publish", "clock", "process"}
    /\ stop' = "closing" /\ late' = TRUE
    /\ UNCHANGED <<config, running, stopping, pc, ticks, answers, pending, clocks,
                   procs, out>>

\* ClockSkewCollector.close: the node goes, the last stamp stays.
Close ==
    /\ stop = "closing"
    /\ stop' = "done"
    /\ node' = "none"
    /\ UNCHANGED <<config, running, stopping, pc, late, ticks, answers, pending, attempted,
                   rosAge, procs, out>>

Next ==
    \/ Start \/ Exit \/ Collect \/ Publish \/ Published \/ ClockTick \/ ProcessTick \/ Wait
    \/ StopCall \/ Join \/ JoinTimesOut \/ Close

Spec == Init /\ [][Next]_vars
-----------------------------------------------------------------------------
Distance(x, y) == IF x > y THEN x - y ELSE y - x

\* No two clocks are ever published as further apart than they are by more
\* than the sampling budget, however long the NTP tools take and whichever of
\* them is asked (ClockSkewCollector.tick).  Clocks that agree are then not
\* alarmed as long as the budget is small beside the detector's max_skew_sec,
\* which by default is twice as much; SystemMonitor._init_clock_collector does
\* not look at the configured value.  The age of the last /clock stamp is
\* bounded by nothing, and not in the property.
SkewNotInvented ==
    \A e \in out : e.kind = "clock_skew" =>
        \A a, b \in e.peers \cup {System} :
            Distance(a.time, b.time) <= Distance(a.offset, b.offset) + Budget

\* Once stop() has returned nothing is published and no ROS node is made,
\* unless its join timed out; then it is the rest of the round in progress,
\* and a node made in it is closed by nobody.
SilentAfterStop ==
    [][stop = "done" /\ (~(out' \subseteq out) \/ ticks' # ticks \/ node' # node)
        => late /\ ticks' = ticks]_vars

\* A collector that raises or has nothing costs the others nothing: a round
\* publishes exactly one event of each collector that has data.
EveryCollectorHeard ==
    pc = "clock" =>
        {e.kind : e \in out} = {c \in DOMAIN answers : answers[c] \notin {"raises", "empty"}}

\* A process is reported from its second reading on, as the first says 0.0:
\* what the process detector sees is measured over an interval of the process
\* itself, also for one that starts later, and for one that takes over a PID
\* between two rounds if psutil looks for that (before 6.0).
OnlyMeasuredProcesses ==
    rechecks => \A e \in out : e.kind = "process_signals" => e.cold = {}

\* One round says what it measured and nothing else (SystemMonitor.
\* _collect_once, ProcessSignalsCollector).
RoundIsSound == EveryCollectorHeard /\ OnlyMeasuredProcesses
=============================================================================
