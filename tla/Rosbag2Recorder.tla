--------------------------- MODULE Rosbag2Recorder ---------------------------
(***************************************************************************)
(* The anomaly-triggered rosbag2 recorder (blackboxrs/recording/rosbag2.py)*)
(* and the "ros2 bag record" processes it supervises.  Two threads share   *)
(* _running, _active and the Popen object without a lock: the recorder's   *)
(* own thread (run) and the thread that calls stop().  Both may be inside  *)
(* _stop_active_recording or _finish_recording at once.                    *)
(*                                                                         *)
(* Abstractions.  Time is what has elapsed: overdue are the captures past  *)
(* their stop_deadline, cooling says now < _cooldown_until; each wait with *)
(* a timeout either sees the exit or times out.  Of an event only whether  *)
(* it triggers is kept.  One start() and one stop() per recorder.          *)
(***************************************************************************)
EXTENDS Naturals, FiniteSets

CONSTANTS
    Captures,       \* identities of Popen objects
    NoCapture,
    MaxRecordings   \* max_recordings_per_run

ASSUME RecorderAssumption ==
    /\ MaxRecordings \in Nat
    /\ NoCapture \notin Captures

Threads == {"worker", "stopper"}

VARIABLES
    running,        \* _running
    subscribed,     \* _queue is not None
    active,         \* _active
    started,        \* _started_recordings
    cooling,        \* now < _cooldown_until
    activeSkip,     \* _active_skip_reported
    coolSkip,       \* _cooldown_skip_reported
    maxSkip,        \* _max_recordings_reported
    pc,             \* where each thread is
    proc,           \* the process each thread holds in a local variable
    child,          \* the capture processes
    overdue,        \* captures past their stop_deadline
    killed,         \* captures that were sent SIGKILL
    ended,          \* recording_stopped / recording_failed events per capture
    atStop          \* history: the capture registered when stop() was called

shared == <<active, started, cooling, activeSkip, coolSkip, maxSkip>>
env == <<child, overdue, killed>>
vars == <<running, subscribed, shared, pc, proc, env, ended, atStop>>

StopPoints ==
    {"stop", "poll process", "sigint", "wait 5", "sigterm", "wait 2", "sigkill",
     "wait last", "finish", "clear"}
WorkerPoints ==
    {"new", "top", "poll", "get", "trigger", "suppress", "report", "admit", "spawn",
     "register", "ended", "dead"}
StopperPoints == {"before", "join", "done", "failed"}

TypeOK ==
    /\ running \in BOOLEAN /\ subscribed \in BOOLEAN
    /\ active \in Captures \cup {NoCapture}
    /\ started \in 0 .. MaxRecordings
    /\ cooling \in BOOLEAN /\ activeSkip \in BOOLEAN
    /\ coolSkip \in BOOLEAN /\ maxSkip \in BOOLEAN
    /\ pc \in [Threads -> StopPoints \cup WorkerPoints \cup StopperPoints]
    /\ pc["worker"] \notin StopperPoints /\ pc["stopper"] \notin WorkerPoints
    /\ proc \in [Threads -> Captures \cup {NoCapture}]
    /\ child \in [Captures -> {"none", "alive", "zombie", "reaped"}]
    /\ overdue \in SUBSET Captures
    /\ killed \in SUBSET Captures
    /\ ended \in [Captures -> Nat]
    /\ atStop \in Captures \cup {NoCapture}

Init ==
    /\ running = FALSE /\ subscribed = FALSE
    /\ active = NoCapture
    /\ started = 0
    /\ cooling = FALSE /\ activeSkip = FALSE /\ coolSkip = FALSE /\ maxSkip = FALSE
    /\ pc = [t \in Threads |-> IF t = "worker" THEN "new" ELSE "before"]
    /\ proc = [t \in Threads |-> NoCapture]
    /\ child = [r \in Captures |-> "none"]
    /\ overdue = {} /\ killed = {}
    /\ ended = [r \in Captures |-> 0]
    /\ atStop = NoCapture

Goto(t, to) == pc' = [pc EXCEPT ![t] = to]

\* poll() or wait() collects the exit status of a process that has exited.
Reap(r) == child' = [child EXCEPT ![r] = "reaped"]
HasExited(r) == child[r] \in {"zombie", "reaped"}

\* Where a thread goes on when _stop_active_recording returns.
AfterStop(t) == IF t = "worker" THEN "get" ELSE "join"

\* An exception nobody catches: run() ends; stop() hands it to the daemon,
\* which logs it.
Escape(t) == IF t = "worker" THEN "dead" ELSE "failed"
-----------------------------------------------------------------------------
(* start() and stop() *)

\* start() with the ros2 binary on the PATH; _ros2_path is found for good.
Start ==
    /\ pc["worker"] = "new"
    /\ pc["stopper"] = "before"
    /\ running' = TRUE /\ subscribed' = TRUE
    /\ Goto("worker", "top")
    /\ UNCHANGED <<shared, proc, env, ended, atStop>>

\* Faulty: stop() joins the worker and leaves the capture to it.
StopCallOnlyJoins ==
    /\ pc["stopper"] = "before"
    /\ running
    /\ running' = FALSE
    /\ atStop' = active
    /\ Goto("stopper", "join")
    /\ UNCHANGED <<subscribed, shared, proc, env, ended>>

\* stop(), up to the call of _stop_active_recording("daemon_stopping").
StopCall ==
    /\ pc["stopper"] = "before"
    /\ running
    /\ running' = FALSE
    /\ atStop' = active
    /\ Goto("stopper", "stop")
    /\ UNCHANGED <<subscribed, shared, proc, env, ended>>

\* The rest of stop(): join for at most 2 s, unsubscribe, drop the queue.
Join ==
    /\ pc["stopper"] = "join"
    /\ subscribed' = FALSE
    /\ Goto("stopper", "done")
    /\ UNCHANGED <<running, shared, proc, env, ended, atStop>>

\* The interpreter exits after stop(); it does not wait for daemon threads.
ProcessExit ==
    /\ pc["stopper"] \in {"done", "failed"}
    /\ pc["worker"] \notin {"ended", "dead"}
    /\ Goto("worker", "dead")
    /\ UNCHANGED <<running, subscribed, shared, proc, env, ended, atStop>>
-----------------------------------------------------------------------------
(* run() and _poll_active_recording() *)

Top ==
    /\ pc["worker"] = "top"
    /\ Goto("worker", IF running THEN "poll" ELSE "ended")
    /\ UNCHANGED <<running, subscribed, shared, proc, env, ended, atStop>>

\* Nothing to supervise, or the capture runs and its time is not over.
PollQuiet ==
    /\ pc["worker"] = "poll"
    /\ active # NoCapture => child[active] = "alive" /\ active \notin overdue
    /\ Goto("worker", "get")
    /\ UNCHANGED <<running, subscribed, shared, proc, env, ended, atStop>>

PollExited ==
    /\ pc["worker"] = "poll"
    /\ active # NoCapture
    /\ HasExited(active)
    /\ Reap(active)
    /\ Goto("worker", "finish")
    /\ UNCHANGED <<running, subscribed, shared, proc, overdue, killed, ended, atStop>>

\* Faulty: nobody looks at stop_deadline.
PollOverdueNever == FALSE

PollOverdue ==
    /\ pc["worker"] = "poll"
    /\ active # NoCapture
    /\ child[active] = "alive"
    /\ active \in overdue
    /\ Goto("worker", "stop")
    /\ UNCHANGED <<running, subscribed, shared, proc, env, ended, atStop>>

\* _queue.get: an event that may trigger, or Empty (and events that
\* _handle_trigger filters out).  stop() may have dropped the queue, before
\* the worker looked for it or while the worker was inside get().
Get ==
    /\ pc["worker"] = "get"
    /\ coolSkip' = (coolSkip /\ cooling)
    /\ \E to \in IF subscribed THEN {"trigger", "top"} ELSE {"dead", "top"} :
         Goto("worker", to)
    /\ UNCHANGED <<running, subscribed, active, started, cooling, activeSkip, maxSkip,
                   proc, env, ended, atStop>>
-----------------------------------------------------------------------------
(* _handle_trigger, on the worker *)

\* Faulty: a trigger is admitted while a capture is active.
TriggerAnyway ==
    /\ pc["worker"] = "trigger"
    /\ Goto("worker", "admit")
    /\ UNCHANGED <<running, subscribed, shared, proc, env, ended, atStop>>

Trigger ==
    /\ pc["worker"] = "trigger"
    /\ Goto("worker", IF active # NoCapture THEN "suppress" ELSE "admit")
    /\ UNCHANGED <<running, subscribed, shared, proc, env, ended, atStop>>

\* suppressed_triggers += 1 reads _active again, which may be None by now.
Suppress ==
    /\ pc["worker"] = "suppress"
    /\ Goto("worker", IF active = NoCapture THEN "dead"
                      ELSE IF activeSkip THEN "top" ELSE "report")
    /\ UNCHANGED <<running, subscribed, shared, proc, env, ended, atStop>>

\* recording_skipped names the output directory of _active: a third read.
ReportActive ==
    /\ pc["worker"] = "report"
    /\ activeSkip' = (activeSkip \/ active # NoCapture)
    /\ Goto("worker", IF active = NoCapture THEN "dead" ELSE "top")
    /\ UNCHANGED <<running, subscribed, active, started, cooling, coolSkip, maxSkip,
                   proc, env, ended, atStop>>

\* The quota and the cooldown, each reported once.
AdmitNot ==
    /\ pc["worker"] = "admit"
    /\ \/ started >= MaxRecordings /\ maxSkip' = TRUE /\ UNCHANGED coolSkip
       \/ started < MaxRecordings /\ cooling /\ coolSkip' = TRUE /\ UNCHANGED maxSkip
    /\ Goto("worker", "top")
    /\ UNCHANGED <<running, subscribed, active, started, cooling, activeSkip,
                   proc, env, ended, atStop>>

\* Faulty: off by one at the quota.
AdmitOneMore ==
    /\ pc["worker"] = "admit"
    /\ started <= MaxRecordings
    /\ ~cooling
    /\ Goto("worker", "spawn")
    /\ UNCHANGED <<running, subscribed, shared, proc, env, ended, atStop>>

Admit ==
    /\ pc["worker"] = "admit"
    /\ started < MaxRecordings
    /\ ~cooling
    /\ Goto("worker", "spawn")
    /\ UNCHANGED <<running, subscribed, shared, proc, env, ended, atStop>>

\* mkdir or Popen raises OSError: recording_failed, and a cooldown.
SpawnFails ==
    /\ pc["worker"] = "spawn"
    /\ cooling' = TRUE
    /\ coolSkip' = FALSE
    /\ Goto("worker", "top")
    /\ UNCHANGED <<running, subscribed, active, started, activeSkip, maxSkip,
                   proc, env, ended, atStop>>

Spawn(r) ==
    /\ pc["worker"] = "spawn"
    /\ child[r] = "none"
    /\ child' = [child EXCEPT ![r] = "alive"]
    /\ proc' = [proc EXCEPT !["worker"] = r]
    /\ Goto("worker", "register")
    /\ UNCHANGED <<running, subscribed, shared, overdue, killed, ended, atStop>>

\* From here on the capture is supervised; recording_started is published.
Register ==
    /\ pc["worker"] = "register"
    /\ active' = proc["worker"]
    /\ activeSkip' = FALSE
    /\ coolSkip' = FALSE
    /\ started' = started + 1
    /\ Goto("worker", "top")
    /\ UNCHANGED <<running, subscribed, cooling, maxSkip, proc, env, ended, atStop>>
-----------------------------------------------------------------------------
(* _stop_active_recording and _finish_recording, on either thread *)

StopRead(t) ==
    /\ pc[t] = "stop"
    /\ IF active = NoCapture
         THEN Goto(t, AfterStop(t)) /\ UNCHANGED proc
         ELSE Goto(t, "poll process") /\ proc' = [proc EXCEPT ![t] = active]
    /\ UNCHANGED <<running, subscribed, shared, env, ended, atStop>>

StopPoll(t) ==
    /\ pc[t] = "poll process"
    /\ IF HasExited(proc[t]) THEN Goto(t, "finish") /\ Reap(proc[t])
                             ELSE Goto(t, "sigint") /\ UNCHANGED child
    /\ UNCHANGED <<running, subscribed, shared, proc, overdue, killed, ended, atStop>>

\* killpg(SIGINT); if the other thread has reaped the process it raises
\* OSError, and the handler's kill() and wait() return at once.
SigInt(t) ==
    /\ pc[t] = "sigint"
    /\ Goto(t, IF child[proc[t]] = "reaped" THEN "finish" ELSE "wait 5")
    /\ UNCHANGED <<running, subscribed, shared, proc, env, ended, atStop>>

\* One of the three waits sees the process exit.
WaitExit(t) ==
    /\ pc[t] \in {"wait 5", "wait 2", "wait last"}
    /\ HasExited(proc[t])
    /\ Reap(proc[t])
    /\ Goto(t, "finish")
    /\ UNCHANGED <<running, subscribed, shared, proc, overdue, killed, ended, atStop>>

\* Faulty: the first wait has no timeout.
WaitTimeoutNotFirst(t) ==
    /\ pc[t] \in {"wait 2", "wait last"}
    /\ child[proc[t]] # "reaped"
    /\ Goto(t, IF pc[t] = "wait 2" THEN "sigkill" ELSE Escape(t))
    /\ UNCHANGED <<running, subscribed, shared, proc, env, ended, atStop>>

\* Faulty: the wait after SIGTERM is not guarded.
WaitTimeoutUnguarded(t) ==
    /\ pc[t] \in {"wait 5", "wait 2"}
    /\ child[proc[t]] # "reaped"
    /\ Goto(t, IF pc[t] = "wait 5" THEN "sigterm" ELSE Escape(t))
    /\ UNCHANGED <<running, subscribed, shared, proc, env, ended, atStop>>

\* One of the three waits raises TimeoutExpired; nobody catches the last.
WaitTimeout(t) ==
    /\ pc[t] \in {"wait 5", "wait 2", "wait last"}
    /\ child[proc[t]] # "reaped"
    /\ Goto(t, CASE pc[t] = "wait 5" -> "sigterm"
                 [] pc[t] = "wait 2" -> "sigkill"
                 [] pc[t] = "wait last" -> Escape(t))
    /\ UNCHANGED <<running, subscribed, shared, proc, env, ended, atStop>>

\* killpg(SIGTERM), inside the handler of TimeoutExpired: an OSError from
\* here on is not caught.
SigTerm(t) ==
    /\ pc[t] = "sigterm"
    /\ Goto(t, IF child[proc[t]] = "reaped" THEN Escape(t) ELSE "wait 2")
    /\ UNCHANGED <<running, subscribed, shared, proc, env, ended, atStop>>

SigKill(t) ==
    /\ pc[t] = "sigkill"
    /\ IF child[proc[t]] = "reaped"
         THEN Goto(t, Escape(t)) /\ UNCHANGED killed
         ELSE Goto(t, "wait last") /\ killed' = killed \cup {proc[t]}
    /\ UNCHANGED <<running, subscribed, shared, proc, child, overdue, ended, atStop>>

\* _finish_recording up to its event: it reports the capture _active names
\* now, which need not be the one this thread stopped.
Finish(t) ==
    /\ pc[t] = "finish"
    /\ IF active = NoCapture
         THEN Goto(t, AfterStop(t)) /\ UNCHANGED ended
         ELSE Goto(t, "clear") /\ ended' = [ended EXCEPT ![active] = @ + 1]
    /\ UNCHANGED <<running, subscribed, shared, proc, env, atStop>>

\* Faulty: _active survives the end of its capture.
ClearKeepsActive(t) ==
    /\ pc[t] = "clear"
    /\ cooling' = TRUE
    /\ coolSkip' = FALSE
    /\ activeSkip' = FALSE
    /\ Goto(t, AfterStop(t))
    /\ UNCHANGED <<running, subscribed, active, started, maxSkip, proc, env, ended, atStop>>

Clear(t) ==
    /\ pc[t] = "clear"
    /\ cooling' = TRUE
    /\ coolSkip' = FALSE
    /\ activeSkip' = FALSE
    /\ active' = NoCapture
    /\ Goto(t, AfterStop(t))
    /\ UNCHANGED <<running, subscribed, started, maxSkip, proc, env, ended, atStop>>
-----------------------------------------------------------------------------
(* The capture processes and the clock *)

\* A capture ends by itself, crashes, or obeys a signal.
ChildExit(r) ==
    /\ child[r] = "alive"
    /\ child' = [child EXCEPT ![r] = "zombie"]
    /\ UNCHANGED <<running, subscribed, shared, pc, proc, overdue, killed, ended, atStop>>

\* record_duration_sec is over for a registered capture.
DurationElapses(r) ==
    /\ active = r
    /\ r \notin overdue
    /\ overdue' = overdue \cup {r}
    /\ UNCHANGED <<running, subscribed, shared, pc, proc, child, killed, ended, atStop>>

CooldownElapses ==
    /\ cooling
    /\ cooling' = FALSE
    /\ UNCHANGED <<running, subscribed, active, started, activeSkip, coolSkip, maxSkip,
                   pc, proc, env, ended, atStop>>
-----------------------------------------------------------------------------
Stopping(t) ==
    \/ StopRead(t) \/ StopPoll(t) \/ SigInt(t) \/ WaitExit(t) \/ WaitTimeout(t)
    \/ SigTerm(t) \/ SigKill(t) \/ Finish(t) \/ Clear(t)

Worker ==
    \/ Top \/ PollQuiet \/ PollExited \/ PollOverdue \/ Get
    \/ Trigger \/ Suppress \/ ReportActive \/ AdmitNot \/ Admit
    \/ SpawnFails \/ (\E r \in Captures : Spawn(r)) \/ Register
    \/ Stopping("worker")

Stopper == Join \/ Stopping("stopper")

Next ==
    \/ Start \/ StopCall \/ Worker \/ Stopper \/ ProcessExit \/ CooldownElapses
    \/ \E r \in Captures : ChildExit(r) \/ DurationElapses(r)

Spec == Init /\ [][Next]_vars

\* Threads are scheduled, time passes, and SIGKILL ends a process sooner or
\* later; no other process has to exit, and stop() need not be called.
FairSpec ==
    /\ Spec
    /\ WF_vars(Worker)
    /\ WF_vars(Stopper)
    /\ \A r \in Captures :
        /\ WF_vars(DurationElapses(r))
        /\ WF_vars(r \in killed /\ ChildExit(r))
-----------------------------------------------------------------------------
Alive == {r \in Captures : child[r] = "alive"}
Spawned == {r \in Captures : child[r] # "none"}

\* Two captures never run at the same time, even when stop() clears _active
\* under the worker's feet.
OneCaptureAtATime == Cardinality(Alive) <= 1

\* max_recordings_per_run bounds the processes ever spawned, and is reported
\* as reached only when as many were: a spawn that failed costs nothing of it.
QuotaKept ==
    /\ Cardinality(Spawned) <= MaxRecordings
    /\ maxSkip => Cardinality(Spawned) = MaxRecordings

\* Until stop() is called each capture gets its final event exactly once:
\* none while it runs or waits to be collected, one when it is let go of.
EndReportedOnce ==
    running => \A r \in Captures :
        /\ ended[r] <= 1
        /\ ended[r] = 1 => child[r] = "reaped"
        /\ child[r] = "reaped" /\ active # r => ended[r] = 1

\* Until stop() is called the only thing that ends the worker is a capture
\* that survives SIGKILL for 2 s.
WorkerSurvives ==
    running /\ pc["worker"] = "dead" => proc["worker"] \in killed

\* A stop() that returns normally has ended the capture that was registered
\* when it was called, whichever thread got to it first.
StopEndsCapture ==
    pc["stopper"] = "done" /\ atStop # NoCapture => child[atStop] # "alive"

\* A capture does not outlive its duration for ever: as long as stop() is
\* not called the worker ends it, by SIGKILL if need be.
CaptureIsBounded ==
    [](pc["stopper"] = "before") =>
        \A r \in Captures : child[r] = "alive" ~> child[r] # "alive"

\* stop() returns whatever the capture does with its signals.
StopReturns == pc["stopper"] = "stop" ~> pc["stopper"] \in {"done", "failed"}

\* docs/ARCHITECTURE.md: the recorder "starts ros2 bag record as a supervised
\* subprocess in its own process group, stops it after record_duration_sec".
\* When both threads have come to their normal end, nobody is left to stop a
\* capture, so none may be running.
NoCaptureLeftBehind ==
    pc["stopper"] = "done" /\ pc["worker"] = "ended" => Alive = {}
=============================================================================
