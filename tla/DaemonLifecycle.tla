--------------------------- MODULE DaemonLifecycle ---------------------------
(***************************************************************************)
(* The PID file and the processes around it: BlackBoxDaemon (start, stop,  *)
(* is_running, stop_running in blackboxrs/cli/daemon.py) and the commands  *)
(* start, stop and status (blackboxrs/cli/app.py).  Every command reads    *)
(* the file, checks in several steps whether the process it names is still *)
(* the daemon that wrote it, and removes a file it takes for stale.        *)
(*                                                                         *)
(* Abstractions.  Processes are numbered in the order they start; the      *)
(* number stands for the starttime of /proc/<pid>/stat.  The file is what  *)
(* os.replace put there.  A "start" is a process that runs with            *)
(* --foreground and becomes the daemon; a "launch" is a start without it:  *)
(* it spawns a start and polls until is_running() says yes or its deadline *)
(* has passed.  Assumed of the kernel: a PID is not reused while a command *)
(* that has read it from the file is checking it.                          *)
(***************************************************************************)
EXTENDS Naturals, FiniteSets

CONSTANTS
    MaxProcs,       \* bound: processes ever started
    Pids,
    NoFile,         \* no PID file
    Legacy          \* a PID file without identity, left by an old release

ASSUME DaemonAssumption ==
    /\ MaxProcs \in Nat
    /\ NoFile # Legacy
    /\ {NoFile, Legacy} \cap Nat = {}
    /\ Pids # {} /\ Pids \subseteq Nat

Procs == 1 .. MaxProcs
Roles == {"launch", "start", "stop", "status", "foreign"}

VARIABLES
    orderly,        \* history: the user has waited for each command, no launch has
                    \* given up on a daemon not in the file, no stop() was nested
    pid,            \* PID of each process
    role,           \* what its command line says
    pc,             \* where it is
    call,           \* 1 in the first is_running() call of a command, then 2
    read,           \* the process named by the file a command has read
    child,          \* what a launch has spawned, a set of one
    file,           \* the PID file
    pending,        \* processes with a SIGTERM to be handled
    again,          \* daemons inside a handler that interrupted stop()
    stale           \* history: commands that read the file of a process gone by then

vars == <<orderly, pid, role, pc, call, read, child, file, pending, again, stale>>

Checking == {"kill0", "stat", "cmdline", "cleanup", "kill"}
Launching == {"spawn", "poll"}
Up == {"starting", "install", "wait", "enter", "stopping"}
Points == {"unborn", "read", "other", "gone"} \cup Checking \cup Launching \cup Up

Unborn == {p \in Procs : pc[p] = "unborn"}
Gone == {p \in Procs : pc[p] = "gone"}
Living == Procs \ (Unborn \cup Gone)

\* The processes with a PID: one or none.
Holders(n) == {p \in Living : pid[p] = n}

TypeOK ==
    /\ orderly \in BOOLEAN
    /\ pid \in [Procs -> Pids]
    /\ role \in [Procs -> Roles]
    /\ pc \in [Procs -> Points]
    /\ \A p \in Procs :
        /\ pc[p] \in Up => role[p] = "start"
        /\ pc[p] \in Launching => role[p] = "launch"
    /\ call \in [Procs -> {1, 2}]
    /\ read \in [Procs -> Procs \cup {NoFile}]
    /\ child \in [Procs -> SUBSET Procs]
    /\ file \in Procs \cup {NoFile, Legacy}
    /\ pending \in SUBSET Living
    /\ again \in SUBSET {p \in Procs : pc[p] = "stopping"}
    /\ stale \in SUBSET {p \in Procs : pc[p] \in Checking}

Init ==
    /\ orderly = TRUE
    /\ pid = [p \in Procs |-> CHOOSE n \in Pids : TRUE]
    /\ role = [p \in Procs |-> "foreign"]
    /\ pc = [p \in Procs |-> "unborn"]
    /\ call = [p \in Procs |-> 1]
    /\ read = [p \in Procs |-> NoFile]
    /\ child = [p \in Procs |-> {}]
    /\ file \in {NoFile, Legacy}
    /\ pending = {} /\ again = {} /\ stale = {}

Goto(p, to) == pc' = [pc EXCEPT ![p] = to]
-----------------------------------------------------------------------------
(* Processes come and go *)

\* The commands a user waits for.  Not the daemon: it is spawned, detached.
Busy == {p \in Living : role[p] \in {"launch", "stop", "status"}}

\* A user who waits: the daemon is started in the background, and each
\* command returns before the next.
Waits(r) == r # "start" /\ (r # "foreign" => Busy = {})

\* The PIDs given out so far.
Used == {pid[p] : p \in Procs \ Unborn}

\* A process with PID n may be born, and it is p.  The kernel hands PIDs out in
\* ascending order, and reuses those that are free.
NextBorn(p, n) ==
    /\ p \in Unborn /\ \A q \in Unborn : p <= q
    /\ n \in Used \/ \A m \in Pids \ Used : n <= m
    /\ Holders(n) = {}
    /\ \A c \in Living : pc[c] \in Checking /\ read[c] # NoFile => pid[read[c]] # n

\* Somebody types a command, or something else starts on the host: it matters
\* here only when it reuses a PID.
Fork(p, r, n) ==
    /\ NextBorn(p, n)
    /\ r = "foreign" => n \in Used
    /\ orderly' = (orderly /\ Waits(r))
    /\ pid' = [pid EXCEPT ![p] = n]
    /\ role' = [role EXCEPT ![p] = r]
    /\ Goto(p, IF r = "foreign" THEN "other" ELSE "read")
    /\ UNCHANGED <<call, read, child, file, pending, again, stale>>

\* A daemon crashes, or a foreign process ends, anywhere.  A command that is
\* killed half-way is one that takes no further step.
Die(p) ==
    /\ p \in Living
    /\ pc[p] \notin Checking \cup Launching \cup {"read"}
    /\ Goto(p, "gone")
    /\ pending' = pending \ {p}
    /\ again' = again \ {p}
    /\ UNCHANGED <<orderly, pid, role, call, read, child, file, stale>>
-----------------------------------------------------------------------------
(* is_running(), and what each command does with its answer *)

\* stop asks once itself and once more in stop_running().
After(p, found) ==
    CASE role[p] = "start" -> IF found THEN "gone" ELSE "starting"
      [] role[p] = "launch" -> IF found THEN "gone" ELSE IF call[p] = 1 THEN "spawn" ELSE "poll"
      [] role[p] = "stop" -> IF ~found THEN "gone" ELSE IF call[p] = 1 THEN "read" ELSE "kill"
      [] OTHER -> "gone"

\* What the call has read is kept for os.kill only.
Return(p, found) ==
    /\ Goto(p, After(p, found))
    /\ call' = [call EXCEPT ![p] = 2]
    /\ IF After(p, found) = "kill"
         THEN UNCHANGED <<read, stale>>
         ELSE read' = [read EXCEPT ![p] = NoFile] /\ stale' = stale \ {p}

ReadFile(p) ==
    /\ pc[p] = "read"
    /\ \/ file = NoFile /\ Return(p, FALSE)
       \/ file = Legacy /\ Goto(p, "cleanup") /\ UNCHANGED <<call, read, stale>>
       \/ /\ file \in Procs
          /\ read' = [read EXCEPT ![p] = file]
          /\ stale' = IF file \in Gone THEN stale \cup {p} ELSE stale
          /\ Goto(p, "kill0")
          /\ UNCHANGED call
    /\ UNCHANGED <<orderly, pid, role, child, file, pending, again>>

\* os.kill(pid, 0).
Kill0(p) ==
    /\ pc[p] = "kill0"
    /\ Goto(p, IF Holders(pid[read[p]]) = {} THEN "cleanup" ELSE "stat")
    /\ UNCHANGED <<orderly, pid, role, call, read, child, file, pending, again, stale>>

\* A process of another user has the PID: the answer is no, but the file stays.
Kill0Denied(p) ==
    /\ pc[p] = "kill0"
    /\ \E q \in Holders(pid[read[p]]) : role[q] = "foreign"
    /\ Return(p, FALSE)
    /\ UNCHANGED <<orderly, pid, role, child, file, pending, again>>

\* A bug: the start time is not compared.
StatSkipped(p) ==
    /\ pc[p] = "stat"
    /\ Goto(p, "cmdline")
    /\ UNCHANGED <<orderly, pid, role, call, read, child, file, pending, again, stale>>

\* Compare the start time; a process gone by now has none, and passes.
Stat(p) ==
    /\ pc[p] = "stat"
    /\ Goto(p, IF Holders(pid[read[p]]) \subseteq {read[p]} THEN "cmdline" ELSE "cleanup")
    /\ UNCHANGED <<orderly, pid, role, call, read, child, file, pending, again, stale>>

\* The command line of every process of ours carries the marker.
Cmdline(p) ==
    /\ pc[p] = "cmdline"
    /\ IF \E q \in Holders(pid[read[p]]) : role[q] # "foreign"
         THEN Return(p, TRUE)
         ELSE Goto(p, "cleanup") /\ UNCHANGED <<call, read, stale>>
    /\ UNCHANGED <<orderly, pid, role, child, file, pending, again>>

\* _cleanup_stale_pid unlinks whatever file is there by now.
Cleanup(p) ==
    /\ pc[p] = "cleanup"
    /\ file' = NoFile
    /\ Return(p, FALSE)
    /\ UNCHANGED <<orderly, pid, role, child, pending, again>>

\* os.kill(pid, SIGTERM); a process gone by now raises OSError.
Terminate(p) ==
    /\ pc[p] = "kill"
    /\ pending' = pending \cup Holders(pid[read[p]])
    /\ read' = [read EXCEPT ![p] = NoFile]
    /\ stale' = stale \ {p}
    /\ Goto(p, "gone")
    /\ UNCHANGED <<orderly, pid, role, call, child, file, again>>
-----------------------------------------------------------------------------
(* start without --foreground: _start_background *)

\* A bug: it returns as soon as the daemon is spawned.
SpawnAndReturn(p, q, n) ==
    /\ pc[p] = "spawn"
    /\ NextBorn(q, n)
    /\ pid' = [pid EXCEPT ![q] = n]
    /\ role' = [role EXCEPT ![q] = "start"]
    /\ pc' = [pc EXCEPT ![p] = "gone", ![q] = "read"]
    /\ child' = [child EXCEPT ![p] = {q}]
    /\ UNCHANGED <<orderly, call, read, file, pending, again, stale>>

\* Popen.
Spawn(p, q, n) ==
    /\ pc[p] = "spawn"
    /\ NextBorn(q, n)
    /\ pid' = [pid EXCEPT ![q] = n]
    /\ role' = [role EXCEPT ![q] = "start"]
    /\ pc' = [pc EXCEPT ![p] = "poll", ![q] = "read"]
    /\ child' = [child EXCEPT ![p] = {q}]
    /\ UNCHANGED <<orderly, call, read, file, pending, again, stale>>

\* Popen raises.
SpawnFails(p) ==
    /\ pc[p] = "spawn"
    /\ Goto(p, "gone")
    /\ UNCHANGED <<orderly, pid, role, call, read, child, file, pending, again, stale>>

\* Before the deadline: ask again whether it is running.
Poll(p) ==
    /\ pc[p] = "poll"
    /\ Goto(p, "read")
    /\ UNCHANGED <<orderly, pid, role, call, read, child, file, pending, again, stale>>

\* After it, or on Ctrl-C: the exit status is 1, and nobody ends the child.
GiveUp(p) ==
    /\ pc[p] = "poll"
    /\ Goto(p, "gone")
    /\ orderly' = (orderly /\ (child[p] \cap Living = {} \/ file \in child[p]))
    /\ UNCHANGED <<pid, role, call, read, child, file, pending, again, stale>>
-----------------------------------------------------------------------------
(* The daemon *)

\* A component or the PID file raises: _start_foreground calls stop().
StartFails(p) ==
    /\ pc[p] = "starting"
    /\ Goto(p, "stopping")
    /\ UNCHANGED <<orderly, pid, role, call, read, child, file, pending, again, stale>>

\* BlackBoxDaemon.start() has started every component: _write_pid_file.
WritePidFile(p) ==
    /\ pc[p] = "starting"
    /\ file' = p
    /\ Goto(p, "install")
    /\ UNCHANGED <<orderly, pid, role, call, read, child, pending, again, stale>>

\* The signal handlers are set and start() returns.
Install(p) ==
    /\ pc[p] = "install"
    /\ Goto(p, "wait")
    /\ UNCHANGED <<orderly, pid, role, call, read, child, file, pending, again, stale>>

\* A SIGTERM before that ends the process on the spot.
DefaultTerm(p) ==
    /\ p \in pending
    /\ pc[p] = "install"
    /\ Die(p)

\* _handle_signal calls stop(), which finds _running set...
Handle(p) ==
    /\ p \in pending
    /\ pc[p] = "wait"
    /\ Goto(p, "enter")
    /\ pending' = pending \ {p}
    /\ UNCHANGED <<orderly, pid, role, call, read, child, file, again, stale>>

\* ...and clears it, unless a second signal comes first: its stop() runs
\* from end to end inside the first.
Enter(p) ==
    /\ pc[p] = "enter"
    /\ \/ UNCHANGED <<orderly, pending, again>>
       \/ /\ p \in pending /\ pending' = pending \ {p}
          /\ again' = again \cup {p} /\ orderly' = FALSE
    /\ Goto(p, "stopping")
    /\ UNCHANGED <<pid, role, call, read, child, file, stale>>

\* With _running cleared a signal does nothing.
Ignore(p) ==
    /\ p \in pending
    /\ pc[p] = "stopping"
    /\ pending' = pending \ {p}
    /\ UNCHANGED <<orderly, pid, role, pc, call, read, child, file, again, stale>>

\* A bug: a component joins its thread without a time limit, and the thread
\* does not end.
StopComponentsHangs(p) == FALSE

\* The components stop, in reverse order, and what one raises is logged; then
\* _remove_pid_file, whoever wrote it.  The interrupted stop() goes on; else
\* wait() returns and the process ends.
StopComponents(p) ==
    /\ pc[p] = "stopping"
    /\ file' = NoFile
    /\ Goto(p, IF p \in again THEN "stopping" ELSE "gone")
    /\ again' = again \ {p}
    /\ pending' = IF p \in again THEN pending ELSE pending \ {p}
    /\ UNCHANGED <<orderly, pid, role, call, read, child, stale>>
-----------------------------------------------------------------------------
Command(p) ==
    \/ ReadFile(p) \/ Kill0(p) \/ Kill0Denied(p) \/ Stat(p) \/ Cmdline(p) \/ Cleanup(p)
    \/ Terminate(p)

Launch(p) ==
    \/ \E q \in Procs, n \in Pids : Spawn(p, q, n)
    \/ SpawnFails(p) \/ Poll(p) \/ GiveUp(p)

Daemon(p) ==
    \/ StartFails(p) \/ WritePidFile(p) \/ Install(p)
    \/ DefaultTerm(p) \/ Handle(p) \/ Enter(p) \/ Ignore(p) \/ StopComponents(p)

Next == \E p \in Procs :
    \/ \E r \in Roles, n \in Pids : Fork(p, r, n)
    \/ Die(p) \/ Command(p) \/ Launch(p) \/ Daemon(p)

Spec == Init /\ [][Next]_vars

\* A daemon keeps running until it ends; nobody need start or stop anything.
FairSpec == Spec /\ \A p \in Procs : WF_vars(Daemon(p))
-----------------------------------------------------------------------------
\* A stale file is never taken for a running daemon, however PIDs have been
\* reused: when is_running() says yes, the daemon named in the file had not
\* gone when the file was read.
VerdictSound ==
    \A p \in stale : pc[p] # "kill"

\* SIGTERM is only ever sent to a daemon that has written the file, never to
\* another process, ours or foreign, that has its PID (stop_running).
OnlyDaemonsSignalled ==
    \A p \in pending : role[p] = "start" /\ pc[p] # "starting"

\* "blackboxrs stop" hits a live daemon or nothing (DaemonManager.is_running,
\* stop_running).
StopIsSafe == VerdictSound /\ OnlyDaemonsSignalled

\* As long as the user waits for each command, no launch gives up on a daemon
\* that has yet to write the file and no stop interrupts another, there is
\* never a second daemon, although a launch does not wait for its own,
OneDaemon == orderly => Cardinality({p \in Procs : pc[p] \in Up}) <= 1

\* and once the commands have returned the file names every daemon, from its
\* start to its end, whatever crashed before and whoever has its PID now.
DaemonIsFound == orderly /\ Busy = {} => \A p \in Procs : pc[p] \in Up => file = p

\* The PID file serves the user who waits: one daemon, and the CLI "can
\* discover and manage" it (BlackBoxDaemon's docstring).
SerialUserServed == OneDaemon /\ DaemonIsFound

\* The daemons on their way out, or told to go.
Ending == {p \in Procs : p \in pending \/ pc[p] \in {"enter", "stopping"}}

\* Daemons that were sent SIGTERM end, however many more signals they get: a
\* time comes when none is left (_handle_signal, stop).
StopIsObeyed == Ending # {} ~> Ending = {}
=============================================================================
