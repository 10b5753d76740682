------------------------ MODULE DaemonLifecycleProofs ------------------------
(***************************************************************************)
(* Invariance proofs for the PID file, for any number of processes and any *)
(* set of PIDs: "stop" hits a live daemon or nothing whatever commands run *)
(* at once, and the file serves the user who waits for each command.       *)
(***************************************************************************)
EXTENDS DaemonLifecycle, FiniteSetTheorems, TLAPS

\* Every process is at the program points of its role.
Roled ==
    \A p \in Procs :
        /\ pc[p] \in Checking \cup {"read"} => role[p] # "foreign"
        /\ pc[p] = "kill" => role[p] = "stop"
        /\ pc[p] = "other" => role[p] = "foreign"

\* The kernel gives a PID to one process at a time.
PidsDistinct == \A p, q \in Living : pid[p] = pid[q] => p = q

\* What has written the PID file is a start, and past it.
Wrote(p) == role[p] = "start" /\ pc[p] \in {"install", "wait", "enter", "stopping", "gone"}

\* Whoever the file names has written it; a command names what it has read
\* while it checks it, and only then.
NamesAreWriters ==
    /\ file \in Procs => Wrote(file)
    /\ \A p \in Procs :
        /\ read[p] # NoFile => pc[p] \in Checking /\ Wrote(read[p])
        /\ pc[p] \in {"kill0", "stat", "cmdline", "kill"} => read[p] # NoFile

\* Once the start time has been compared, the PID has no other holder.
StatHolds ==
    \A p \in Procs : pc[p] \in {"cmdline", "kill"} => Holders(pid[read[p]]) \subseteq {read[p]}

\* A command that read the file of a process gone by then still names it.
StaleIsGone == \A p \in stale : read[p] \in Gone

\* SIGTERM is on its way to those who have written the file only.
PendingWrote == \A p \in pending : Wrote(p)

\* The inductive invariant behind StopIsSafe.
SafeInv ==
    /\ TypeOK /\ Roled /\ PidsDistinct /\ NamesAreWriters
    /\ StatHolds /\ StaleIsGone /\ VerdictSound /\ PendingWrote

\* A child belongs to a launch that has asked once before, and is its only one.
Parents ==
    \A p \in Procs :
        /\ child[p] # {} => role[p] = "launch" /\ call[p] = 2 /\ pc[p] \notin {"unborn", "spawn"}
        /\ pc[p] = "spawn" => call[p] = 2
        /\ \A q, r \in child[p] : q = r

\* The daemons, and the starts that have yet to ask whether there is one.
Starts == {p \in Living : role[p] = "start"}

\* A user who waits: one command at a time.
OneCommand == \A p, q \in Busy : p = q

\* One daemon, or start that may become one, also while it is on its way out.
OneStart == \A p, q \in Starts : p = q

\* The file names the daemon, unless its launch is still at work.
FileIsOurs == \A s \in Starts : (\A p \in Busy : s \notin child[p]) => file = s

\* Beside a running daemon a command that is not its launch gets every answer
\* right: it never takes the file for stale and never spawns a second daemon.
CommandFinds ==
    \A p \in Busy, s \in Starts : s \notin child[p] =>
        /\ pc[p] \in {"read", "kill0", "stat", "cmdline", "kill"}
        /\ pc[p] # "read" => read[p] = s

\* Who reads the name of a running daemon does not remove its file.
ReadersKeep == \A p \in Busy : read[p] \in Starts => file = read[p] /\ pc[p] # "cleanup"

\* The inductive invariant behind SerialUserServed, together with SafeInv.
OrderlyInv ==
    /\ Parents
    /\ orderly => /\ again = {}
                  /\ OneCommand /\ OneStart /\ FileIsOurs /\ CommandFinds /\ ReadersKeep

USE DaemonAssumption
USE DEF Goto, Living, Unborn, Gone

-----------------------------------------------------------------------------
(* StopIsSafe: nothing is assumed of the user, any commands may overlap. *)

\* The two special contents of the file name no process.
LEMMA NoFileNoProcess == NoFile \notin Procs /\ Legacy \notin Procs
BY DEF Procs

\* Where is_running() lets a command go on.
LEMMA AfterGoes ==
  ASSUME TypeOK, NEW p \in Procs, NEW found \in BOOLEAN
  PROVE  /\ After(p, found) \in {"gone", "starting", "spawn", "poll", "read", "kill"}
         /\ After(p, found) = "starting" => role[p] = "start"
         /\ After(p, found) \in Launching => role[p] = "launch"
         /\ After(p, found) \in {"read", "kill"} => role[p] = "stop" /\ found
BY DEF After, Roles, Launching

\* A command that leaves is_running() keeps the types.
LEMMA ReturnStep ==
  ASSUME TypeOK, Roled, NEW p \in Procs, NEW found \in BOOLEAN, Return(p, found),
         pc[p] \in Checking \cup {"read"}, p \notin pending,
         file' \in {file, NoFile}, UNCHANGED <<orderly, pid, role, child, pending, again>>
  PROVE  TypeOK'
<1> DEFINE to == After(p, found)
<1>1. /\ to \in {"gone", "starting", "spawn", "poll", "read", "kill"}
      /\ to = "starting" => role[p] = "start"
      /\ to \in Launching => role[p] = "launch"
  BY AfterGoes
<1>2. pc' = [pc EXCEPT ![p] = to]
  BY DEF Return
<1> HIDE DEF to
<1>3. /\ pc' \in [Procs -> Points]
      /\ \A q \in Procs : /\ pc'[q] \in Up => role'[q] = "start"
                          /\ pc'[q] \in Launching => role'[q] = "launch"
  BY <1>1, <1>2 DEF TypeOK, Points, Up, Checking, Launching
<1>4. call' \in [Procs -> {1, 2}] /\ read' \in [Procs -> Procs \cup {NoFile}]
  BY DEF TypeOK, Return
<1>5. stale' \in SUBSET {q \in Procs : pc'[q] \in Checking}
  <2>1. to = "kill" => stale' = stale
    BY DEF Return, to
  <2>2. to # "kill" => stale' = stale \ {p}
    BY DEF Return, to
  <2>3. QED
    BY <1>2, <2>1, <2>2 DEF TypeOK, Checking
<1>6. pending' \in SUBSET (Living') /\ again' \in SUBSET {q \in Procs : pc'[q] = "stopping"}
  BY <1>1, <1>2 DEF TypeOK, Checking
<1>7. /\ orderly' \in BOOLEAN /\ pid' \in [Procs -> Pids] /\ role' \in [Procs -> Roles]
      /\ child' \in [Procs -> SUBSET Procs] /\ file' \in Procs \cup {NoFile, Legacy}
  BY DEF TypeOK
<1>8. QED
  BY <1>3, <1>4, <1>5, <1>6, <1>7 DEF TypeOK

\* The shape of every variable survives every step.
LEMMA TypeStep ==
  ASSUME SafeInv, [Next]_vars
  PROVE  TypeOK'
<1>1. ASSUME NEW p \in Procs, NEW r \in Roles, NEW n \in Pids, Fork(p, r, n)
      PROVE  TypeOK'
  BY <1>1 DEF Fork, NextBorn, SafeInv, TypeOK, Points, Roles, Checking, Launching, Up
<1>2. ASSUME NEW p \in Procs, Die(p)
      PROVE  TypeOK'
  BY <1>2 DEF Die, SafeInv, TypeOK, Points, Roles, Checking, Launching, Up
<1>3. ASSUME NEW p \in Procs, ReadFile(p)
      PROVE  TypeOK'
  <2>1. p \notin pending
    BY <1>3 DEF ReadFile, SafeInv, PendingWrote, Wrote
  <2>2. CASE file = NoFile /\ Return(p, FALSE)
    BY <1>3, <2>1, <2>2, ReturnStep DEF ReadFile, SafeInv
  <2>3. CASE file = Legacy /\ Goto(p, "cleanup") /\ UNCHANGED <<call, read, stale>>
    BY <1>3, <2>1, <2>3 DEF ReadFile, SafeInv, TypeOK, Points, Checking, Launching, Up
  <2>4. CASE file \in Procs /\ Goto(p, "kill0")
    <3>1. /\ read' = [read EXCEPT ![p] = file] /\ stale' \in {stale, stale \cup {p}}
          /\ UNCHANGED <<orderly, pid, role, call, child, file, pending, again>>
      BY <1>3, <2>4, NoFileNoProcess DEF ReadFile
    <3>2. QED
      BY <1>3, <2>1, <2>4, <3>1 DEF ReadFile, SafeInv, TypeOK, Points, Checking,
             Launching, Up
  <2>5. QED
    BY <1>3, <2>2, <2>3, <2>4 DEF ReadFile
<1>4. ASSUME NEW p \in Procs, Kill0(p)
      PROVE  TypeOK'
  BY <1>4 DEF Kill0, SafeInv, TypeOK, Points, Roles, Checking, Launching, Up
<1>5. ASSUME NEW p \in Procs, Kill0Denied(p)
      PROVE  TypeOK'
  <2>1. p \notin pending
    BY <1>5 DEF Kill0Denied, SafeInv, PendingWrote, Wrote
  <2>2. QED
    BY <1>5, <2>1, ReturnStep DEF Kill0Denied, SafeInv, Checking
<1>6. ASSUME NEW p \in Procs, Stat(p)
      PROVE  TypeOK'
  BY <1>6 DEF Stat, SafeInv, TypeOK, Points, Roles, Checking, Launching, Up
<1>7. ASSUME NEW p \in Procs, Cmdline(p)
      PROVE  TypeOK'
  <2>1. p \notin pending
    BY <1>7 DEF Cmdline, SafeInv, PendingWrote, Wrote
  <2>2. CASE Return(p, TRUE)
    BY <1>7, <2>1, <2>2, ReturnStep DEF Cmdline, SafeInv, Checking
  <2>3. CASE Goto(p, "cleanup") /\ UNCHANGED <<call, read, stale>>
    BY <1>7, <2>1, <2>3 DEF Cmdline, SafeInv, TypeOK, Points, Checking, Launching, Up
  <2>4. QED
    BY <1>7, <2>2, <2>3 DEF Cmdline
<1>8. ASSUME NEW p \in Procs, Cleanup(p)
      PROVE  TypeOK'
  <2>1. p \notin pending
    BY <1>8 DEF Cleanup, SafeInv, PendingWrote, Wrote
  <2>2. QED
    BY <1>8, <2>1, ReturnStep DEF Cleanup, SafeInv, Checking
<1>9. ASSUME NEW p \in Procs, Terminate(p)
      PROVE  TypeOK'
  <2>1. Holders(pid[read[p]]) \subseteq Living /\ p \notin pending \cup Holders(pid[read[p]])
    BY <1>9 DEF Terminate, SafeInv, StatHolds, NamesAreWriters, PendingWrote, Wrote,
           Holders
  <2>2. QED
    BY <1>9, <2>1 DEF Terminate, SafeInv, TypeOK, Points, Launching, Up
<1>10. ASSUME NEW p \in Procs, NEW q \in Procs, NEW n \in Pids, Spawn(p, q, n)
      PROVE  TypeOK'
  BY <1>10 DEF Spawn, NextBorn, SafeInv, TypeOK, Points, Roles, Checking, Launching, Up
<1>11. ASSUME NEW p \in Procs, SpawnFails(p)
      PROVE  TypeOK'
  BY <1>11
     DEF SpawnFails, SafeInv, TypeOK, Points, Roles, Checking, Launching, Up,
         PendingWrote, Wrote
<1>12. ASSUME NEW p \in Procs, Poll(p)
      PROVE  TypeOK'
  BY <1>12 DEF Poll, SafeInv, TypeOK, Points, Roles, Checking, Launching, Up
<1>13. ASSUME NEW p \in Procs, GiveUp(p)
      PROVE  TypeOK'
  <2>1. orderly' \in BOOLEAN
    BY <1>13 DEF GiveUp, SafeInv, TypeOK
  <2>2. p \notin pending
    BY <1>13 DEF GiveUp, SafeInv, PendingWrote, Wrote
  <2>3. QED
    BY <1>13, <2>1, <2>2 DEF GiveUp, SafeInv, TypeOK, Points, Checking, Launching, Up
<1>14. ASSUME NEW p \in Procs, StartFails(p)
      PROVE  TypeOK'
  BY <1>14 DEF StartFails, SafeInv, TypeOK, Points, Roles, Checking, Launching, Up
<1>15. ASSUME NEW p \in Procs, WritePidFile(p)
      PROVE  TypeOK'
  BY <1>15 DEF WritePidFile, SafeInv, TypeOK, Points, Roles, Checking, Launching, Up
<1>16. ASSUME NEW p \in Procs, Install(p)
      PROVE  TypeOK'
  BY <1>16 DEF Install, SafeInv, TypeOK, Points, Roles, Checking, Launching, Up
<1>17. ASSUME NEW p \in Procs, Handle(p)
      PROVE  TypeOK'
  BY <1>17 DEF Handle, SafeInv, TypeOK, Points, Roles, Checking, Launching, Up
<1>18. ASSUME NEW p \in Procs, Enter(p)
      PROVE  TypeOK'
  <2>1. orderly' \in BOOLEAN
    BY <1>18 DEF Enter, SafeInv, TypeOK
  <2>2. pending' \subseteq pending /\ again' \subseteq again \cup {p}
    BY <1>18 DEF Enter
  <2>3. QED
    BY <1>18, <2>1, <2>2 DEF Enter, SafeInv, TypeOK, Points, Checking, Launching, Up
<1>19. ASSUME NEW p \in Procs, Ignore(p)
      PROVE  TypeOK'
  BY <1>19 DEF Ignore, SafeInv, TypeOK, Points, Roles, Checking, Launching, Up
<1>20. ASSUME NEW p \in Procs, StopComponents(p)
      PROVE  TypeOK'
  BY <1>20 DEF StopComponents, SafeInv, TypeOK, Points, Roles, Checking, Launching, Up
<1>21. CASE UNCHANGED vars
  BY <1>21 DEF vars, SafeInv, TypeOK, Points, Roles, Checking, Launching, Up
<1>22. QED
  BY <1>1, <1>2, <1>3, <1>4, <1>5, <1>6, <1>7, <1>8, <1>9, <1>10, <1>11, <1>12, <1>13,
     <1>14, <1>15, <1>16, <1>17, <1>18, <1>19, <1>20, <1>21
     DEF Next, Command, Launch, Daemon, DefaultTerm

\* A process is at the program points of its role.
LEMMA RoledStep ==
  ASSUME SafeInv, [Next]_vars
  PROVE  Roled'
<1>1. ASSUME NEW p \in Procs, NEW r \in Roles, NEW n \in Pids, Fork(p, r, n)
      PROVE  Roled'
  BY <1>1 DEF Fork, NextBorn, SafeInv, TypeOK, Roled, Checking
<1>2. ASSUME NEW p \in Procs, Die(p)
      PROVE  Roled'
  BY <1>2 DEF Die, SafeInv, TypeOK, Roled, Checking
<1>3. ASSUME NEW p \in Procs, ReadFile(p)
      PROVE  Roled'
  BY <1>3 DEF ReadFile, Return, After, SafeInv, TypeOK, Roled, Checking
<1>4. ASSUME NEW p \in Procs, Kill0(p)
      PROVE  Roled'
  BY <1>4 DEF Kill0, SafeInv, TypeOK, Roled, Checking
<1>5. ASSUME NEW p \in Procs, Kill0Denied(p)
      PROVE  Roled'
  BY <1>5 DEF Kill0Denied, Return, After, SafeInv, TypeOK, Roled, Checking
<1>6. ASSUME NEW p \in Procs, Stat(p)
      PROVE  Roled'
  BY <1>6 DEF Stat, SafeInv, TypeOK, Roled, Checking
<1>7. ASSUME NEW p \in Procs, Cmdline(p)
      PROVE  Roled'
  BY <1>7 DEF Cmdline, Return, After, SafeInv, TypeOK, Roled, Checking
<1>8. ASSUME NEW p \in Procs, Cleanup(p)
      PROVE  Roled'
  BY <1>8 DEF Cleanup, Return, After, SafeInv, TypeOK, Roled, Checking
<1>9. ASSUME NEW p \in Procs, Terminate(p)
      PROVE  Roled'
  BY <1>9 DEF Terminate, SafeInv, TypeOK, Roled, Checking
<1>10. ASSUME NEW p \in Procs, NEW q \in Procs, NEW n \in Pids, Spawn(p, q, n)
      PROVE  Roled'
  BY <1>10 DEF Spawn, NextBorn, SafeInv, TypeOK, Roled, Checking
<1>11. ASSUME NEW p \in Procs, SpawnFails(p)
      PROVE  Roled'
  BY <1>11 DEF SpawnFails, SafeInv, TypeOK, Roled, Checking
<1>12. ASSUME NEW p \in Procs, Poll(p)
      PROVE  Roled'
  BY <1>12 DEF Poll, SafeInv, TypeOK, Roled, Checking, Launching
<1>13. ASSUME NEW p \in Procs, GiveUp(p)
      PROVE  Roled'
  BY <1>13 DEF GiveUp, SafeInv, TypeOK, Roled, Checking
<1>14. ASSUME NEW p \in Procs, StartFails(p)
      PROVE  Roled'
  BY <1>14 DEF StartFails, SafeInv, TypeOK, Roled, Checking
<1>15. ASSUME NEW p \in Procs, WritePidFile(p)
      PROVE  Roled'
  BY <1>15 DEF WritePidFile, SafeInv, TypeOK, Roled, Checking
<1>16. ASSUME NEW p \in Procs, Install(p)
      PROVE  Roled'
  BY <1>16 DEF Install, SafeInv, TypeOK, Roled, Checking
<1>17. ASSUME NEW p \in Procs, Handle(p)
      PROVE  Roled'
  BY <1>17 DEF Handle, SafeInv, TypeOK, Roled, Checking
<1>18. ASSUME NEW p \in Procs, Enter(p)
      PROVE  Roled'
  BY <1>18 DEF Enter, SafeInv, TypeOK, Roled, Checking
<1>19. ASSUME NEW p \in Procs, Ignore(p)
      PROVE  Roled'
  BY <1>19 DEF Ignore, SafeInv, TypeOK, Roled, Checking
<1>20. ASSUME NEW p \in Procs, StopComponents(p)
      PROVE  Roled'
  BY <1>20 DEF StopComponents, SafeInv, TypeOK, Roled, Checking
<1>21. CASE UNCHANGED vars
  BY <1>21 DEF vars, SafeInv, TypeOK, Roled, Checking
<1>22. QED
  BY <1>1, <1>2, <1>3, <1>4, <1>5, <1>6, <1>7, <1>8, <1>9, <1>10, <1>11, <1>12, <1>13,
     <1>14, <1>15, <1>16, <1>17, <1>18, <1>19, <1>20, <1>21
     DEF Next, Command, Launch, Daemon, DefaultTerm

\* A process is born with a PID nobody has.
LEMMA PidsDistinctStep ==
  ASSUME SafeInv, [Next]_vars
  PROVE  PidsDistinct'
<1>1. ASSUME NEW p \in Procs, NEW r \in Roles, NEW n \in Pids, Fork(p, r, n)
      PROVE  PidsDistinct'
  BY <1>1 DEF Fork, NextBorn, SafeInv, TypeOK, PidsDistinct, Holders
<1>2. ASSUME NEW p \in Procs, Die(p)
      PROVE  PidsDistinct'
  BY <1>2 DEF Die, SafeInv, TypeOK, PidsDistinct, Holders
<1>3. ASSUME NEW p \in Procs, ReadFile(p)
      PROVE  PidsDistinct'
  BY <1>3 DEF ReadFile, Return, After, SafeInv, TypeOK, PidsDistinct, Holders
<1>4. ASSUME NEW p \in Procs, Kill0(p)
      PROVE  PidsDistinct'
  BY <1>4 DEF Kill0, SafeInv, TypeOK, PidsDistinct, Holders
<1>5. ASSUME NEW p \in Procs, Kill0Denied(p)
      PROVE  PidsDistinct'
  BY <1>5 DEF Kill0Denied, Return, After, SafeInv, TypeOK, PidsDistinct, Holders
<1>6. ASSUME NEW p \in Procs, Stat(p)
      PROVE  PidsDistinct'
  BY <1>6 DEF Stat, SafeInv, TypeOK, PidsDistinct, Holders
<1>7. ASSUME NEW p \in Procs, Cmdline(p)
      PROVE  PidsDistinct'
  BY <1>7 DEF Cmdline, Return, After, SafeInv, TypeOK, PidsDistinct, Holders
<1>8. ASSUME NEW p \in Procs, Cleanup(p)
      PROVE  PidsDistinct'
  BY <1>8 DEF Cleanup, Return, After, SafeInv, TypeOK, PidsDistinct, Holders
<1>9. ASSUME NEW p \in Procs, Terminate(p)
      PROVE  PidsDistinct'
  BY <1>9 DEF Terminate, SafeInv, TypeOK, PidsDistinct, Holders
<1>10. ASSUME NEW p \in Procs, NEW q \in Procs, NEW n \in Pids, Spawn(p, q, n)
      PROVE  PidsDistinct'
  BY <1>10 DEF Spawn, NextBorn, SafeInv, TypeOK, PidsDistinct, Holders
<1>11. ASSUME NEW p \in Procs, SpawnFails(p)
      PROVE  PidsDistinct'
  BY <1>11 DEF SpawnFails, SafeInv, TypeOK, PidsDistinct, Holders
<1>12. ASSUME NEW p \in Procs, Poll(p)
      PROVE  PidsDistinct'
  BY <1>12 DEF Poll, SafeInv, TypeOK, PidsDistinct, Holders
<1>13. ASSUME NEW p \in Procs, GiveUp(p)
      PROVE  PidsDistinct'
  BY <1>13 DEF GiveUp, SafeInv, TypeOK, PidsDistinct, Holders
<1>14. ASSUME NEW p \in Procs, StartFails(p)
      PROVE  PidsDistinct'
  BY <1>14 DEF StartFails, SafeInv, TypeOK, PidsDistinct, Holders
<1>15. ASSUME NEW p \in Procs, WritePidFile(p)
      PROVE  PidsDistinct'
  BY <1>15 DEF WritePidFile, SafeInv, TypeOK, PidsDistinct, Holders
<1>16. ASSUME NEW p \in Procs, Install(p)
      PROVE  PidsDistinct'
  BY <1>16 DEF Install, SafeInv, TypeOK, PidsDistinct, Holders
<1>17. ASSUME NEW p \in Procs, Handle(p)
      PROVE  PidsDistinct'
  BY <1>17 DEF Handle, SafeInv, TypeOK, PidsDistinct, Holders
<1>18. ASSUME NEW p \in Procs, Enter(p)
      PROVE  PidsDistinct'
  BY <1>18 DEF Enter, SafeInv, TypeOK, PidsDistinct, Holders
<1>19. ASSUME NEW p \in Procs, Ignore(p)
      PROVE  PidsDistinct'
  BY <1>19 DEF Ignore, SafeInv, TypeOK, PidsDistinct, Holders
<1>20. ASSUME NEW p \in Procs, StopComponents(p)
      PROVE  PidsDistinct'
  BY <1>20 DEF StopComponents, SafeInv, TypeOK, PidsDistinct, Holders
<1>21. CASE UNCHANGED vars
  BY <1>21 DEF vars, SafeInv, TypeOK, PidsDistinct, Holders
<1>22. QED
  BY <1>1, <1>2, <1>3, <1>4, <1>5, <1>6, <1>7, <1>8, <1>9, <1>10, <1>11, <1>12, <1>13,
     <1>14, <1>15, <1>16, <1>17, <1>18, <1>19, <1>20, <1>21
     DEF Next, Command, Launch, Daemon, DefaultTerm

\* The file and what is read from it name processes that called _write_pid_file.
LEMMA NamesAreWritersStep ==
  ASSUME SafeInv, [Next]_vars
  PROVE  NamesAreWriters'
<1>1. ASSUME NEW p \in Procs, NEW r \in Roles, NEW n \in Pids, Fork(p, r, n)
      PROVE  NamesAreWriters'
  BY <1>1 DEF Fork, NextBorn, SafeInv, TypeOK, NamesAreWriters, Wrote, Checking
<1>2. ASSUME NEW p \in Procs, Die(p)
      PROVE  NamesAreWriters'
  BY <1>2 DEF Die, SafeInv, TypeOK, NamesAreWriters, Wrote, Checking
<1>3. ASSUME NEW p \in Procs, ReadFile(p)
      PROVE  NamesAreWriters'
  BY <1>3, NoFileNoProcess
     DEF ReadFile, Return, After, SafeInv, TypeOK, NamesAreWriters, Wrote, Checking
<1>4. ASSUME NEW p \in Procs, Kill0(p)
      PROVE  NamesAreWriters'
  BY <1>4 DEF Kill0, SafeInv, TypeOK, NamesAreWriters, Wrote, Checking
<1>5. ASSUME NEW p \in Procs, Kill0Denied(p)
      PROVE  NamesAreWriters'
  BY <1>5, NoFileNoProcess
     DEF Kill0Denied, Return, After, SafeInv, TypeOK, NamesAreWriters, Wrote, Checking
<1>6. ASSUME NEW p \in Procs, Stat(p)
      PROVE  NamesAreWriters'
  BY <1>6 DEF Stat, SafeInv, TypeOK, NamesAreWriters, Wrote, Checking
<1>7. ASSUME NEW p \in Procs, Cmdline(p)
      PROVE  NamesAreWriters'
  BY <1>7, NoFileNoProcess
     DEF Cmdline, Return, After, SafeInv, TypeOK, NamesAreWriters, Wrote, Checking
<1>8. ASSUME NEW p \in Procs, Cleanup(p)
      PROVE  NamesAreWriters'
  BY <1>8, NoFileNoProcess
     DEF Cleanup, Return, After, SafeInv, TypeOK, NamesAreWriters, Wrote, Checking
<1>9. ASSUME NEW p \in Procs, Terminate(p)
      PROVE  NamesAreWriters'
  BY <1>9 DEF Terminate, SafeInv, TypeOK, NamesAreWriters, Wrote, Checking
<1>10. ASSUME NEW p \in Procs, NEW q \in Procs, NEW n \in Pids, Spawn(p, q, n)
      PROVE  NamesAreWriters'
  BY <1>10 DEF Spawn, NextBorn, SafeInv, TypeOK, NamesAreWriters, Wrote, Checking
<1>11. ASSUME NEW p \in Procs, SpawnFails(p)
      PROVE  NamesAreWriters'
  BY <1>11 DEF SpawnFails, SafeInv, TypeOK, NamesAreWriters, Wrote, Checking
<1>12. ASSUME NEW p \in Procs, Poll(p)
      PROVE  NamesAreWriters'
  BY <1>12 DEF Poll, SafeInv, TypeOK, NamesAreWriters, Wrote, Checking
<1>13. ASSUME NEW p \in Procs, GiveUp(p)
      PROVE  NamesAreWriters'
  BY <1>13 DEF GiveUp, SafeInv, TypeOK, NamesAreWriters, Wrote, Checking
<1>14. ASSUME NEW p \in Procs, StartFails(p)
      PROVE  NamesAreWriters'
  BY <1>14 DEF StartFails, SafeInv, TypeOK, NamesAreWriters, Wrote, Checking
<1>15. ASSUME NEW p \in Procs, WritePidFile(p)
      PROVE  NamesAreWriters'
  BY <1>15, NoFileNoProcess
     DEF WritePidFile, SafeInv, TypeOK, NamesAreWriters, Wrote, Checking, Up
<1>16. ASSUME NEW p \in Procs, Install(p)
      PROVE  NamesAreWriters'
  BY <1>16 DEF Install, SafeInv, TypeOK, NamesAreWriters, Wrote, Checking
<1>17. ASSUME NEW p \in Procs, Handle(p)
      PROVE  NamesAreWriters'
  BY <1>17 DEF Handle, SafeInv, TypeOK, NamesAreWriters, Wrote, Checking
<1>18. ASSUME NEW p \in Procs, Enter(p)
      PROVE  NamesAreWriters'
  BY <1>18 DEF Enter, SafeInv, TypeOK, NamesAreWriters, Wrote, Checking
<1>19. ASSUME NEW p \in Procs, Ignore(p)
      PROVE  NamesAreWriters'
  BY <1>19 DEF Ignore, SafeInv, TypeOK, NamesAreWriters, Wrote, Checking
<1>20. ASSUME NEW p \in Procs, StopComponents(p)
      PROVE  NamesAreWriters'
  BY <1>20, NoFileNoProcess
     DEF StopComponents, SafeInv, TypeOK, NamesAreWriters, Wrote, Checking
<1>21. CASE UNCHANGED vars
  BY <1>21 DEF vars, SafeInv, TypeOK, NamesAreWriters, Wrote, Checking
<1>22. QED
  BY <1>1, <1>2, <1>3, <1>4, <1>5, <1>6, <1>7, <1>8, <1>9, <1>10, <1>11, <1>12, <1>13,
     <1>14, <1>15, <1>16, <1>17, <1>18, <1>19, <1>20, <1>21
     DEF Next, Command, Launch, Daemon, DefaultTerm

\* After the start time was compared, the PID is the daemon's or nobody's: the
\* kernel does not reuse it while it is being checked.
LEMMA StatHoldsStep ==
  ASSUME SafeInv, [Next]_vars
  PROVE  StatHolds'
<1>1. ASSUME NEW p \in Procs, NEW r \in Roles, NEW n \in Pids, Fork(p, r, n)
      PROVE  StatHolds'
  BY <1>1
     DEF Fork, NextBorn, SafeInv, TypeOK, NamesAreWriters, StatHolds, Holders,
         Checking
<1>2. ASSUME NEW p \in Procs, Die(p)
      PROVE  StatHolds'
  BY <1>2 DEF Die, SafeInv, TypeOK, NamesAreWriters, StatHolds, Holders
<1>3. ASSUME NEW p \in Procs, ReadFile(p)
      PROVE  StatHolds'
  BY <1>3
     DEF ReadFile, Return, After, SafeInv, TypeOK, NamesAreWriters, StatHolds, Holders
<1>4. ASSUME NEW p \in Procs, Kill0(p)
      PROVE  StatHolds'
  BY <1>4 DEF Kill0, SafeInv, TypeOK, NamesAreWriters, StatHolds, Holders
<1>5. ASSUME NEW p \in Procs, Kill0Denied(p)
      PROVE  StatHolds'
  BY <1>5
     DEF Kill0Denied, Return, After, SafeInv, TypeOK, NamesAreWriters, StatHolds,
         Holders
<1>6. ASSUME NEW p \in Procs, Stat(p)
      PROVE  StatHolds'
  BY <1>6 DEF Stat, SafeInv, TypeOK, NamesAreWriters, StatHolds, Holders
<1>7. ASSUME NEW p \in Procs, Cmdline(p)
      PROVE  StatHolds'
  BY <1>7
     DEF Cmdline, Return, After, SafeInv, TypeOK, NamesAreWriters, StatHolds, Holders
<1>8. ASSUME NEW p \in Procs, Cleanup(p)
      PROVE  StatHolds'
  BY <1>8
     DEF Cleanup, Return, After, SafeInv, TypeOK, NamesAreWriters, StatHolds, Holders
<1>9. ASSUME NEW p \in Procs, Terminate(p)
      PROVE  StatHolds'
  BY <1>9 DEF Terminate, SafeInv, TypeOK, NamesAreWriters, StatHolds, Holders
<1>10. ASSUME NEW p \in Procs, NEW q \in Procs, NEW n \in Pids, Spawn(p, q, n)
      PROVE  StatHolds'
  BY <1>10
     DEF Spawn, NextBorn, SafeInv, TypeOK, NamesAreWriters, StatHolds, Holders,
         Checking
<1>11. ASSUME NEW p \in Procs, SpawnFails(p)
      PROVE  StatHolds'
  BY <1>11 DEF SpawnFails, SafeInv, TypeOK, NamesAreWriters, StatHolds, Holders
<1>12. ASSUME NEW p \in Procs, Poll(p)
      PROVE  StatHolds'
  BY <1>12 DEF Poll, SafeInv, TypeOK, NamesAreWriters, StatHolds, Holders
<1>13. ASSUME NEW p \in Procs, GiveUp(p)
      PROVE  StatHolds'
  BY <1>13 DEF GiveUp, SafeInv, TypeOK, NamesAreWriters, StatHolds, Holders
<1>14. ASSUME NEW p \in Procs, StartFails(p)
      PROVE  StatHolds'
  BY <1>14 DEF StartFails, SafeInv, TypeOK, NamesAreWriters, StatHolds, Holders
<1>15. ASSUME NEW p \in Procs, WritePidFile(p)
      PROVE  StatHolds'
  BY <1>15 DEF WritePidFile, SafeInv, TypeOK, NamesAreWriters, StatHolds, Holders
<1>16. ASSUME NEW p \in Procs, Install(p)
      PROVE  StatHolds'
  BY <1>16 DEF Install, SafeInv, TypeOK, NamesAreWriters, StatHolds, Holders
<1>17. ASSUME NEW p \in Procs, Handle(p)
      PROVE  StatHolds'
  BY <1>17 DEF Handle, SafeInv, TypeOK, NamesAreWriters, StatHolds, Holders
<1>18. ASSUME NEW p \in Procs, Enter(p)
      PROVE  StatHolds'
  BY <1>18 DEF Enter, SafeInv, TypeOK, NamesAreWriters, StatHolds, Holders
<1>19. ASSUME NEW p \in Procs, Ignore(p)
      PROVE  StatHolds'
  BY <1>19 DEF Ignore, SafeInv, TypeOK, NamesAreWriters, StatHolds, Holders
<1>20. ASSUME NEW p \in Procs, StopComponents(p)
      PROVE  StatHolds'
  BY <1>20 DEF StopComponents, SafeInv, TypeOK, NamesAreWriters, StatHolds, Holders
<1>21. CASE UNCHANGED vars
  BY <1>21 DEF vars, SafeInv, TypeOK, NamesAreWriters, StatHolds, Holders
<1>22. QED
  BY <1>1, <1>2, <1>3, <1>4, <1>5, <1>6, <1>7, <1>8, <1>9, <1>10, <1>11, <1>12, <1>13,
     <1>14, <1>15, <1>16, <1>17, <1>18, <1>19, <1>20, <1>21
     DEF Next, Command, Launch, Daemon, DefaultTerm

\* A process that has gone does not come back.
LEMMA StaleIsGoneStep ==
  ASSUME SafeInv, [Next]_vars
  PROVE  StaleIsGone'
<1>1. ASSUME NEW p \in Procs, NEW r \in Roles, NEW n \in Pids, Fork(p, r, n)
      PROVE  StaleIsGone'
  BY <1>1 DEF Fork, NextBorn, SafeInv, TypeOK, StaleIsGone, Checking
<1>2. ASSUME NEW p \in Procs, Die(p)
      PROVE  StaleIsGone'
  BY <1>2 DEF Die, SafeInv, TypeOK, StaleIsGone, Checking
<1>3. ASSUME NEW p \in Procs, ReadFile(p)
      PROVE  StaleIsGone'
  BY <1>3 DEF ReadFile, Return, After, SafeInv, TypeOK, StaleIsGone, Checking
<1>4. ASSUME NEW p \in Procs, Kill0(p)
      PROVE  StaleIsGone'
  BY <1>4 DEF Kill0, SafeInv, TypeOK, StaleIsGone, Checking
<1>5. ASSUME NEW p \in Procs, Kill0Denied(p)
      PROVE  StaleIsGone'
  BY <1>5 DEF Kill0Denied, Return, After, SafeInv, TypeOK, StaleIsGone, Checking
<1>6. ASSUME NEW p \in Procs, Stat(p)
      PROVE  StaleIsGone'
  BY <1>6 DEF Stat, SafeInv, TypeOK, StaleIsGone, Checking
<1>7. ASSUME NEW p \in Procs, Cmdline(p)
      PROVE  StaleIsGone'
  BY <1>7 DEF Cmdline, Return, After, SafeInv, TypeOK, StaleIsGone, Checking
<1>8. ASSUME NEW p \in Procs, Cleanup(p)
      PROVE  StaleIsGone'
  BY <1>8 DEF Cleanup, Return, After, SafeInv, TypeOK, StaleIsGone, Checking
<1>9. ASSUME NEW p \in Procs, Terminate(p)
      PROVE  StaleIsGone'
  BY <1>9 DEF Terminate, SafeInv, TypeOK, StaleIsGone, Checking
<1>10. ASSUME NEW p \in Procs, NEW q \in Procs, NEW n \in Pids, Spawn(p, q, n)
      PROVE  StaleIsGone'
  BY <1>10 DEF Spawn, NextBorn, SafeInv, TypeOK, StaleIsGone, Checking
<1>11. ASSUME NEW p \in Procs, SpawnFails(p)
      PROVE  StaleIsGone'
  BY <1>11 DEF SpawnFails, SafeInv, TypeOK, StaleIsGone, Checking
<1>12. ASSUME NEW p \in Procs, Poll(p)
      PROVE  StaleIsGone'
  BY <1>12 DEF Poll, SafeInv, TypeOK, StaleIsGone, Checking
<1>13. ASSUME NEW p \in Procs, GiveUp(p)
      PROVE  StaleIsGone'
  BY <1>13 DEF GiveUp, SafeInv, TypeOK, StaleIsGone, Checking
<1>14. ASSUME NEW p \in Procs, StartFails(p)
      PROVE  StaleIsGone'
  BY <1>14 DEF StartFails, SafeInv, TypeOK, StaleIsGone, Checking
<1>15. ASSUME NEW p \in Procs, WritePidFile(p)
      PROVE  StaleIsGone'
  BY <1>15 DEF WritePidFile, SafeInv, TypeOK, StaleIsGone, Checking
<1>16. ASSUME NEW p \in Procs, Install(p)
      PROVE  StaleIsGone'
  BY <1>16 DEF Install, SafeInv, TypeOK, StaleIsGone, Checking
<1>17. ASSUME NEW p \in Procs, Handle(p)
      PROVE  StaleIsGone'
  BY <1>17 DEF Handle, SafeInv, TypeOK, StaleIsGone, Checking
<1>18. ASSUME NEW p \in Procs, Enter(p)
      PROVE  StaleIsGone'
  BY <1>18 DEF Enter, SafeInv, TypeOK, StaleIsGone, Checking
<1>19. ASSUME NEW p \in Procs, Ignore(p)
      PROVE  StaleIsGone'
  BY <1>19 DEF Ignore, SafeInv, TypeOK, StaleIsGone, Checking
<1>20. ASSUME NEW p \in Procs, StopComponents(p)
      PROVE  StaleIsGone'
  BY <1>20 DEF StopComponents, SafeInv, TypeOK, StaleIsGone, Checking
<1>21. CASE UNCHANGED vars
  BY <1>21 DEF vars, SafeInv, TypeOK, StaleIsGone, Checking
<1>22. QED
  BY <1>1, <1>2, <1>3, <1>4, <1>5, <1>6, <1>7, <1>8, <1>9, <1>10, <1>11, <1>12, <1>13,
     <1>14, <1>15, <1>16, <1>17, <1>18, <1>19, <1>20, <1>21
     DEF Next, Command, Launch, Daemon, DefaultTerm

\* A command that checks a process that has gone finds no command line, or that
\* of another process, which the comparison of start times has excluded.
LEMMA VerdictSoundStep ==
  ASSUME SafeInv, [Next]_vars
  PROVE  VerdictSound'
<1>1. ASSUME NEW p \in Procs, NEW r \in Roles, NEW n \in Pids, Fork(p, r, n)
      PROVE  VerdictSound'
  BY <1>1
     DEF Fork, NextBorn, SafeInv, TypeOK, StatHolds, StaleIsGone, VerdictSound,
         Holders
<1>2. ASSUME NEW p \in Procs, Die(p)
      PROVE  VerdictSound'
  BY <1>2 DEF Die, SafeInv, TypeOK, StatHolds, StaleIsGone, VerdictSound, Holders
<1>3. ASSUME NEW p \in Procs, ReadFile(p)
      PROVE  VerdictSound'
  BY <1>3
     DEF ReadFile, Return, After, SafeInv, TypeOK, StatHolds, StaleIsGone,
         VerdictSound, Holders
<1>4. ASSUME NEW p \in Procs, Kill0(p)
      PROVE  VerdictSound'
  BY <1>4 DEF Kill0, SafeInv, TypeOK, StatHolds, StaleIsGone, VerdictSound, Holders
<1>5. ASSUME NEW p \in Procs, Kill0Denied(p)
      PROVE  VerdictSound'
  BY <1>5
     DEF Kill0Denied, Return, After, SafeInv, TypeOK, StatHolds, StaleIsGone,
         VerdictSound, Holders
<1>6. ASSUME NEW p \in Procs, Stat(p)
      PROVE  VerdictSound'
  BY <1>6 DEF Stat, SafeInv, TypeOK, StatHolds, StaleIsGone, VerdictSound, Holders
<1>7. ASSUME NEW p \in Procs, Cmdline(p)
      PROVE  VerdictSound'
  BY <1>7
     DEF Cmdline, Return, After, SafeInv, TypeOK, StatHolds, StaleIsGone, VerdictSound,
         Holders
<1>8. ASSUME NEW p \in Procs, Cleanup(p)
      PROVE  VerdictSound'
  BY <1>8
     DEF Cleanup, Return, After, SafeInv, TypeOK, StatHolds, StaleIsGone, VerdictSound,
         Holders
<1>9. ASSUME NEW p \in Procs, Terminate(p)
      PROVE  VerdictSound'
  BY <1>9 DEF Terminate, SafeInv, TypeOK, StatHolds, StaleIsGone, VerdictSound, Holders
<1>10. ASSUME NEW p \in Procs, NEW q \in Procs, NEW n \in Pids, Spawn(p, q, n)
      PROVE  VerdictSound'
  BY <1>10
     DEF Spawn, NextBorn, SafeInv, TypeOK, StatHolds, StaleIsGone, VerdictSound,
         Holders
<1>11. ASSUME NEW p \in Procs, SpawnFails(p)
      PROVE  VerdictSound'
  BY <1>11
     DEF SpawnFails, SafeInv, TypeOK, StatHolds, StaleIsGone, VerdictSound, Holders
<1>12. ASSUME NEW p \in Procs, Poll(p)
      PROVE  VerdictSound'
  BY <1>12 DEF Poll, SafeInv, TypeOK, StatHolds, StaleIsGone, VerdictSound, Holders
<1>13. ASSUME NEW p \in Procs, GiveUp(p)
      PROVE  VerdictSound'
  BY <1>13 DEF GiveUp, SafeInv, TypeOK, StatHolds, StaleIsGone, VerdictSound, Holders
<1>14. ASSUME NEW p \in Procs, StartFails(p)
      PROVE  VerdictSound'
  BY <1>14
     DEF StartFails, SafeInv, TypeOK, StatHolds, StaleIsGone, VerdictSound, Holders
<1>15. ASSUME NEW p \in Procs, WritePidFile(p)
      PROVE  VerdictSound'
  BY <1>15
     DEF WritePidFile, SafeInv, TypeOK, StatHolds, StaleIsGone, VerdictSound, Holders
<1>16. ASSUME NEW p \in Procs, Install(p)
      PROVE  VerdictSound'
  BY <1>16 DEF Install, SafeInv, TypeOK, StatHolds, StaleIsGone, VerdictSound, Holders
<1>17. ASSUME NEW p \in Procs, Handle(p)
      PROVE  VerdictSound'
  BY <1>17 DEF Handle, SafeInv, TypeOK, StatHolds, StaleIsGone, VerdictSound, Holders
<1>18. ASSUME NEW p \in Procs, Enter(p)
      PROVE  VerdictSound'
  BY <1>18 DEF Enter, SafeInv, TypeOK, StatHolds, StaleIsGone, VerdictSound, Holders
<1>19. ASSUME NEW p \in Procs, Ignore(p)
      PROVE  VerdictSound'
  BY <1>19 DEF Ignore, SafeInv, TypeOK, StatHolds, StaleIsGone, VerdictSound, Holders
<1>20. ASSUME NEW p \in Procs, StopComponents(p)
      PROVE  VerdictSound'
  BY <1>20
     DEF StopComponents, SafeInv, TypeOK, StatHolds, StaleIsGone, VerdictSound,
         Holders
<1>21. CASE UNCHANGED vars
  BY <1>21 DEF vars, SafeInv, TypeOK, StatHolds, StaleIsGone, VerdictSound, Holders
<1>22. QED
  BY <1>1, <1>2, <1>3, <1>4, <1>5, <1>6, <1>7, <1>8, <1>9, <1>10, <1>11, <1>12, <1>13,
     <1>14, <1>15, <1>16, <1>17, <1>18, <1>19, <1>20, <1>21
     DEF Next, Command, Launch, Daemon, DefaultTerm

\* os.kill reaches the process that wrote the file, or nobody.
LEMMA PendingWroteStep ==
  ASSUME SafeInv, [Next]_vars
  PROVE  PendingWrote'
<1>1. ASSUME NEW p \in Procs, NEW r \in Roles, NEW n \in Pids, Fork(p, r, n)
      PROVE  PendingWrote'
  BY <1>1
     DEF Fork, NextBorn, SafeInv, TypeOK, NamesAreWriters, StatHolds, PendingWrote,
         Wrote
<1>2. ASSUME NEW p \in Procs, Die(p)
      PROVE  PendingWrote'
  BY <1>2 DEF Die, SafeInv, TypeOK, NamesAreWriters, StatHolds, PendingWrote, Wrote
<1>3. ASSUME NEW p \in Procs, ReadFile(p)
      PROVE  PendingWrote'
  BY <1>3
     DEF ReadFile, Return, After, SafeInv, TypeOK, NamesAreWriters, StatHolds,
         PendingWrote, Wrote
<1>4. ASSUME NEW p \in Procs, Kill0(p)
      PROVE  PendingWrote'
  BY <1>4 DEF Kill0, SafeInv, TypeOK, NamesAreWriters, StatHolds, PendingWrote, Wrote
<1>5. ASSUME NEW p \in Procs, Kill0Denied(p)
      PROVE  PendingWrote'
  BY <1>5
     DEF Kill0Denied, Return, After, SafeInv, TypeOK, NamesAreWriters, StatHolds,
         PendingWrote, Wrote
<1>6. ASSUME NEW p \in Procs, Stat(p)
      PROVE  PendingWrote'
  BY <1>6 DEF Stat, SafeInv, TypeOK, NamesAreWriters, StatHolds, PendingWrote, Wrote
<1>7. ASSUME NEW p \in Procs, Cmdline(p)
      PROVE  PendingWrote'
  BY <1>7
     DEF Cmdline, Return, After, SafeInv, TypeOK, NamesAreWriters, StatHolds,
         PendingWrote, Wrote
<1>8. ASSUME NEW p \in Procs, Cleanup(p)
      PROVE  PendingWrote'
  BY <1>8
     DEF Cleanup, Return, After, SafeInv, TypeOK, NamesAreWriters, StatHolds,
         PendingWrote, Wrote
<1>9. ASSUME NEW p \in Procs, Terminate(p)
      PROVE  PendingWrote'
  BY <1>9
     DEF Terminate, SafeInv, TypeOK, NamesAreWriters, StatHolds, PendingWrote, Wrote
<1>10. ASSUME NEW p \in Procs, NEW q \in Procs, NEW n \in Pids, Spawn(p, q, n)
      PROVE  PendingWrote'
  BY <1>10
     DEF Spawn, NextBorn, SafeInv, TypeOK, NamesAreWriters, StatHolds, PendingWrote,
         Wrote
<1>11. ASSUME NEW p \in Procs, SpawnFails(p)
      PROVE  PendingWrote'
  BY <1>11
     DEF SpawnFails, SafeInv, TypeOK, NamesAreWriters, StatHolds, PendingWrote, Wrote
<1>12. ASSUME NEW p \in Procs, Poll(p)
      PROVE  PendingWrote'
  BY <1>12 DEF Poll, SafeInv, TypeOK, NamesAreWriters, StatHolds, PendingWrote, Wrote
<1>13. ASSUME NEW p \in Procs, GiveUp(p)
      PROVE  PendingWrote'
  BY <1>13 DEF GiveUp, SafeInv, TypeOK, NamesAreWriters, StatHolds, PendingWrote, Wrote
<1>14. ASSUME NEW p \in Procs, StartFails(p)
      PROVE  PendingWrote'
  BY <1>14
     DEF StartFails, SafeInv, TypeOK, NamesAreWriters, StatHolds, PendingWrote, Wrote
<1>15. ASSUME NEW p \in Procs, WritePidFile(p)
      PROVE  PendingWrote'
  BY <1>15
     DEF WritePidFile, SafeInv, TypeOK, NamesAreWriters, StatHolds, PendingWrote,
         Wrote
<1>16. ASSUME NEW p \in Procs, Install(p)
      PROVE  PendingWrote'
  BY <1>16 DEF Install, SafeInv, TypeOK, NamesAreWriters, StatHolds, PendingWrote, Wrote
<1>17. ASSUME NEW p \in Procs, Handle(p)
      PROVE  PendingWrote'
  BY <1>17 DEF Handle, SafeInv, TypeOK, NamesAreWriters, StatHolds, PendingWrote, Wrote
<1>18. ASSUME NEW p \in Procs, Enter(p)
      PROVE  PendingWrote'
  BY <1>18 DEF Enter, SafeInv, TypeOK, NamesAreWriters, StatHolds, PendingWrote, Wrote
<1>19. ASSUME NEW p \in Procs, Ignore(p)
      PROVE  PendingWrote'
  BY <1>19 DEF Ignore, SafeInv, TypeOK, NamesAreWriters, StatHolds, PendingWrote, Wrote
<1>20. ASSUME NEW p \in Procs, StopComponents(p)
      PROVE  PendingWrote'
  BY <1>20
     DEF StopComponents, SafeInv, TypeOK, NamesAreWriters, StatHolds, PendingWrote,
         Wrote
<1>21. CASE UNCHANGED vars
  BY <1>21 DEF vars, SafeInv, TypeOK, NamesAreWriters, StatHolds, PendingWrote, Wrote
<1>22. QED
  BY <1>1, <1>2, <1>3, <1>4, <1>5, <1>6, <1>7, <1>8, <1>9, <1>10, <1>11, <1>12, <1>13,
     <1>14, <1>15, <1>16, <1>17, <1>18, <1>19, <1>20, <1>21
     DEF Next, Command, Launch, Daemon, DefaultTerm

-----------------------------------------------------------------------------
(* SerialUserServed: the user waits for each command. *)

\* What is out of order stays so.
LEMMA OrderlyBefore ==
  ASSUME orderly', [Next]_vars
  PROVE  orderly
BY DEF Next, vars, Fork, Die, Command, ReadFile, Kill0, Kill0Denied, Stat, Cmdline, Cleanup,
       Terminate, Launch, Spawn, SpawnFails, Poll, GiveUp, Daemon, StartFails, WritePidFile,
       Install, DefaultTerm, Handle, Enter, Ignore, StopComponents

\* A launch has at most one child, and has it before it polls.
LEMMA ParentsStep ==
  ASSUME SafeInv, OrderlyInv, [Next]_vars
  PROVE  Parents'
<1>1. ASSUME NEW p \in Procs, NEW r \in Roles, NEW n \in Pids, Fork(p, r, n)
      PROVE  Parents'
  BY <1>1 DEF Fork, NextBorn, SafeInv, TypeOK, OrderlyInv, Parents
<1>2. ASSUME NEW p \in Procs, Die(p)
      PROVE  Parents'
  BY <1>2 DEF Die, SafeInv, TypeOK, OrderlyInv, Parents
<1>3. ASSUME NEW p \in Procs, ReadFile(p)
      PROVE  Parents'
  BY <1>3 DEF ReadFile, Return, After, SafeInv, TypeOK, OrderlyInv, Parents
<1>4. ASSUME NEW p \in Procs, Kill0(p)
      PROVE  Parents'
  BY <1>4 DEF Kill0, SafeInv, TypeOK, OrderlyInv, Parents
<1>5. ASSUME NEW p \in Procs, Kill0Denied(p)
      PROVE  Parents'
  BY <1>5 DEF Kill0Denied, Return, After, SafeInv, TypeOK, OrderlyInv, Parents
<1>6. ASSUME NEW p \in Procs, Stat(p)
      PROVE  Parents'
  BY <1>6 DEF Stat, SafeInv, TypeOK, OrderlyInv, Parents
<1>7. ASSUME NEW p \in Procs, Cmdline(p)
      PROVE  Parents'
  BY <1>7 DEF Cmdline, Return, After, SafeInv, TypeOK, OrderlyInv, Parents
<1>8. ASSUME NEW p \in Procs, Cleanup(p)
      PROVE  Parents'
  BY <1>8 DEF Cleanup, Return, After, SafeInv, TypeOK, OrderlyInv, Parents
<1>9. ASSUME NEW p \in Procs, Terminate(p)
      PROVE  Parents'
  BY <1>9 DEF Terminate, SafeInv, TypeOK, OrderlyInv, Parents
<1>10. ASSUME NEW p \in Procs, NEW q \in Procs, NEW n \in Pids, Spawn(p, q, n)
      PROVE  Parents'
  BY <1>10 DEF Spawn, NextBorn, SafeInv, TypeOK, OrderlyInv, Parents, Launching
<1>11. ASSUME NEW p \in Procs, SpawnFails(p)
      PROVE  Parents'
  BY <1>11 DEF SpawnFails, SafeInv, TypeOK, OrderlyInv, Parents
<1>12. ASSUME NEW p \in Procs, Poll(p)
      PROVE  Parents'
  BY <1>12 DEF Poll, SafeInv, TypeOK, OrderlyInv, Parents
<1>13. ASSUME NEW p \in Procs, GiveUp(p)
      PROVE  Parents'
  BY <1>13 DEF GiveUp, SafeInv, TypeOK, OrderlyInv, Parents
<1>14. ASSUME NEW p \in Procs, StartFails(p)
      PROVE  Parents'
  BY <1>14 DEF StartFails, SafeInv, TypeOK, OrderlyInv, Parents
<1>15. ASSUME NEW p \in Procs, WritePidFile(p)
      PROVE  Parents'
  BY <1>15 DEF WritePidFile, SafeInv, TypeOK, OrderlyInv, Parents
<1>16. ASSUME NEW p \in Procs, Install(p)
      PROVE  Parents'
  BY <1>16 DEF Install, SafeInv, TypeOK, OrderlyInv, Parents
<1>17. ASSUME NEW p \in Procs, Handle(p)
      PROVE  Parents'
  BY <1>17 DEF Handle, SafeInv, TypeOK, OrderlyInv, Parents
<1>18. ASSUME NEW p \in Procs, Enter(p)
      PROVE  Parents'
  BY <1>18 DEF Enter, SafeInv, TypeOK, OrderlyInv, Parents
<1>19. ASSUME NEW p \in Procs, Ignore(p)
      PROVE  Parents'
  BY <1>19 DEF Ignore, SafeInv, TypeOK, OrderlyInv, Parents
<1>20. ASSUME NEW p \in Procs, StopComponents(p)
      PROVE  Parents'
  BY <1>20 DEF StopComponents, SafeInv, TypeOK, OrderlyInv, Parents
<1>21. CASE UNCHANGED vars
  BY <1>21 DEF vars, SafeInv, TypeOK, OrderlyInv, Parents
<1>22. QED
  BY <1>1, <1>2, <1>3, <1>4, <1>5, <1>6, <1>7, <1>8, <1>9, <1>10, <1>11, <1>12, <1>13,
     <1>14, <1>15, <1>16, <1>17, <1>18, <1>19, <1>20, <1>21
     DEF Next, Command, Launch, Daemon, DefaultTerm

\* A command of a user who waits finds no other at work.
LEMMA ForkAdds ==
  ASSUME SafeInv, OrderlyInv, orderly', NEW p \in Procs, NEW r \in Roles, NEW n \in Pids,
         Fork(p, r, n)
  PROVE  /\ Starts' = Starts
         /\ Busy' = Busy \/ (Busy = {} /\ Busy' = {p} /\ pc'[p] = "read" /\ read[p] = NoFile)
         /\ \A l \in Busy : pc'[l] = pc[l]
         /\ Busy' \subseteq Procs /\ child[p] = {} /\ UNCHANGED <<read, child, file>>
<1>1. Waits(r)
  BY DEF Fork
<1>2. r # "start" /\ (r # "foreign" => Busy = {})
  BY <1>1 DEF Waits
<1>3. pc[p] = "unborn" /\ pc' = [pc EXCEPT ![p] = IF r = "foreign" THEN "other" ELSE "read"]
  BY DEF Fork, NextBorn
<1>4. role' = [role EXCEPT ![p] = r] /\ UNCHANGED <<read, child, file>>
  BY DEF Fork
<1>5. Starts' = Starts /\ Busy' \subseteq Procs /\ \A l \in Busy : pc'[l] = pc[l]
  BY <1>2, <1>3, <1>4 DEF Starts, Busy, SafeInv, TypeOK
<1>6. Busy' = Busy \/ (Busy = {} /\ Busy' = {p} /\ pc'[p] = "read")
  <2>1. CASE r = "foreign"
    BY <1>3, <1>4, <2>1 DEF Busy, SafeInv, TypeOK
  <2>2. CASE r # "foreign"
    <3>1. r \in {"launch", "stop", "status"}
      BY <1>2, <2>2 DEF Roles
    <3>2. Busy' = Busy \cup {p}
      BY <1>3, <1>4, <3>1 DEF Busy, SafeInv, TypeOK
    <3>3. pc'[p] = "read"
      BY <1>3, <2>2 DEF SafeInv, TypeOK
    <3>4. QED
      BY <1>2, <2>2, <3>2, <3>3
  <2>3. QED
    BY <2>1, <2>2
<1>7. child[p] = {} /\ read[p] = NoFile
  BY <1>3 DEF OrderlyInv, Parents, SafeInv, NamesAreWriters, Checking
<1>8. QED
  BY <1>4, <1>5, <1>6, <1>7

\* A launch that spawns has found no daemon.
LEMMA SpawnAdds ==
  ASSUME SafeInv, OrderlyInv, orderly, NEW p \in Procs, NEW q \in Procs, NEW n \in Pids,
         Spawn(p, q, n)
  PROVE  /\ Starts = {} /\ Starts' = {q} /\ Busy = {p} /\ Busy' = {p}
         /\ pc' = [pc EXCEPT ![p] = "poll", ![q] = "read"] /\ p # q
         /\ child' = [child EXCEPT ![p] = {q}] /\ UNCHANGED <<read, file>>
<1>1. /\ pc[p] = "spawn" /\ pc[q] = "unborn" /\ role[p] = "launch"
      /\ role' = [role EXCEPT ![q] = "start"]
      /\ pc' = [pc EXCEPT ![p] = "poll", ![q] = "read"] /\ p # q
      /\ child' = [child EXCEPT ![p] = {q}] /\ UNCHANGED <<read, file>>
  BY DEF Spawn, NextBorn, SafeInv, TypeOK, Launching
<1>2. Busy = {p}
  BY <1>1 DEF OrderlyInv, OneCommand, Busy
<1>3. child[p] = {}
  BY <1>1 DEF OrderlyInv, Parents
<1>4. Starts = {}
  BY <1>1, <1>2, <1>3 DEF OrderlyInv, CommandFinds
<1>5. Starts' = {q}
  BY <1>1, <1>4 DEF Starts, SafeInv, TypeOK
<1>6. Busy' = {p}
  BY <1>1, <1>2 DEF Busy, SafeInv, TypeOK
<1>7. QED
  BY <1>1, <1>2, <1>4, <1>5, <1>6

\* The user waits for a command before the next.
LEMMA OneCommandStep ==
  ASSUME SafeInv, OrderlyInv, orderly, orderly', [Next]_vars
  PROVE  OneCommand'
<1>1. ASSUME NEW p \in Procs, NEW r \in Roles, NEW n \in Pids, Fork(p, r, n)
      PROVE  OneCommand'
  BY <1>1 DEF Fork, NextBorn, SafeInv, TypeOK, OrderlyInv, Busy, OneCommand, Waits
<1>2. ASSUME NEW p \in Procs, Die(p)
      PROVE  OneCommand'
  BY <1>2 DEF Die, SafeInv, TypeOK, OrderlyInv, Busy, OneCommand
<1>3. ASSUME NEW p \in Procs, ReadFile(p)
      PROVE  OneCommand'
  BY <1>3 DEF ReadFile, Return, After, SafeInv, TypeOK, OrderlyInv, Busy, OneCommand
<1>4. ASSUME NEW p \in Procs, Kill0(p)
      PROVE  OneCommand'
  BY <1>4 DEF Kill0, SafeInv, TypeOK, OrderlyInv, Busy, OneCommand
<1>5. ASSUME NEW p \in Procs, Kill0Denied(p)
      PROVE  OneCommand'
  BY <1>5 DEF Kill0Denied, Return, After, SafeInv, TypeOK, OrderlyInv, Busy, OneCommand
<1>6. ASSUME NEW p \in Procs, Stat(p)
      PROVE  OneCommand'
  BY <1>6 DEF Stat, SafeInv, TypeOK, OrderlyInv, Busy, OneCommand
<1>7. ASSUME NEW p \in Procs, Cmdline(p)
      PROVE  OneCommand'
  BY <1>7 DEF Cmdline, Return, After, SafeInv, TypeOK, OrderlyInv, Busy, OneCommand
<1>8. ASSUME NEW p \in Procs, Cleanup(p)
      PROVE  OneCommand'
  BY <1>8 DEF Cleanup, Return, After, SafeInv, TypeOK, OrderlyInv, Busy, OneCommand
<1>9. ASSUME NEW p \in Procs, Terminate(p)
      PROVE  OneCommand'
  BY <1>9 DEF Terminate, SafeInv, TypeOK, OrderlyInv, Busy, OneCommand
<1>10. ASSUME NEW p \in Procs, NEW q \in Procs, NEW n \in Pids, Spawn(p, q, n)
      PROVE  OneCommand'
  BY <1>10 DEF Spawn, NextBorn, SafeInv, TypeOK, OrderlyInv, Busy, OneCommand
<1>11. ASSUME NEW p \in Procs, SpawnFails(p)
      PROVE  OneCommand'
  BY <1>11 DEF SpawnFails, SafeInv, TypeOK, OrderlyInv, Busy, OneCommand
<1>12. ASSUME NEW p \in Procs, Poll(p)
      PROVE  OneCommand'
  BY <1>12 DEF Poll, SafeInv, TypeOK, OrderlyInv, Busy, OneCommand
<1>13. ASSUME NEW p \in Procs, GiveUp(p)
      PROVE  OneCommand'
  BY <1>13 DEF GiveUp, SafeInv, TypeOK, OrderlyInv, Busy, OneCommand
<1>14. ASSUME NEW p \in Procs, StartFails(p)
      PROVE  OneCommand'
  BY <1>14 DEF StartFails, SafeInv, TypeOK, OrderlyInv, Busy, OneCommand
<1>15. ASSUME NEW p \in Procs, WritePidFile(p)
      PROVE  OneCommand'
  BY <1>15 DEF WritePidFile, SafeInv, TypeOK, OrderlyInv, Busy, OneCommand
<1>16. ASSUME NEW p \in Procs, Install(p)
      PROVE  OneCommand'
  BY <1>16 DEF Install, SafeInv, TypeOK, OrderlyInv, Busy, OneCommand
<1>17. ASSUME NEW p \in Procs, Handle(p)
      PROVE  OneCommand'
  BY <1>17 DEF Handle, SafeInv, TypeOK, OrderlyInv, Busy, OneCommand
<1>18. ASSUME NEW p \in Procs, Enter(p)
      PROVE  OneCommand'
  BY <1>18 DEF Enter, SafeInv, TypeOK, OrderlyInv, Busy, OneCommand
<1>19. ASSUME NEW p \in Procs, Ignore(p)
      PROVE  OneCommand'
  BY <1>19 DEF Ignore, SafeInv, TypeOK, OrderlyInv, Busy, OneCommand
<1>20. ASSUME NEW p \in Procs, StopComponents(p)
      PROVE  OneCommand'
  BY <1>20 DEF StopComponents, SafeInv, TypeOK, OrderlyInv, Busy, OneCommand
<1>21. CASE UNCHANGED vars
  BY <1>21 DEF vars, SafeInv, TypeOK, OrderlyInv, Busy, OneCommand
<1>22. QED
  BY <1>1, <1>2, <1>3, <1>4, <1>5, <1>6, <1>7, <1>8, <1>9, <1>10, <1>11, <1>12, <1>13,
     <1>14, <1>15, <1>16, <1>17, <1>18, <1>19, <1>20, <1>21
     DEF Next, Command, Launch, Daemon, DefaultTerm

\* No stop() interrupts another.
LEMMA NoneNestedStep ==
  ASSUME SafeInv, OrderlyInv, orderly, orderly', [Next]_vars
  PROVE  again' = {}
<1>1. ASSUME NEW p \in Procs, NEW r \in Roles, NEW n \in Pids, Fork(p, r, n)
      PROVE  again' = {}
  BY <1>1 DEF Fork, NextBorn, OrderlyInv
<1>2. ASSUME NEW p \in Procs, Die(p)
      PROVE  again' = {}
  BY <1>2 DEF Die, OrderlyInv
<1>3. ASSUME NEW p \in Procs, ReadFile(p)
      PROVE  again' = {}
  BY <1>3 DEF ReadFile, Return, After, OrderlyInv
<1>4. ASSUME NEW p \in Procs, Kill0(p)
      PROVE  again' = {}
  BY <1>4 DEF Kill0, OrderlyInv
<1>5. ASSUME NEW p \in Procs, Kill0Denied(p)
      PROVE  again' = {}
  BY <1>5 DEF Kill0Denied, Return, After, OrderlyInv
<1>6. ASSUME NEW p \in Procs, Stat(p)
      PROVE  again' = {}
  BY <1>6 DEF Stat, OrderlyInv
<1>7. ASSUME NEW p \in Procs, Cmdline(p)
      PROVE  again' = {}
  BY <1>7 DEF Cmdline, Return, After, OrderlyInv
<1>8. ASSUME NEW p \in Procs, Cleanup(p)
      PROVE  again' = {}
  BY <1>8 DEF Cleanup, Return, After, OrderlyInv
<1>9. ASSUME NEW p \in Procs, Terminate(p)
      PROVE  again' = {}
  BY <1>9 DEF Terminate, OrderlyInv
<1>10. ASSUME NEW p \in Procs, NEW q \in Procs, NEW n \in Pids, Spawn(p, q, n)
      PROVE  again' = {}
  BY <1>10 DEF Spawn, NextBorn, OrderlyInv
<1>11. ASSUME NEW p \in Procs, SpawnFails(p)
      PROVE  again' = {}
  BY <1>11 DEF SpawnFails, OrderlyInv
<1>12. ASSUME NEW p \in Procs, Poll(p)
      PROVE  again' = {}
  BY <1>12 DEF Poll, OrderlyInv
<1>13. ASSUME NEW p \in Procs, GiveUp(p)
      PROVE  again' = {}
  BY <1>13 DEF GiveUp, OrderlyInv
<1>14. ASSUME NEW p \in Procs, StartFails(p)
      PROVE  again' = {}
  BY <1>14 DEF StartFails, OrderlyInv
<1>15. ASSUME NEW p \in Procs, WritePidFile(p)
      PROVE  again' = {}
  BY <1>15 DEF WritePidFile, OrderlyInv
<1>16. ASSUME NEW p \in Procs, Install(p)
      PROVE  again' = {}
  BY <1>16 DEF Install, OrderlyInv
<1>17. ASSUME NEW p \in Procs, Handle(p)
      PROVE  again' = {}
  BY <1>17 DEF Handle, OrderlyInv
<1>18. ASSUME NEW p \in Procs, Enter(p)
      PROVE  again' = {}
  BY <1>18 DEF Enter, OrderlyInv
<1>19. ASSUME NEW p \in Procs, Ignore(p)
      PROVE  again' = {}
  BY <1>19 DEF Ignore, OrderlyInv
<1>20. ASSUME NEW p \in Procs, StopComponents(p)
      PROVE  again' = {}
  BY <1>20 DEF StopComponents, OrderlyInv
<1>21. CASE UNCHANGED vars
  BY <1>21 DEF vars, OrderlyInv
<1>22. QED
  BY <1>1, <1>2, <1>3, <1>4, <1>5, <1>6, <1>7, <1>8, <1>9, <1>10, <1>11, <1>12, <1>13,
     <1>14, <1>15, <1>16, <1>17, <1>18, <1>19, <1>20, <1>21
     DEF Next, Command, Launch, Daemon, DefaultTerm

\* A launch spawns a start only after is_running() has said no, and then there is
\* none.
LEMMA OneStartStep ==
  ASSUME SafeInv, OrderlyInv, orderly, orderly', [Next]_vars
  PROVE  OneStart'
<1>1. ASSUME NEW p \in Procs, NEW r \in Roles, NEW n \in Pids, Fork(p, r, n)
      PROVE  OneStart'
  BY <1>1, ForkAdds DEF OrderlyInv, OneStart
<1>2. ASSUME NEW p \in Procs, Die(p)
      PROVE  OneStart'
  BY <1>2
     DEF Die, SafeInv, TypeOK, Roled, OrderlyInv, Starts, Busy, OneCommand, OneStart,
         CommandFinds, FileIsOurs
<1>3. ASSUME NEW p \in Procs, ReadFile(p)
      PROVE  OneStart'
  BY <1>3, NoFileNoProcess
     DEF ReadFile, Return, After, SafeInv, TypeOK, Roled, OrderlyInv, Starts, Busy,
         OneCommand, OneStart, CommandFinds, FileIsOurs
<1>4. ASSUME NEW p \in Procs, Kill0(p)
      PROVE  OneStart'
  BY <1>4
     DEF Kill0, SafeInv, TypeOK, Roled, OrderlyInv, Starts, Busy, OneCommand, OneStart,
         CommandFinds, FileIsOurs
<1>5. ASSUME NEW p \in Procs, Kill0Denied(p)
      PROVE  OneStart'
  BY <1>5
     DEF Kill0Denied, Return, After, SafeInv, TypeOK, Roled, OrderlyInv, Starts, Busy,
         OneCommand, OneStart, CommandFinds, FileIsOurs
<1>6. ASSUME NEW p \in Procs, Stat(p)
      PROVE  OneStart'
  BY <1>6
     DEF Stat, SafeInv, TypeOK, Roled, OrderlyInv, Starts, Busy, OneCommand, OneStart,
         CommandFinds, FileIsOurs
<1>7. ASSUME NEW p \in Procs, Cmdline(p)
      PROVE  OneStart'
  BY <1>7
     DEF Cmdline, Return, After, SafeInv, TypeOK, Roled, OrderlyInv, Starts, Busy,
         OneCommand, OneStart, CommandFinds, FileIsOurs
<1>8. ASSUME NEW p \in Procs, Cleanup(p)
      PROVE  OneStart'
  BY <1>8
     DEF Cleanup, Return, After, SafeInv, TypeOK, Roled, OrderlyInv, Starts, Busy,
         OneCommand, OneStart, CommandFinds, FileIsOurs
<1>9. ASSUME NEW p \in Procs, Terminate(p)
      PROVE  OneStart'
  BY <1>9
     DEF Terminate, SafeInv, TypeOK, Roled, OrderlyInv, Starts, Busy, OneCommand,
         OneStart, CommandFinds, FileIsOurs
<1>10. ASSUME NEW p \in Procs, NEW q \in Procs, NEW n \in Pids, Spawn(p, q, n)
      PROVE  OneStart'
  BY <1>10, SpawnAdds DEF SafeInv, TypeOK, OneStart
<1>11. ASSUME NEW p \in Procs, SpawnFails(p)
      PROVE  OneStart'
  BY <1>11
     DEF SpawnFails, SafeInv, TypeOK, Roled, OrderlyInv, Starts, Busy, OneCommand,
         OneStart, CommandFinds, FileIsOurs
<1>12. ASSUME NEW p \in Procs, Poll(p)
      PROVE  OneStart'
  BY <1>12
     DEF Poll, SafeInv, TypeOK, Roled, OrderlyInv, Starts, Busy, OneCommand, OneStart,
         CommandFinds, FileIsOurs
<1>13. ASSUME NEW p \in Procs, GiveUp(p)
      PROVE  OneStart'
  BY <1>13
     DEF GiveUp, SafeInv, TypeOK, Roled, OrderlyInv, Starts, Busy, OneCommand,
         OneStart, CommandFinds, FileIsOurs
<1>14. ASSUME NEW p \in Procs, StartFails(p)
      PROVE  OneStart'
  BY <1>14
     DEF StartFails, SafeInv, TypeOK, Roled, OrderlyInv, Starts, Busy, OneCommand,
         OneStart, CommandFinds, FileIsOurs
<1>15. ASSUME NEW p \in Procs, WritePidFile(p)
      PROVE  OneStart'
  BY <1>15
     DEF WritePidFile, SafeInv, TypeOK, Roled, OrderlyInv, Starts, Busy, OneCommand,
         OneStart, CommandFinds, FileIsOurs
<1>16. ASSUME NEW p \in Procs, Install(p)
      PROVE  OneStart'
  BY <1>16
     DEF Install, SafeInv, TypeOK, Roled, OrderlyInv, Starts, Busy, OneCommand,
         OneStart, CommandFinds, FileIsOurs
<1>17. ASSUME NEW p \in Procs, Handle(p)
      PROVE  OneStart'
  BY <1>17
     DEF Handle, SafeInv, TypeOK, Roled, OrderlyInv, Starts, Busy, OneCommand,
         OneStart, CommandFinds, FileIsOurs
<1>18. ASSUME NEW p \in Procs, Enter(p)
      PROVE  OneStart'
  BY <1>18
     DEF Enter, SafeInv, TypeOK, Roled, OrderlyInv, Starts, Busy, OneCommand, OneStart,
         CommandFinds, FileIsOurs
<1>19. ASSUME NEW p \in Procs, Ignore(p)
      PROVE  OneStart'
  BY <1>19
     DEF Ignore, SafeInv, TypeOK, Roled, OrderlyInv, Starts, Busy, OneCommand,
         OneStart, CommandFinds, FileIsOurs
<1>20. ASSUME NEW p \in Procs, StopComponents(p)
      PROVE  OneStart'
  BY <1>20
     DEF StopComponents, SafeInv, TypeOK, Roled, OrderlyInv, Starts, Busy, OneCommand,
         OneStart, CommandFinds, FileIsOurs
<1>21. CASE UNCHANGED vars
  BY <1>21 DEF vars, SafeInv, TypeOK, Roled, OrderlyInv, Starts, Busy, OneCommand, OneStart,
         CommandFinds, FileIsOurs
<1>22. QED
  BY <1>1, <1>2, <1>3, <1>4, <1>5, <1>6, <1>7, <1>8, <1>9, <1>10, <1>11, <1>12, <1>13,
     <1>14, <1>15, <1>16, <1>17, <1>18, <1>19, <1>20, <1>21
     DEF Next, Command, Launch, Daemon, DefaultTerm

\* Nobody overwrites or removes the file of a running daemon, and a launch goes
\* when the daemon is in the file.
LEMMA FileIsOursStep ==
  ASSUME SafeInv, OrderlyInv, orderly, orderly', [Next]_vars
  PROVE  FileIsOurs'
<1>1. ASSUME NEW p \in Procs, NEW r \in Roles, NEW n \in Pids, Fork(p, r, n)
      PROVE  FileIsOurs'
  BY <1>1, ForkAdds DEF OrderlyInv, FileIsOurs
<1>2. ASSUME NEW p \in Procs, Die(p)
      PROVE  FileIsOurs'
  <2>1. Starts' \subseteq Starts /\ Busy' = Busy /\ UNCHANGED child
    BY <1>2 DEF Die, SafeInv, TypeOK, Roled, Starts, Busy, Checking, Launching, Up, Points, Roles
  <2>2. QED
    BY <1>2, <2>1 DEF Die, OrderlyInv, FileIsOurs
<1>3. ASSUME NEW p \in Procs, ReadFile(p)
      PROVE  FileIsOurs'
  BY <1>3, NoFileNoProcess
     DEF ReadFile, Return, After, SafeInv, TypeOK, Roled, OrderlyInv, Starts, Busy,
         OneCommand, OneStart, CommandFinds, FileIsOurs, Parents, NamesAreWriters,
         Wrote, PidsDistinct, Holders, ReadersKeep, StatHolds
<1>4. ASSUME NEW p \in Procs, Kill0(p)
      PROVE  FileIsOurs'
  BY <1>4
     DEF Kill0, SafeInv, TypeOK, Roled, OrderlyInv, Starts, Busy, OneCommand, OneStart,
         CommandFinds, FileIsOurs, Parents, NamesAreWriters, Wrote, PidsDistinct,
         Holders, ReadersKeep, StatHolds
<1>5. ASSUME NEW p \in Procs, Kill0Denied(p)
      PROVE  FileIsOurs'
  BY <1>5
     DEF Kill0Denied, Return, After, SafeInv, TypeOK, Roled, OrderlyInv, Starts, Busy,
         OneCommand, OneStart, CommandFinds, FileIsOurs, Parents, NamesAreWriters,
         Wrote, PidsDistinct, Holders, ReadersKeep, StatHolds
<1>6. ASSUME NEW p \in Procs, Stat(p)
      PROVE  FileIsOurs'
  BY <1>6
     DEF Stat, SafeInv, TypeOK, Roled, OrderlyInv, Starts, Busy, OneCommand, OneStart,
         CommandFinds, FileIsOurs, Parents, NamesAreWriters, Wrote, PidsDistinct,
         Holders, ReadersKeep, StatHolds
<1>7. ASSUME NEW p \in Procs, Cmdline(p)
      PROVE  FileIsOurs'
  BY <1>7
     DEF Cmdline, Return, After, SafeInv, TypeOK, Roled, OrderlyInv, Starts, Busy,
         OneCommand, OneStart, CommandFinds, FileIsOurs, Parents, NamesAreWriters,
         Wrote, PidsDistinct, Holders, ReadersKeep, StatHolds
<1>8. ASSUME NEW p \in Procs, Cleanup(p)
      PROVE  FileIsOurs'
  <2>1. SUFFICES ASSUME NEW s \in Starts', \A l \in Busy' : s \notin child[l]
                 PROVE  FALSE
    BY <1>8 DEF Cleanup, FileIsOurs
  <2>2. s \in Starts /\ pc[p] = "cleanup"
    BY <1>8 DEF Cleanup, Return, SafeInv, TypeOK, Starts
  <2>3. CASE p \in Busy
    <3>1. s \notin child[p]
      BY <1>8, <2>1, <2>3 DEF Cleanup, Return, After, SafeInv, TypeOK, OrderlyInv, Parents, Busy
    <3>2. QED
      BY <2>2, <2>3, <3>1 DEF OrderlyInv, CommandFinds
  <2>4. CASE p \notin Busy
    <3>1. p \in Starts /\ ~Wrote(p)
      BY <2>2, <2>4 DEF SafeInv, TypeOK, Roled, Roles, Starts, Busy, Checking, Wrote
    <3>2. p = s
      BY <2>2, <3>1 DEF OrderlyInv, OneStart
    <3>3. \A l \in Busy : l \in Busy'
      BY <1>8, <2>4 DEF Cleanup, Return, SafeInv, TypeOK, Busy
    <3>4. file = s
      BY <2>1, <2>2, <3>3 DEF OrderlyInv, FileIsOurs
    <3>5. QED
      BY <3>1, <3>2, <3>4 DEF SafeInv, NamesAreWriters
  <2>5. QED
    BY <2>3, <2>4
<1>9. ASSUME NEW p \in Procs, Terminate(p)
      PROVE  FileIsOurs'
  BY <1>9
     DEF Terminate, SafeInv, TypeOK, Roled, OrderlyInv, Starts, Busy, OneCommand,
         OneStart, CommandFinds, FileIsOurs, Parents, NamesAreWriters, Wrote,
         PidsDistinct, Holders, ReadersKeep, StatHolds
<1>10. ASSUME NEW p \in Procs, NEW q \in Procs, NEW n \in Pids, Spawn(p, q, n)
      PROVE  FileIsOurs'
  BY <1>10, SpawnAdds DEF SafeInv, TypeOK, FileIsOurs
<1>11. ASSUME NEW p \in Procs, SpawnFails(p)
      PROVE  FileIsOurs'
  BY <1>11
     DEF SpawnFails, SafeInv, TypeOK, Roled, OrderlyInv, Starts, Busy, OneCommand,
         OneStart, CommandFinds, FileIsOurs, Parents, NamesAreWriters, Wrote,
         PidsDistinct, Holders, ReadersKeep, StatHolds
<1>12. ASSUME NEW p \in Procs, Poll(p)
      PROVE  FileIsOurs'
  BY <1>12
     DEF Poll, SafeInv, TypeOK, Roled, OrderlyInv, Starts, Busy, OneCommand, OneStart,
         CommandFinds, FileIsOurs, Parents, NamesAreWriters, Wrote, PidsDistinct,
         Holders, ReadersKeep, StatHolds
<1>13. ASSUME NEW p \in Procs, GiveUp(p)
      PROVE  FileIsOurs'
  <2>1. SUFFICES ASSUME NEW s \in Starts', \A l \in Busy' : s \notin child[l]
                 PROVE  file = s
    BY <1>13 DEF GiveUp, FileIsOurs
  <2>2. s \in Starts /\ s \in Living
    BY <1>13 DEF GiveUp, SafeInv, TypeOK, Starts
  <2>3. CASE s \in child[p]
    <3>1. child[p] \cap Living = {} \/ file \in child[p]
      BY <1>13 DEF GiveUp
    <3>2. QED
      BY <2>2, <2>3, <3>1 DEF OrderlyInv, Parents
  <2>4. CASE s \notin child[p]
    <3>1. \A l \in Busy : l # p => l \in Busy'
      BY <1>13 DEF GiveUp, SafeInv, TypeOK, Busy
    <3>2. QED
      BY <2>1, <2>2, <2>4, <3>1 DEF OrderlyInv, FileIsOurs
  <2>5. QED
    BY <2>3, <2>4
<1>14. ASSUME NEW p \in Procs, StartFails(p)
      PROVE  FileIsOurs'
  BY <1>14
     DEF StartFails, SafeInv, TypeOK, Roled, OrderlyInv, Starts, Busy, OneCommand,
         OneStart, CommandFinds, FileIsOurs, Parents, NamesAreWriters, Wrote,
         PidsDistinct, Holders, ReadersKeep, StatHolds
<1>15. ASSUME NEW p \in Procs, WritePidFile(p)
      PROVE  FileIsOurs'
  <2>1. Starts' = Starts /\ p \in Starts /\ file' = p
    BY <1>15 DEF WritePidFile, SafeInv, TypeOK, Starts, Up
  <2>2. QED
    BY <2>1 DEF OrderlyInv, OneStart, FileIsOurs
<1>16. ASSUME NEW p \in Procs, Install(p)
      PROVE  FileIsOurs'
  BY <1>16
     DEF Install, SafeInv, TypeOK, Roled, OrderlyInv, Starts, Busy, OneCommand,
         OneStart, CommandFinds, FileIsOurs, Parents, NamesAreWriters, Wrote,
         PidsDistinct, Holders, ReadersKeep, StatHolds
<1>17. ASSUME NEW p \in Procs, Handle(p)
      PROVE  FileIsOurs'
  BY <1>17
     DEF Handle, SafeInv, TypeOK, Roled, OrderlyInv, Starts, Busy, OneCommand,
         OneStart, CommandFinds, FileIsOurs, Parents, NamesAreWriters, Wrote,
         PidsDistinct, Holders, ReadersKeep, StatHolds
<1>18. ASSUME NEW p \in Procs, Enter(p)
      PROVE  FileIsOurs'
  BY <1>18
     DEF Enter, SafeInv, TypeOK, Roled, OrderlyInv, Starts, Busy, OneCommand, OneStart,
         CommandFinds, FileIsOurs, Parents, NamesAreWriters, Wrote, PidsDistinct,
         Holders, ReadersKeep, StatHolds
<1>19. ASSUME NEW p \in Procs, Ignore(p)
      PROVE  FileIsOurs'
  BY <1>19
     DEF Ignore, SafeInv, TypeOK, Roled, OrderlyInv, Starts, Busy, OneCommand,
         OneStart, CommandFinds, FileIsOurs, Parents, NamesAreWriters, Wrote,
         PidsDistinct, Holders, ReadersKeep, StatHolds
<1>20. ASSUME NEW p \in Procs, StopComponents(p)
      PROVE  FileIsOurs'
  <2>1. Starts' = {}
    BY <1>20 DEF StopComponents, SafeInv, TypeOK, OrderlyInv, OneStart, Starts, Up
  <2>2. QED
    BY <2>1 DEF FileIsOurs
<1>21. CASE UNCHANGED vars
  BY <1>21 DEF vars, SafeInv, TypeOK, Roled, OrderlyInv, Starts, Busy, OneCommand, OneStart,
         CommandFinds, FileIsOurs, Parents, NamesAreWriters, Wrote, PidsDistinct,
         Holders, ReadersKeep, StatHolds
<1>22. QED
  BY <1>1, <1>2, <1>3, <1>4, <1>5, <1>6, <1>7, <1>8, <1>9, <1>10, <1>11, <1>12, <1>13,
     <1>14, <1>15, <1>16, <1>17, <1>18, <1>19, <1>20, <1>21
     DEF Next, Command, Launch, Daemon, DefaultTerm

\* A command that runs beside a daemon takes every check of is_running() to the
\* end.
LEMMA CommandFindsStep ==
  ASSUME SafeInv, OrderlyInv, orderly, orderly', [Next]_vars
  PROVE  CommandFinds'
<1>1. ASSUME NEW p \in Procs, NEW r \in Roles, NEW n \in Pids, Fork(p, r, n)
      PROVE  CommandFinds'
  BY <1>1, ForkAdds DEF OrderlyInv, CommandFinds
<1>2. ASSUME NEW p \in Procs, Die(p)
      PROVE  CommandFinds'
  BY <1>2
     DEF Die, SafeInv, TypeOK, Roled, OrderlyInv, Starts, Busy, OneCommand, OneStart,
         CommandFinds, FileIsOurs, Parents, NamesAreWriters, Wrote, PidsDistinct,
         Holders, ReadersKeep, StatHolds
<1>3. ASSUME NEW p \in Procs, ReadFile(p)
      PROVE  CommandFinds'
  BY <1>3, NoFileNoProcess
     DEF ReadFile, Return, After, SafeInv, TypeOK, Roled, OrderlyInv, Starts, Busy,
         OneCommand, OneStart, CommandFinds, FileIsOurs, Parents, NamesAreWriters,
         Wrote, PidsDistinct, Holders, ReadersKeep, StatHolds
<1>4. ASSUME NEW p \in Procs, Kill0(p)
      PROVE  CommandFinds'
  BY <1>4
     DEF Kill0, SafeInv, TypeOK, Roled, OrderlyInv, Starts, Busy, OneCommand, OneStart,
         CommandFinds, FileIsOurs, Parents, NamesAreWriters, Wrote, PidsDistinct,
         Holders, ReadersKeep, StatHolds
<1>5. ASSUME NEW p \in Procs, Kill0Denied(p)
      PROVE  CommandFinds'
  BY <1>5
     DEF Kill0Denied, Return, After, SafeInv, TypeOK, Roled, OrderlyInv, Starts, Busy,
         OneCommand, OneStart, CommandFinds, FileIsOurs, Parents, NamesAreWriters,
         Wrote, PidsDistinct, Holders, ReadersKeep, StatHolds
<1>6. ASSUME NEW p \in Procs, Stat(p)
      PROVE  CommandFinds'
  BY <1>6
     DEF Stat, SafeInv, TypeOK, Roled, OrderlyInv, Starts, Busy, OneCommand, OneStart,
         CommandFinds, FileIsOurs, Parents, NamesAreWriters, Wrote, PidsDistinct,
         Holders, ReadersKeep, StatHolds
<1>7. ASSUME NEW p \in Procs, Cmdline(p)
      PROVE  CommandFinds'
  BY <1>7
     DEF Cmdline, Return, After, SafeInv, TypeOK, Roled, OrderlyInv, Starts, Busy,
         OneCommand, OneStart, CommandFinds, FileIsOurs, Parents, NamesAreWriters,
         Wrote, PidsDistinct, Holders, ReadersKeep, StatHolds
<1>8. ASSUME NEW p \in Procs, Cleanup(p)
      PROVE  CommandFinds'
  BY <1>8
     DEF Cleanup, Return, After, SafeInv, TypeOK, Roled, OrderlyInv, Starts, Busy,
         OneCommand, OneStart, CommandFinds, FileIsOurs, Parents, NamesAreWriters,
         Wrote, PidsDistinct, Holders, ReadersKeep, StatHolds
<1>9. ASSUME NEW p \in Procs, Terminate(p)
      PROVE  CommandFinds'
  BY <1>9
     DEF Terminate, SafeInv, TypeOK, Roled, OrderlyInv, Starts, Busy, OneCommand,
         OneStart, CommandFinds, FileIsOurs, Parents, NamesAreWriters, Wrote,
         PidsDistinct, Holders, ReadersKeep, StatHolds
<1>10. ASSUME NEW p \in Procs, NEW q \in Procs, NEW n \in Pids, Spawn(p, q, n)
      PROVE  CommandFinds'
  BY <1>10, SpawnAdds DEF SafeInv, TypeOK, CommandFinds
<1>11. ASSUME NEW p \in Procs, SpawnFails(p)
      PROVE  CommandFinds'
  BY <1>11
     DEF SpawnFails, SafeInv, TypeOK, Roled, OrderlyInv, Starts, Busy, OneCommand,
         OneStart, CommandFinds, FileIsOurs, Parents, NamesAreWriters, Wrote,
         PidsDistinct, Holders, ReadersKeep, StatHolds
<1>12. ASSUME NEW p \in Procs, Poll(p)
      PROVE  CommandFinds'
  BY <1>12
     DEF Poll, SafeInv, TypeOK, Roled, OrderlyInv, Starts, Busy, OneCommand, OneStart,
         CommandFinds, FileIsOurs, Parents, NamesAreWriters, Wrote, PidsDistinct,
         Holders, ReadersKeep, StatHolds
<1>13. ASSUME NEW p \in Procs, GiveUp(p)
      PROVE  CommandFinds'
  BY <1>13
     DEF GiveUp, SafeInv, TypeOK, Roled, OrderlyInv, Starts, Busy, OneCommand,
         OneStart, CommandFinds, FileIsOurs, Parents, NamesAreWriters, Wrote,
         PidsDistinct, Holders, ReadersKeep, StatHolds
<1>14. ASSUME NEW p \in Procs, StartFails(p)
      PROVE  CommandFinds'
  BY <1>14
     DEF StartFails, SafeInv, TypeOK, Roled, OrderlyInv, Starts, Busy, OneCommand,
         OneStart, CommandFinds, FileIsOurs, Parents, NamesAreWriters, Wrote,
         PidsDistinct, Holders, ReadersKeep, StatHolds
<1>15. ASSUME NEW p \in Procs, WritePidFile(p)
      PROVE  CommandFinds'
  BY <1>15
     DEF WritePidFile, SafeInv, TypeOK, Roled, OrderlyInv, Starts, Busy, OneCommand,
         OneStart, CommandFinds, FileIsOurs, Parents, NamesAreWriters, Wrote,
         PidsDistinct, Holders, ReadersKeep, StatHolds
<1>16. ASSUME NEW p \in Procs, Install(p)
      PROVE  CommandFinds'
  BY <1>16
     DEF Install, SafeInv, TypeOK, Roled, OrderlyInv, Starts, Busy, OneCommand,
         OneStart, CommandFinds, FileIsOurs, Parents, NamesAreWriters, Wrote,
         PidsDistinct, Holders, ReadersKeep, StatHolds
<1>17. ASSUME NEW p \in Procs, Handle(p)
      PROVE  CommandFinds'
  BY <1>17
     DEF Handle, SafeInv, TypeOK, Roled, OrderlyInv, Starts, Busy, OneCommand,
         OneStart, CommandFinds, FileIsOurs, Parents, NamesAreWriters, Wrote,
         PidsDistinct, Holders, ReadersKeep, StatHolds
<1>18. ASSUME NEW p \in Procs, Enter(p)
      PROVE  CommandFinds'
  BY <1>18
     DEF Enter, SafeInv, TypeOK, Roled, OrderlyInv, Starts, Busy, OneCommand, OneStart,
         CommandFinds, FileIsOurs, Parents, NamesAreWriters, Wrote, PidsDistinct,
         Holders, ReadersKeep, StatHolds
<1>19. ASSUME NEW p \in Procs, Ignore(p)
      PROVE  CommandFinds'
  BY <1>19
     DEF Ignore, SafeInv, TypeOK, Roled, OrderlyInv, Starts, Busy, OneCommand,
         OneStart, CommandFinds, FileIsOurs, Parents, NamesAreWriters, Wrote,
         PidsDistinct, Holders, ReadersKeep, StatHolds
<1>20. ASSUME NEW p \in Procs, StopComponents(p)
      PROVE  CommandFinds'
  BY <1>20
     DEF StopComponents, SafeInv, TypeOK, Roled, OrderlyInv, Starts, Busy, OneCommand,
         OneStart, CommandFinds, FileIsOurs, Parents, NamesAreWriters, Wrote,
         PidsDistinct, Holders, ReadersKeep, StatHolds
<1>21. CASE UNCHANGED vars
  BY <1>21 DEF vars, SafeInv, TypeOK, Roled, OrderlyInv, Starts, Busy, OneCommand, OneStart,
         CommandFinds, FileIsOurs, Parents, NamesAreWriters, Wrote, PidsDistinct,
         Holders, ReadersKeep, StatHolds
<1>22. QED
  BY <1>1, <1>2, <1>3, <1>4, <1>5, <1>6, <1>7, <1>8, <1>9, <1>10, <1>11, <1>12, <1>13,
     <1>14, <1>15, <1>16, <1>17, <1>18, <1>19, <1>20, <1>21
     DEF Next, Command, Launch, Daemon, DefaultTerm

\* Who has read the name of a running daemon finds it alive.
LEMMA ReadersKeepStep ==
  ASSUME SafeInv, OrderlyInv, orderly, orderly', [Next]_vars
  PROVE  ReadersKeep'
<1>1. ASSUME NEW p \in Procs, NEW r \in Roles, NEW n \in Pids, Fork(p, r, n)
      PROVE  ReadersKeep'
  BY <1>1, ForkAdds, NoFileNoProcess DEF OrderlyInv, ReadersKeep, Starts
<1>2. ASSUME NEW p \in Procs, Die(p)
      PROVE  ReadersKeep'
  BY <1>2
     DEF Die, SafeInv, TypeOK, Roled, OrderlyInv, Starts, Busy, OneCommand, OneStart,
         CommandFinds, FileIsOurs, Parents, NamesAreWriters, Wrote, PidsDistinct,
         Holders, ReadersKeep, StatHolds
<1>3. ASSUME NEW p \in Procs, ReadFile(p)
      PROVE  ReadersKeep'
  BY <1>3, NoFileNoProcess
     DEF ReadFile, Return, After, SafeInv, TypeOK, Roled, OrderlyInv, Starts, Busy,
         OneCommand, OneStart, CommandFinds, FileIsOurs, Parents, NamesAreWriters,
         Wrote, PidsDistinct, Holders, ReadersKeep, StatHolds
<1>4. ASSUME NEW p \in Procs, Kill0(p)
      PROVE  ReadersKeep'
  BY <1>4
     DEF Kill0, SafeInv, TypeOK, Roled, OrderlyInv, Starts, Busy, OneCommand, OneStart,
         CommandFinds, FileIsOurs, Parents, NamesAreWriters, Wrote, PidsDistinct,
         Holders, ReadersKeep, StatHolds
<1>5. ASSUME NEW p \in Procs, Kill0Denied(p)
      PROVE  ReadersKeep'
  <2>1. Starts' \subseteq Starts /\ UNCHANGED file
    BY <1>5 DEF Kill0Denied, Return, SafeInv, TypeOK, Starts
  <2>2. ASSUME NEW l \in Busy', read'[l] \in Starts'
        PROVE  file = read'[l] /\ pc'[l] # "cleanup"
    <3>1. l # p
      BY <1>5, <2>2, NoFileNoProcess DEF Kill0Denied, Return, After, SafeInv, TypeOK, Roled, Starts, Busy
    <3>2. l \in Busy /\ read'[l] = read[l] /\ pc'[l] = pc[l]
      BY <1>5, <2>2, <3>1 DEF Kill0Denied, Return, SafeInv, TypeOK, Busy
    <3>3. QED
      BY <2>1, <2>2, <3>2 DEF OrderlyInv, ReadersKeep
  <2>3. QED
    BY <2>1, <2>2 DEF ReadersKeep
<1>6. ASSUME NEW p \in Procs, Stat(p)
      PROVE  ReadersKeep'
  BY <1>6
     DEF Stat, SafeInv, TypeOK, Roled, OrderlyInv, Starts, Busy, OneCommand, OneStart,
         CommandFinds, FileIsOurs, Parents, NamesAreWriters, Wrote, PidsDistinct,
         Holders, ReadersKeep, StatHolds
<1>7. ASSUME NEW p \in Procs, Cmdline(p)
      PROVE  ReadersKeep'
  BY <1>7
     DEF Cmdline, Return, After, SafeInv, TypeOK, Roled, OrderlyInv, Starts, Busy,
         OneCommand, OneStart, CommandFinds, FileIsOurs, Parents, NamesAreWriters,
         Wrote, PidsDistinct, Holders, ReadersKeep, StatHolds
<1>8. ASSUME NEW p \in Procs, Cleanup(p)
      PROVE  ReadersKeep'
  <2>1. Starts' \subseteq Starts
    BY <1>8 DEF Cleanup, Return, SafeInv, TypeOK, Starts
  <2>2. ASSUME NEW l \in Busy', read'[l] \in Starts'
        PROVE  FALSE
    <3>1. l # p
      BY <1>8, <2>2, NoFileNoProcess DEF Cleanup, Return, After, SafeInv, TypeOK, Roled, Starts, Busy
    <3>2. l \in Busy /\ read'[l] = read[l] /\ pc[p] = "cleanup"
      BY <1>8, <2>2, <3>1 DEF Cleanup, Return, SafeInv, TypeOK, Busy
    <3>3. p \in Starts /\ ~Wrote(p)
      BY <3>1, <3>2 DEF OrderlyInv, OneCommand, SafeInv, TypeOK, Roled, Roles, Starts, Busy, Checking, Wrote
    <3>4. read[l] = p
      BY <2>1, <2>2, <3>2, <3>3 DEF OrderlyInv, OneStart
    <3>5. QED
      BY <3>3, <3>4, NoFileNoProcess DEF SafeInv, NamesAreWriters, Busy
  <2>3. QED
    BY <2>2 DEF ReadersKeep
<1>9. ASSUME NEW p \in Procs, Terminate(p)
      PROVE  ReadersKeep'
  BY <1>9
     DEF Terminate, SafeInv, TypeOK, Roled, OrderlyInv, Starts, Busy, OneCommand,
         OneStart, CommandFinds, FileIsOurs, Parents, NamesAreWriters, Wrote,
         PidsDistinct, Holders, ReadersKeep, StatHolds
<1>10. ASSUME NEW p \in Procs, NEW q \in Procs, NEW n \in Pids, Spawn(p, q, n)
      PROVE  ReadersKeep'
  <2>1. ~Wrote(q)
    BY <1>10 DEF Spawn, NextBorn, Wrote
  <2>2. QED
    BY <1>10, <2>1, SpawnAdds, NoFileNoProcess DEF SafeInv, TypeOK, NamesAreWriters, ReadersKeep
<1>11. ASSUME NEW p \in Procs, SpawnFails(p)
      PROVE  ReadersKeep'
  BY <1>11
     DEF SpawnFails, SafeInv, TypeOK, Roled, OrderlyInv, Starts, Busy, OneCommand,
         OneStart, CommandFinds, FileIsOurs, Parents, NamesAreWriters, Wrote,
         PidsDistinct, Holders, ReadersKeep, StatHolds
<1>12. ASSUME NEW p \in Procs, Poll(p)
      PROVE  ReadersKeep'
  BY <1>12
     DEF Poll, SafeInv, TypeOK, Roled, OrderlyInv, Starts, Busy, OneCommand, OneStart,
         CommandFinds, FileIsOurs, Parents, NamesAreWriters, Wrote, PidsDistinct,
         Holders, ReadersKeep, StatHolds
<1>13. ASSUME NEW p \in Procs, GiveUp(p)
      PROVE  ReadersKeep'
  BY <1>13
     DEF GiveUp, SafeInv, TypeOK, Roled, OrderlyInv, Starts, Busy, OneCommand,
         OneStart, CommandFinds, FileIsOurs, Parents, NamesAreWriters, Wrote,
         PidsDistinct, Holders, ReadersKeep, StatHolds
<1>14. ASSUME NEW p \in Procs, StartFails(p)
      PROVE  ReadersKeep'
  BY <1>14
     DEF StartFails, SafeInv, TypeOK, Roled, OrderlyInv, Starts, Busy, OneCommand,
         OneStart, CommandFinds, FileIsOurs, Parents, NamesAreWriters, Wrote,
         PidsDistinct, Holders, ReadersKeep, StatHolds
<1>15. ASSUME NEW p \in Procs, WritePidFile(p)
      PROVE  ReadersKeep'
  <2>1. Starts' = Starts /\ p \in Starts /\ ~Wrote(p) /\ Busy' = Busy /\ UNCHANGED read
    BY <1>15 DEF WritePidFile, SafeInv, TypeOK, Starts, Busy, Up, Wrote
  <2>2. ASSUME NEW l \in Busy, read[l] \in Starts
        PROVE  FALSE
    <3>1. read[l] = p
      BY <2>1, <2>2 DEF OrderlyInv, OneStart
    <3>2. QED
      BY <2>1, <3>1, NoFileNoProcess DEF SafeInv, NamesAreWriters, Busy
  <2>3. QED
    BY <2>1, <2>2 DEF ReadersKeep
<1>16. ASSUME NEW p \in Procs, Install(p)
      PROVE  ReadersKeep'
  BY <1>16
     DEF Install, SafeInv, TypeOK, Roled, OrderlyInv, Starts, Busy, OneCommand,
         OneStart, CommandFinds, FileIsOurs, Parents, NamesAreWriters, Wrote,
         PidsDistinct, Holders, ReadersKeep, StatHolds
<1>17. ASSUME NEW p \in Procs, Handle(p)
      PROVE  ReadersKeep'
  BY <1>17
     DEF Handle, SafeInv, TypeOK, Roled, OrderlyInv, Starts, Busy, OneCommand,
         OneStart, CommandFinds, FileIsOurs, Parents, NamesAreWriters, Wrote,
         PidsDistinct, Holders, ReadersKeep, StatHolds
<1>18. ASSUME NEW p \in Procs, Enter(p)
      PROVE  ReadersKeep'
  BY <1>18
     DEF Enter, SafeInv, TypeOK, Roled, OrderlyInv, Starts, Busy, OneCommand, OneStart,
         CommandFinds, FileIsOurs, Parents, NamesAreWriters, Wrote, PidsDistinct,
         Holders, ReadersKeep, StatHolds
<1>19. ASSUME NEW p \in Procs, Ignore(p)
      PROVE  ReadersKeep'
  BY <1>19
     DEF Ignore, SafeInv, TypeOK, Roled, OrderlyInv, Starts, Busy, OneCommand,
         OneStart, CommandFinds, FileIsOurs, Parents, NamesAreWriters, Wrote,
         PidsDistinct, Holders, ReadersKeep, StatHolds
<1>20. ASSUME NEW p \in Procs, StopComponents(p)
      PROVE  ReadersKeep'
  <2>1. Starts' = {}
    BY <1>20 DEF StopComponents, SafeInv, TypeOK, OrderlyInv, OneStart, Starts, Up
  <2>2. QED
    BY <2>1 DEF ReadersKeep
<1>21. CASE UNCHANGED vars
  BY <1>21 DEF vars, SafeInv, TypeOK, Roled, OrderlyInv, Starts, Busy, OneCommand, OneStart,
         CommandFinds, FileIsOurs, Parents, NamesAreWriters, Wrote, PidsDistinct,
         Holders, ReadersKeep, StatHolds
<1>22. QED
  BY <1>1, <1>2, <1>3, <1>4, <1>5, <1>6, <1>7, <1>8, <1>9, <1>10, <1>11, <1>12, <1>13,
     <1>14, <1>15, <1>16, <1>17, <1>18, <1>19, <1>20, <1>21
     DEF Next, Command, Launch, Daemon, DefaultTerm

-----------------------------------------------------------------------------
(* The theorems *)

\* At first there is no process, no command, and at most an old file.
LEMMA SafeInvInit == Init => SafeInv
<1>1. SUFFICES ASSUME Init
               PROVE  SafeInv
  OBVIOUS
<1>2. TypeOK
  BY <1>1 DEF Init, TypeOK, Points, Roles, Up, Launching
<1>3. Living = {}
  BY <1>1 DEF Init
<1>4. PidsDistinct
  BY <1>3 DEF PidsDistinct
<1>5. Roled /\ NamesAreWriters /\ StatHolds /\ StaleIsGone /\ VerdictSound /\ PendingWrote
  BY <1>1, NoFileNoProcess DEF Init, Roled, NamesAreWriters, StatHolds, StaleIsGone,
         VerdictSound, PendingWrote, Checking
<1>6. QED
  BY <1>2, <1>4, <1>5 DEF SafeInv

\* Every step, one lemma each.
LEMMA SafeInvStep == SafeInv /\ [Next]_vars => SafeInv'
BY TypeStep, RoledStep, PidsDistinctStep, NamesAreWritersStep, StatHoldsStep,
   StaleIsGoneStep, VerdictSoundStep, PendingWroteStep
   DEF SafeInv

\* The user has not begun.
LEMMA OrderlyInvInit == Init => OrderlyInv
<1>1. SUFFICES ASSUME Init
               PROVE  OrderlyInv
  OBVIOUS
<1>2. Busy = {} /\ Starts = {}
  BY <1>1 DEF Init, Busy, Starts
<1>3. QED
  BY <1>1, <1>2 DEF Init, OrderlyInv, Parents, OneCommand, OneStart, FileIsOurs,
         CommandFinds, ReadersKeep

\* Every step, one lemma each.
LEMMA OrderlyInvStep == SafeInv /\ OrderlyInv /\ [Next]_vars => OrderlyInv'
<1>1. SUFFICES ASSUME SafeInv, OrderlyInv, [Next]_vars
               PROVE  OrderlyInv'
  OBVIOUS
<1>2. Parents'
  BY <1>1, ParentsStep
<1>3. ASSUME orderly'
      PROVE  again' = {} /\ OneCommand' /\ OneStart' /\ FileIsOurs' /\ CommandFinds' /\ ReadersKeep'
  BY <1>1, <1>3, OrderlyBefore, OneCommandStep, NoneNestedStep, OneStartStep,
     FileIsOursStep, CommandFindsStep, ReadersKeepStep
<1>4. QED
  BY <1>2, <1>3 DEF OrderlyInv

\* The commands and the daemons keep the shape of their state.
THEOREM TypeCorrect == Spec => []TypeOK
<1>1. SafeInv => TypeOK
  BY DEF SafeInv
<1>2. QED
  BY <1>1, SafeInvInit, SafeInvStep, PTL DEF Spec

\* "blackboxrs stop" hits a live daemon or nothing, however many commands run
\* at once and however PIDs are reused between a crash and the next command.
THEOREM StopHitsTheDaemon == Spec => []StopIsSafe
<1>1. SafeInv => StopIsSafe
  BY DEF SafeInv, PendingWrote, Wrote, StopIsSafe, OnlyDaemonsSignalled
<1>2. QED
  BY <1>1, SafeInvInit, SafeInvStep, PTL DEF Spec

\* The user who waits for each command has one daemon at most, and the file
\* names it whenever no command is at work, as long as no launch gave up on a
\* daemon that was not in the file and no stop interrupted another.
THEOREM SerialUserIsServed == Spec => []SerialUserServed
<1>1. SafeInv /\ OrderlyInv => SerialUserServed
  <2>1. SUFFICES ASSUME SafeInv, OrderlyInv, orderly
                 PROVE  /\ Cardinality({p \in Procs : pc[p] \in Up}) <= 1
                        /\ Busy = {} => \A p \in Procs : pc[p] \in Up => file = p
    BY DEF SerialUserServed, OneDaemon, DaemonIsFound
  <2> DEFINE S == {p \in Procs : pc[p] \in Up}
  <2>2. S \subseteq Starts
    BY <2>1 DEF SafeInv, TypeOK, Starts, Up
  <2>3. Cardinality(S) <= 1
    <3>1. CASE S = {}
      BY <3>1, FS_EmptySet
    <3>2. ASSUME NEW p \in S
          PROVE  Cardinality(S) <= 1
      <4>1. S = {p}
        BY <2>1, <2>2, <3>2 DEF OrderlyInv, OneStart
      <4>2. Cardinality({p}) = 1
        BY FS_Singleton
      <4>3. QED
        BY <4>1, <4>2
    <3>3. QED
      BY <3>1, <3>2
  <2>4. Busy = {} => \A p \in Procs : pc[p] \in Up => file = p
    BY <2>1, <2>2 DEF OrderlyInv, FileIsOurs
  <2>5. QED
    BY <2>3, <2>4
<1>2. QED
  BY <1>1, SafeInvInit, SafeInvStep, OrderlyInvInit, OrderlyInvStep, PTL DEF Spec
=============================================================================
