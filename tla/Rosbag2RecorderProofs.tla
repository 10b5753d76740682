------------------------ MODULE Rosbag2RecorderProofs ------------------------
(***************************************************************************)
(* Invariance proofs for the rosbag2 recorder, for every set of captures,  *)
(* finite or not, and every quota.  The two threads share _active without  *)
(* a lock, so the safety of the recorder rests on where the worker can     *)
(* still be once stop() has been called.                                   *)
(***************************************************************************)
EXTENDS Rosbag2Recorder, FiniteSetTheorems, TLAPS

\* Inside _stop_active_recording, with a process in hand that may still run.
Ending ==
    {"poll process", "sigint", "wait 5", "sigterm", "wait 2", "sigkill", "wait last"}

\* The worker will not spawn again: nothing leads from here to "spawn" once
\* running is FALSE.
Last == {"top", "ended", "dead"}

\* The threads of a recorder that was not started, runs, or is stopped.
Phases ==
    /\ running <=> pc["stopper"] = "before" /\ pc["worker"] # "new"
    /\ running => subscribed
    /\ pc["worker"] = "new" => /\ pc["stopper"] = "before"
                              /\ active = NoCapture
                              /\ \A r \in Captures : child[r] = "none" /\ ended[r] = 0

\* The process a thread is ending is one, and SIGKILL precedes the last wait.
InHand ==
    \A t \in Threads :
        /\ pc[t] \in Ending => proc[t] \in Captures
        /\ pc[t] = "wait last" => proc[t] \in killed

\* Spawned processes are counted: the worker has one in hand that it has not
\* counted yet, or it was cut off while it had.
QuotaCounts ==
    /\ IsFiniteSet(Spawned)
    /\ Cardinality(Spawned) <= MaxRecordings
    /\ pc["worker"] \notin {"register", "dead"} => Cardinality(Spawned) = started
    /\ pc["worker"] = "register" => Cardinality(Spawned) = started + 1
    /\ pc["worker"] \in {"spawn", "register"} => started < MaxRecordings

\* The quota is not reported as reached before it is.
QuotaUsedUp == maxSkip => Cardinality(Spawned) = MaxRecordings

\* Only a process that was spawned is ever registered.
RegisteredIsSpawned ==
    /\ active # NoCapture => child[active] # "none"
    /\ atStop # NoCapture => child[atStop] # "none"

\* Nothing is registered while the worker is on its way to register.
AdmittedAlone == pc["worker"] \in {"admit", "spawn", "register"} => active = NoCapture

\* What the worker is ending, or has just seen the end of, is registered
\* unless the other thread has cleared it.
WorkerEnds ==
    /\ pc["worker"] \in Ending => active \in {proc["worker"], NoCapture}
    /\ pc["worker"] \in {"finish", "clear"} /\ active # NoCapture => child[active] = "reaped"
    /\ pc["worker"] = "register" =>
         proc["worker"] \in Captures /\ child[proc["worker"]] # "none"

\* What stop() has ended is over; if another capture is registered by then,
\* it is the worker's last.
StopperEnds ==
    /\ pc["stopper"] \in {"finish", "clear"} =>
         proc["stopper"] \in Captures /\ child[proc["stopper"]] = "reaped"
    /\ pc["stopper"] \in Ending \cup {"finish", "clear"} /\ pc["worker"] \notin Last =>
         active \in {proc["stopper"], NoCapture}

\* A running capture is registered, or about to be, or the worker's last.
AliveIsKnown ==
    \A r \in Captures : child[r] = "alive" =>
        \/ active = r
        \/ pc["worker"] = "register" /\ proc["worker"] = r
        \/ ~running /\ pc["worker"] \in Last

OneAlive == \A r, s \in Captures : child[r] = "alive" /\ child[s] = "alive" => r = s

\* While the worker is alone, what it has registered is not reported yet,
\* except between the event and the end of _finish_recording.
WorkerReports ==
    running =>
        /\ pc["worker"] \in Ending \cup {"suppress", "report", "finish", "clear"} =>
             active # NoCapture
        /\ pc["worker"] \in Ending \ {"poll process"} => child[active] # "reaped"
        /\ pc["worker"] = "register" => child[proc["worker"]] # "reaped"
        /\ active # NoCapture =>
             ended[active] = IF pc["worker"] = "clear" THEN 1 ELSE 0

\* The capture registered when stop() was called is over, or is still in the
\* way of the stopping thread.
StopFollows ==
    atStop # NoCapture =>
        \/ child[atStop] # "alive"
        \/ pc["stopper"] = "stop" /\ active = atStop
        \/ pc["stopper"] \in Ending /\ proc["stopper"] = atStop
        \/ pc["stopper"] = "failed"

\* The inductive invariant.
IInv ==
    /\ TypeOK /\ Phases /\ InHand
    /\ QuotaCounts /\ QuotaUsedUp /\ RegisteredIsSpawned /\ AdmittedAlone /\ WorkerEnds /\ StopperEnds
    /\ AliveIsKnown /\ OneAlive
    /\ EndReportedOnce /\ WorkerReports /\ WorkerSurvives
    /\ StopFollows


USE RecorderAssumption
USE DEF shared, env, Goto, Reap, HasExited, AfterStop, Escape, Threads

-----------------------------------------------------------------------------
(* Types *)

\* The part of TypeOK about the program counters.
PcTypeOK ==
    /\ pc \in [Threads -> StopPoints \cup WorkerPoints \cup StopperPoints]
    /\ pc["worker"] \notin StopperPoints /\ pc["stopper"] \notin WorkerPoints

\* A thread that moves to a point of its own keeps both program counters
\* where they belong.
LEMMA GotoStep ==
  ASSUME TypeOK, NEW t \in Threads, NEW to \in StopPoints \cup WorkerPoints \cup StopperPoints,
         t = "worker" => to \notin StopperPoints,
         t = "stopper" => to \notin WorkerPoints,
         Goto(t, to)
  PROVE  PcTypeOK'
BY DEF TypeOK, PcTypeOK

\* A thread inside _stop_active_recording goes on there or returns.
LEMMA StoppingGoes ==
  ASSUME TypeOK, NEW t \in Threads, Stopping(t)
  PROVE  PcTypeOK'
<1> DEFINE Own(to) == /\ to \in StopPoints \cup WorkerPoints \cup StopperPoints
                      /\ t = "worker" => to \notin StopperPoints
                      /\ t = "stopper" => to \notin WorkerPoints
<1>1. /\ \A to \in StopPoints : Own(to)
      /\ Own(AfterStop(t)) /\ Own(Escape(t))
  BY DEF StopPoints, WorkerPoints, StopperPoints
<1>2. \E to : Own(to) /\ Goto(t, to)
  <2>1. CASE StopRead(t)
    BY <2>1, <1>1 DEF StopRead, StopPoints
  <2>2. CASE StopPoll(t)
    BY <2>2, <1>1 DEF StopPoll, StopPoints
  <2>3. CASE SigInt(t)
    BY <2>3, <1>1 DEF SigInt, StopPoints
  <2>4. CASE WaitExit(t)
    BY <2>4, <1>1 DEF WaitExit, StopPoints
  <2>5. CASE WaitTimeout(t)
    BY <2>5, <1>1 DEF WaitTimeout, StopPoints
  <2>6. CASE SigTerm(t)
    BY <2>6, <1>1 DEF SigTerm, StopPoints
  <2>7. CASE SigKill(t)
    BY <2>7, <1>1 DEF SigKill, StopPoints
  <2>8. CASE Finish(t)
    BY <2>8, <1>1 DEF Finish, StopPoints
  <2>9. CASE Clear(t)
    BY <2>9, <1>1 DEF Clear, StopPoints
  <2>10. QED
    BY <2>1, <2>2, <2>3, <2>4, <2>5, <2>6, <2>7, <2>8, <2>9 DEF Stopping
<1>3. QED
  BY <1>2, GotoStep

\* The worker's own program points.
LEMMA WorkerGoes ==
  ASSUME TypeOK,
         NEW to \in {"top", "poll", "finish", "stop", "get", "dead", "trigger",
                    "suppress", "report", "admit", "spawn", "register", "ended"},
         Goto("worker", to)
  PROVE  PcTypeOK'
<1>1. to \in StopPoints \cup WorkerPoints /\ to \notin StopperPoints
  BY DEF StopPoints, WorkerPoints, StopperPoints
<1>2. QED
  BY <1>1, GotoStep

\* Both program counters keep their types.
LEMMA PcStep ==
  ASSUME TypeOK, [Next]_vars
  PROVE  PcTypeOK'
<1>1. CASE Start \/ ProcessExit \/ Top \/ PollQuiet \/ PollExited \/ PollOverdue
  BY <1>1, WorkerGoes DEF Start, ProcessExit, Top, PollQuiet, PollExited, PollOverdue
<1>2. CASE Get
  BY <1>2, WorkerGoes DEF Get
<1>3. CASE Trigger \/ Suppress \/ ReportActive \/ AdmitNot \/ Admit \/ SpawnFails
           \/ Register
  BY <1>3, WorkerGoes DEF Trigger, Suppress, ReportActive, AdmitNot, Admit, SpawnFails,
         Register
<1>4. ASSUME NEW r \in Captures, Spawn(r)
      PROVE  PcTypeOK'
  BY <1>4, WorkerGoes DEF Spawn
<1>5. CASE StopCall \/ Join
  BY <1>5, GotoStep DEF StopCall, Join, StopPoints, WorkerPoints, StopperPoints
<1>6. ASSUME NEW t \in Threads, Stopping(t)
      PROVE  PcTypeOK'
  BY <1>6, StoppingGoes
<1>7. CASE CooldownElapses \/ (\E r \in Captures : ChildExit(r) \/ DurationElapses(r))
           \/ UNCHANGED vars
  BY <1>7 DEF CooldownElapses, ChildExit, DurationElapses, vars, PcTypeOK, TypeOK
<1>8. QED
  BY <1>1, <1>2, <1>3, <1>4, <1>5, <1>6, <1>7 DEF Next, Worker, Stopper

\* Every variable keeps its type; what SIGKILL is sent to is a capture.
LEMMA TypeStep ==
  ASSUME TypeOK, QuotaCounts, InHand, [Next]_vars
  PROVE  TypeOK'
<1>0. PcTypeOK'
  BY PcStep
<1>1. CASE Start \/ StopCall \/ Join \/ ProcessExit \/ CooldownElapses
  BY <1>0, <1>1 DEF Start, StopCall, Join, ProcessExit, CooldownElapses, TypeOK,
         PcTypeOK
<1>2. CASE Top \/ PollQuiet \/ PollOverdue \/ Get \/ Trigger \/ Suppress \/ Admit
  BY <1>0, <1>2 DEF Top, PollQuiet, PollOverdue, Get, Trigger, Suppress, Admit, TypeOK,
         PcTypeOK
<1>3. CASE ReportActive \/ AdmitNot \/ SpawnFails
  BY <1>0, <1>3 DEF ReportActive, AdmitNot, SpawnFails, TypeOK, PcTypeOK
<1>4. CASE PollExited
  BY <1>0, <1>4 DEF PollExited, TypeOK, PcTypeOK
<1>5. ASSUME NEW r \in Captures, Spawn(r)
      PROVE  TypeOK'
  BY <1>0, <1>5 DEF Spawn, TypeOK, PcTypeOK
<1>6. CASE Register
  <2>1. started' \in 0 .. MaxRecordings
    BY <1>6 DEF Register, TypeOK, QuotaCounts
  <2>2. active' \in Captures \cup {NoCapture}
    BY <1>6 DEF Register, TypeOK
  <2>3. QED
    BY <1>0, <1>6, <2>1, <2>2 DEF Register, TypeOK, PcTypeOK
<1>7. ASSUME NEW t \in Threads, StopRead(t)
      PROVE  TypeOK'
  <2>1. proc' \in [Threads -> Captures \cup {NoCapture}]
    BY <1>7 DEF StopRead, TypeOK
  <2>2. QED
    BY <1>0, <1>7, <2>1 DEF StopRead, TypeOK, PcTypeOK
<1>8. ASSUME NEW t \in Threads, StopPoll(t) \/ WaitExit(t)
      PROVE  TypeOK'
  <2>1. child' \in [Captures -> {"none", "alive", "zombie", "reaped"}]
    BY <1>8 DEF StopPoll, WaitExit, TypeOK
  <2>2. QED
    BY <1>0, <1>8, <2>1 DEF StopPoll, WaitExit, TypeOK, PcTypeOK
<1>9. ASSUME NEW t \in Threads, SigInt(t) \/ WaitTimeout(t) \/ SigTerm(t)
      PROVE  TypeOK'
  <2>1. UNCHANGED <<running, subscribed, active, started, cooling, activeSkip, coolSkip,
                    maxSkip, proc, child, overdue, killed, ended, atStop>>
    BY <1>9 DEF SigInt, WaitTimeout, SigTerm
  <2>2. QED
    BY <1>0, <2>1 DEF TypeOK, PcTypeOK
<1>10. ASSUME NEW t \in Threads, SigKill(t)
      PROVE  TypeOK'
  <2>1. killed' \in SUBSET Captures
    BY <1>10 DEF SigKill, TypeOK, InHand, Ending
  <2>2. QED
    BY <1>0, <1>10, <2>1 DEF SigKill, TypeOK, PcTypeOK
<1>11. ASSUME NEW t \in Threads, Finish(t)
      PROVE  TypeOK'
  <2>1. ended' \in [Captures -> Nat]
    BY <1>11 DEF Finish, TypeOK
  <2>2. QED
    BY <1>0, <1>11, <2>1 DEF Finish, TypeOK, PcTypeOK
<1>12. ASSUME NEW t \in Threads, Clear(t)
      PROVE  TypeOK'
  BY <1>0, <1>12 DEF Clear, TypeOK, PcTypeOK
<1>13. ASSUME NEW r \in Captures, ChildExit(r) \/ DurationElapses(r)
      PROVE  TypeOK'
  BY <1>0, <1>13 DEF ChildExit, DurationElapses, TypeOK, PcTypeOK
<1>14. CASE UNCHANGED vars
  BY <1>14 DEF vars, TypeOK
<1>15. QED
  BY <1>1, <1>2, <1>3, <1>4, <1>5, <1>6, <1>7, <1>8, <1>9, <1>10, <1>11, <1>12, <1>13,
     <1>14
     DEF Next, Worker, Stopper, Stopping

\* running says whether start() was called and stop() was not.
LEMMA PhasesStep ==
  ASSUME IInv, [Next]_vars
  PROVE  Phases'
<1>1. CASE Start \/ StopCall \/ Join \/ ProcessExit \/ CooldownElapses
  BY <1>1 DEF Start, StopCall, Join, ProcessExit, CooldownElapses, IInv, TypeOK, Phases
<1>2. CASE Top \/ PollQuiet \/ PollExited \/ PollOverdue \/ Get
  BY <1>2 DEF Top, PollQuiet, PollExited, PollOverdue, Get, IInv, TypeOK, Phases
<1>3. CASE Trigger \/ Suppress \/ ReportActive \/ AdmitNot \/ Admit \/ SpawnFails
  BY <1>3 DEF Trigger, Suppress, ReportActive, AdmitNot, Admit, SpawnFails, IInv,
         TypeOK, Phases
<1>4. ASSUME NEW r \in Captures, Spawn(r)
      PROVE  Phases'
  BY <1>4 DEF Spawn, IInv, Phases
<1>5. CASE Register
  BY <1>5 DEF Register, IInv, Phases
<1>6. ASSUME NEW t \in Threads, StopRead(t)
      PROVE  Phases'
  BY <1>6 DEF StopRead, IInv, TypeOK, Phases
<1>7. ASSUME NEW t \in Threads, StopPoll(t)
      PROVE  Phases'
  BY <1>7 DEF StopPoll, IInv, TypeOK, Phases
<1>8. ASSUME NEW t \in Threads, SigInt(t)
      PROVE  Phases'
  BY <1>8 DEF SigInt, IInv, TypeOK, Phases
<1>9. ASSUME NEW t \in Threads, WaitExit(t)
      PROVE  Phases'
  BY <1>9 DEF WaitExit, IInv, TypeOK, Phases
<1>10. ASSUME NEW t \in Threads, WaitTimeout(t)
      PROVE  Phases'
  BY <1>10 DEF WaitTimeout, IInv, TypeOK, Phases
<1>11. ASSUME NEW t \in Threads, SigTerm(t)
      PROVE  Phases'
  BY <1>11 DEF SigTerm, IInv, TypeOK, Phases
<1>12. ASSUME NEW t \in Threads, SigKill(t)
      PROVE  Phases'
  BY <1>12 DEF SigKill, IInv, TypeOK, Phases
<1>13. ASSUME NEW t \in Threads, Finish(t) \/ Clear(t)
      PROVE  Phases'
  BY <1>13 DEF Finish, Clear, IInv, TypeOK, Phases
<1>14. ASSUME NEW r \in Captures, ChildExit(r) \/ DurationElapses(r)
      PROVE  Phases'
  BY <1>14 DEF ChildExit, DurationElapses, IInv, Phases
<1>15. CASE UNCHANGED vars
  BY <1>15 DEF vars, IInv, Phases
<1>16. QED
  BY <1>1, <1>2, <1>3, <1>4, <1>5, <1>6, <1>7, <1>8, <1>9, <1>10, <1>11, <1>12, <1>13,
     <1>14, <1>15
     DEF Next, Worker, Stopper, Stopping

\* The process in hand was read from _active before it was signalled.
LEMMA InHandStep ==
  ASSUME IInv, [Next]_vars
  PROVE  InHand'
<1>1. CASE Start \/ StopCall \/ Join \/ ProcessExit \/ CooldownElapses
  BY <1>1 DEF Start, StopCall, Join, ProcessExit, CooldownElapses, IInv, TypeOK,
         InHand, Ending
<1>2. CASE Top \/ PollQuiet \/ PollExited \/ PollOverdue \/ Get
  BY <1>2 DEF Top, PollQuiet, PollExited, PollOverdue, Get, IInv, TypeOK, InHand, Ending
<1>3. CASE Trigger \/ Suppress \/ ReportActive \/ AdmitNot \/ Admit \/ SpawnFails
  BY <1>3 DEF Trigger, Suppress, ReportActive, AdmitNot, Admit, SpawnFails, IInv,
         TypeOK, InHand, Ending
<1>4. ASSUME NEW r \in Captures, Spawn(r)
      PROVE  InHand'
  BY <1>4 DEF Spawn, IInv, TypeOK, InHand
<1>5. CASE Register
  BY <1>5 DEF Register, IInv, TypeOK, InHand, Ending
<1>6. ASSUME NEW t \in Threads, StopRead(t) \/ StopPoll(t) \/ SigInt(t)
      PROVE  InHand'
  BY <1>6 DEF StopRead, StopPoll, SigInt, IInv, TypeOK, InHand, Ending
<1>7. ASSUME NEW t \in Threads, WaitExit(t) \/ WaitTimeout(t) \/ SigTerm(t) \/ SigKill(t)
      PROVE  InHand'
  BY <1>7 DEF WaitExit, WaitTimeout, SigTerm, SigKill, IInv, TypeOK, InHand, Ending
<1>8. ASSUME NEW t \in Threads, Finish(t) \/ Clear(t)
      PROVE  InHand'
  BY <1>8 DEF Finish, Clear, IInv, TypeOK, InHand, Ending
<1>9. ASSUME NEW r \in Captures, ChildExit(r) \/ DurationElapses(r)
      PROVE  InHand'
  BY <1>9 DEF ChildExit, DurationElapses, IInv, InHand
<1>10. CASE UNCHANGED vars
  BY <1>10 DEF vars, IInv, InHand
<1>11. QED
  BY <1>1, <1>2, <1>3, <1>4, <1>5, <1>6, <1>7, <1>8, <1>9, <1>10
     DEF Next, Worker, Stopper, Stopping

\* While the worker ends a capture the other thread can only clear it.
LEMMA WorkerEndsStep ==
  ASSUME IInv, [Next]_vars
  PROVE  WorkerEnds'
<1>1. CASE Start \/ StopCall \/ Join \/ ProcessExit \/ CooldownElapses
  BY <1>1 DEF Start, StopCall, Join, ProcessExit, CooldownElapses, IInv, TypeOK,
         WorkerEnds, Ending
<1>2. CASE Top
  BY <1>2 DEF Top, IInv, TypeOK, WorkerEnds, Ending
<1>3. CASE PollQuiet
  BY <1>3 DEF PollQuiet, IInv, TypeOK, WorkerEnds, Ending
<1>4. CASE PollExited
  BY <1>4 DEF PollExited, IInv, TypeOK, WorkerEnds, Ending
<1>5. CASE PollOverdue
  BY <1>5 DEF PollOverdue, IInv, TypeOK, WorkerEnds, Ending
<1>6. CASE Get
  BY <1>6 DEF Get, IInv, TypeOK, WorkerEnds, Ending
<1>7. CASE Trigger \/ Suppress \/ ReportActive \/ AdmitNot \/ Admit \/ SpawnFails
  BY <1>7 DEF Trigger, Suppress, ReportActive, AdmitNot, Admit, SpawnFails, IInv,
         TypeOK, WorkerEnds, Ending
<1>8. ASSUME NEW r \in Captures, Spawn(r)
      PROVE  WorkerEnds'
  BY <1>8 DEF Spawn, IInv, TypeOK, WorkerEnds, Ending
<1>9. CASE Register
  BY <1>9 DEF Register, IInv, WorkerEnds
<1>10. ASSUME NEW t \in Threads, StopRead(t)
      PROVE  WorkerEnds'
  BY <1>10 DEF StopRead, IInv, TypeOK, WorkerEnds, AdmittedAlone
<1>11. ASSUME NEW t \in Threads, StopPoll(t)
      PROVE  WorkerEnds'
  BY <1>11 DEF StopPoll, IInv, TypeOK, WorkerEnds, AdmittedAlone, InHand, Ending
<1>12. ASSUME NEW t \in Threads, SigInt(t)
      PROVE  WorkerEnds'
  BY <1>12 DEF SigInt, IInv, TypeOK, WorkerEnds, Ending
<1>13. ASSUME NEW t \in Threads, WaitExit(t)
      PROVE  WorkerEnds'
  BY <1>13 DEF WaitExit, IInv, TypeOK, WorkerEnds, Ending
<1>14. ASSUME NEW t \in Threads, WaitTimeout(t)
      PROVE  WorkerEnds'
  BY <1>14 DEF WaitTimeout, IInv, TypeOK, WorkerEnds, Ending
<1>15. ASSUME NEW t \in Threads, SigTerm(t)
      PROVE  WorkerEnds'
  BY <1>15 DEF SigTerm, IInv, TypeOK, WorkerEnds, Ending
<1>16. ASSUME NEW t \in Threads, SigKill(t)
      PROVE  WorkerEnds'
  BY <1>16 DEF SigKill, IInv, TypeOK, WorkerEnds, Ending
<1>17. ASSUME NEW t \in Threads, Finish(t) \/ Clear(t)
      PROVE  WorkerEnds'
  BY <1>17 DEF Finish, Clear, IInv, TypeOK, WorkerEnds, Ending
<1>18. ASSUME NEW r \in Captures, ChildExit(r) \/ DurationElapses(r)
      PROVE  WorkerEnds'
  BY <1>18 DEF ChildExit, DurationElapses, IInv, TypeOK, WorkerEnds, AdmittedAlone,
         InHand, Ending
<1>19. CASE UNCHANGED vars
  BY <1>19 DEF vars, IInv, WorkerEnds
<1>20. QED
  BY <1>1, <1>2, <1>3, <1>4, <1>5, <1>6, <1>7, <1>8, <1>9, <1>10, <1>11, <1>12, <1>13,
     <1>14, <1>15, <1>16, <1>17, <1>18, <1>19
     DEF Next, Worker, Stopper, Stopping

\* Popen comes before the registration.
LEMMA RegisteredIsSpawnedStep ==
  ASSUME IInv, [Next]_vars
  PROVE  RegisteredIsSpawned'
<1>1. CASE Start \/ StopCall \/ Join \/ ProcessExit \/ CooldownElapses
  BY <1>1 DEF Start, StopCall, Join, ProcessExit, CooldownElapses, IInv,
         RegisteredIsSpawned
<1>2. CASE Top \/ PollQuiet \/ PollExited \/ PollOverdue \/ Get
  BY <1>2 DEF Top, PollQuiet, PollExited, PollOverdue, Get, IInv, TypeOK,
         RegisteredIsSpawned
<1>3. CASE Trigger \/ Suppress \/ ReportActive \/ AdmitNot \/ Admit \/ SpawnFails
  BY <1>3 DEF Trigger, Suppress, ReportActive, AdmitNot, Admit, SpawnFails, IInv,
         RegisteredIsSpawned
<1>4. ASSUME NEW r \in Captures, Spawn(r)
      PROVE  RegisteredIsSpawned'
  BY <1>4 DEF Spawn, IInv, RegisteredIsSpawned
<1>5. CASE Register
  BY <1>5 DEF Register, IInv, RegisteredIsSpawned, WorkerEnds
<1>6. ASSUME NEW t \in Threads, StopRead(t)
      PROVE  RegisteredIsSpawned'
  BY <1>6 DEF StopRead, IInv, RegisteredIsSpawned
<1>7. ASSUME NEW t \in Threads, StopPoll(t)
      PROVE  RegisteredIsSpawned'
  BY <1>7 DEF StopPoll, IInv, TypeOK, RegisteredIsSpawned
<1>8. ASSUME NEW t \in Threads, SigInt(t)
      PROVE  RegisteredIsSpawned'
  BY <1>8 DEF SigInt, IInv, RegisteredIsSpawned
<1>9. ASSUME NEW t \in Threads, WaitExit(t)
      PROVE  RegisteredIsSpawned'
  BY <1>9 DEF WaitExit, IInv, TypeOK, RegisteredIsSpawned
<1>10. ASSUME NEW t \in Threads, WaitTimeout(t)
      PROVE  RegisteredIsSpawned'
  BY <1>10 DEF WaitTimeout, IInv, RegisteredIsSpawned
<1>11. ASSUME NEW t \in Threads, SigTerm(t)
      PROVE  RegisteredIsSpawned'
  BY <1>11 DEF SigTerm, IInv, RegisteredIsSpawned
<1>12. ASSUME NEW t \in Threads, SigKill(t)
      PROVE  RegisteredIsSpawned'
  BY <1>12 DEF SigKill, IInv, RegisteredIsSpawned
<1>13. ASSUME NEW t \in Threads, Finish(t) \/ Clear(t)
      PROVE  RegisteredIsSpawned'
  BY <1>13 DEF Finish, Clear, IInv, RegisteredIsSpawned
<1>14. ASSUME NEW r \in Captures, ChildExit(r) \/ DurationElapses(r)
      PROVE  RegisteredIsSpawned'
  BY <1>14 DEF ChildExit, DurationElapses, IInv, TypeOK, RegisteredIsSpawned
<1>15. CASE UNCHANGED vars
  BY <1>15 DEF vars, IInv, RegisteredIsSpawned
<1>16. QED
  BY <1>1, <1>2, <1>3, <1>4, <1>5, <1>6, <1>7, <1>8, <1>9, <1>10, <1>11, <1>12, <1>13,
     <1>14, <1>15
     DEF Next, Worker, Stopper, Stopping

\* Nobody but the worker registers a capture.
LEMMA AdmittedAloneStep ==
  ASSUME IInv, [Next]_vars
  PROVE  AdmittedAlone'
<1>1. CASE Start \/ StopCall \/ Join \/ ProcessExit \/ CooldownElapses
  BY <1>1 DEF Start, StopCall, Join, ProcessExit, CooldownElapses, IInv, TypeOK,
         AdmittedAlone
<1>2. CASE Top \/ PollQuiet \/ PollExited \/ PollOverdue \/ Get
  BY <1>2 DEF Top, PollQuiet, PollExited, PollOverdue, Get, IInv, TypeOK, AdmittedAlone
<1>3. CASE Trigger \/ Suppress \/ ReportActive \/ AdmitNot \/ Admit \/ SpawnFails
  BY <1>3 DEF Trigger, Suppress, ReportActive, AdmitNot, Admit, SpawnFails, IInv,
         TypeOK, AdmittedAlone
<1>4. ASSUME NEW r \in Captures, Spawn(r)
      PROVE  AdmittedAlone'
  BY <1>4 DEF Spawn, IInv, AdmittedAlone
<1>5. CASE Register
  BY <1>5 DEF Register, IInv, TypeOK, AdmittedAlone
<1>6. ASSUME NEW t \in Threads, StopRead(t) \/ StopPoll(t) \/ SigInt(t)
      PROVE  AdmittedAlone'
  BY <1>6 DEF StopRead, StopPoll, SigInt, IInv, TypeOK, AdmittedAlone
<1>7. ASSUME NEW t \in Threads, WaitExit(t) \/ WaitTimeout(t) \/ SigTerm(t) \/ SigKill(t)
      PROVE  AdmittedAlone'
  BY <1>7 DEF WaitExit, WaitTimeout, SigTerm, SigKill, IInv, TypeOK, AdmittedAlone
<1>8. ASSUME NEW t \in Threads, Finish(t) \/ Clear(t)
      PROVE  AdmittedAlone'
  BY <1>8 DEF Finish, Clear, IInv, TypeOK, AdmittedAlone
<1>9. ASSUME NEW r \in Captures, ChildExit(r) \/ DurationElapses(r)
      PROVE  AdmittedAlone'
  BY <1>9 DEF ChildExit, DurationElapses, IInv, AdmittedAlone
<1>10. CASE UNCHANGED vars
  BY <1>10 DEF vars, IInv, AdmittedAlone
<1>11. QED
  BY <1>1, <1>2, <1>3, <1>4, <1>5, <1>6, <1>7, <1>8, <1>9, <1>10
     DEF Next, Worker, Stopper, Stopping

\* stop() sets running to FALSE first, so whatever the worker registers while
\* stop() is at work is its last.
LEMMA StopperEndsStep ==
  ASSUME IInv, [Next]_vars
  PROVE  StopperEnds'
<1>1. CASE Start \/ StopCall \/ Join \/ ProcessExit \/ CooldownElapses
  BY <1>1 DEF Start, StopCall, Join, ProcessExit, CooldownElapses, IInv, TypeOK,
         StopperEnds, Ending
<1>2. CASE Top
  BY <1>2 DEF Top, IInv, TypeOK, StopperEnds, Phases, Ending, Last
<1>3. CASE PollQuiet
  BY <1>3 DEF PollQuiet, IInv, StopperEnds, Last
<1>4. CASE PollExited
  BY <1>4 DEF PollExited, IInv, StopperEnds, Last
<1>5. CASE PollOverdue
  BY <1>5 DEF PollOverdue, IInv, StopperEnds, Last
<1>6. CASE Get
  BY <1>6 DEF Get, IInv, StopperEnds, Last
<1>7. CASE Trigger \/ Suppress \/ ReportActive \/ AdmitNot \/ Admit \/ SpawnFails
  BY <1>7 DEF Trigger, Suppress, ReportActive, AdmitNot, Admit, SpawnFails, IInv,
         TypeOK, StopperEnds, Last
<1>8. ASSUME NEW r \in Captures, Spawn(r)
      PROVE  StopperEnds'
  BY <1>8 DEF Spawn, IInv, StopperEnds, Last
<1>9. CASE Register
  BY <1>9 DEF Register, IInv, TypeOK, StopperEnds, Last
<1>10. ASSUME NEW t \in Threads, StopRead(t)
      PROVE  StopperEnds'
  BY <1>10 DEF StopRead, IInv, TypeOK, StopperEnds, Phases, InHand, Ending, Last
<1>11. ASSUME NEW t \in Threads, StopPoll(t)
      PROVE  StopperEnds'
  <2>1. CASE t = "worker"
    BY <1>11, <2>1 DEF StopPoll, IInv, TypeOK, StopperEnds, Last
  <2>2. CASE t = "stopper"
    BY <1>11, <2>2 DEF StopPoll, IInv, TypeOK, StopperEnds, Phases, InHand, Ending, Last
  <2>3. QED
    BY <2>1, <2>2
<1>12. ASSUME NEW t \in Threads, SigInt(t)
      PROVE  StopperEnds'
  <2>1. CASE t = "worker"
    BY <1>12, <2>1 DEF SigInt, IInv, TypeOK, StopperEnds, Last
  <2>2. CASE t = "stopper"
    BY <1>12, <2>2 DEF SigInt, IInv, TypeOK, StopperEnds, InHand, Ending
  <2>3. QED
    BY <2>1, <2>2
<1>13. ASSUME NEW t \in Threads, WaitExit(t)
      PROVE  StopperEnds'
  BY <1>13 DEF WaitExit, IInv, TypeOK, StopperEnds, InHand, Ending, Last
<1>14. ASSUME NEW t \in Threads, WaitTimeout(t)
      PROVE  StopperEnds'
  BY <1>14 DEF WaitTimeout, IInv, TypeOK, StopperEnds, Ending, Last
<1>15. ASSUME NEW t \in Threads, SigTerm(t)
      PROVE  StopperEnds'
  <2>1. CASE t = "worker"
    BY <1>15, <2>1 DEF SigTerm, IInv, TypeOK, StopperEnds, Last
  <2>2. CASE t = "stopper"
    BY <1>15, <2>2 DEF SigTerm, IInv, TypeOK, StopperEnds, Ending
  <2>3. QED
    BY <2>1, <2>2
<1>16. ASSUME NEW t \in Threads, SigKill(t)
      PROVE  StopperEnds'
  <2>1. CASE t = "worker"
    BY <1>16, <2>1 DEF SigKill, IInv, TypeOK, StopperEnds, Last
  <2>2. CASE t = "stopper"
    BY <1>16, <2>2 DEF SigKill, IInv, TypeOK, StopperEnds, Ending
  <2>3. QED
    BY <2>1, <2>2
<1>17. ASSUME NEW t \in Threads, Clear(t)
      PROVE  StopperEnds'
  BY <1>17 DEF Clear, IInv, StopperEnds
<1>18. ASSUME NEW t \in Threads, Finish(t)
      PROVE  StopperEnds'
  <2>1. CASE t = "worker"
    BY <1>18, <2>1 DEF Finish, IInv, TypeOK, StopperEnds, Last
  <2>2. CASE t = "stopper"
    BY <1>18, <2>2 DEF Finish, IInv, TypeOK, StopperEnds
  <2>3. QED
    BY <2>1, <2>2
<1>19. ASSUME NEW r \in Captures, ChildExit(r) \/ DurationElapses(r)
      PROVE  StopperEnds'
  BY <1>19 DEF ChildExit, DurationElapses, IInv, TypeOK, StopperEnds, Phases, InHand,
         Ending, Last
<1>20. CASE UNCHANGED vars
  BY <1>20 DEF vars, IInv, StopperEnds
<1>21. QED
  BY <1>1, <1>2, <1>3, <1>4, <1>5, <1>6, <1>7, <1>8, <1>9, <1>10, <1>11, <1>12, <1>13,
     <1>14, <1>15, <1>16, <1>17, <1>18, <1>19, <1>20
     DEF Next, Worker, Stopper, Stopping

\* _active is cleared over a running capture only when the worker is at its end.
LEMMA AliveIsKnownStep ==
  ASSUME IInv, [Next]_vars
  PROVE  AliveIsKnown'
<1>1. CASE Start \/ StopCall \/ Join \/ ProcessExit \/ CooldownElapses
  BY <1>1 DEF Start, StopCall, Join, ProcessExit, CooldownElapses, IInv, TypeOK,
         AliveIsKnown, Phases, Last
<1>2. CASE Top \/ PollQuiet \/ PollExited \/ PollOverdue \/ Get
  BY <1>2 DEF Top, PollQuiet, PollExited, PollOverdue, Get, IInv, TypeOK, AliveIsKnown,
         Last
<1>3. CASE Trigger \/ Suppress \/ ReportActive \/ AdmitNot \/ Admit \/ SpawnFails
  BY <1>3 DEF Trigger, Suppress, ReportActive, AdmitNot, Admit, SpawnFails, IInv,
         AliveIsKnown, Last
<1>4. ASSUME NEW r \in Captures, Spawn(r)
      PROVE  AliveIsKnown'
  BY <1>4 DEF Spawn, IInv, TypeOK, AliveIsKnown, Last
<1>5. CASE Register
  BY <1>5 DEF Register, IInv, AliveIsKnown, AdmittedAlone, Last
<1>6. ASSUME NEW t \in Threads, StopRead(t) \/ StopPoll(t) \/ SigInt(t)
      PROVE  AliveIsKnown'
  BY <1>6 DEF StopRead, StopPoll, SigInt, IInv, TypeOK, AliveIsKnown, StopperEnds,
         WorkerEnds, AdmittedAlone, Phases, Last
<1>7. ASSUME NEW t \in Threads, WaitExit(t)
      PROVE  AliveIsKnown'
  BY <1>7 DEF WaitExit, IInv, TypeOK, AliveIsKnown, Last
<1>8. ASSUME NEW t \in Threads, WaitTimeout(t)
      PROVE  AliveIsKnown'
  BY <1>8 DEF WaitTimeout, IInv, TypeOK, AliveIsKnown, Last
<1>9. ASSUME NEW t \in Threads, SigTerm(t)
      PROVE  AliveIsKnown'
  BY <1>9 DEF SigTerm, IInv, TypeOK, AliveIsKnown, Last
<1>10. ASSUME NEW t \in Threads, SigKill(t)
      PROVE  AliveIsKnown'
  BY <1>10 DEF SigKill, IInv, TypeOK, AliveIsKnown, Last
<1>11. ASSUME NEW t \in Threads, Finish(t) \/ Clear(t)
      PROVE  AliveIsKnown'
  BY <1>11 DEF Finish, Clear, IInv, TypeOK, AliveIsKnown, StopperEnds, WorkerEnds,
         Phases, Last
<1>12. ASSUME NEW r \in Captures, ChildExit(r) \/ DurationElapses(r)
      PROVE  AliveIsKnown'
  BY <1>12 DEF ChildExit, DurationElapses, IInv, TypeOK, AliveIsKnown
<1>13. CASE UNCHANGED vars
  BY <1>13 DEF vars, IInv, AliveIsKnown
<1>14. QED
  BY <1>1, <1>2, <1>3, <1>4, <1>5, <1>6, <1>7, <1>8, <1>9, <1>10, <1>11, <1>12, <1>13
     DEF Next, Worker, Stopper, Stopping

\* A spawn finds every earlier capture over.
LEMMA OneAliveStep ==
  ASSUME IInv, [Next]_vars
  PROVE  OneAlive'
<1>1. CASE Start \/ StopCall \/ Join \/ ProcessExit \/ CooldownElapses
  BY <1>1 DEF Start, StopCall, Join, ProcessExit, CooldownElapses, IInv, OneAlive
<1>2. CASE Top \/ PollQuiet \/ PollExited \/ PollOverdue \/ Get
  BY <1>2 DEF Top, PollQuiet, PollExited, PollOverdue, Get, IInv, TypeOK, OneAlive
<1>3. CASE Trigger \/ Suppress \/ ReportActive \/ AdmitNot \/ Admit \/ SpawnFails
  BY <1>3 DEF Trigger, Suppress, ReportActive, AdmitNot, Admit, SpawnFails, IInv,
         OneAlive
<1>4. ASSUME NEW r \in Captures, Spawn(r)
      PROVE  OneAlive'
  BY <1>4 DEF Spawn, IInv, OneAlive, AliveIsKnown, AdmittedAlone, Last
<1>5. CASE Register
  BY <1>5 DEF Register, IInv, OneAlive
<1>6. ASSUME NEW t \in Threads, StopRead(t) \/ StopPoll(t) \/ SigInt(t)
      PROVE  OneAlive'
  BY <1>6 DEF StopRead, StopPoll, SigInt, IInv, TypeOK, OneAlive, AliveIsKnown,
         AdmittedAlone, Last
<1>7. ASSUME NEW t \in Threads, WaitExit(t) \/ WaitTimeout(t) \/ SigTerm(t) \/ SigKill(t)
      PROVE  OneAlive'
  BY <1>7 DEF WaitExit, WaitTimeout, SigTerm, SigKill, IInv, TypeOK, OneAlive,
         AliveIsKnown, AdmittedAlone, Last
<1>8. ASSUME NEW t \in Threads, Finish(t) \/ Clear(t)
      PROVE  OneAlive'
  BY <1>8 DEF Finish, Clear, IInv, OneAlive
<1>9. ASSUME NEW r \in Captures, ChildExit(r) \/ DurationElapses(r)
      PROVE  OneAlive'
  BY <1>9 DEF ChildExit, DurationElapses, IInv, TypeOK, OneAlive
<1>10. CASE UNCHANGED vars
  BY <1>10 DEF vars, IInv, OneAlive
<1>11. QED
  BY <1>1, <1>2, <1>3, <1>4, <1>5, <1>6, <1>7, <1>8, <1>9, <1>10
     DEF Next, Worker, Stopper, Stopping

\* While the worker is alone, _active changes only after its event.
LEMMA EndReportedOnceStep ==
  ASSUME IInv, [Next]_vars
  PROVE  EndReportedOnce'
<1>1. CASE Start
  BY <1>1 DEF Start, IInv, EndReportedOnce, Phases
<1>2. CASE StopCall
  BY <1>2 DEF StopCall, IInv, EndReportedOnce
<1>3. CASE Join
  BY <1>3 DEF Join, IInv, EndReportedOnce
<1>4. CASE ProcessExit
  BY <1>4 DEF ProcessExit, IInv, EndReportedOnce
<1>5. CASE CooldownElapses
  BY <1>5 DEF CooldownElapses, IInv, EndReportedOnce
<1>6. CASE Top \/ PollQuiet \/ PollExited \/ PollOverdue \/ Get
  BY <1>6 DEF Top, PollQuiet, PollExited, PollOverdue, Get, IInv, TypeOK,
         EndReportedOnce
<1>7. CASE Trigger \/ Suppress \/ ReportActive \/ AdmitNot \/ Admit \/ SpawnFails
  BY <1>7 DEF Trigger, Suppress, ReportActive, AdmitNot, Admit, SpawnFails, IInv,
         EndReportedOnce
<1>8. ASSUME NEW r \in Captures, Spawn(r)
      PROVE  EndReportedOnce'
  BY <1>8 DEF Spawn, IInv, EndReportedOnce
<1>9. CASE Register
  BY <1>9 DEF Register, IInv, EndReportedOnce, AdmittedAlone
<1>10. ASSUME NEW t \in Threads, StopRead(t) \/ SigInt(t)
      PROVE  EndReportedOnce'
  BY <1>10 DEF StopRead, SigInt, IInv, EndReportedOnce
<1>11. ASSUME NEW t \in Threads, StopPoll(t)
      PROVE  EndReportedOnce'
  <2>1. CASE t = "worker"
    <3>1. running' => running /\ active \in Captures /\ proc["worker"] = active
      BY <1>11, <2>1 DEF StopPoll, IInv, TypeOK, WorkerEnds, WorkerReports, Ending
    <3>2. UNCHANGED <<active, ended, running>>
      BY <1>11 DEF StopPoll
    <3>3. child' = child \/ child' = [child EXCEPT ![proc["worker"]] = "reaped"]
      BY <1>11, <2>1 DEF StopPoll
    <3>4. QED
      BY <3>1, <3>2, <3>3 DEF IInv, TypeOK, EndReportedOnce
  <2>2. CASE t = "stopper"
    BY <1>11, <2>2 DEF StopPoll, IInv, EndReportedOnce, Phases
  <2>3. QED
    BY <2>1, <2>2
<1>12. ASSUME NEW t \in Threads, WaitExit(t)
      PROVE  EndReportedOnce'
  BY <1>12 DEF WaitExit, IInv, TypeOK, EndReportedOnce, WorkerReports, WorkerEnds,
         Phases, Ending
<1>13. ASSUME NEW t \in Threads, WaitTimeout(t)
      PROVE  EndReportedOnce'
  BY <1>13 DEF WaitTimeout, IInv, EndReportedOnce
<1>14. ASSUME NEW t \in Threads, SigTerm(t)
      PROVE  EndReportedOnce'
  BY <1>14 DEF SigTerm, IInv, EndReportedOnce
<1>15. ASSUME NEW t \in Threads, SigKill(t)
      PROVE  EndReportedOnce'
  BY <1>15 DEF SigKill, IInv, EndReportedOnce
<1>16. ASSUME NEW t \in Threads, Clear(t)
      PROVE  EndReportedOnce'
  BY <1>16 DEF Clear, IInv, EndReportedOnce, WorkerReports, Phases
<1>17. ASSUME NEW t \in Threads, Finish(t)
      PROVE  EndReportedOnce'
  <2>1. CASE t = "worker"
    <3>1. /\ UNCHANGED <<active, child, proc, running>>
          /\ pc["worker"] = "finish" /\ pc'["worker"] \in {"clear", AfterStop(t)}
      BY <1>17, <2>1 DEF Finish, IInv, TypeOK
    <3>2. SUFFICES ASSUME running'
                   PROVE  EndReportedOnce'
      BY DEF EndReportedOnce
    <3>3. /\ running /\ active \in Captures
          /\ ended[active] = 0 /\ child[active] = "reaped"
      BY <3>1, <3>2 DEF IInv, TypeOK, WorkerReports, WorkerEnds
    <3>4. ended' = [ended EXCEPT ![active] = 1] /\ pc'["worker"] = "clear"
      BY <1>17, <2>1, <3>3 DEF Finish, IInv, TypeOK
    <3>5. QED
      BY <3>1, <3>3, <3>4 DEF IInv, EndReportedOnce
  <2>2. CASE t = "stopper"
    BY <1>17, <2>2 DEF Finish, IInv, EndReportedOnce, Phases
  <2>3. QED
    BY <2>1, <2>2
<1>18. ASSUME NEW r \in Captures, ChildExit(r) \/ DurationElapses(r)
      PROVE  EndReportedOnce'
  BY <1>18 DEF ChildExit, DurationElapses, IInv, TypeOK, EndReportedOnce
<1>19. CASE UNCHANGED vars
  BY <1>19 DEF vars, IInv, EndReportedOnce
<1>20. QED
  BY <1>1, <1>2, <1>3, <1>4, <1>5, <1>6, <1>7, <1>8, <1>9, <1>10, <1>11, <1>12, <1>13,
     <1>14, <1>15, <1>16, <1>17, <1>18, <1>19
     DEF Next, Worker, Stopper, Stopping

\* The worker finds what it has registered when it comes back for it.
LEMMA WorkerReportsStep ==
  ASSUME IInv, [Next]_vars
  PROVE  WorkerReports'
<1>1. CASE Start \/ StopCall \/ Join \/ ProcessExit \/ CooldownElapses
  BY <1>1 DEF Start, StopCall, Join, ProcessExit, CooldownElapses, IInv, TypeOK,
         WorkerReports, Phases, Ending
<1>2. CASE Top \/ PollQuiet \/ PollExited \/ PollOverdue \/ Get
  BY <1>2 DEF Top, PollQuiet, PollExited, PollOverdue, Get, IInv, TypeOK,
         EndReportedOnce, WorkerReports, WorkerEnds, AdmittedAlone, Phases, Ending
<1>3. CASE Trigger \/ Suppress \/ ReportActive \/ AdmitNot \/ Admit \/ SpawnFails
  BY <1>3 DEF Trigger, Suppress, ReportActive, AdmitNot, Admit, SpawnFails, IInv,
         TypeOK, EndReportedOnce, WorkerReports, WorkerEnds, AdmittedAlone, Phases,
         Ending
<1>4. ASSUME NEW r \in Captures, Spawn(r)
      PROVE  WorkerReports'
  BY <1>4 DEF Spawn, IInv, TypeOK, WorkerReports, Ending
<1>5. CASE Register
  BY <1>5 DEF Register, IInv, TypeOK, EndReportedOnce, WorkerReports, WorkerEnds
<1>6. ASSUME NEW t \in Threads, StopRead(t) \/ StopPoll(t) \/ SigInt(t)
      PROVE  WorkerReports'
  BY <1>6 DEF StopRead, StopPoll, SigInt, IInv, TypeOK, EndReportedOnce, WorkerReports,
         WorkerEnds, AdmittedAlone, Phases, Ending
<1>7. ASSUME NEW t \in Threads, WaitExit(t) \/ WaitTimeout(t) \/ SigTerm(t) \/ SigKill(t)
      PROVE  WorkerReports'
  BY <1>7 DEF WaitExit, WaitTimeout, SigTerm, SigKill, IInv, TypeOK, WorkerReports,
         WorkerEnds, Phases, Ending
<1>8. ASSUME NEW t \in Threads, Clear(t)
      PROVE  WorkerReports'
  BY <1>8 DEF Clear, IInv, TypeOK, WorkerReports, Phases, Ending
<1>9. ASSUME NEW t \in Threads, Finish(t)
      PROVE  WorkerReports'
  <2>1. CASE t = "worker"
    <3>1. /\ UNCHANGED <<active, child, proc, running>>
          /\ pc["worker"] = "finish" /\ pc'["worker"] \in {"clear", AfterStop(t)}
      BY <1>9, <2>1 DEF Finish, IInv, TypeOK
    <3>2. SUFFICES ASSUME running'
                   PROVE  WorkerReports'
      BY DEF WorkerReports
    <3>3. /\ running /\ active \in Captures
          /\ ended[active] = 0 /\ child[active] = "reaped"
      BY <3>1, <3>2 DEF IInv, TypeOK, WorkerReports, WorkerEnds
    <3>4. ended' = [ended EXCEPT ![active] = 1] /\ pc'["worker"] = "clear"
      BY <1>9, <2>1, <3>3 DEF Finish, IInv, TypeOK
    <3>5. QED
      BY <3>1, <3>3, <3>4 DEF IInv, TypeOK, WorkerReports, Ending
  <2>2. CASE t = "stopper"
    BY <1>9, <2>2 DEF Finish, IInv, WorkerReports, Phases
  <2>3. QED
    BY <2>1, <2>2
<1>10. ASSUME NEW r \in Captures, ChildExit(r)
      PROVE  WorkerReports'
  BY <1>10 DEF ChildExit, IInv, TypeOK, WorkerReports, WorkerEnds
<1>11. ASSUME NEW r \in Captures, DurationElapses(r)
      PROVE  WorkerReports'
  BY <1>11 DEF DurationElapses, IInv, WorkerReports
<1>12. CASE UNCHANGED vars
  BY <1>12 DEF vars, IInv, WorkerReports
<1>13. QED
  BY <1>1, <1>2, <1>3, <1>4, <1>5, <1>6, <1>7, <1>8, <1>9, <1>10, <1>11, <1>12
     DEF Next, Worker, Stopper, Stopping

\* An exception needs the other thread, or a capture that SIGKILL did not end.
LEMMA WorkerSurvivesStep ==
  ASSUME IInv, [Next]_vars
  PROVE  WorkerSurvives'
<1>1. CASE Start \/ StopCall \/ Join \/ ProcessExit \/ CooldownElapses
  BY <1>1 DEF Start, StopCall, Join, ProcessExit, CooldownElapses, IInv, TypeOK,
         WorkerSurvives, InHand, Phases
<1>2. CASE Top \/ PollQuiet \/ PollExited \/ PollOverdue \/ Get
  BY <1>2 DEF Top, PollQuiet, PollExited, PollOverdue, Get, IInv, TypeOK,
         WorkerSurvives, Phases
<1>3. CASE Trigger \/ Suppress \/ ReportActive \/ AdmitNot \/ Admit \/ SpawnFails
  BY <1>3 DEF Trigger, Suppress, ReportActive, AdmitNot, Admit, SpawnFails, IInv,
         TypeOK, WorkerSurvives, WorkerReports
<1>4. ASSUME NEW r \in Captures, Spawn(r)
      PROVE  WorkerSurvives'
  BY <1>4 DEF Spawn, IInv, WorkerSurvives
<1>5. CASE Register
  BY <1>5 DEF Register, IInv, WorkerSurvives
<1>6. ASSUME NEW t \in Threads, StopRead(t) \/ StopPoll(t) \/ SigInt(t)
      PROVE  WorkerSurvives'
  BY <1>6 DEF StopRead, StopPoll, SigInt, IInv, TypeOK, WorkerSurvives, Phases
<1>7. ASSUME NEW t \in Threads, WaitExit(t) \/ WaitTimeout(t) \/ SigTerm(t) \/ SigKill(t)
      PROVE  WorkerSurvives'
  BY <1>7 DEF WaitExit, WaitTimeout, SigTerm, SigKill, IInv, TypeOK, WorkerSurvives,
         WorkerReports, WorkerEnds, InHand, Phases, Ending
<1>8. ASSUME NEW t \in Threads, Finish(t) \/ Clear(t)
      PROVE  WorkerSurvives'
  BY <1>8 DEF Finish, Clear, IInv, TypeOK, WorkerSurvives, Phases
<1>9. ASSUME NEW r \in Captures, ChildExit(r)
      PROVE  WorkerSurvives'
  BY <1>9 DEF ChildExit, IInv, WorkerSurvives
<1>10. ASSUME NEW r \in Captures, DurationElapses(r)
      PROVE  WorkerSurvives'
  BY <1>10 DEF DurationElapses, IInv, WorkerSurvives
<1>11. CASE UNCHANGED vars
  BY <1>11 DEF vars, IInv, WorkerSurvives
<1>12. QED
  BY <1>1, <1>2, <1>3, <1>4, <1>5, <1>6, <1>7, <1>8, <1>9, <1>10, <1>11
     DEF Next, Worker, Stopper, Stopping

\* The capture in _active when stop() begins is ended by one of the threads.
LEMMA StopFollowsStep ==
  ASSUME IInv, [Next]_vars
  PROVE  StopFollows'
<1>1. CASE Start \/ StopCall \/ Join \/ ProcessExit \/ CooldownElapses
  BY <1>1 DEF Start, StopCall, Join, ProcessExit, CooldownElapses, IInv, TypeOK,
         StopFollows, Ending
<1>2. CASE Top
  BY <1>2 DEF Top, IInv, StopFollows
<1>3. CASE PollQuiet
  BY <1>3 DEF PollQuiet, IInv, StopFollows
<1>4. CASE PollExited
  BY <1>4 DEF PollExited, IInv, StopFollows
<1>5. CASE PollOverdue
  BY <1>5 DEF PollOverdue, IInv, StopFollows
<1>6. CASE Get
  BY <1>6 DEF Get, IInv, StopFollows
<1>7. CASE Trigger \/ Suppress \/ ReportActive \/ AdmitNot \/ Admit \/ SpawnFails
  BY <1>7 DEF Trigger, Suppress, ReportActive, AdmitNot, Admit, SpawnFails, IInv,
         TypeOK, StopFollows
<1>8. ASSUME NEW r \in Captures, Spawn(r)
      PROVE  StopFollows'
  BY <1>8 DEF Spawn, IInv, StopFollows, RegisteredIsSpawned
<1>9. CASE Register
  BY <1>9 DEF Register, IInv, StopFollows, AdmittedAlone
<1>10. ASSUME NEW t \in Threads, StopRead(t)
      PROVE  StopFollows'
  BY <1>10 DEF StopRead, IInv, TypeOK, StopFollows, Ending
<1>11. ASSUME NEW t \in Threads, StopPoll(t)
      PROVE  StopFollows'
  BY <1>11 DEF StopPoll, IInv, TypeOK, StopFollows, Ending
<1>12. ASSUME NEW t \in Threads, SigInt(t)
      PROVE  StopFollows'
  BY <1>12 DEF SigInt, IInv, TypeOK, StopFollows, Ending
<1>13. ASSUME NEW t \in Threads, WaitExit(t)
      PROVE  StopFollows'
  BY <1>13 DEF WaitExit, IInv, TypeOK, StopFollows
<1>14. ASSUME NEW t \in Threads, WaitTimeout(t)
      PROVE  StopFollows'
  BY <1>14 DEF WaitTimeout, IInv, TypeOK, StopFollows, Ending
<1>15. ASSUME NEW t \in Threads, SigTerm(t)
      PROVE  StopFollows'
  BY <1>15 DEF SigTerm, IInv, TypeOK, StopFollows, Ending
<1>16. ASSUME NEW t \in Threads, SigKill(t)
      PROVE  StopFollows'
  BY <1>16 DEF SigKill, IInv, TypeOK, StopFollows, Ending
<1>17. ASSUME NEW t \in Threads, Finish(t) \/ Clear(t)
      PROVE  StopFollows'
  BY <1>17 DEF Finish, Clear, IInv, TypeOK, StopFollows, StopperEnds, WorkerEnds
<1>18. ASSUME NEW r \in Captures, ChildExit(r) \/ DurationElapses(r)
      PROVE  StopFollows'
  BY <1>18 DEF ChildExit, DurationElapses, IInv, TypeOK, StopFollows
<1>19. CASE UNCHANGED vars
  BY <1>19 DEF vars, IInv, StopFollows
<1>20. QED
  BY <1>1, <1>2, <1>3, <1>4, <1>5, <1>6, <1>7, <1>8, <1>9, <1>10, <1>11, <1>12, <1>13,
     <1>14, <1>15, <1>16, <1>17, <1>18, <1>19
     DEF Next, Worker, Stopper, Stopping


\* What every step but a spawn and a registration does to the count.
QuotaKeeps ==
    /\ started' = started
    /\ pc'["worker"] = "register" => pc["worker"] = "register"
    /\ pc'["worker"] = "spawn" => started < MaxRecordings
    /\ pc'["worker"] \notin {"register", "dead"} => pc["worker"] \notin {"register", "dead"}

\* Only a spawn adds to the processes spawned, and it adds one.
LEMMA SpawnedGrows ==
  ASSUME IInv, NEW r \in Captures, Spawn(r)
  PROVE  /\ IsFiniteSet(Spawned)'
         /\ Cardinality(Spawned)' = Cardinality(Spawned) + 1
<1>1. Spawned' = Spawned \cup {r} /\ r \notin Spawned
  BY DEF IInv, TypeOK, Spawned, Spawn
<1>2. IsFiniteSet(Spawned)
  BY DEF IInv, QuotaCounts
<1>3. QED
  BY <1>1, <1>2, FS_AddElement

\* What is not a spawn leaves the captures spawned as they were.
LEMMA SpawnedStays ==
  ASSUME IInv, [Next]_vars, \A r \in Captures : ~Spawn(r)
  PROVE  Spawned' = Spawned
<1>1. CASE UNCHANGED child
  BY <1>1 DEF Spawned
<1>2. CASE PollExited
  BY <1>2 DEF PollExited, Spawned, IInv
<1>3. ASSUME NEW t \in Threads, StopPoll(t)
      PROVE  Spawned' = Spawned
  BY <1>3 DEF StopPoll, Spawned, IInv, TypeOK
<1>4. ASSUME NEW t \in Threads, WaitExit(t)
      PROVE  Spawned' = Spawned
  BY <1>4 DEF WaitExit, Spawned, IInv, TypeOK
<1>5. ASSUME NEW r \in Captures, ChildExit(r)
      PROVE  Spawned' = Spawned
  BY <1>5 DEF ChildExit, Spawned, IInv
<1>6. QED
  <2>1. ASSUME NEW t \in Threads, Stopping(t), ~StopPoll(t), ~WaitExit(t)
        PROVE  UNCHANGED child
    BY <2>1 DEF Stopping, StopRead, SigInt, WaitTimeout, SigTerm, SigKill, Finish, Clear
  <2>2. ASSUME Worker, \A r \in Captures : ~Spawn(r), ~PollExited, ~Stopping("worker")
        PROVE  UNCHANGED child
    BY <2>2 DEF Worker, Top, PollQuiet, PollOverdue, Get, Trigger, Suppress,
           ReportActive, AdmitNot, Admit, SpawnFails, Register
  <2>3. CASE Start \/ StopCall \/ Join \/ ProcessExit \/ CooldownElapses \/ UNCHANGED vars
    BY <1>1, <2>3 DEF Start, StopCall, Join, ProcessExit, CooldownElapses, vars
  <2>4. ASSUME NEW r \in Captures, DurationElapses(r)
        PROVE  UNCHANGED child
    BY <2>4 DEF DurationElapses
  <2>5. QED
    BY <1>1, <1>2, <1>3, <1>4, <1>5, <2>1, <2>2, <2>3, <2>4 DEF Next, Stopper

\* Every other step keeps the count and does not pass the check of the quota.
LEMMA QuotaMoves ==
  ASSUME TypeOK, QuotaCounts, ~Register, \A r \in Captures : ~Spawn(r), [Next]_vars
  PROVE  QuotaKeeps
<1>1. CASE Start \/ StopCall \/ Join \/ ProcessExit \/ CooldownElapses
  BY <1>1 DEF Start, StopCall, Join, ProcessExit, CooldownElapses, TypeOK, QuotaCounts,
         QuotaKeeps
<1>2. CASE Top
  BY <1>2 DEF Top, QuotaKeeps
<1>3. CASE PollQuiet
  BY <1>3 DEF PollQuiet, QuotaKeeps
<1>4. CASE PollExited
  BY <1>4 DEF PollExited, QuotaKeeps
<1>5. CASE PollOverdue
  BY <1>5 DEF PollOverdue, QuotaKeeps
<1>6. CASE Get
  BY <1>6 DEF Get, QuotaKeeps
<1>7. CASE Trigger \/ Suppress \/ ReportActive \/ AdmitNot \/ Admit \/ SpawnFails
  BY <1>7 DEF Trigger, Suppress, ReportActive, AdmitNot, Admit, SpawnFails, TypeOK,
         QuotaKeeps
<1>8. ASSUME NEW r \in Captures, Spawn(r)
      PROVE  QuotaKeeps
  BY <1>8 DEF Spawn, QuotaKeeps
<1>9. CASE Register
  BY <1>9 DEF Register, QuotaKeeps
<1>10. ASSUME NEW t \in Threads, StopRead(t)
      PROVE  QuotaKeeps
  BY <1>10 DEF StopRead, TypeOK, QuotaCounts, QuotaKeeps
<1>11. ASSUME NEW t \in Threads, StopPoll(t)
      PROVE  QuotaKeeps
  BY <1>11 DEF StopPoll, TypeOK, QuotaCounts, QuotaKeeps
<1>12. ASSUME NEW t \in Threads, SigInt(t)
      PROVE  QuotaKeeps
  BY <1>12 DEF SigInt, TypeOK, QuotaCounts, QuotaKeeps
<1>13. ASSUME NEW t \in Threads, WaitExit(t)
      PROVE  QuotaKeeps
  BY <1>13 DEF WaitExit, TypeOK, QuotaCounts, QuotaKeeps
<1>14. ASSUME NEW t \in Threads, WaitTimeout(t)
      PROVE  QuotaKeeps
  BY <1>14 DEF WaitTimeout, TypeOK, QuotaCounts, QuotaKeeps
<1>15. ASSUME NEW t \in Threads, SigTerm(t)
      PROVE  QuotaKeeps
  BY <1>15 DEF SigTerm, TypeOK, QuotaCounts, QuotaKeeps
<1>16. ASSUME NEW t \in Threads, SigKill(t)
      PROVE  QuotaKeeps
  BY <1>16 DEF SigKill, TypeOK, QuotaCounts, QuotaKeeps
<1>17. ASSUME NEW t \in Threads, Finish(t) \/ Clear(t)
      PROVE  QuotaKeeps
  BY <1>17 DEF Finish, Clear, TypeOK, QuotaCounts, QuotaKeeps
<1>18. ASSUME NEW r \in Captures, ChildExit(r) \/ DurationElapses(r)
      PROVE  QuotaKeeps
  BY <1>18 DEF ChildExit, DurationElapses, QuotaCounts, QuotaKeeps
<1>19. CASE UNCHANGED vars
  BY <1>19 DEF vars, QuotaCounts, QuotaKeeps
<1>20. QED
  BY <1>1, <1>2, <1>3, <1>4, <1>5, <1>6, <1>7, <1>8, <1>9, <1>10, <1>11, <1>12, <1>13,
     <1>14, <1>15, <1>16, <1>17, <1>18, <1>19
     DEF Next, Worker, Stopper, Stopping


\* The quota is checked before the spawn and counted after it, in one thread.
LEMMA QuotaCountsStep ==
  ASSUME IInv, [Next]_vars
  PROVE  QuotaCounts'
<1>1. Cardinality(Spawned) \in Nat /\ started \in Nat
  BY FS_CardinalityType DEF IInv, TypeOK, QuotaCounts
<1>2. ASSUME NEW r \in Captures, Spawn(r)
      PROVE  QuotaCounts'
  <2>1. started' = started /\ pc["worker"] = "spawn" /\ pc'["worker"] = "register"
    BY <1>2 DEF Spawn, IInv, TypeOK
  <2>2. QED
    BY <1>1, <1>2, <2>1, SpawnedGrows DEF IInv, QuotaCounts
<1>3. CASE Register
  <2>1. started' = started + 1 /\ pc["worker"] = "register" /\ pc'["worker"] = "top"
    BY <1>3 DEF Register, IInv, TypeOK
  <2>2. Spawned' = Spawned
    BY <1>3 DEF Register, Spawned
  <2>3. QED
    BY <1>1, <2>1, <2>2 DEF IInv, QuotaCounts
<1>4. CASE ~Register /\ \A r \in Captures : ~Spawn(r)
  <2>1. Spawned' = Spawned
    BY <1>4, SpawnedStays
  <2>2. QuotaKeeps
    BY <1>4, QuotaMoves DEF IInv
  <2>3. QED
    BY <1>1, <2>1, <2>2 DEF IInv, QuotaCounts, QuotaKeeps
<1>5. QED
  BY <1>2, <1>3, <1>4

\* Only the check of the quota reports it as reached.
LEMMA OnlyAdmitNotReports ==
  ASSUME [Next]_vars, ~AdmitNot
  PROVE  maxSkip' = maxSkip
<1>1. CASE Start \/ StopCall \/ Join \/ ProcessExit \/ CooldownElapses \/ UNCHANGED vars
  BY <1>1 DEF Start, StopCall, Join, ProcessExit, CooldownElapses, vars, shared
<1>2. CASE Top \/ PollQuiet \/ PollExited \/ PollOverdue \/ Get
  BY <1>2 DEF Top, PollQuiet, PollExited, PollOverdue, Get, shared
<1>3. CASE Trigger \/ Suppress \/ ReportActive \/ Admit \/ SpawnFails \/ Register
  BY <1>3 DEF Trigger, Suppress, ReportActive, Admit, SpawnFails, Register, shared
<1>4. ASSUME NEW r \in Captures, Spawn(r) \/ ChildExit(r) \/ DurationElapses(r)
      PROVE  maxSkip' = maxSkip
  BY <1>4 DEF Spawn, ChildExit, DurationElapses, shared
<1>5. ASSUME NEW t \in Threads, Stopping(t)
      PROVE  maxSkip' = maxSkip
  BY <1>5 DEF Stopping, StopRead, StopPoll, SigInt, WaitExit, WaitTimeout, SigTerm, SigKill,
         Finish, Clear, shared
<1>6. QED
  BY <1>1, <1>2, <1>3, <1>4, <1>5 DEF Next, Worker, Stopper, Threads

\* A failed spawn is not counted, so a count that is full means as many
\* processes.
LEMMA QuotaUsedUpStep ==
  ASSUME IInv, [Next]_vars
  PROVE  QuotaUsedUp'
<1>1. /\ Cardinality(Spawned) \in Nat /\ Cardinality(Spawned) <= MaxRecordings
      /\ MaxRecordings \in Nat
  BY FS_CardinalityType, RecorderAssumption DEF IInv, QuotaCounts, RecorderAssumption
<1>2. ASSUME NEW r \in Captures, Spawn(r)
      PROVE  QuotaUsedUp'
  <2>1. pc["worker"] = "spawn" /\ Cardinality(Spawned) = started /\ started < MaxRecordings
    BY <1>2 DEF Spawn, IInv, QuotaCounts
  <2>2. ~maxSkip
    BY <1>1, <2>1 DEF IInv, QuotaUsedUp
  <2>3. maxSkip' = maxSkip
    BY <1>2 DEF Spawn, shared
  <2>4. QED
    BY <2>2, <2>3 DEF QuotaUsedUp
<1>3. ASSUME \A r \in Captures : ~Spawn(r)
      PROVE  QuotaUsedUp'
  <2>1. Spawned' = Spawned
    BY <1>3, SpawnedStays
  <2>2. CASE AdmitNot
    <3>1. CASE started >= MaxRecordings
      <4>1. pc["worker"] = "admit"
        BY <2>2 DEF AdmitNot
      <4>2. Cardinality(Spawned) = MaxRecordings
        BY <1>1, <3>1, <4>1 DEF IInv, QuotaCounts
      <4>3. QED
        BY <2>1, <4>2 DEF QuotaUsedUp
    <3>2. CASE ~(started >= MaxRecordings)
      <4>1. maxSkip' = maxSkip
        BY <2>2, <3>2 DEF AdmitNot
      <4>2. QED
        BY <2>1, <4>1 DEF QuotaUsedUp, IInv
    <3>3. QED
      BY <3>1, <3>2
  <2>3. CASE ~AdmitNot
    <3>1. maxSkip' = maxSkip
      BY <2>3, OnlyAdmitNotReports
    <3>2. QED
      BY <2>1, <3>1 DEF QuotaUsedUp, IInv
  <2>4. QED
    BY <2>2, <2>3
<1>4. QED
  BY <1>2, <1>3

-----------------------------------------------------------------------------
(* The theorems *)

\* The invariant holds at first ...
LEMMA IInvInit == Init => IInv
<1>1. SUFFICES ASSUME Init
               PROVE  IInv
  OBVIOUS
<1>2. TypeOK
  <2>1. PcTypeOK
    BY <1>1 DEF Init, PcTypeOK, StopPoints, WorkerPoints, StopperPoints
  <2>2. started \in 0 .. MaxRecordings
    BY <1>1 DEF Init
  <2>3. QED
    BY <1>1, <2>1, <2>2 DEF Init, TypeOK, PcTypeOK
<1>3. Spawned = {}
  BY <1>1 DEF Init, Spawned
<1>4. QuotaCounts /\ QuotaUsedUp
  BY <1>1, <1>3, FS_EmptySet, RecorderAssumption
     DEF Init, QuotaCounts, QuotaUsedUp, RecorderAssumption
<1>5. Phases /\ InHand /\ RegisteredIsSpawned /\ AdmittedAlone /\ WorkerEnds /\ StopperEnds
  BY <1>1 DEF Init, Phases, InHand, RegisteredIsSpawned, AdmittedAlone, WorkerEnds,
         StopperEnds, Ending
<1>6. /\ AliveIsKnown /\ OneAlive /\ EndReportedOnce
      /\ WorkerReports /\ WorkerSurvives /\ StopFollows
  BY <1>1 DEF Init, AliveIsKnown, OneAlive, EndReportedOnce, WorkerReports,
         WorkerSurvives, StopFollows
<1>7. QED
  BY <1>2, <1>4, <1>5, <1>6 DEF IInv

\* ... every step keeps it ...
LEMMA IInvStep == IInv /\ [Next]_vars => IInv'
<1>1. SUFFICES ASSUME IInv, [Next]_vars
               PROVE  IInv'
  OBVIOUS
<1>2. TypeOK'
  BY <1>1, TypeStep DEF IInv
<1>3. QED
  BY <1>1, <1>2, PhasesStep, InHandStep, QuotaCountsStep,
     QuotaUsedUpStep, RegisteredIsSpawnedStep,
     AdmittedAloneStep, WorkerEndsStep, StopperEndsStep, AliveIsKnownStep,
     OneAliveStep, EndReportedOnceStep, WorkerReportsStep, WorkerSurvivesStep,
     StopFollowsStep
     DEF IInv

\* ... so it holds of the recorder.
LEMMA Invariance == Spec => []IInv
BY IInvInit, IInvStep, PTL DEF Spec

\* The recorder keeps the shape of its state; started never passes the quota.
THEOREM TypeCorrect == Spec => []TypeOK
<1>1. IInv => TypeOK
  BY DEF IInv
<1>2. QED
  BY <1>1, Invariance, PTL

\* Two captures never run at once, even when stop() clears _active under the
\* worker's feet: the worker cannot come back to _handle_trigger after that.
THEOREM OneCaptureRuns == Spec => []OneCaptureAtATime
<1>1. IInv => OneCaptureAtATime
  <2>1. SUFFICES ASSUME IInv
                 PROVE  Cardinality(Alive) <= 1
    BY DEF OneCaptureAtATime
  <2>2. CASE Alive = {}
    BY <2>2, FS_EmptySet
  <2>3. ASSUME NEW r \in Alive
        PROVE  Cardinality(Alive) <= 1
    <3>1. Alive = {r}
      BY <2>1, <2>3 DEF IInv, OneAlive, Alive
    <3>2. QED
      BY <3>1, FS_Singleton
  <2>4. QED
    BY <2>2, <2>3
<1>2. QED
  BY <1>1, Invariance, PTL

\* max_recordings_per_run bounds the processes ever spawned, also when the
\* interpreter exits between a spawn and its registration, and is not reported
\* as reached before as many were spawned.
THEOREM QuotaIsKept == Spec => []QuotaKept
<1>1. IInv => QuotaKept
  BY DEF IInv, QuotaCounts, QuotaUsedUp, QuotaKept
<1>2. QED
  BY <1>1, Invariance, PTL

\* Until stop() is called, every capture gets exactly one final event.
THEOREM EndsAreReportedOnce == Spec => []EndReportedOnce
<1>1. IInv => EndReportedOnce
  BY DEF IInv
<1>2. QED
  BY <1>1, Invariance, PTL

\* Until stop() is called, only a capture that survives SIGKILL ends run().
THEOREM WorkerOutlivesCaptures == Spec => []WorkerSurvives
<1>1. IInv => WorkerSurvives
  BY DEF IInv
<1>2. QED
  BY <1>1, Invariance, PTL

\* A stop() that returns normally has ended the capture it found registered,
\* whichever thread got to it first.
THEOREM StopEndsItsCapture == Spec => []StopEndsCapture
<1>1. IInv => StopEndsCapture
  BY DEF IInv, StopFollows, StopEndsCapture, Ending
<1>2. QED
  BY <1>1, Invariance, PTL
=============================================================================
