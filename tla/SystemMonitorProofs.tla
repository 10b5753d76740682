------------------------ MODULE SystemMonitorProofs ------------------------
(***************************************************************************)
(* What the system monitor publishes is sound, and it is silent once it    *)
(* has been stopped: for any collectors' answers, NTP output, delays,      *)
(* processes and bounds.                                                   *)
(***************************************************************************)
EXTENDS SystemMonitor, TLAPS

\* stop() has returned only after the thread ended or its patience did, and
\* nothing clears the stop event again.
StopOrder ==
    /\ pc = "new" => stop = "idle" /\ ~running
    /\ stop # "idle" => stopping
    /\ stop \in {"closing", "done"} => late \/ pc = "exited"

\* The collectors with data, by name.
WithData(a) == {c \in DOMAIN a : a[c] \notin {"raises", "empty"}}

\* The round so far: what is published and what is pending.
RoundSoFar ==
    /\ pc = "publish" =>
        /\ pending \subseteq DOMAIN Collectors
        /\ {e.kind : e \in out} \cup {Collectors[i] : i \in pending} = WithData(answers)
    /\ pc = "clock" => {e.kind : e \in out} = WithData(answers)

IInv == StopOrder /\ RoundSoFar
-----------------------------------------------------------------------------
\* Of a round, Heard gives the collectors that have data.
LEMMA HeardHasData ==
    ASSUME NEW a, DOMAIN a = ToSet(Collectors),
           \A c \in DOMAIN a : a[c] \in {"raises", "empty", "list", "dict"}
    PROVE  {Collectors[i] : i \in Heard(a)} = WithData(a)
BY DEF Heard, WithData, ToSet

\* Initially the thread is new and nobody has stopped it.
LEMMA IInvInit == Init => IInv
BY DEF Init, IInv, StopOrder, RoundSoFar

\* No step of the thread or of stop() breaks the order.
LEMMA StopOrderStep == StopOrder /\ [Next]_vars => StopOrder'
<1> SUFFICES ASSUME StopOrder, [Next]_vars PROVE StopOrder'
    OBVIOUS
<1> USE DEF StopOrder
<1>1. CASE Start BY <1>1 DEF Start
<1>2. CASE Exit BY <1>2 DEF Exit
<1>3. CASE Collect BY <1>3 DEF Collect
<1>4. CASE Publish BY <1>4 DEF Publish
<1>5. CASE Published BY <1>5 DEF Published
<1>6. CASE ClockTick BY <1>6 DEF ClockTick
<1>7. CASE ProcessTick BY <1>7 DEF ProcessTick
<1>8. CASE Wait BY <1>8 DEF Wait
<1>9. CASE StopCall BY <1>9 DEF StopCall
<1>10. CASE Join BY <1>10 DEF Join
<1>11. CASE JoinTimesOut BY <1>11 DEF JoinTimesOut
<1>12. CASE Close BY <1>12 DEF Close
<1>13. CASE UNCHANGED vars BY <1>13 DEF vars
<1> QED
    BY <1>1, <1>2, <1>3, <1>4, <1>5, <1>6, <1>7, <1>8, <1>9, <1>10, <1>11, <1>12, <1>13
       DEF Next

\* Every event of a round goes from pending to published.
LEMMA RoundStep == RoundSoFar /\ [Next]_vars => RoundSoFar'
<1> SUFFICES ASSUME RoundSoFar, [Next]_vars PROVE RoundSoFar'
    OBVIOUS
<1>1. CASE Start BY <1>1 DEF Start, RoundSoFar
<1>2. CASE Exit BY <1>2 DEF Exit, RoundSoFar
<1>3. CASE Collect
  <2>1. /\ DOMAIN answers' = ToSet(Collectors)
        /\ \A c \in DOMAIN answers' : answers'[c] \in {"raises", "empty", "list", "dict"}
    BY <1>3 DEF Collect
  <2>2. {Collectors'[i] : i \in pending'} = WithData(answers')
    BY <1>3, <2>1, HeardHasData DEF Collect, Collectors, config
  <2>3. pc' = "publish" /\ out' = {} /\ pending' \subseteq DOMAIN Collectors'
    BY <1>3 DEF Collect, Heard, Collectors, config
  <2> QED
    BY <2>2, <2>3 DEF RoundSoFar, WithData
<1>4. CASE Publish
  <2>1. PICK i \in pending : /\ pending' = pending \ {i}
                             /\ out' = out \cup {[kind |-> Collectors[i]]}
    BY <1>4 DEF Publish
  <2>2. /\ pc = "publish" /\ pc' = "publish" /\ answers' = answers
        /\ Collectors' = Collectors
    BY <1>4 DEF Publish, Collectors, config
  <2>3. {e.kind : e \in out'} = {e.kind : e \in out} \cup {Collectors[i]}
    <3> DEFINE e1 == [kind |-> Collectors[i]]
    <3>1. e1.kind = Collectors[i] /\ out' = out \cup {e1}
      BY <2>1
    <3> HIDE DEF e1
    <3> QED BY <3>1
  <2>4. {Collectors[j] : j \in pending} = {Collectors[j] : j \in pending'} \cup {Collectors[i]}
    BY <2>1
  <2> QED
    BY <2>1, <2>2, <2>3, <2>4 DEF RoundSoFar, WithData
<1>5. CASE Published
  <2>1. {Collectors[i] : i \in pending} = {}
    BY <1>5 DEF Published
  <2> QED
    BY <1>5, <2>1 DEF Published, RoundSoFar, WithData
<1>6. CASE ClockTick BY <1>6 DEF ClockTick, RoundSoFar
<1>7. CASE ProcessTick BY <1>7 DEF ProcessTick, RoundSoFar
<1>8. CASE Wait BY <1>8 DEF Wait, RoundSoFar
<1>9. CASE StopCall BY <1>9 DEF StopCall, RoundSoFar, WithData, Collectors, config
<1>10. CASE Join BY <1>10 DEF Join, RoundSoFar, WithData, Collectors, config
<1>11. CASE JoinTimesOut BY <1>11 DEF JoinTimesOut, RoundSoFar, WithData, Collectors, config
<1>12. CASE Close BY <1>12 DEF Close, RoundSoFar, WithData, Collectors, config
<1>13. CASE UNCHANGED vars BY <1>13 DEF vars, RoundSoFar, WithData, Collectors, config
<1> QED
    BY <1>1, <1>2, <1>3, <1>4, <1>5, <1>6, <1>7, <1>8, <1>9, <1>10, <1>11, <1>12, <1>13
       DEF Next

\* IInv holds in every reachable state.
LEMMA Invariance == Spec => []IInv
BY IInvInit, StopOrderStep, RoundStep, PTL DEF Spec, IInv
-----------------------------------------------------------------------------
\* The host's collectors are named after what they measure, which is none
\* of the signatures.
LEMMA CollectorNames ==
    \A i \in DOMAIN Collectors :
        Collectors[i] \in {"cpu", "memory", "disk", "thermal", "gpu"}
<1> DEFINE host == <<"cpu", "memory", "disk", "thermal">>
           gpu == IF backend = "none" THEN <<>> ELSE <<"gpu">>
<1>1. Collectors = host \o gpu
  BY DEF Collectors
<1>2. host \in Seq({"cpu", "memory", "disk", "thermal", "gpu"})
  OBVIOUS
<1>3. gpu \in Seq({"cpu", "memory", "disk", "thermal", "gpu"})
  <2>1. CASE backend = "none" BY <2>1
  <2>2. CASE backend # "none" BY <2>2
  <2> QED BY <2>1, <2>2
<1>4. Collectors \in Seq({"cpu", "memory", "disk", "thermal", "gpu"})
  BY <1>1, <1>2, <1>3
<1> QED
  BY <1>4

\* What Publish adds is neither of the signatures.
LEMMA PublishedKind ==
    ASSUME IInv, Publish
    PROVE  \A e \in out' \ out : e.kind \notin {"clock_skew", "process_signals"}
<1>1. PICK i \in pending : out' = out \cup {[kind |-> Collectors[i]]}
  BY DEF Publish
<1> DEFINE event == [kind |-> Collectors[i]]
<1>2. event.kind = Collectors[i] /\ out' = out \cup {event}
  BY <1>1
<1>3. i \in DOMAIN Collectors
  BY DEF Publish, IInv, RoundSoFar
<1> HIDE DEF event
<1> QED
  BY <1>2, <1>3, CollectorNames
-----------------------------------------------------------------------------
(* The clocks *)

\* Two clocks are published as little further apart than they are as the
\* budget allows.
NotInvented(a, b) == Distance(a.time, b.time) <= Distance(a.offset, b.offset) + Budget

\* Clocks read by a tool within the budget, beside each other and the system.
LEMMA ReadTogether ==
    ASSUME NEW k \in Nat, k <= Budget, NEW x \in Int, NEW y \in Int
    PROVE  /\ NotInvented(Clock(k, x), Clock(k, y))
           /\ NotInvented(Clock(k, x), System) /\ NotInvented(System, Clock(k, x))
           /\ NotInvented(System, System)
BY MonitorAssumption DEF MonitorAssumption, NotInvented, Clock, System, Distance

\* The peers of either tool are dated together, after no more than the budget.
LEMMA PeersReadTogether ==
    ASSUME NEW c \in ChronycRuns, NEW n \in NtpqRuns,
           NEW d \in Durations, NEW d2 \in Durations, NEW spin \in Durations,
           ~TooLong(NtpTime(c, d, d2) + spin)
    PROVE  \E k \in Nat : k <= Budget /\
             \A a \in NtpSources(c, d, n, d2) : \E x \in Int : a = Clock(k, x)
<1>1. /\ d \in Nat /\ d2 \in Nat /\ spin \in Nat /\ Budget \in Nat
      /\ NtpTime(c, d, d2) + spin <= Budget
  BY MonitorAssumption DEF MonitorAssumption, TooLong, NtpTime
<1>2. ASSUME NEW k \in Nat, NEW a \in Chronyc(c, k) PROVE \E x \in Int : a = Clock(k, x)
  <2>1. c # Failed /\ \A i \in Peers(c) : c[i].offset \in Int
    BY <1>2, MonitorAssumption DEF MonitorAssumption, Chronyc, Peers
  <2> QED
    BY <1>2, <2>1 DEF Chronyc
<1>3. ASSUME NEW k \in Nat, NEW a \in Ntpq(n, k) PROVE \E x \in Int : a = Clock(k, x)
  <2>1. n # Failed /\ \A i \in Chosen(n) : n[i].offset \in Int
    BY <1>3, MonitorAssumption DEF MonitorAssumption, Ntpq, Chosen, Marked
  <2> QED
    BY <1>3, <2>1 DEF Ntpq
<1>4. CASE ~Asks(c, d)
  <2>1. NtpSources(c, d, n, d2) = Chronyc(c, d) /\ d <= Budget
    BY <1>1, <1>4 DEF NtpSources, NtpTime, Asks
  <2> QED
    BY <1>1, <1>2, <2>1
<1>5. CASE Asks(c, d) /\ tool = "auto"
  <2>1. NtpSources(c, d, n, d2) = Ntpq(n, d + d2) /\ d + d2 <= Budget /\ d + d2 \in Nat
    BY <1>1, <1>5 DEF NtpSources, NtpTime
  <2> QED
    BY <1>3, <2>1
<1>6. CASE Asks(c, d) /\ tool # "auto"
  <2>1. NtpSources(c, d, n, d2) = Ntpq(n, d2) /\ d2 <= Budget
    BY <1>1, <1>6 DEF NtpSources, NtpTime, Asks
  <2> QED
    BY <1>1, <1>3, <2>1
<1> QED
  BY <1>4, <1>5, <1>6

\* What a tick publishes of the clocks was read together.
LEMMA SkewStep == IInv /\ SkewNotInvented /\ [Next]_vars => SkewNotInvented'
<1> SUFFICES ASSUME IInv, SkewNotInvented, [Next]_vars,
                    NEW e \in out', e.kind = "clock_skew",
                    NEW a \in e.peers \cup {System}, NEW b \in e.peers \cup {System}
             PROVE  NotInvented(a, b)
    BY DEF SkewNotInvented, NotInvented, System, Clock, Distance
<1>1. CASE e \in out
  BY <1>1 DEF SkewNotInvented, NotInvented
<1>2. CASE e \notin out
  <2>1. CASE Publish BY <2>1, <1>2, PublishedKind
  <2>2. CASE ClockTick
    <3>1. PICK c \in ChronycRuns, n \in NtpqRuns, d \in Durations, d2 \in Durations,
               spin \in Durations :
            LET peers == NtpSources(c, d, n, d2)
                window == NtpTime(c, d, d2) + spin
            IN  out' = IF (peers = {} /\ rosAge' = -1) \/ TooLong(window) THEN {}
                       ELSE {[kind |-> "clock_skew", peers |-> peers, rosAge |-> rosAge']}
      BY <2>2 DEF ClockTick
    <3>2. ~TooLong(NtpTime(c, d, d2) + spin) /\ e.peers = NtpSources(c, d, n, d2)
      BY <3>1
    <3>3. PICK k \in Nat : k <= Budget /\ \A p \in e.peers : \E x \in Int : p = Clock(k, x)
      BY <3>2, PeersReadTogether
    <3>4. CASE a \in e.peers /\ b \in e.peers
      BY <3>3, <3>4, ReadTogether
    <3>5. CASE a = System \/ b = System
      BY <3>3, <3>5, ReadTogether
    <3> QED
      BY <3>4, <3>5
  <2>3. CASE ProcessTick BY <2>3 DEF ProcessTick
  <2> QED
    BY <1>2, <2>1, <2>2, <2>3 DEF Next, Start, Exit, Collect, Published, Wait, StopCall, Join,
       JoinTimesOut, Close, vars
<1> QED
  BY <1>1, <1>2

\* No two clocks are published as further apart than they are by more than
\* the budget: for every NTP output, every delay of the tools and every
\* budget.
THEOREM SkewIsNotInvented == Spec => []SkewNotInvented
<1>1. Init => SkewNotInvented
  BY DEF Init, SkewNotInvented
<1> QED
  BY <1>1, SkewStep, Invariance, PTL DEF Spec
-----------------------------------------------------------------------------
(* The processes and the round *)

\* A reading is of the process itself where psutil looks for reused PIDs.
OwnReadings == rechecks => primed = measured

\* No step gives a process the reading of another.
LEMMA OwnStep == OwnReadings /\ [Next]_vars => OwnReadings'
BY DEF OwnReadings, Next, Start, Exit, Collect, Publish, Published, ClockTick, ProcessTick,
   Wait, StopCall, Join, JoinTimesOut, Close, vars, config, procs

\* A process is published only when it was read before.
LEMMA MeasuredStep ==
    IInv /\ OwnReadings /\ OnlyMeasuredProcesses /\ [Next]_vars => OnlyMeasuredProcesses'
<1> SUFFICES ASSUME IInv, OwnReadings, OnlyMeasuredProcesses, [Next]_vars, rechecks,
                    NEW e \in out', e \notin out, e.kind = "process_signals"
             PROVE  e.cold = {}
  <2>1. ASSUME [Next]_vars PROVE config' = config
    BY <2>1 DEF Next, Start, Exit, Collect, Publish, Published, ClockTick, ProcessTick,
       Wait, StopCall, Join, JoinTimesOut, Close, vars
  <2>2. ASSUME [Next]_vars PROVE rechecks' = rechecks
    BY <2>1, <2>2 DEF config
  <2> QED
    BY <2>2 DEF OnlyMeasuredProcesses
<1>0. primed = measured
  BY DEF OwnReadings
<1>1. CASE Publish BY <1>1, PublishedKind
<1>2. CASE ClockTick BY <1>2 DEF ClockTick
<1>3. CASE ProcessTick
  <2>1. PICK reading \in [Matched(alive) -> {"gone", "idle", "busy"}] :
            out' = IF Reported(Percent(reading)) = {} THEN {}
                   ELSE {[kind |-> "process_signals",
                          processes |-> Reported(Percent(reading)),
                          cold |-> Reported(Percent(reading)) \ measured]}
    BY <1>3 DEF ProcessTick
  <2>2. Reported(Percent(reading)) \subseteq primed
    BY DEF Reported, Percent
  <2> QED
    BY <1>0, <2>1, <2>2
<1> QED
  BY <1>1, <1>2, <1>3 DEF Next, Start, Exit, Collect, Published, Wait, StopCall, Join,
     JoinTimesOut, Close, vars

\* A round publishes exactly one event of each collector that has data,
\* whatever the others do, and of the processes only what was measured over
\* an interval of the process itself (psutil before 6.0).
THEOREM RoundsAreSound == Spec => []RoundIsSound
<1>1. Init => OnlyMeasuredProcesses /\ OwnReadings
  BY DEF Init, OnlyMeasuredProcesses, OwnReadings
<1>2. IInv => EveryCollectorHeard
  BY DEF IInv, RoundSoFar, EveryCollectorHeard, WithData
<1> QED
  BY <1>1, <1>2, OwnStep, MeasuredStep, Invariance, PTL DEF Spec, RoundIsSound

\* Nothing is published and no ROS node made after stop() has returned, except
\* by the rest of a round that the join did not wait for.
THEOREM SilenceAfterStop == Spec => SilentAfterStop
<1>1. ASSUME IInv, [Next]_vars, stop = "done",
             ~(out' \subseteq out) \/ ticks' # ticks \/ node' # node
      PROVE  late /\ ticks' = ticks
  <2>1. stopping /\ (late \/ pc = "exited")
    BY <1>1 DEF IInv, StopOrder
  <2>2. ticks' = ticks
    BY <1>1, <2>1 DEF Next, Start, Exit, Collect, Publish, Published, ClockTick, ProcessTick,
       Wait, StopCall, Join, JoinTimesOut, Close, vars
  <2>3. pc # "exited"
    BY <1>1, <2>2 DEF Next, Start, Exit, Collect, Publish, Published, ClockTick, ProcessTick,
       Wait, StopCall, Join, JoinTimesOut, Close, vars, clocks
  <2> QED
    BY <2>1, <2>2, <2>3
<1> QED
  BY <1>1, Invariance, PTL DEF Spec, SilentAfterStop
=============================================================================
