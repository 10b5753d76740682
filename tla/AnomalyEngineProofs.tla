------------------------ MODULE AnomalyEngineProofs ------------------------
(***************************************************************************)
(* Proofs about the anomaly engine: when the detectors that count alarm,   *)
(* that a steady topic is never alarmed, and that each event is shown once *)
(* to each detector, for every configuration.                              *)
(***************************************************************************)
EXTENDS AnomalyEngine, FiniteSetTheorems, WellFoundedInduction, TLAPS

-----------------------------------------------------------------------------
(* Sums over the log.  What PartialSums computes for every number needs an *)
(* induction, done here as a smallest counterexample.                      *)

\* A set of numbers has a smallest member.
LEMMA SmallestNumber ==
    ASSUME NEW T, T \subseteq Nat, T # {}
    PROVE  \E n \in T : \A m \in T : n <= m
<1> DEFINE R == OpToRel(<, Nat)
<1>1. R = {p \in Nat \X Nat : p[1] < p[2]}
  BY DEF OpToRel
<1>2. IsWellFoundedOn(R, Nat)
  BY NatLessThanWellFounded
<1> HIDE DEF R
<1>3. PICK n \in T : \A m \in T : ~(<<m, n>> \in R)
  BY <1>2, WFMin
<1>4. ASSUME NEW m \in T PROVE n <= m
  <2>1. <<m, n>> \notin {p \in Nat \X Nat : p[1] < p[2]}
    BY <1>1, <1>3
  <2>2. m \in Nat /\ n \in Nat
    OBVIOUS
  <2> QED
    BY <2>1, <2>2
<1> QED
  BY <1>4

\* A sum up to some number, term by term.
IsSum(f, g, m) ==
    /\ f[0] = 0
    /\ \A n \in 1 .. m : f[n] = f[n - 1] + g[n]

\* Two such sums agree as far as their terms do.
LEMMA SumsAgree ==
    ASSUME NEW f, NEW g, NEW e, NEW h, NEW m \in Nat,
           IsSum(f, g, m), IsSum(e, h, m), \A n \in 1 .. m : g[n] = h[n]
    PROVE  f[m] = e[m]
<1> DEFINE Wrong == {n \in 0 .. m : f[n] # e[n]}
<1> SUFFICES ASSUME Wrong # {} PROVE FALSE
  OBVIOUS
<1>1. PICK n \in Wrong : \A k \in Wrong : n <= k
  <2>1. Wrong \subseteq Nat
    OBVIOUS
  <2> QED
    BY <2>1, SmallestNumber
<1>2. n \in 1 .. m /\ n - 1 \in 0 .. m /\ n - 1 \notin Wrong
  BY <1>1 DEF IsSum
<1>3. f[n] = e[n]
  BY <1>2 DEF IsSum
<1> QED
  BY <1>1, <1>3

\* There is such a sum.
LEMMA SumExists ==
    ASSUME NEW g, NEW m \in Nat
    PROVE  \E f : IsSum(f, g, m)
<1> DEFINE Wrong == {n \in Nat : ~\E f : IsSum(f, g, n)}
<1> SUFFICES ASSUME Wrong # {} PROVE FALSE
  OBVIOUS
<1>1. PICK n \in Wrong : \A k \in Wrong : n <= k
  <2>1. Wrong \subseteq Nat
    OBVIOUS
  <2> QED
    BY <2>1, SmallestNumber
<1>2. IsSum([k \in 0 .. 0 |-> 0], g, 0)
  BY DEF IsSum
<1>3. n - 1 \in Nat /\ n - 1 \notin Wrong
  BY <1>1, <1>2
<1>4. PICK f : IsSum(f, g, n - 1)
  BY <1>3
<1> DEFINE e == [k \in 0 .. n |-> IF k = n THEN f[n - 1] + g[n] ELSE f[k]]
<1>5. n \in Nat \ {0}
  BY <1>1, <1>3
<1>6. ASSUME NEW k \in 1 .. n PROVE e[k] = e[k - 1] + g[k]
  <2>1. CASE k = n
    BY <2>1, <1>5
  <2>2. CASE k # n
    <3>1. k \in 1 .. n - 1 /\ k - 1 # n /\ k - 1 \in 0 .. n /\ k \in 0 .. n
      BY <2>2, <1>5
    <3> QED
      BY <3>1, <2>2, <1>4 DEF IsSum
  <2> QED
    BY <2>1, <2>2
<1>7. IsSum(e, g, n)
  BY <1>4, <1>5, <1>6 DEF IsSum
<1> QED
  BY <1>1, <1>7

\* PartialSums is what its definition says.
LEMMA PartialSumsDef ==
    ASSUME NEW g
    PROVE  PartialSums(g) =
             [n \in Nat |-> IF n = 0 THEN 0 ELSE PartialSums(g)[n - 1] + g[n]]
<1> DEFINE P(f) == f = [n \in Nat |-> IF n = 0 THEN 0 ELSE f[n - 1] + g[n]]
           s == [n \in Nat |-> (CHOOSE f : IsSum(f, g, n))[n]]
<1>1. ASSUME NEW n \in Nat PROVE IsSum(CHOOSE f : IsSum(f, g, n), g, n)
  BY SumExists
<1>2. ASSUME NEW n \in Nat PROVE s[n] = IF n = 0 THEN 0 ELSE s[n - 1] + g[n]
  <2>1. CASE n = 0
    BY <2>1, <1>1 DEF IsSum
  <2>2. CASE n # 0
    <3> DEFINE f == CHOOSE h : IsSum(h, g, n)
               e == CHOOSE h : IsSum(h, g, n - 1)
    <3>1. n - 1 \in Nat /\ n \in 1 .. n /\ \A k \in 1 .. n - 1 : k \in 1 .. n
      BY <2>2
    <3>2. IsSum(f, g, n) /\ IsSum(e, g, n - 1)
      BY <1>1, <3>1
    <3>3. s[n] = f[n] /\ s[n - 1] = e[n - 1]
      BY <3>1
    <3> HIDE DEF f, e, s
    <3>4. f[n - 1] = e[n - 1]
      <4>1. IsSum(f, g, n - 1)
        BY <3>1, <3>2 DEF IsSum
      <4> QED
        BY <4>1, <3>1, <3>2, SumsAgree
    <3>5. f[n] = f[n - 1] + g[n]
      BY <3>1, <3>2 DEF IsSum
    <3> QED
      BY <2>2, <3>3, <3>4, <3>5
  <2> QED
    BY <2>1, <2>2
<1>3. P(s)
  <2>1. s = [n \in Nat |-> IF n = 0 THEN 0 ELSE s[n - 1] + g[n]]
    <3> DEFINE u == [n \in Nat |-> IF n = 0 THEN 0 ELSE s[n - 1] + g[n]]
    <3>1. DOMAIN s = Nat /\ s = [n \in DOMAIN s |-> s[n]]
      OBVIOUS
    <3>2. DOMAIN u = Nat /\ u = [n \in DOMAIN u |-> u[n]]
      OBVIOUS
    <3>3. ASSUME NEW n \in Nat PROVE s[n] = u[n]
      <4>1. s[n] = IF n = 0 THEN 0 ELSE s[n - 1] + g[n]
        BY <1>2
      <4> HIDE DEF s
      <4> QED
        BY <4>1
    <3> HIDE DEF s, u
    <3>4. s = u
      BY <3>1, <3>2, <3>3
    <3> QED
      BY <3>4 DEF u
  <2> QED
    BY <2>1
<1>4. PartialSums(g) = CHOOSE f : P(f)
  BY DEF PartialSums
<1> HIDE DEF s, P
<1>5. P(PartialSums(g))
  BY <1>3, <1>4
<1> QED
  BY <1>5 DEF P

\* Sums of numbers are numbers.
LEMMA PartialSumsNat ==
    ASSUME NEW g \in [Nat -> Nat], NEW m \in Nat
    PROVE  PartialSums(g)[m] \in Nat
<1> DEFINE s == PartialSums(g)
           Wrong == {n \in Nat : s[n] \notin Nat}
<1>1. s = [n \in Nat |-> IF n = 0 THEN 0 ELSE s[n - 1] + g[n]]
  BY PartialSumsDef
<1>2. ASSUME NEW n \in Nat PROVE s[n] = IF n = 0 THEN 0 ELSE s[n - 1] + g[n]
  <2> HIDE DEF s
  <2> QED
    BY <1>1
<1> HIDE DEF s
<1> SUFFICES ASSUME Wrong # {} PROVE FALSE
  BY DEF s
<1>3. PICK n \in Wrong : \A k \in Wrong : n <= k
  <2>1. Wrong \subseteq Nat
    OBVIOUS
  <2> QED
    BY <2>1, SmallestNumber
<1>4. n \in Nat \ {0} /\ n - 1 \in Nat /\ n - 1 \notin Wrong
  BY <1>2, <1>3
<1> QED
  BY <1>2, <1>3, <1>4

\* So they are a sum in the sense above.
LEMMA PartialSumsIsSum ==
    ASSUME NEW g, NEW n \in Nat
    PROVE  IsSum(PartialSums(g), g, n)
<1> DEFINE s == PartialSums(g)
<1>1. s = [k \in Nat |-> IF k = 0 THEN 0 ELSE s[k - 1] + g[k]]
  BY PartialSumsDef
<1> HIDE DEF s
<1>2. s[0] = 0 /\ \A k \in Nat \ {0} : s[k] = s[k - 1] + g[k]
  BY <1>1
<1>3. IsSum(s, g, n)
  BY <1>2 DEF IsSum
<1> QED
  BY <1>3 DEF s

\* The first n terms of h are those of f, all numbers.
SameTerms(f, h, n) == n \in Nat /\ f \in [Nat -> Nat] /\ \A k \in 1 .. n : h[k] = f[k]

\* The sum of the same terms, and of one more.
LEMMA TermAdded ==
    ASSUME NEW f, NEW h, NEW n, SameTerms(f, h, n)
    PROVE  /\ PartialSums(f)[n] \in Nat
           /\ PartialSums(h)[n + 1] = PartialSums(f)[n] + h[n + 1]
<1>0. n \in Nat /\ f \in [Nat -> Nat] /\ \A k \in 1 .. n : h[k] = f[k]
  BY DEF SameTerms
<1>1. IsSum(PartialSums(h), h, n) /\ IsSum(PartialSums(f), f, n)
  BY <1>0, PartialSumsIsSum
<1>2. PartialSums(h)[n] = PartialSums(f)[n]
  BY <1>0, <1>1, SumsAgree
<1>3. IsSum(PartialSums(h), h, n + 1)
  BY <1>0, PartialSumsIsSum
<1>4. n + 1 \in 1 .. n + 1 /\ (n + 1) - 1 = n
  BY <1>0
<1>5. PartialSums(h)[n + 1] = PartialSums(h)[n] + h[n + 1]
  BY <1>3, <1>4 DEF IsSum
<1> QED
  BY <1>0, <1>2, <1>5, PartialSumsNat

\* A log m with one entry more than l, and entries of a log that are rates.
Grown(l, m) ==
    /\ Len(l) \in Nat /\ Len(m) = Len(l) + 1
    /\ \A k \in 1 .. Len(l) : m[k] = l[k]
Rates(l, R) == R \subseteq 1 .. Len(l) /\ \A k \in R : l[k].event.hz \in Nat

\* What has been summed stays.
LEMMA SumStays ==
    ASSUME NEW l, NEW m, NEW R, Grown(l, m), Rates(l, R)
    PROVE  SumOver(l, R) \in Nat /\ SumOver(m, R) = SumOver(l, R)
<1> DEFINE f == [n \in Nat |-> IF n \in R THEN l[n].event.hz ELSE 0]
           h == [n \in Nat |-> IF n \in R THEN m[n].event.hz ELSE 0]
<1>1. /\ Len(l) \in Nat /\ Len(m) = Len(l) + 1 /\ f \in [Nat -> Nat]
      /\ \A k \in 1 .. Len(l) : h[k] = f[k]
      /\ h[Len(l) + 1] = 0
  BY DEF Grown, Rates
<1>2. SumOver(l, R) = PartialSums(f)[Len(l)] /\ SumOver(m, R) = PartialSums(h)[Len(l) + 1]
  BY <1>1 DEF SumOver
<1> HIDE DEF f, h
<1>3. SameTerms(f, h, Len(l))
  BY <1>1 DEF SameTerms
<1>4. PartialSums(f)[Len(l)] \in Nat
  BY <1>3, TermAdded
<1>5. PartialSums(h)[Len(l) + 1] = PartialSums(f)[Len(l)] + h[Len(l) + 1]
  BY <1>3, TermAdded
<1> QED
  BY <1>1, <1>2, <1>4, <1>5

\* A new entry adds the rate it carries.
LEMMA SumGrows ==
    ASSUME NEW l, NEW m, NEW R, Grown(l, m), Rates(l, R)
    PROVE  SumOver(m, R \cup {Len(m)}) = SumOver(l, R) + m[Len(m)].event.hz
<1> DEFINE f == [n \in Nat |-> IF n \in R THEN l[n].event.hz ELSE 0]
           h == [n \in Nat |-> IF n \in R \cup {Len(m)} THEN m[n].event.hz ELSE 0]
<1>1. /\ Len(l) \in Nat /\ Len(m) = Len(l) + 1 /\ f \in [Nat -> Nat]
      /\ \A k \in 1 .. Len(l) : h[k] = f[k]
      /\ h[Len(l) + 1] = m[Len(m)].event.hz
  BY DEF Grown, Rates
<1>2. /\ SumOver(l, R) = PartialSums(f)[Len(l)]
      /\ SumOver(m, R \cup {Len(m)}) = PartialSums(h)[Len(l) + 1]
  BY <1>1 DEF SumOver
<1> HIDE DEF f, h
<1>3. SameTerms(f, h, Len(l))
  BY <1>1 DEF SameTerms
<1>4. PartialSums(f)[Len(l)] \in Nat
  BY <1>3, TermAdded
<1>5. PartialSums(h)[Len(l) + 1] = PartialSums(f)[Len(l)] + h[Len(l) + 1]
  BY <1>3, TermAdded
<1> QED
  BY <1>1, <1>2, <1>4, <1>5

\* Nothing adds up to nothing.
LEMMA SumOfNothing ==
    ASSUME NEW l, Len(l) \in Nat
    PROVE  SumOver(l, {}) = 0
<1> DEFINE g == [n \in Nat |-> IF n \in {} THEN l[n].event.hz ELSE 0]
           s == PartialSums(g)
           zero == [n \in 0 .. Len(l) |-> 0]
<1>1. IsSum(s, g, Len(l))
  BY PartialSumsIsSum
<1>2. SumOver(l, {}) = s[Len(l)]
  BY DEF SumOver
<1>3. /\ \A n \in 1 .. Len(l) : g[n] = 0
      /\ zero[0] = 0 /\ \A n \in 1 .. Len(l) : zero[n] = zero[n - 1] + 0
      /\ zero[Len(l)] = 0
  OBVIOUS
<1> HIDE DEF s, g, zero
<1>4. IsSum(zero, g, Len(l))
  BY <1>3 DEF IsSum
<1>5. s[Len(l)] = zero[Len(l)]
  BY <1>1, <1>4, SumsAgree
<1> QED
  BY <1>2, <1>3, <1>5
-----------------------------------------------------------------------------
(* The inductive invariant.                                                *)

\* The detectors that keep counts.
Counting == {"frequency", "threshold", "clock_skew", "process_signals"}

\* What is in the queue and in the log comes from the producer.
Typed ==
    /\ feed \in Feeds
    /\ queue \in Seq(Payloads[feed] \cup {AnomalyEvent})
    /\ log \in Seq(Range(log))
    /\ \A k \in 1 .. Len(log) : log[k].event \in Payloads[feed]

\* The readings of a topic, those before the k-th entry, those learned.
Heard(t) == {k \in 1 .. Len(log) : log[k].event.topic = t}
Before(k) == {j \in 1 .. k - 1 : log[j].event.topic = log[k].event.topic}
Learnt(t) == {k \in Heard(t) : Cardinality(Before(k)) < LearningSamples}

\* The detector has learned from the first readings of a topic.
LearnsTheFirst(t) ==
    /\ t \in DOMAIN baseline <=> Cardinality(Heard(t)) >= LearningSamples
    /\ t \in DOMAIN samples <=> Cardinality(Heard(t)) \in 1 .. LearningSamples - 1
    /\ t \in DOMAIN samples =>
          samples[t] = [n |-> Cardinality(Heard(t)), sum |-> SumOver(log, Learnt(t))]
    /\ t \in DOMAIN baseline => baseline[t] = SumOver(log, Learnt(t))

\* A rate that no reading exceeds by more than the tolerance is not below
\* the floor of their mean.
SteadySum(t, v) ==
    (\A k \in Heard(t) : log[k].event.hz * (100 - Tolerance) <= v * 100) =>
        /\ t \in DOMAIN samples =>
              samples[t].sum * (100 - Tolerance) <= samples[t].n * (v * 100)
        /\ t \in DOMAIN baseline =>
              baseline[t] * (100 - Tolerance) <= LearningSamples * (v * 100)

\* A reading far below a baseline.
Below(e, b) == e.hz * LearningSamples * 100 < b * (100 - Tolerance)

\* The verdict of the detectors that learn nothing.
Judged(e) ==
    CASE e.kind = "threshold" -> ThresholdVerdict(e)
      [] e.kind = "clock_skew" -> SkewVerdict(e)
      [] e.kind = "process_signals" -> ProcessVerdict(e)
      [] OTHER -> "unheard"

\* The verdict on the k-th entry, when it was handled.
Said(k) ==
    IF feed = "frequency"
      THEN IF Cardinality(Before(k)) < LearningSamples THEN "unheard"
           ELSE IF Below(log[k].event, baseline[log[k].event.topic]) THEN "bad" ELSE "good"
      ELSE Judged(log[k].event)

\* What ends the count of a key, and the violations it counts.
Resets(k, K) == Said(k) = "good" /\ (feed \in Grouped \/ Key(log[k].event) = K)
Clean(K, i, n) == \A k \in i .. n : ~Resets(k, K)
Run(K, i, n) == {k \in i .. n : Said(k) = "bad" /\ Key(log[k].event) = K}

\* A count is the number of violations since the last reset.
CountIsRun(K) ==
    \E i \in 1 .. Len(log) + 1 :
        /\ Clean(K, i, Len(log))
        /\ Cardinality(Run(K, i, Len(log))) = Get(counts, K)
        /\ i = 1 \/ Resets(i - 1, K)

\* An alarm follows a run that is long enough.
AlarmIsRun(n) ==
    AlarmedAt(n) <=>
        /\ Said(n) = "bad"
        /\ \E i \in 1 .. n :
              /\ Clean(Key(log[n].event), i, n)
              /\ Cardinality(Run(Key(log[n].event), i, n)) >= MinConsecutive

\* The invariant of the detectors that count.
AlarmInv ==
    /\ Typed
    /\ feed = "frequency" => \A t : LearnsTheFirst(t) /\ \A v \in Nat : SteadySum(t, v)
    /\ feed \in Counting => (\A K : CountIsRun(K)) /\ \A n \in 1 .. Len(log) : AlarmIsRun(n)
-----------------------------------------------------------------------------
(* One step of the engine.                                                 *)

\* The step that shows an event to the detectors.
Shown(e) == Handle(e) /\ e \in Payloads[feed] /\ feed' = feed

\* Places of detectors are few.
LEMMA FindingFinite ==
    ASSUME NEW e
    PROVE  IsFiniteSet(Finding(e)) /\ Cardinality(Finding(e)) \in Nat
<1>1. Configured \in Seq({"hysteresis", "qos"} \cup Range(Entries))
  <2>1. <<"hysteresis", "qos">> \in Seq({"hysteresis", "qos"} \cup Range(Entries))
    OBVIOUS
  <2>2. Entries \in Seq({"hysteresis", "qos"} \cup Range(Entries))
    BY EngineAssumption
  <2> QED
    BY <2>1, <2>2 DEF Configured
<1>2. Finding(e) \subseteq 1 .. Len(Configured) /\ Len(Configured) \in Nat
  BY <1>1 DEF Finding, Detectors
<1>3. IsFiniteSet(1 .. Len(Configured))
  BY <1>2, FS_Interval
<1> QED
  BY <1>2, <1>3, FS_Subset, FS_CardinalityType

\* What is taken stays within what was offered.
LEMMA DeliveredSeq ==
    ASSUME NEW S, NEW q \in Seq(S), NEW es \in Seq(S)
    PROVE  Delivered(q, es) \in Seq(S)
<1> DEFINE all == q \o es
           n == IF Len(all) > QueueMax THEN QueueMax ELSE Len(all)
<1>1. all \in Seq(S) /\ n \in 0 .. Len(all)
  BY EngineAssumption
<1> HIDE DEF all, n
<1>2. SubSeq(all, 1, n) \in Seq(S)
  BY <1>1
<1> QED
  BY <1>2 DEF Delivered, all, n

\* A step shows an event of the producer or leaves the detectors alone.
LEMMA NextCases ==
    ASSUME Typed, [Next]_vars
    PROVE  /\ queue' \in Seq(Payloads[feed] \cup {AnomalyEvent})
           /\ \/ UNCHANGED <<feed, samples, baseline, counts, log>>
              \/ \E e : Shown(e)
<1> DEFINE S == Payloads[feed] \cup {AnomalyEvent}
<1>q. queue \in Seq(S)
  BY DEF Typed
<1>1. CASE Start \/ StopCall \/ Loop \/ Empty \/ UNCHANGED vars
  BY <1>1, <1>q DEF Start, StopCall, Loop, Empty, vars, detvars
<1>2. CASE Unsubscribe
  BY <1>2 DEF Unsubscribe, detvars
<1>3. ASSUME NEW e \in Payloads[feed], Produce(e)
      PROVE  queue' \in Seq(S) /\ UNCHANGED <<feed, samples, baseline, counts, log>>
  <2>1. <<e>> \in Seq(S)
    OBVIOUS
  <2> QED
    BY <1>3, <2>1, <1>q, DeliveredSeq DEF Produce, detvars
<1>4. CASE Take
  <2>1. Tail(queue) \in Seq(S) /\ Head(queue) \in S
    BY <1>4, <1>q DEF Take
  <2>2. CASE Head(queue).kind = "anomaly"
    BY <1>4, <2>1, <2>2 DEF Take, detvars
  <2>3. CASE Head(queue).kind # "anomaly"
    <3>1. Handle(Head(queue)) /\ feed' = feed
      BY <1>4, <2>3 DEF Take
    <3>2. Head(queue) \in Payloads[feed]
      BY <2>1, <2>3 DEF AnomalyEvent
    <3>3. [n \in 1 .. Cardinality(Finding(Head(queue))) |-> AnomalyEvent] \in Seq(S)
      BY FindingFinite
    <3> QED
      BY <2>1, <3>1, <3>2, <3>3, DeliveredSeq DEF Handle, Shown
  <2> QED
    BY <2>2, <2>3
<1> QED
  BY <1>1, <1>2, <1>3, <1>4 DEF Next

\* The log grows by the event shown.
LEMMA LogGrows ==
    ASSUME Typed, NEW e, Shown(e)
    PROVE  /\ Len(log) \in Nat /\ Len(log') = Len(log) + 1
           /\ \A k \in 1 .. Len(log) : log'[k] = log[k]
           /\ log'[Len(log) + 1].event = e /\ log'[Len(log) + 1].anomalies = Anomalies(e)
           /\ log' \in Seq(Range(log'))
           /\ feed' = feed /\ e \in Payloads[feed] /\ e.kind = feed
           /\ \A k \in 1 .. Len(log) : log[k].event \in Payloads[feed] /\ log[k].event.kind = feed
<1> DEFINE r == [event |-> e, anomalies |-> Anomalies(e)]
<1>1. log \in Seq(Range(log)) /\ log' = Append(log, r)
  BY DEF Typed, Shown, Handle
<1> HIDE DEF r
<1>2. /\ Len(log) \in Nat /\ Len(log') = Len(log) + 1
      /\ \A k \in 1 .. Len(log) : log'[k] = log[k]
      /\ log'[Len(log) + 1] = r
      /\ DOMAIN log' = 1 .. Len(log) + 1
  BY <1>1
<1>3. log' \in Seq(Range(log'))
  <2>1. log' \in Seq(Range(log) \cup {r})
    BY <1>1
  <2>2. \A k \in 1 .. Len(log') : log'[k] \in Range(log')
    BY <2>1 DEF Range
  <2> QED
    BY <2>1, <2>2
<1>4. \A f \in Payloads[feed] : f.kind = feed
  BY EngineAssumption DEF Typed
<1> QED
  BY <1>2, <1>3, <1>4 DEF Typed, Shown, r

\* What comes from the producer keeps doing so.
LEMMA TypedKept ==
    ASSUME Typed, [Next]_vars
    PROVE  Typed'
<1>1. CASE UNCHANGED <<feed, samples, baseline, counts, log>>
  BY <1>1, NextCases DEF Typed
<1>2. ASSUME NEW e, Shown(e) PROVE Typed'
  <2>1. Len(log) \in Nat /\ Len(log') = Len(log) + 1
    BY <1>2, LogGrows
  <2>2. ASSUME NEW k \in 1 .. Len(log') PROVE log'[k].event \in Payloads[feed]
    <3>1. CASE k \in 1 .. Len(log)
      BY <1>2, <3>1, LogGrows
    <3>2. CASE k = Len(log) + 1
      BY <1>2, <3>2, LogGrows
    <3> QED
      BY <2>1, <3>1, <3>2
  <2>3. feed' = feed /\ log' \in Seq(Range(log'))
    BY <1>2, LogGrows
  <2> QED
    BY <2>2, <2>3, NextCases DEF Typed
<1> QED
  BY <1>1, <1>2, NextCases

\* A set of numbers below a bound is finite.
LEMMA IntervalPart ==
    ASSUME NEW i \in Nat, NEW n \in Nat, NEW R, R \subseteq i .. n
    PROVE  IsFiniteSet(R) /\ Cardinality(R) \in Nat
<1>1. IsFiniteSet(i .. n)
  BY FS_Interval
<1> QED
  BY <1>1, FS_Subset, FS_CardinalityType

\* The readings of a topic after the step.
LEMMA HeardGrows ==
    ASSUME Typed, NEW e, Shown(e), NEW t
    PROVE  /\ Heard(t)' = IF e.topic = t THEN Heard(t) \cup {Len(log) + 1} ELSE Heard(t)
           /\ Cardinality(Heard(t)) \in Nat
           /\ Cardinality(Heard(t)') = IF e.topic = t THEN Cardinality(Heard(t)) + 1
                                                     ELSE Cardinality(Heard(t))
           /\ \A k \in 1 .. Len(log) : Before(k)' = Before(k)
           /\ \A k : k = Len(log) + 1 => Before(k)' = Heard(e.topic)
           /\ Learnt(t)' = IF e.topic = t /\ Cardinality(Heard(t)) < LearningSamples
                             THEN Learnt(t) \cup {Len(log) + 1} ELSE Learnt(t)
<1>0. PICK n, m : n = Len(log) /\ m = n + 1
  OBVIOUS
<1>1. /\ n \in Nat /\ Len(log') = m
      /\ \A k \in 1 .. n : log'[k].event = log[k].event
      /\ log'[m].event = e
  BY <1>0, LogGrows
<1>2. \A k : k \in 1 .. m <=> k \in 1 .. n \/ k = m
  BY <1>0, <1>1
<1>3. Heard(t) = {k \in 1 .. n : log[k].event.topic = t}
  BY <1>0 DEF Heard
<1>4. Heard(t)' = {k \in 1 .. m : log'[k].event.topic = t}
  BY <1>1 DEF Heard
<1>5. Heard(t)' = IF e.topic = t THEN Heard(t) \cup {m} ELSE Heard(t)
  BY <1>1, <1>2, <1>3, <1>4
<1>6. IsFiniteSet(Heard(t)) /\ Cardinality(Heard(t)) \in Nat
  BY <1>1, <1>3, IntervalPart
<1>7. m \notin Heard(t)
  BY <1>0, <1>1, <1>3
<1>8. Cardinality(Heard(t)') = IF e.topic = t THEN Cardinality(Heard(t)) + 1
                                             ELSE Cardinality(Heard(t))
  BY <1>5, <1>6, <1>7, FS_AddElement
<1>9. ASSUME NEW k \in 1 .. n PROVE Before(k)' = Before(k)
  <2>1. \A j \in 1 .. k - 1 : j \in 1 .. n
    BY <1>1
  <2>2. Before(k)' = {j \in 1 .. k - 1 : log'[j].event.topic = log'[k].event.topic}
    BY DEF Before
  <2> QED
    BY <1>1, <2>1, <2>2 DEF Before
<1>10. Before(m)' = Heard(e.topic)
  <2>1. m - 1 = n
    BY <1>0, <1>1
  <2>2. Before(m)' = {j \in 1 .. m - 1 : log'[j].event.topic = log'[m].event.topic}
    BY DEF Before
  <2> QED
    BY <1>0, <1>1, <2>1, <2>2 DEF Heard
<1>11. Learnt(t)' = {k \in Heard(t)' : Cardinality(Before(k)') < LearningSamples}
  BY DEF Learnt
<1>12. Learnt(t) = {k \in Heard(t) : Cardinality(Before(k)') < LearningSamples}
  BY <1>3, <1>9 DEF Learnt
<1>13. Cardinality(Before(m)') < LearningSamples <=> Cardinality(Heard(e.topic)) < LearningSamples
  BY <1>10
<1>14. Learnt(t)' = IF e.topic = t /\ Cardinality(Heard(t)) < LearningSamples
                      THEN Learnt(t) \cup {m} ELSE Learnt(t)
  BY <1>5, <1>11, <1>12, <1>13
<1> QED
  BY <1>0, <1>5, <1>6, <1>8, <1>9, <1>10, <1>14

\* The sum of what was learned of a topic, after the step.
LEMMA LearntGrows ==
    ASSUME Typed, feed = "frequency", NEW e, Shown(e), NEW t
    PROVE  /\ SumOver(log, Learnt(t)) \in Nat
           /\ e.hz \in Nat
           /\ SumOver(log, Learnt(t))' =
                IF e.topic = t /\ Cardinality(Heard(t)) < LearningSamples
                  THEN SumOver(log, Learnt(t)) + e.hz ELSE SumOver(log, Learnt(t))
<1> DEFINE R == Learnt(t)
<1>1. /\ Len(log) \in Nat /\ Len(log') = Len(log) + 1
      /\ \A k \in 1 .. Len(log) : log'[k] = log[k]
      /\ log'[Len(log')].event = e
  BY LogGrows
<1>2. R \subseteq 1 .. Len(log)
  BY DEF Learnt, Heard
<1>3. \A f \in Payloads[feed] : f.hz \in Nat
  BY EngineAssumption DEF Typed
<1>4. e.hz \in Nat /\ \A k \in R : log[k].event.hz \in Nat
  BY <1>2, <1>3, LogGrows
<1> HIDE DEF R
<1>5. /\ SumOver(log, R) \in Nat
      /\ SumOver(log', R) = SumOver(log, R)
      /\ SumOver(log', R \cup {Len(log')}) = SumOver(log, R) + e.hz
  <2>1. log'[Len(log')].event.hz = e.hz
    BY <1>1
  <2>2. Grown(log, log') /\ Rates(log, R)
    BY <1>1, <1>2, <1>4 DEF Grown, Rates
  <2>3. SumOver(log', R \cup {Len(log')}) = SumOver(log, R) + log'[Len(log')].event.hz
    BY <2>2, SumGrows
  <2> QED
    BY <2>1, <2>2, <2>3, SumStays
<1>6. SumOver(log, Learnt(t))' = SumOver(log', Learnt(t)')
  OBVIOUS
<1>7. Learnt(t)' = IF e.topic = t /\ Cardinality(Heard(t)) < LearningSamples
                     THEN R \cup {Len(log')} ELSE R
  BY <1>1, HeardGrows DEF R
<1> QED
  BY <1>4, <1>5, <1>6, <1>7 DEF R

\* What the frequency detector keeps of a topic, after the step.
LEMMA LearningKept ==
    ASSUME Typed, feed = "frequency", NEW e, Shown(e), NEW t, LearnsTheFirst(t)
    PROVE  LearnsTheFirst(t)'
<1> DEFINE h == Cardinality(Heard(t))
           s == SumOver(log, Learnt(t))
<1>1. /\ h \in Nat
      /\ h' = IF e.topic = t THEN h + 1 ELSE h
      /\ s \in Nat
      /\ s' = IF e.topic = t /\ h < LearningSamples THEN s + e.hz ELSE s
      /\ e.kind = "frequency"
  BY HeardGrows, LearntGrows, LogGrows
<1>2. /\ t \in DOMAIN baseline <=> h >= LearningSamples
      /\ t \in DOMAIN samples <=> h \in 1 .. LearningSamples - 1
      /\ t \in DOMAIN samples => samples[t] = [n |-> h, sum |-> s]
      /\ t \in DOMAIN baseline => baseline[t] = s
  BY DEF LearnsTheFirst
<1>3. h = 0 => s = 0
  <2>1. SUFFICES ASSUME h = 0 PROVE s = 0
    OBVIOUS
  <2>2. Heard(t) \subseteq 1 .. Len(log) /\ Len(log) \in Nat
    BY LogGrows DEF Heard
  <2>3. Heard(t) = {}
    BY <2>1, <2>2, IntervalPart, FS_EmptySet, FS_Interval, FS_Subset
  <2>4. Learnt(t) = {}
    BY <2>3 DEF Learnt
  <2> QED
    BY <2>2, <2>4, SumOfNothing
<1>g. LearnsTheFirst(t)' <=>
        /\ t \in DOMAIN baseline' <=> h' >= LearningSamples
        /\ t \in DOMAIN samples' <=> h' \in 1 .. LearningSamples - 1
        /\ t \in DOMAIN samples' => samples'[t] = [n |-> h', sum |-> s']
        /\ t \in DOMAIN baseline' => baseline'[t] = s'
  BY DEF LearnsTheFirst
<1>l. LearningSamples \in Nat \ {0}
  BY EngineAssumption
<1> HIDE DEF h, s
<1>4. CASE e.topic # t
  <2>1. /\ t \in DOMAIN baseline' <=> t \in DOMAIN baseline
        /\ t \in DOMAIN samples' <=> t \in DOMAIN samples
        /\ t \in DOMAIN samples => samples'[t] = samples[t]
        /\ t \in DOMAIN baseline => baseline'[t] = baseline[t]
    BY <1>4 DEF Shown, Handle, Put, Restrict
  <2> QED
    BY <1>1, <1>2, <1>4, <1>g, <2>1
<1>5. CASE e.topic = t /\ h >= LearningSamples
  <2>1. UNCHANGED <<samples, baseline>>
    BY <1>2, <1>5 DEF Shown, Handle, Learning
  <2> QED
    BY <1>1, <1>2, <1>5, <1>g, <1>l, <2>1
<1>6. CASE e.topic = t /\ h < LearningSamples
  <2>1. t \notin DOMAIN baseline /\ Learning(e)
    BY <1>1, <1>2, <1>6, <1>l DEF Learning
  <2>2. Learned(e) = [n |-> h + 1, sum |-> s + e.hz]
    <3>1. CASE h = 0
      BY <1>1, <1>2, <1>3, <1>6, <1>l, <3>1, LearntGrows DEF Learned
    <3>2. CASE h # 0
      BY <1>1, <1>2, <1>6, <1>l, <3>2 DEF Learned
    <3> QED
      BY <3>1, <3>2
  <2>3. CASE h + 1 >= LearningSamples
    <3>1. baseline' = Put(baseline, t, s + e.hz) /\ t \notin DOMAIN samples'
      BY <1>1, <1>6, <2>1, <2>2, <2>3 DEF Shown, Handle, Enough, Restrict
    <3>2. t \in DOMAIN baseline' /\ baseline'[t] = s + e.hz
      BY <3>1 DEF Put
    <3> QED
      BY <1>1, <1>6, <1>g, <1>l, <2>3, <3>1, <3>2
  <2>4. CASE ~(h + 1 >= LearningSamples)
    <3>1. samples' = Put(samples, t, Learned(e)) /\ baseline' = baseline
      BY <1>1, <1>6, <2>1, <2>2, <2>4 DEF Shown, Handle, Enough
    <3>2. t \in DOMAIN samples' /\ samples'[t] = [n |-> h + 1, sum |-> s + e.hz]
      BY <2>2, <3>1 DEF Put
    <3> QED
      BY <1>1, <1>6, <1>g, <1>l, <2>1, <2>4, <3>1, <3>2
  <2> QED
    BY <2>3, <2>4
<1> QED
  BY <1>1, <1>4, <1>5, <1>6, <1>l

\* Bounds of terms add up.
LEMMA BoundsAdd ==
    ASSUME NEW s \in Nat, NEW n \in Nat, NEW x \in Nat, NEW y \in Nat, NEW p \in Nat,
           s * p <= n * y, x * p <= y
    PROVE  (s + x) * p <= (n + 1) * y
<1>1. (s + x) * p = s * p + x * p /\ (n + 1) * y = n * y + y
  OBVIOUS
<1>2. s * p \in Nat /\ x * p \in Nat /\ n * y \in Nat
  OBVIOUS
<1> QED
  BY <1>1, <1>2

\* A rate no reading exceeds by more than the tolerance stays above the floor.
LEMMA SteadyKept ==
    ASSUME Typed, feed = "frequency", NEW e, Shown(e), NEW t, NEW v \in Nat,
           LearnsTheFirst(t), SteadySum(t, v)
    PROVE  SteadySum(t, v)'
<1> DEFINE p == 100 - Tolerance
           y == v * 100
<1>1. p \in Nat /\ y \in Nat /\ LearningSamples \in Nat \ {0} /\ e.hz \in Nat
  BY EngineAssumption, LearntGrows
<1>2. /\ Len(log) \in Nat /\ Len(log') = Len(log) + 1
      /\ \A k \in 1 .. Len(log) : log'[k] = log[k]
      /\ log'[Len(log) + 1].event = e /\ e.kind = "frequency"
  BY LogGrows
<1>3. SteadySum(t, v)' <=>
        ((\A k \in Heard(t)' : log'[k].event.hz * p <= y) =>
          /\ t \in DOMAIN samples' => samples'[t].sum * p <= samples'[t].n * y
          /\ t \in DOMAIN baseline' => baseline'[t] * p <= LearningSamples * y)
  BY DEF SteadySum
<1>4. SteadySum(t, v) <=>
        ((\A k \in Heard(t) : log[k].event.hz * p <= y) =>
          /\ t \in DOMAIN samples => samples[t].sum * p <= samples[t].n * y
          /\ t \in DOMAIN baseline => baseline[t] * p <= LearningSamples * y)
  BY DEF SteadySum
<1> HIDE DEF p, y
<1>5. SUFFICES ASSUME \A k \in Heard(t)' : log'[k].event.hz * p <= y
               PROVE  /\ t \in DOMAIN samples' => samples'[t].sum * p <= samples'[t].n * y
                      /\ t \in DOMAIN baseline' => baseline'[t] * p <= LearningSamples * y
  BY <1>3
<1>6. /\ t \in DOMAIN samples => samples[t].sum * p <= samples[t].n * y
      /\ t \in DOMAIN baseline => baseline[t] * p <= LearningSamples * y
  <2>1. \A k \in Heard(t) : k \in Heard(t)' /\ k \in 1 .. Len(log)
    BY HeardGrows DEF Heard
  <2> QED
    BY <1>2, <1>4, <1>5, <2>1
<1>7. e.topic = t => e.hz * p <= y
  <2>1. e.topic = t => Len(log) + 1 \in Heard(t)'
    BY HeardGrows
  <2> QED
    BY <1>2, <1>5, <2>1
<1>8. CASE e.topic # t
  <2>1. /\ t \in DOMAIN baseline' <=> t \in DOMAIN baseline
        /\ t \in DOMAIN samples' => t \in DOMAIN samples /\ samples'[t] = samples[t]
        /\ t \in DOMAIN baseline => baseline'[t] = baseline[t]
    BY <1>8 DEF Shown, Handle, Put, Restrict
  <2> QED
    BY <1>6, <2>1
<1>9. CASE e.topic = t /\ ~Learning(e)
  BY <1>6, <1>9 DEF Shown, Handle
<1>10. CASE e.topic = t /\ Learning(e)
  <2>1. /\ Learned(e).n \in Nat /\ Learned(e).sum \in Nat
        /\ Learned(e).sum * p <= Learned(e).n * y
        /\ t \in DOMAIN samples => samples[t].n < LearningSamples
        /\ Learned(e).n <= LearningSamples
    <3>1. CASE t \in DOMAIN samples
      <4>1. /\ samples[t].n \in Nat /\ samples[t].sum \in Nat
            /\ samples[t].n < LearningSamples
        BY <1>1, <3>1, HeardGrows, LearntGrows DEF LearnsTheFirst
      <4>2. Learned(e).n = samples[t].n + 1 /\ Learned(e).sum = samples[t].sum + e.hz
        BY <1>10, <3>1 DEF Learned
      <4>3. (samples[t].sum + e.hz) * p <= (samples[t].n + 1) * y
        BY <1>1, <1>6, <1>7, <1>10, <3>1, <4>1, BoundsAdd
      <4> QED
        BY <1>1, <4>1, <4>2, <4>3
    <3>2. CASE t \notin DOMAIN samples
      <4>1. Learned(e).n = 1 /\ Learned(e).sum = e.hz
        BY <1>10, <3>2 DEF Learned
      <4>2. e.hz * p <= 1 * y
        BY <1>1, <1>7, <1>10
      <4> QED
        BY <1>1, <3>2, <4>1, <4>2
    <3> QED
      BY <3>1, <3>2
  <2>2. CASE Enough(e)
    <3>1. Learned(e).n = LearningSamples
      BY <1>1, <2>1, <2>2 DEF Enough
    <3>2. baseline' = Put(baseline, t, Learned(e).sum) /\ t \notin DOMAIN samples'
      BY <1>2, <1>10, <2>2 DEF Shown, Handle, Restrict
    <3>3. baseline'[t] = Learned(e).sum
      BY <3>2 DEF Put
    <3> QED
      BY <2>1, <3>1, <3>2, <3>3
  <2>3. CASE ~Enough(e)
    <3>1. samples' = Put(samples, t, Learned(e)) /\ baseline' = baseline
      BY <1>2, <1>10, <2>3 DEF Shown, Handle
    <3>2. samples'[t] = Learned(e) /\ t \notin DOMAIN baseline'
      BY <1>10, <3>1 DEF Put, Learning
    <3> QED
      BY <2>1, <3>2
  <2> QED
    BY <2>2, <2>3
<1> QED
  BY <1>8, <1>9, <1>10

\* A detector that learns nothing judges an event by itself.
LEMMA VerdictJudged ==
    ASSUME NEW e, e.kind # "frequency"
    PROVE  Verdict(e) = Judged(e)
BY DEF Verdict, Judged

\* The verdicts on what was handled stay, and the event shown gets its own.
LEMMA SaidKept ==
    ASSUME AlarmInv, NEW e, Shown(e)
    PROVE  /\ \A k \in 1 .. Len(log) : Said(k)' = Said(k)
           /\ \A k : k = Len(log) + 1 => Said(k)' = Verdict(e)
<1>t. Typed
  BY DEF AlarmInv
<1>1. /\ Len(log) \in Nat /\ Len(log') = Len(log) + 1
      /\ \A k \in 1 .. Len(log) : log'[k] = log[k]
      /\ log'[Len(log) + 1].event = e /\ e.kind = feed /\ feed' = feed
      /\ \A k \in 1 .. Len(log) : log[k].event.kind = feed
  BY <1>t, LogGrows
<1>2. CASE feed # "frequency"
  <2>1. \A k : Said(k)' = Judged(log'[k].event) /\ Said(k) = Judged(log[k].event)
    BY <1>1, <1>2 DEF Said
  <2> QED
    BY <1>1, <1>2, <2>1, VerdictJudged
<1>3. CASE feed = "frequency"
  <2> DEFINE Then(b, f) == IF Below(f, b[f.topic]) THEN "bad" ELSE "good"
  <2>1. \A t : LearnsTheFirst(t)
    BY <1>3 DEF AlarmInv
  <2>2. \A k : /\ Said(k)' = (IF Cardinality(Before(k)') < LearningSamples THEN "unheard"
                              ELSE Then(baseline', log'[k].event))
               /\ Said(k) = (IF Cardinality(Before(k)) < LearningSamples THEN "unheard"
                              ELSE Then(baseline, log[k].event))
    BY <1>1, <1>3 DEF Said
  <2>3. ASSUME NEW f, f.topic \in DOMAIN baseline PROVE Then(baseline', f) = Then(baseline, f)
    <3>1. baseline'[f.topic] = baseline[f.topic]
      BY <2>3 DEF Shown, Handle, Learning, Put
    <3> QED
      BY <3>1
  <2> HIDE DEF Then
  <2>4. ASSUME NEW k \in 1 .. Len(log) PROVE Said(k)' = Said(k)
    <3>1. Before(k)' = Before(k) /\ log'[k] = log[k]
      BY <1>t, <1>1, HeardGrows
    <3>2. CASE Cardinality(Before(k)) < LearningSamples
      BY <2>2, <3>1, <3>2
    <3>3. CASE ~(Cardinality(Before(k)) < LearningSamples)
      <4>1. PICK t : t = log[k].event.topic
        OBVIOUS
      <4>2. /\ Before(k) \subseteq Heard(t) /\ Heard(t) \subseteq 1 .. Len(log)
            /\ Before(k) \subseteq 1 .. Len(log)
        BY <1>1, <4>1 DEF Before, Heard
      <4>3. /\ IsFiniteSet(Heard(t)) /\ Cardinality(Heard(t)) \in Nat
            /\ Cardinality(Before(k)) \in Nat
        BY <1>1, <4>2, IntervalPart
      <4>4. Cardinality(Before(k)) <= Cardinality(Heard(t))
        BY <4>2, <4>3, FS_Subset
      <4>5. Cardinality(Heard(t)) >= LearningSamples
        BY <3>3, <4>3, <4>4, EngineAssumption
      <4>6. t \in DOMAIN baseline
        BY <2>1, <4>5 DEF LearnsTheFirst
      <4> QED
        BY <2>2, <2>3, <3>1, <4>1, <4>6
    <3> QED
      BY <3>2, <3>3
  <2>5. ASSUME NEW k, k = Len(log) + 1 PROVE Said(k)' = Verdict(e)
    <3>1. Before(k)' = Heard(e.topic) /\ log'[k].event = e
      BY <1>t, <1>1, <2>5, HeardGrows
    <3>2. Cardinality(Heard(e.topic)) \in Nat /\ LearningSamples \in Nat
      BY <1>t, HeardGrows, EngineAssumption
    <3>3. LearnsTheFirst(e.topic)
      BY <2>1
    <3>4. Learning(e) <=> Cardinality(Heard(e.topic)) < LearningSamples
      BY <3>2, <3>3 DEF LearnsTheFirst, Learning
    <3>5. Verdict(e) = IF Learning(e) THEN "unheard" ELSE Then(baseline, e)
      BY <1>1, <1>3 DEF Verdict, FrequencyVerdict, BelowFloor, Below, Then
    <3>6. ~Learning(e) => Then(baseline', e) = Then(baseline, e)
      BY <2>3 DEF Learning
    <3> QED
      BY <2>2, <3>1, <3>4, <3>5, <3>6
  <2> QED
    BY <2>4, <2>5
<1> QED
  BY <1>2, <1>3
-----------------------------------------------------------------------------
(* Counts and alarms.                                                      *)

\* There are three verdicts.
LEMMA VerdictValues ==
    ASSUME NEW e
    PROVE  Verdict(e) \in {"unheard", "bad", "good"}
<1>1. FrequencyVerdict(e) \in {"unheard", "bad", "good"}
  BY DEF FrequencyVerdict
<1>2. ThresholdVerdict(e) \in {"unheard", "bad", "good"}
  BY DEF ThresholdVerdict
<1>3. SkewVerdict(e) \in {"unheard", "bad", "good"}
  BY DEF SkewVerdict
<1>4. ProcessVerdict(e) \in {"unheard", "bad", "good"}
  BY DEF ProcessVerdict
<1> QED
  BY <1>1, <1>2, <1>3, <1>4 DEF Verdict

\* What an event does to the count of a key.
LEMMA GetCounted ==
    ASSUME NEW e, NEW K
    PROVE  Get(Counted(e), K) =
             IF Verdict(e) = "bad" /\ Key(e) = K THEN Get(counts, K) + 1
             ELSE IF Verdict(e) = "good" /\ (e.kind \in Grouped \/ Key(e) = K) THEN 0
             ELSE Get(counts, K)
<1>1. \A k, v : Get(Put(counts, k, v), K) = IF K = k THEN v ELSE Get(counts, K)
  BY DEF Get, Put
<1>2. Get(NoKeys, K) = 0
  BY DEF Get, NoKeys
<1>3. CASE Verdict(e) = "unheard"
  BY <1>3 DEF Counted
<1>4. CASE Verdict(e) = "bad"
  <2>1. Counted(e) = Put(counts, Key(e), Get(counts, Key(e)) + 1)
    BY <1>4 DEF Counted
  <2> QED
    BY <1>1, <1>4, <2>1
<1>5. CASE Verdict(e) = "good"
  <2>1. Counted(e) = IF e.kind \in Grouped THEN NoKeys ELSE Put(counts, Key(e), 0)
    BY <1>5 DEF Counted
  <2> QED
    BY <1>1, <1>2, <1>5, <2>1
<1> QED
  BY <1>3, <1>4, <1>5, VerdictValues

\* An event leads to an alarm when it fills the count of its key.
LEMMA AlarmRaised ==
    ASSUME NEW e, feed \in Counting, feed \in Feeds, e.kind = feed
    PROVE  (\E d \in DOMAIN Anomalies(e) : Anomalies(e)[d].detector = feed) <=>
             Verdict(e) = "bad" /\ Get(Counted(e), Key(e)) >= MinConsecutive
<1> DEFINE Full == Verdict(e) = "bad" /\ Get(Counted(e), Key(e)) >= MinConsecutive
<1>1. DOMAIN Anomalies(e) = Finding(e)
      /\ \A d \in Finding(e) : Anomalies(e)[d] = Outcome(Configured[d], e)
  BY DEF Anomalies
<1>2. /\ Entries \in Seq(Range(Entries))
      /\ Range(Entries) \cap (Feeds \cup {"hysteresis", "qos"}) = {}
  BY EngineAssumption
<1>3. Configured[1] = "hysteresis" /\ 1 \in Detectors
  BY <1>2 DEF Configured, Detectors
<1>4. Outcome("hysteresis", e) = IF Full THEN Anomaly(feed, Key(e)) ELSE Nothing
  BY DEF Outcome, Hysteresis
<1>5. ASSUME NEW d \in Finding(e), Outcome(Configured[d], e).detector = feed
      PROVE  Full
  <2>1. d \in DOMAIN Configured /\ Outcome(Configured[d], e).kind = "anomaly"
    BY DEF Finding, Detectors
  <2>2. Configured[d] \in {"hysteresis", "qos"} \cup Range(Entries)
    <3>1. d \in 1 .. 2 + Len(Entries) /\ DOMAIN Entries = 1 .. Len(Entries)
      BY <1>2, <2>1 DEF Configured
    <3>2. CASE d \in {1, 2}
      BY <1>2, <3>2 DEF Configured
    <3>3. CASE d \notin {1, 2}
      BY <1>2, <3>1, <3>3 DEF Configured, Range
    <3> QED
      BY <3>2, <3>3
  <2>3. CASE Configured[d] = "hysteresis"
    BY <1>4, <2>1, <2>3 DEF Nothing
  <2>4. CASE Configured[d] = "qos"
    <3>1. Outcome("qos", e) = Nothing
      BY DEF Outcome, QosCheck, Counting
    <3> QED
      BY <2>1, <2>4, <3>1 DEF Nothing
  <2>5. CASE Configured[d] \in Range(Entries)
    <3>1. Configured[d] \notin {"hysteresis", "qos"} /\ Configured[d] # feed
      BY <1>2, <2>5
    <3>2. Configured[d] # "raises"
      BY <2>1 DEF Outcome, Raised
    <3>3. Outcome(Configured[d], e) = Anomaly(Configured[d], Configured[d])
      BY <3>1, <3>2 DEF Outcome
    <3> QED
      BY <1>5, <3>1, <3>3 DEF Anomaly
  <2> QED
    BY <2>2, <2>3, <2>4, <2>5
<1>6. ASSUME Full PROVE 1 \in Finding(e) /\ Outcome(Configured[1], e).detector = feed
  BY <1>3, <1>4, <1>6 DEF Finding, Anomaly
<1> QED
  BY <1>1, <1>5, <1>6

\* The runs after the step.
LEMMA RunGrows ==
    ASSUME AlarmInv, NEW e, Shown(e), NEW n, n = Len(log), NEW i \in 1 .. n + 1, NEW K
    PROVE  /\ \A k \in 1 .. n : Resets(k, K)' <=> Resets(k, K)
           /\ \A j \in 0 .. n : (Clean(K, i, j)' <=> Clean(K, i, j)) /\ Run(K, i, j)' = Run(K, i, j)
           /\ Resets(n + 1, K)' <=> Verdict(e) = "good" /\ (e.kind \in Grouped \/ Key(e) = K)
           /\ Clean(K, i, n + 1)' <=> Clean(K, i, n) /\ ~Resets(n + 1, K)'
           /\ Run(K, i, n + 1)' = IF Verdict(e) = "bad" /\ Key(e) = K
                                    THEN Run(K, i, n) \cup {n + 1} ELSE Run(K, i, n)
           /\ n + 1 \notin Run(K, i, n) /\ IsFiniteSet(Run(K, i, n))
           /\ Cardinality(Run(K, i, n)) \in Nat
<1>1. /\ n \in Nat /\ feed' = feed /\ e.kind = feed
      /\ \A k \in 1 .. n : log'[k].event = log[k].event
      /\ log'[n + 1].event = e
  BY LogGrows DEF AlarmInv
<1>2. /\ \A k \in 1 .. n : Said(k)' = Said(k)
      /\ Said(n + 1)' = Verdict(e)
  BY SaidKept
<1>3. \A k : Resets(k, K)' <=> Said(k)' = "good" /\ (feed' \in Grouped \/ Key(log'[k].event) = K)
  BY DEF Resets
<1>4. \A k \in 1 .. n : Resets(k, K)' <=> Resets(k, K)
  BY <1>1, <1>2, <1>3 DEF Resets
<1>5. Resets(n + 1, K)' <=> Verdict(e) = "good" /\ (e.kind \in Grouped \/ Key(e) = K)
  BY <1>1, <1>2, <1>3
<1>6. \A j : /\ Clean(K, i, j)' <=> \A k \in i .. j : ~Resets(k, K)'
             /\ Run(K, i, j)' = {k \in i .. j : Said(k)' = "bad" /\ Key(log'[k].event) = K}
  BY DEF Clean, Run
<1>7. ASSUME NEW j \in 0 .. n
      PROVE  (Clean(K, i, j)' <=> Clean(K, i, j)) /\ Run(K, i, j)' = Run(K, i, j)
  <2>1. \A k \in i .. j : k \in 1 .. n
    BY <1>1
  <2> QED
    BY <1>1, <1>2, <1>4, <1>6, <2>1 DEF Clean, Run
<1>8. \A k : k \in i .. n + 1 <=> k \in i .. n \/ k = n + 1
  BY <1>1
<1>9. \A k \in i .. n : k \in 1 .. n
  BY <1>1
<1>10. Clean(K, i, n + 1)' <=> Clean(K, i, n) /\ ~Resets(n + 1, K)'
  BY <1>4, <1>6, <1>8, <1>9 DEF Clean
<1>11. Run(K, i, n + 1)' = IF Verdict(e) = "bad" /\ Key(e) = K
                             THEN Run(K, i, n) \cup {n + 1} ELSE Run(K, i, n)
  BY <1>1, <1>2, <1>6, <1>8, <1>9 DEF Run
<1>12. n + 1 \notin Run(K, i, n) /\ Run(K, i, n) \subseteq i .. n
  BY <1>1 DEF Run
<1> QED
  BY <1>1, <1>4, <1>5, <1>7, <1>10, <1>11, <1>12, IntervalPart

\* A count stays the number of violations since the last reset.
LEMMA CountKept ==
    ASSUME AlarmInv, feed \in Counting, NEW e, Shown(e), NEW K
    PROVE  CountIsRun(K)'
<1>0. PICK n : n = Len(log)
  OBVIOUS
<1>1. n \in Nat /\ Len(log') = n + 1 /\ counts' = Counted(e)
  BY <1>0, LogGrows DEF AlarmInv, Shown, Handle
<1>2. PICK i \in 1 .. n + 1 : /\ Clean(K, i, n)
                              /\ Cardinality(Run(K, i, n)) = Get(counts, K)
                              /\ i = 1 \/ Resets(i - 1, K)
  BY <1>0 DEF AlarmInv, CountIsRun
<1>3. CountIsRun(K)' <=>
        \E j \in 1 .. (n + 1) + 1 :
            /\ Clean(K, j, n + 1)'
            /\ Cardinality(Run(K, j, n + 1)') = Get(Counted(e), K)
            /\ j = 1 \/ Resets(j - 1, K)'
  <2>1. Get(counts, K)' = Get(Counted(e), K)
    BY <1>1 DEF Get
  <2> QED
    BY <1>1, <2>1 DEF CountIsRun
<1>4. CASE Verdict(e) = "good" /\ (e.kind \in Grouped \/ Key(e) = K)
  <2>1. Resets(n + 1, K)'
    BY <1>0, <1>2, <1>4, RunGrows
  <2>2. Clean(K, n + 2, n + 1)' /\ Run(K, n + 2, n + 1)' = {}
    <3>1. \A k \in n + 2 .. n + 1 : FALSE
      BY <1>1
    <3> QED
      BY <3>1 DEF Clean, Run
  <2>3. Get(Counted(e), K) = 0
    BY <1>4, GetCounted
  <2>4. n + 2 \in 1 .. (n + 1) + 1 /\ (n + 2) - 1 = n + 1
    BY <1>1
  <2> QED
    BY <1>3, <2>1, <2>2, <2>3, <2>4, FS_EmptySet
<1>5. CASE ~(Verdict(e) = "good" /\ (e.kind \in Grouped \/ Key(e) = K))
  <2>1. Clean(K, i, n + 1)'
    BY <1>0, <1>2, <1>5, RunGrows
  <2>2. Cardinality(Run(K, i, n + 1)') = Get(Counted(e), K)
    <3>1. CASE Verdict(e) = "bad" /\ Key(e) = K
      <4>1. Run(K, i, n + 1)' = Run(K, i, n) \cup {n + 1}
            /\ n + 1 \notin Run(K, i, n) /\ IsFiniteSet(Run(K, i, n))
        BY <1>0, <1>2, <3>1, RunGrows
      <4>2. Cardinality(Run(K, i, n + 1)') = Cardinality(Run(K, i, n)) + 1
        BY <4>1, FS_AddElement
      <4> QED
        BY <1>2, <3>1, <4>2, GetCounted
    <3>2. CASE ~(Verdict(e) = "bad" /\ Key(e) = K)
      <4>1. Run(K, i, n + 1)' = Run(K, i, n)
        BY <1>0, <1>2, <3>2, RunGrows
      <4> QED
        BY <1>2, <1>5, <3>2, <4>1, GetCounted
    <3> QED
      BY <3>1, <3>2
  <2>3. i = 1 \/ Resets(i - 1, K)'
    <3>1. i # 1 => i - 1 \in 1 .. n
      BY <1>1, <1>2
    <3> QED
      BY <1>0, <1>2, <3>1, RunGrows
  <2>4. i \in 1 .. (n + 1) + 1
    BY <1>1, <1>2
  <2> QED
    BY <1>3, <2>1, <2>2, <2>3, <2>4
<1> QED
  BY <1>4, <1>5

\* The alarms of the past stay, and a new one follows a run.
LEMMA AlarmsKept ==
    ASSUME AlarmInv, feed \in Counting, NEW e, Shown(e), NEW k \in 1 .. Len(log')
    PROVE  AlarmIsRun(k)'
<1>0. PICK n : n = Len(log)
  OBVIOUS
<1>1. /\ n \in Nat /\ Len(log') = n + 1 /\ feed' = feed /\ e.kind = feed
      /\ \A j \in 1 .. n : log'[j] = log[j]
      /\ log'[n + 1].event = e /\ log'[n + 1].anomalies = Anomalies(e)
      /\ counts' = Counted(e)
  BY <1>0, LogGrows DEF AlarmInv, Shown, Handle
<1>2. AlarmedAt(k)' <=>
        \E d \in DOMAIN log'[k].anomalies : log'[k].anomalies[d].detector = feed'
  BY DEF AlarmedAt
<1>L. PICK L : L = Key(log'[k].event)
  OBVIOUS
<1>3. AlarmIsRun(k)' <=>
        (AlarmedAt(k)' <=>
           /\ Said(k)' = "bad"
           /\ \E i \in 1 .. k : Clean(L, i, k)' /\ Cardinality(Run(L, i, k)') >= MinConsecutive)
  BY <1>L DEF AlarmIsRun, Clean, Run, Resets
<1>4. CASE k \in 1 .. n
  <2>1. AlarmedAt(k)' <=> AlarmedAt(k)
    BY <1>1, <1>2, <1>4 DEF AlarmedAt
  <2>2. L = Key(log[k].event) /\ Said(k)' = Said(k)
    BY <1>0, <1>1, <1>4, <1>L, SaidKept
  <2>3. ASSUME NEW i \in 1 .. k
        PROVE  (Clean(L, i, k)' <=> Clean(L, i, k)) /\ Run(L, i, k)' = Run(L, i, k)
    <3>1. i \in 1 .. n + 1 /\ k \in 0 .. n
      BY <1>1, <1>4
    <3>2. /\ \A j \in 0 .. n : (Clean(L, i, j)' <=> Clean(L, i, j)) /\ Run(L, i, j)' = Run(L, i, j)
      BY <1>0, <3>1, RunGrows
    <3> QED
      BY <3>1, <3>2
  <2>4. AlarmIsRun(k)
    BY <1>0, <1>4 DEF AlarmInv
  <2> QED
    BY <1>3, <2>1, <2>2, <2>3, <2>4 DEF AlarmIsRun
<1>5. CASE k = n + 1
  <2>1. AlarmedAt(k)' <=> Verdict(e) = "bad" /\ Get(Counted(e), Key(e)) >= MinConsecutive
    BY <1>1, <1>2, <1>5, AlarmRaised DEF AlarmInv, Typed
  <2>2. Said(k)' = Verdict(e)
    BY <1>0, <1>5, SaidKept
  <2>3. L = Key(e)
    BY <1>1, <1>5, <1>L
  <2>4. CountIsRun(L)'
    BY CountKept
  <2>5. PICK i \in 1 .. k + 1 : /\ Clean(L, i, k)'
                                /\ Cardinality(Run(L, i, k)') = Get(Counted(e), L)
                                /\ i = 1 \/ Resets(i - 1, L)'
    <3>1. Get(counts, L)' = Get(Counted(e), L)
      BY <1>1 DEF Get
    <3> QED
      BY <1>1, <1>5, <2>4, <3>1 DEF CountIsRun
  <2>6. /\ \A j : Clean(L, j, k)' <=> \A x \in j .. k : ~Resets(x, L)'
        /\ \A j : Run(L, j, k)' = {x \in j .. k : Said(x)' = "bad" /\ Key(log'[x].event) = L}
    BY DEF Clean, Run
  <2>7. ASSUME NEW j \in 1 .. k
        PROVE  IsFiniteSet(Run(L, j, k)') /\ Cardinality(Run(L, j, k)') \in Nat
    <3>1. Run(L, j, k)' \subseteq j .. k /\ j \in Nat /\ k \in Nat
      BY <1>1, <1>5, <2>6
    <3> QED
      BY <3>1, IntervalPart
  <2>8. MinConsecutive \in Nat \ {0}
    BY EngineAssumption
  <2>9. ASSUME Cardinality(Run(L, i, k)') >= MinConsecutive
        PROVE  i \in 1 .. k
    <3>1. SUFFICES ASSUME i = k + 1 PROVE FALSE
      BY <1>1, <1>5, <2>5
    <3>2. Run(L, i, k)' = {}
      BY <1>1, <1>5, <2>6, <3>1
    <3> QED
      BY <2>8, <2>9, <3>2, FS_EmptySet
  <2>10. ASSUME NEW j \in 1 .. k, Clean(L, j, k)', Cardinality(Run(L, j, k)') >= MinConsecutive
         PROVE  Cardinality(Run(L, i, k)') >= MinConsecutive
    <3>1. i <= j
      <4>1. SUFFICES ASSUME i - 1 \in j .. k PROVE FALSE
        BY <1>1, <1>5
      <4> QED
        BY <1>1, <1>5, <2>5, <2>6, <2>10, <4>1
    <3>2. Run(L, j, k)' \subseteq Run(L, i, k)' /\ i \in 1 .. k
      BY <1>1, <1>5, <2>6, <3>1
    <3>3. Cardinality(Run(L, j, k)') <= Cardinality(Run(L, i, k)')
      BY <2>7, <3>2, FS_Subset
    <3> QED
      BY <2>7, <2>8, <2>10, <3>2, <3>3
  <2> QED
    BY <1>3, <2>1, <2>2, <2>3, <2>5, <2>9, <2>10
<1> QED
  BY <1>1, <1>4, <1>5

\* The invariant holds at the start.
LEMMA InitAlarmInv == Init => AlarmInv
<1> SUFFICES ASSUME Init PROVE AlarmInv
  OBVIOUS
<1>1. /\ feed \in Feeds /\ log = <<>> /\ queue = <<>> /\ samples = NoKeys /\ baseline = NoKeys
      /\ counts = NoKeys /\ Len(log) = 0 /\ DOMAIN NoKeys = {}
  BY DEF Init, NoKeys
<1>2. Typed
  BY <1>1 DEF Typed
<1>3. ASSUME NEW t PROVE LearnsTheFirst(t) /\ \A v \in Nat : SteadySum(t, v)
  <2>1. Heard(t) = {}
    BY <1>1 DEF Heard
  <2>2. Cardinality(Heard(t)) = 0
    BY <2>1, FS_EmptySet
  <2> QED
    BY <1>1, <2>2, EngineAssumption DEF LearnsTheFirst, SteadySum
<1>4. ASSUME NEW K PROVE CountIsRun(K)
  <2>1. Clean(K, 1, 0) /\ Run(K, 1, 0) = {}
    BY DEF Clean, Run
  <2>2. Get(counts, K) = 0
    BY <1>1 DEF Get
  <2>3. Cardinality(Run(K, 1, 0)) = 0
    BY <2>1, FS_EmptySet
  <2>4. 1 \in 1 .. Len(log) + 1 /\ Len(log) = 0
    BY <1>1
  <2> QED
    BY <2>1, <2>2, <2>3, <2>4 DEF CountIsRun
<1> QED
  BY <1>1, <1>2, <1>3, <1>4 DEF AlarmInv

\* Every step keeps it.
LEMMA NextAlarmInv == AlarmInv /\ [Next]_vars => AlarmInv'
<1> SUFFICES ASSUME AlarmInv, [Next]_vars PROVE AlarmInv'
  OBVIOUS
<1>t. Typed /\ Typed'
  BY TypedKept DEF AlarmInv
<1>1. CASE UNCHANGED <<feed, samples, baseline, counts, log>>
  <2>1. \A t : LearnsTheFirst(t)' <=> LearnsTheFirst(t)
    BY <1>1 DEF LearnsTheFirst, Heard, Learnt, Before
  <2>2. \A t, v : SteadySum(t, v)' <=> SteadySum(t, v)
    BY <1>1 DEF SteadySum, Heard
  <2>3. /\ \A k : Said(k)' = Said(k)
        /\ \A k, K : Resets(k, K)' <=> Resets(k, K)
    BY <1>1 DEF Resets, Said, Before
  <2>4. \A K, i, n : (Clean(K, i, n)' <=> Clean(K, i, n)) /\ Run(K, i, n)' = Run(K, i, n)
    BY <1>1, <2>3 DEF Clean, Run
  <2>5. \A K : CountIsRun(K)' <=> CountIsRun(K)
    <3>1. \A K : Get(counts, K)' = Get(counts, K)
      BY <1>1 DEF Get
    <3> QED
      BY <1>1, <2>3, <2>4, <3>1 DEF CountIsRun
  <2>6. \A n : AlarmIsRun(n)' <=> AlarmIsRun(n)
    BY <1>1 DEF AlarmIsRun, AlarmedAt, Clean, Run, Resets, Said, Before
  <2> QED
    BY <1>1, <1>t, <2>1, <2>2, <2>5, <2>6 DEF AlarmInv
<1>2. ASSUME NEW e, Shown(e) PROVE AlarmInv'
  <2>1. feed' = feed
    BY <1>2 DEF Shown
  <2>2. ASSUME feed = "frequency", NEW t, NEW v \in Nat
        PROVE  LearnsTheFirst(t)' /\ SteadySum(t, v)'
    BY <1>2, <1>t, <2>2, LearningKept, SteadyKept DEF AlarmInv
  <2>3. ASSUME feed \in Counting
        PROVE  /\ \A K : CountIsRun(K)'
               /\ \A n \in 1 .. Len(log') : AlarmIsRun(n)'
    BY <1>2, <2>3, CountKept, AlarmsKept
  <2> QED
    BY <1>t, <2>1, <2>2, <2>3 DEF AlarmInv
<1> QED
  BY <1>t, <1>1, <1>2, NextCases
-----------------------------------------------------------------------------
(* What follows from the invariant.                                        *)

\* An alarm of a topic or a metric follows its last readings.
LEMMA AlarmIff == AlarmInv => AlarmIffSustained
<1> SUFFICES ASSUME AlarmInv, feed \in {"frequency", "threshold"}, NEW i \in Latest
             PROVE  LET R == Readings(i)
                    IN  AlarmedAt(i) <=>
                          /\ i \in R
                          /\ \E j \in 1 .. i :
                              /\ Cardinality({k \in R : k >= j}) >= MinConsecutive
                              /\ \A k \in R : k >= j => Bad(R, k)
  BY DEF AlarmIffSustained
<1> DEFINE R == Readings(i)
           K == Key(log[i].event)
<1>1. /\ Len(log) \in Nat /\ i = Len(log) /\ i \in 1 .. Len(log)
      /\ \A k \in 1 .. i : log[k].event.kind = feed
  BY EngineAssumption DEF AlarmInv, Typed, Latest
<1>2. /\ feed \in Counting /\ feed \notin Grouped /\ MinConsecutive \in Nat \ {0}
      /\ LearningSamples \in Nat
      /\ AlarmIsRun(i)
  BY <1>1, EngineAssumption DEF AlarmInv, Counting, Grouped
<1>3. R \subseteq 1 .. i
  BY DEF Readings
\* Readings are the entries of the same key that are heard of, learned or not.
<1>4. ASSUME NEW k \in 1 .. i
      PROVE  /\ k \in R /\ Bad(R, k) => Said(k) = "bad" /\ Key(log[k].event) = K
             /\ Said(k) = "bad" /\ Key(log[k].event) = K => k \in R /\ Bad(R, k)
             /\ Said(k) = "good" /\ Key(log[k].event) = K => k \in R /\ ~Bad(R, k)
  <2>1. CASE feed = "threshold"
    <3>1. /\ k \in R <=> log[k].event.metric = log[i].event.metric /\ log[k].event.value # "absent"
          /\ Bad(R, k) <=> log[k].event.value = "over"
      BY <2>1 DEF Readings, Bad
    <3>2. Said(k) = ThresholdVerdict(log[k].event)
      BY <1>1, <2>1 DEF Said, Judged
    <3>3. Key(log[k].event) = log[k].event.metric /\ K = log[i].event.metric
      BY <1>1, <2>1 DEF Key
    <3> QED
      BY <3>1, <3>2, <3>3 DEF ThresholdVerdict
  <2>2. CASE feed = "frequency"
    <3> DEFINE t == log[i].event.topic
    <3>1. /\ k \in R <=> log[k].event.topic = t
          /\ Key(log[k].event) = log[k].event.topic /\ K = t
      BY <1>1, <2>2 DEF Readings, Key
    <3>2. R = Heard(t)
      BY <1>1, <2>2 DEF Readings, Heard
    <3>3. ASSUME NEW j \in R PROVE {x \in R : x < j} = Before(j)
      <4>1. log[j].event.topic = t /\ j \in 1 .. i /\ \A x : x \in 1 .. j - 1 <=> x \in 1 .. i /\ x < j
        BY <1>1, <3>2 DEF Heard
      <4> QED
        BY <1>1, <3>2, <4>1 DEF Before, Heard
    <3>4. LearnedOf(R) = Learnt(t)
      BY <3>2, <3>3 DEF LearnedOf, Learnt
    <3>5. k \in R => (k \in LearnedOf(R) <=> Cardinality(Before(k)) < LearningSamples)
      BY <3>3 DEF LearnedOf
    <3>6. ASSUME k \in R, k \notin LearnedOf(R)
          PROVE  baseline[t] = SumOver(log, LearnedOf(R))
      <4>1. Before(k) \subseteq Heard(t) /\ Heard(t) \subseteq 1 .. i /\ Before(k) \subseteq 1 .. i
        BY <3>2, <3>3, <3>6, <1>3
      <4>2. /\ IsFiniteSet(Heard(t)) /\ Cardinality(Heard(t)) \in Nat
            /\ Cardinality(Before(k)) \in Nat
        BY <1>1, <4>1, IntervalPart
      <4>3. Cardinality(Heard(t)) >= LearningSamples
        BY <1>2, <3>5, <3>6, <4>1, <4>2, FS_Subset
      <4>4. LearnsTheFirst(t)
        BY <2>2 DEF AlarmInv
      <4> QED
        BY <3>4, <4>3, <4>4 DEF LearnsTheFirst
    <3>7. Bad(R, k) <=> /\ k \notin LearnedOf(R)
                        /\ Below(log[k].event, SumOver(log, LearnedOf(R)))
      BY <2>2 DEF Bad, Below
    <3>8. Said(k) = (IF Cardinality(Before(k)) < LearningSamples THEN "unheard"
                     ELSE IF Below(log[k].event, baseline[log[k].event.topic]) THEN "bad" ELSE "good")
      BY <2>2 DEF Said
    <3> HIDE DEF R, K, t
    <3> QED
      BY <3>1, <3>5, <3>6, <3>7, <3>8
  <2> QED
    BY <2>1, <2>2
\* What is learned comes before what is judged.
<1>5. ASSUME NEW j \in 1 .. i, NEW k \in R, k >= j, j \in R, Said(j) = "bad"
      PROVE  Said(k) \in {"bad", "good"} /\ Key(log[k].event) = K
  <2>1. CASE feed = "threshold"
    BY <1>1, <1>3, <2>1 DEF Readings, Said, Judged, ThresholdVerdict, Key
  <2>2. CASE feed = "frequency"
    <3>1. log[k].event.topic = log[j].event.topic /\ k \in 1 .. i
      BY <1>5, <2>2 DEF Readings
    <3>2. Before(j) \subseteq Before(k) /\ Before(k) \subseteq 1 .. i /\ Before(j) \subseteq 1 .. i
      BY <1>1, <1>5, <3>1 DEF Before
    <3>3. Cardinality(Before(j)) <= Cardinality(Before(k))
      BY <1>1, <3>2, IntervalPart, FS_Subset
    <3>4. ~(Cardinality(Before(j)) < LearningSamples)
      BY <1>5, <2>2 DEF Said
    <3>5. ~(Cardinality(Before(k)) < LearningSamples)
      BY <1>1, <1>2, <3>2, <3>3, <3>4, IntervalPart
    <3>6. Said(k) \in {"bad", "good"}
      BY <2>2, <3>5 DEF Said
    <3> QED
      BY <1>1, <1>5, <2>2, <3>1, <3>6 DEF Key, Readings
  <2> QED
    BY <2>1, <2>2
<1> HIDE DEF R, K
<1>6. ASSUME AlarmedAt(i)
      PROVE  /\ i \in R
             /\ \E j \in 1 .. i : /\ Cardinality({k \in R : k >= j}) >= MinConsecutive
                                  /\ \A k \in R : k >= j => Bad(R, k)
  <2>1. /\ Said(i) = "bad"
        /\ \E n \in 1 .. i : Clean(K, n, i) /\ Cardinality(Run(K, n, i)) >= MinConsecutive
    BY <1>2, <1>6 DEF AlarmIsRun, K
  <2>2. i \in R
    BY <1>1, <1>4, <2>1 DEF K
  <2>3. PICK n \in 1 .. i : Clean(K, n, i) /\ Cardinality(Run(K, n, i)) >= MinConsecutive
    BY <2>1
  <2>4. Run(K, n, i) # {} /\ Run(K, n, i) \subseteq n .. i
    BY <1>2, <2>3, FS_EmptySet DEF Run
  <2>5. PICK j \in Run(K, n, i) : \A k \in Run(K, n, i) : j <= k
    <3>1. Run(K, n, i) \subseteq Nat
      BY <1>1, <2>4
    <3> QED
      BY <2>4, <3>1, SmallestNumber
  <2>6. j \in 1 .. i /\ n <= j /\ Said(j) = "bad" /\ j \in R
    BY <1>1, <1>4, <2>5 DEF Run
  <2>7. ASSUME NEW k \in R, k >= j PROVE Bad(R, k)
    <3>1. k \in n .. i /\ k \in 1 .. i
      BY <1>1, <1>3, <2>6, <2>7
    <3>2. Said(k) \in {"bad", "good"} /\ Key(log[k].event) = K
      BY <1>5, <2>6, <2>7
    <3>3. ~(Said(k) = "good" /\ Key(log[k].event) = K)
      BY <2>3, <3>1 DEF Clean, Resets
    <3> QED
      BY <1>4, <3>1, <3>2, <3>3
  <2>8. Run(K, n, i) \subseteq {k \in R : k >= j} /\ {k \in R : k >= j} \subseteq 1 .. i
    <3>1. ASSUME NEW k \in Run(K, n, i) PROVE k \in R /\ k >= j
      <4>1. k \in 1 .. i /\ Said(k) = "bad" /\ Key(log[k].event) = K
        BY <1>1 DEF Run
      <4>2. j <= k /\ j \in 1 .. i
        BY <2>5, <2>6
      <4> QED
        BY <1>1, <1>4, <4>1, <4>2
    <3> QED
      BY <1>3, <3>1
  <2>9. Cardinality({k \in R : k >= j}) >= MinConsecutive
    <3>1. /\ Cardinality(Run(K, n, i)) \in Nat /\ IsFiniteSet({k \in R : k >= j})
          /\ Cardinality({k \in R : k >= j}) \in Nat
      <4>1. Run(K, n, i) \subseteq 1 .. i
        BY <2>8
      <4> QED
        BY <1>1, <2>8, <4>1, IntervalPart
    <3>2. Cardinality(Run(K, n, i)) <= Cardinality({k \in R : k >= j})
      BY <2>8, <3>1, FS_Subset
    <3> QED
      BY <1>2, <2>3, <3>1, <3>2
  <2> QED
    BY <2>2, <2>6, <2>7, <2>9
<1>7. ASSUME i \in R, NEW j \in 1 .. i, Cardinality({k \in R : k >= j}) >= MinConsecutive,
             \A k \in R : k >= j => Bad(R, k)
      PROVE  AlarmedAt(i)
  <2>1. Said(i) = "bad"
    BY <1>1, <1>4, <1>7
  <2>2. Clean(K, j, i)
    <3>1. SUFFICES ASSUME NEW k \in j .. i, Said(k) = "good", Key(log[k].event) = K PROVE FALSE
      BY <1>2 DEF Clean, Resets
    <3>2. k \in 1 .. i /\ k >= j
      BY <1>1
    <3> QED
      BY <1>4, <1>7, <3>1, <3>2
  <2>3. Run(K, j, i) = {k \in R : k >= j}
    <3>1. \A k : k \in j .. i <=> k \in 1 .. i /\ k >= j
      BY <1>1
    <3> QED
      BY <1>3, <1>4, <1>7, <3>1 DEF Run
  <2> QED
    BY <1>2, <1>7, <2>1, <2>2, <2>3 DEF AlarmIsRun, K
<1> QED
  BY <1>6, <1>7 DEF R

\* A pair or a process is alarmed when it has offended often enough.
LEMMA AlarmIffRepeats == AlarmInv => AlarmIffRepeated
<1> SUFFICES ASSUME AlarmInv, feed \in Grouped, NEW i \in Latest
             PROVE  AlarmedAt(i) <=> /\ Verdict(log[i].event) = "bad"
                                     /\ Cardinality(Offences(i)) >= MinConsecutive
  BY DEF AlarmIffRepeated
<1> DEFINE K == Key(log[i].event)
           O == Offences(i)
<1>1. /\ Len(log) \in Nat /\ i \in 1 .. Len(log) /\ i \in Nat /\ i \in 1 .. i
      /\ MinConsecutive \in Nat \ {0}
      /\ \A k \in 1 .. i : log[k].event.kind = feed
  BY EngineAssumption DEF AlarmInv, Typed, Latest
<1>2. feed \in Counting /\ feed # "frequency"
  BY DEF Counting, Grouped
<1>3. ASSUME NEW k \in 1 .. i PROVE Said(k) = Verdict(log[k].event)
  BY <1>1, <1>2, VerdictJudged DEF Said
<1>4. AlarmIsRun(i)
  BY <1>1, <1>2 DEF AlarmInv
<1>5. O = {k \in 1 .. i : /\ Said(k) = "bad" /\ Key(log[k].event) = K
                          /\ \A m \in k .. i : Said(m) # "good"}
  <2>1. \A k \in 1 .. i : \A m \in k .. i : m \in 1 .. i
    BY <1>1
  <2> QED
    BY <1>3, <2>1 DEF Offences
<1>6. \A j \in 1 .. i : Clean(K, j, i) <=> \A m \in j .. i : Said(m) # "good"
  BY DEF Clean, Resets
<1>7. \A j \in 1 .. i : Run(K, j, i) = {k \in j .. i : Said(k) = "bad" /\ Key(log[k].event) = K}
  BY DEF Run
<1>8. /\ IsFiniteSet(O) /\ Cardinality(O) \in Nat
      /\ \A j \in 1 .. i : IsFiniteSet(Run(K, j, i)) /\ Cardinality(Run(K, j, i)) \in Nat
  <2>1. \A j \in 1 .. i : j \in Nat /\ Run(K, j, i) \subseteq j .. i
    BY <1>7
  <2>2. O \subseteq 1 .. i
    BY <1>5
  <2> QED
    BY <1>1, <2>1, <2>2, IntervalPart
<1> HIDE DEF O
<1>9. ASSUME AlarmedAt(i) PROVE Said(i) = "bad" /\ Cardinality(O) >= MinConsecutive
  <2>1. PICK j \in 1 .. i : Clean(K, j, i) /\ Cardinality(Run(K, j, i)) >= MinConsecutive
    BY <1>4, <1>9 DEF AlarmIsRun
  <2>2. Said(i) = "bad"
    BY <1>4, <1>9 DEF AlarmIsRun
  <2> HIDE DEF K
  <2>3. \A k \in j .. i : k \in 1 .. i /\ \A m \in k .. i : m \in j .. i
    BY <1>1
  <2>4. Run(K, j, i) \subseteq O
    BY <1>5, <1>6, <1>7, <2>1, <2>3
  <2>5. Cardinality(Run(K, j, i)) <= Cardinality(O)
    BY <1>8, <2>4, FS_Subset
  <2> QED
    BY <1>1, <1>8, <2>1, <2>2, <2>5
<1>10. ASSUME Said(i) = "bad", Cardinality(O) >= MinConsecutive PROVE AlarmedAt(i)
  <2>1. PICK j \in O : \A k \in O : j <= k
    <3>1. O \subseteq Nat /\ O # {}
      BY <1>1, <1>5, <1>8, <1>10, FS_EmptySet
    <3> QED
      BY <3>1, SmallestNumber
  <2>2. j \in 1 .. i /\ Clean(K, j, i)
    BY <1>5, <1>6, <2>1
  <2>3. O \subseteq Run(K, j, i)
    BY <1>1, <1>5, <1>7, <2>1, <2>2
  <2>4. Cardinality(Run(K, j, i)) >= MinConsecutive
    <3>1. Cardinality(O) <= Cardinality(Run(K, j, i))
      BY <1>8, <2>2, <2>3, FS_Subset
    <3> QED
      BY <1>1, <1>8, <1>10, <2>2, <3>1
  <2> QED
    BY <1>4, <1>10, <2>2, <2>4 DEF AlarmIsRun
<1> QED
  BY <1>1, <1>3, <1>9, <1>10 DEF O

\* A topic whose readings agree is not alarmed.
LEMMA Steady == AlarmInv => SteadyTopicNeverAlarmed
<1> SUFFICES ASSUME AlarmInv, feed = "frequency", NEW i \in Latest,
                    \A j, k \in Readings(i) :
                        log[j].event.hz * 100 >= log[k].event.hz * (100 - Tolerance),
                    AlarmedAt(i)
             PROVE  FALSE
  BY DEF SteadyTopicNeverAlarmed
<1> DEFINE t == log[i].event.topic
           v == log[i].event.hz
<1>1. /\ Len(log) \in Nat /\ i = Len(log) /\ i \in 1 .. Len(log)
      /\ \A k \in 1 .. i : log[k].event.hz \in Nat
  BY EngineAssumption DEF AlarmInv, Typed, Latest
<1>2. AlarmIsRun(i) /\ LearnsTheFirst(t) /\ SteadySum(t, v)
  BY <1>1 DEF AlarmInv, Counting
<1>3. Said(i) = "bad"
  BY <1>2 DEF AlarmIsRun
<1>4. ~(Cardinality(Before(i)) < LearningSamples) /\ Below(log[i].event, baseline[t])
  BY <1>3 DEF Said
<1>5. Readings(i) = Heard(t) /\ i \in Heard(t)
  BY <1>1 DEF Readings, Heard
<1>6. \A k \in Heard(t) : log[k].event.hz * (100 - Tolerance) <= v * 100
  <2>1. ASSUME NEW k \in Heard(t) PROVE log[k].event.hz * (100 - Tolerance) <= v * 100
    <3>1. v * 100 >= log[k].event.hz * (100 - Tolerance) /\ log[k].event.hz \in Nat
      BY <1>1, <1>5 DEF Heard
    <3>2. v \in Nat /\ 100 - Tolerance \in Nat
      BY <1>1, EngineAssumption
    <3> QED
      BY <3>1, <3>2
  <2> QED
    BY <2>1
<1>7. t \in DOMAIN baseline /\ baseline[t] \in Nat
  <2>1. Before(i) \subseteq Heard(t) /\ Heard(t) \subseteq 1 .. i /\ Before(i) \subseteq 1 .. i
    BY <1>1 DEF Before, Heard
  <2>2. /\ IsFiniteSet(Heard(t)) /\ Cardinality(Heard(t)) \in Nat
        /\ Cardinality(Before(i)) \in Nat /\ Cardinality(Before(i)) <= Cardinality(Heard(t))
    BY <1>1, <2>1, IntervalPart, FS_Subset
  <2>3. t \in DOMAIN baseline /\ baseline[t] = SumOver(log, Learnt(t))
    BY <1>2, <1>4, <2>2, EngineAssumption DEF LearnsTheFirst
  <2>4. Rates(log, Learnt(t)) /\ Grown(log, Append(log, log[i]))
    <3>1. log \in Seq(Range(log)) /\ log[i] \in Range(log)
      BY <1>1 DEF AlarmInv, Typed, Range
    <3> QED
      BY <1>1, <3>1 DEF Rates, Grown, Learnt, Heard
  <2> QED
    BY <2>3, <2>4, SumStays
<1>8. baseline[t] * (100 - Tolerance) <= LearningSamples * (v * 100)
  BY <1>2, <1>6, <1>7 DEF SteadySum
<1>9. v * LearningSamples * 100 < baseline[t] * (100 - Tolerance)
  BY <1>4 DEF Below
<1>10. v \in Nat /\ LearningSamples \in Nat /\ baseline[t] * (100 - Tolerance) \in Nat
  BY <1>1, <1>7, EngineAssumption
<1>11. v * LearningSamples * 100 = LearningSamples * (v * 100)
  BY <1>10
<1> QED
  BY <1>8, <1>9, <1>10, <1>11

\* When each detector that counts alarms (FrequencyDetector, ThresholdDetector,
\* ClockSkewDetector, ProcessSignalsDetector), neither sooner nor later,
\* whatever the limits, the bounds and the events.
THEOREM AlarmsAreSustained == Spec => []AlarmsSustained
<1>1. AlarmInv => AlarmsSustained
  BY AlarmIff, AlarmIffRepeats DEF AlarmsSustained
<1> QED
  BY <1>1, InitAlarmInv, NextAlarmInv, PTL DEF Spec

\* Readings within the tolerance of each other never alarm their topic,
\* whichever were learned and whatever the learning period.
THEOREM SteadyTopics == Spec => []SteadyTopicNeverAlarmed
BY Steady, InitAlarmInv, NextAlarmInv, PTL DEF Spec
-----------------------------------------------------------------------------
\* Each event of the log is the producer's and was shown to each detector.
ShownInv ==
    /\ Typed
    /\ \A i \in 1 .. Len(log) :
        {d \in DOMAIN log[i].anomalies : log[i].anomalies[d].detector = "echo"}
          = {d \in Detectors : Configured[d] = "echo"}

\* An event answered by each detector that answers all.
LEMMA AllAnswer ==
    ASSUME NEW e
    PROVE  {d \in DOMAIN Anomalies(e) : Anomalies(e)[d].detector = "echo"}
             = {d \in Detectors : Configured[d] = "echo"}
<1>1. DOMAIN Anomalies(e) = Finding(e) /\ Finding(e) \subseteq Detectors
      /\ \A d \in Finding(e) : Anomalies(e)[d] = Outcome(Configured[d], e)
  BY DEF Anomalies, Finding
<1>2. ASSUME NEW d \in Detectors, Configured[d] = "echo"
      PROVE  d \in Finding(e) /\ Outcome(Configured[d], e).detector = "echo"
  BY <1>2 DEF Finding, Outcome, Anomaly
<1>3. ASSUME NEW d \in Finding(e), Configured[d] # "echo"
      PROVE  Outcome(Configured[d], e).detector # "echo"
  <2>1. Outcome(Configured[d], e).kind = "anomaly"
    BY DEF Finding
  <2>2. CASE Configured[d] = "hysteresis"
    <3>1. Hysteresis(e).kind = "anomaly"
      BY <2>1, <2>2 DEF Outcome
    <3>2. Hysteresis(e) = Anomaly(e.kind, Key(e)) /\ Verdict(e) = "bad"
      BY <3>1 DEF Hysteresis, Nothing
    <3>3. e.kind # "echo"
      BY <3>2 DEF Verdict
    <3> QED
      BY <2>2, <3>2, <3>3 DEF Outcome, Anomaly
  <2>3. CASE Configured[d] = "qos"
    <3>1. QosCheck(e).kind = "anomaly"
      BY <2>1, <2>3 DEF Outcome
    <3>2. QosCheck(e).detector = "qos"
      BY <3>1 DEF QosCheck, Nothing, Anomaly
    <3> QED
      BY <2>3, <3>2 DEF Outcome
  <2>4. CASE Configured[d] \notin {"hysteresis", "qos"}
    <3>1. Configured[d] # "raises"
      BY <2>1 DEF Outcome, Raised
    <3> QED
      BY <1>3, <2>4, <3>1 DEF Outcome, Anomaly
  <2> QED
    BY <2>2, <2>3, <2>4
<1> QED
  BY <1>1, <1>2, <1>3

\* A detector that raises costs no other an event, and an anomaly is shown to
\* none (the engine's loop over the detectors), with any configuration.
THEOREM EventsAreShownOnce == Spec => []ShownOnceToEach
<1>1. Init => ShownInv
  BY InitAlarmInv DEF ShownInv, AlarmInv, Init
<1>2. ShownInv /\ [Next]_vars => ShownInv'
  <2> SUFFICES ASSUME ShownInv, [Next]_vars PROVE ShownInv'
    OBVIOUS
  <2>1. Typed /\ Typed'
    BY TypedKept DEF ShownInv
  <2>2. CASE UNCHANGED <<feed, samples, baseline, counts, log>>
    BY <2>1, <2>2 DEF ShownInv
  <2>3. ASSUME NEW e, Shown(e) PROVE ShownInv'
    <3>1. /\ Len(log) \in Nat /\ Len(log') = Len(log) + 1
          /\ \A k \in 1 .. Len(log) : log'[k] = log[k]
          /\ log'[Len(log) + 1].anomalies = Anomalies(e)
      BY <2>1, <2>3, LogGrows
    <3>2. ASSUME NEW i \in 1 .. Len(log')
          PROVE  {d \in DOMAIN log'[i].anomalies : log'[i].anomalies[d].detector = "echo"}
                   = {d \in Detectors : Configured[d] = "echo"}
      <4>1. CASE i \in 1 .. Len(log)
        BY <3>1, <4>1 DEF ShownInv
      <4>2. CASE i = Len(log) + 1
        BY <3>1, <4>2, AllAnswer
      <4> QED
        BY <3>1, <4>1, <4>2
    <3> QED
      BY <2>1, <3>2 DEF ShownInv
  <2> QED
    BY <2>1, <2>2, <2>3, NextCases
<1>3. ShownInv => ShownOnceToEach
  <2>1. ShownInv => \A i \in Latest : i \in 1 .. Len(log) /\ log[i].event.kind = feed
    BY EngineAssumption DEF ShownInv, Typed, Latest
  <2> QED
    BY <2>1 DEF ShownInv, ShownOnceToEach
<1> QED
  BY <1>1, <1>2, <1>3, PTL DEF Spec
=============================================================================
