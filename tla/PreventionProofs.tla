-------------------------- MODULE PreventionProofs --------------------------
(***************************************************************************)
(* What a bundle says of itself and of earlier bundles is true, a QoS      *)
(* mismatch is never outranked by noise, the same failure has the same     *)
(* fingerprint, and an adopted rule blocks: for any logs, windows, robots  *)
(* and rules, and any number of builds that run, die or overtake each      *)
(* other.                                                                  *)
(***************************************************************************)
EXTENDS FiniteSetTheorems, SequenceTheorems, WellFoundedInduction, Prevention, TLAPS

-----------------------------------------------------------------------------
(* Sums.  What SumOf computes needs an induction, done here as a smallest  *)
(* counterexample.                                                         *)

\* A set of numbers has a smallest member.
LEMMA SmallestNumber ==
    ASSUME NEW T, T \subseteq Nat, T # {}
    PROVE  \E n \in T : \A m \in T : n <= m
<1> DEFINE R == OpToRel(<, Nat)
<1>1. R = {p \in Nat \X Nat : p[1] < p[2]}
  BY DEF OpToRel
<1>2. IsWellFoundedOn(R, Nat)
  BY NatLessThanWellFounded
<1> HIDE DEF R
<1>3. PICK n \in T : \A m \in T : ~(<<m, n>> \in R)
  BY <1>2, WFMin
<1>4. ASSUME NEW m \in T PROVE n <= m
  <2>1. <<m, n>> \notin {p \in Nat \X Nat : p[1] < p[2]}
    BY <1>1, <1>3
  <2>2. m \in Nat /\ n \in Nat
    OBVIOUS
  <2> QED
    BY <2>1, <2>2
<1> QED
  BY <1>4

\* What a sum is, for the sets a function g adds up f over.
Picked(S) == CHOOSE x \in S : TRUE
AddsUp(g, f, S) == g[S] = IF S = {} THEN 0 ELSE f[Picked(S)] + g[S \ {Picked(S)}]

\* A finite set without the member picked is smaller by one.
LEMMA WithoutPicked ==
    ASSUME NEW D, IsFiniteSet(D), NEW S \in SUBSET D
    PROVE  /\ IsFiniteSet(S) /\ Cardinality(S) \in Nat
           /\ S = {} <=> Cardinality(S) = 0
           /\ S # {} => /\ Picked(S) \in S /\ S \ {Picked(S)} \in SUBSET D
                        /\ Cardinality(S \ {Picked(S)}) = Cardinality(S) - 1
<1>1. IsFiniteSet(S)
  BY FS_Subset
<1>2. Cardinality(S) \in Nat /\ (S = {} <=> Cardinality(S) = 0)
  BY <1>1, FS_CardinalityType, FS_EmptySet
<1>3. S # {} => Picked(S) \in S
  BY DEF Picked
<1>4. S # {} => Cardinality(S \ {Picked(S)}) = Cardinality(S) - 1
  BY <1>1, <1>3, FS_RemoveElement
<1> QED
  BY <1>1, <1>2, <1>3, <1>4

\* There is such a function for the sets of up to n members.
LEMMA SumsExist ==
    ASSUME NEW f, IsFiniteSet(DOMAIN f), NEW n \in Nat
    PROVE  \E g : \A S \in SUBSET DOMAIN f : Cardinality(S) <= n => AddsUp(g, f, S)
<1> DEFINE Upto(g, m) == \A S \in SUBSET DOMAIN f : Cardinality(S) <= m => AddsUp(g, f, S)
           Wrong == {m \in Nat : ~\E g : Upto(g, m)}
<1> SUFFICES ASSUME Wrong # {} PROVE FALSE
  OBVIOUS
<1>1. PICK m \in Wrong : \A k \in Wrong : m <= k
  <2>1. Wrong \subseteq Nat OBVIOUS
  <2> QED BY <2>1, SmallestNumber
<1>2. Upto([S \in SUBSET DOMAIN f |-> 0], 0)
  <2> SUFFICES ASSUME NEW S \in SUBSET DOMAIN f, Cardinality(S) <= 0
               PROVE  AddsUp([R \in SUBSET DOMAIN f |-> 0], f, S)
    OBVIOUS
  <2>1. Cardinality(S) \in Nat /\ (S = {} <=> Cardinality(S) = 0)
    BY WithoutPicked
  <2>2. S = {}
    BY <2>1
  <2> QED
    BY <2>2 DEF AddsUp
<1>3. m \in Nat \ {0} /\ m - 1 \in Nat /\ m - 1 \notin Wrong
  BY <1>1, <1>2
<1>4. PICK g : Upto(g, m - 1)
  BY <1>3
<1> DEFINE h == [S \in SUBSET DOMAIN f |->
                    IF Cardinality(S) <= m - 1 THEN g[S]
                    ELSE f[Picked(S)] + g[S \ {Picked(S)}]]
<1>5. ASSUME NEW S \in SUBSET DOMAIN f, Cardinality(S) <= m PROVE AddsUp(h, f, S)
  <2>1. /\ Cardinality(S) \in Nat /\ (S = {} <=> Cardinality(S) = 0)
        /\ S # {} => /\ S \ {Picked(S)} \in SUBSET DOMAIN f
                     /\ Cardinality(S \ {Picked(S)}) = Cardinality(S) - 1
    BY WithoutPicked
  <2>2. CASE S = {}
    <3>1. h[S] = g[S]
      BY <1>3, <2>1, <2>2
    <3>2. AddsUp(g, f, S)
      BY <1>3, <1>4, <2>1, <2>2
    <3> QED
      BY <2>2, <3>1, <3>2 DEF AddsUp
  <2>3. CASE S # {}
    <3>1. h[S \ {Picked(S)}] = g[S \ {Picked(S)}]
      <4>1. Cardinality(S \ {Picked(S)}) <= m - 1
        BY <1>3, <1>5, <2>1, <2>3
      <4> QED
        BY <2>1, <2>3, <4>1
    <3>2. h[S] = f[Picked(S)] + g[S \ {Picked(S)}]
      <4>1. CASE Cardinality(S) <= m - 1
        <5>1. AddsUp(g, f, S)
          BY <1>4, <4>1
        <5> QED
          BY <2>3, <4>1, <5>1 DEF AddsUp
      <4>2. CASE ~(Cardinality(S) <= m - 1)
        BY <4>2
      <4> QED
        BY <4>1, <4>2
    <3> HIDE DEF h
    <3> QED
      BY <2>3, <3>1, <3>2 DEF AddsUp
  <2> QED
    BY <2>2, <2>3
<1>6. Upto(h, m)
  BY <1>5
<1> HIDE DEF h
<1> QED
  BY <1>1, <1>6

\* The sum of natural numbers is one.
LEMMA SumOfNat ==
    ASSUME NEW f, IsFiniteSet(DOMAIN f), \A x \in DOMAIN f : f[x] \in Nat
    PROVE  SumOf(f) \in Nat
<1> DEFINE D == DOMAIN f
           P(g) == g = [S \in SUBSET D |-> IF S = {} THEN 0
                                          ELSE f[Picked(S)] + g[S \ {Picked(S)}]]
           sum == CHOOSE g : P(g)
<1>1. SumOf(f) = sum[D]
  BY DEF SumOf, Picked
<1>2. P(sum)
  <2>1. Cardinality(D) \in Nat
    BY WithoutPicked
  <2>2. PICK g : \A S \in SUBSET D : Cardinality(S) <= Cardinality(D) => AddsUp(g, f, S)
    BY <2>1, SumsExist
  <2>3. \A S \in SUBSET D : AddsUp(g, f, S)
    BY <2>2, FS_Subset
  <2> DEFINE h == [S \in SUBSET D |-> g[S]]
             u == [S \in SUBSET D |-> IF S = {} THEN 0
                                      ELSE f[Picked(S)] + h[S \ {Picked(S)}]]
  <2>4. ASSUME NEW S \in SUBSET D PROVE h[S] = u[S]
    <3>1. S \ {Picked(S)} \in SUBSET D
      OBVIOUS
    <3>2. h[S] = g[S] /\ h[S \ {Picked(S)}] = g[S \ {Picked(S)}]
      BY <3>1
    <3>3. u[S] = IF S = {} THEN 0 ELSE f[Picked(S)] + h[S \ {Picked(S)}]
      OBVIOUS
    <3> HIDE DEF h, u
    <3> QED
      BY <2>3, <3>2, <3>3 DEF AddsUp
  <2>5. h = u
    <3>1. h = [S \in SUBSET D |-> h[S]] /\ u = [S \in SUBSET D |-> u[S]]
      OBVIOUS
    <3> HIDE DEF h, u
    <3> QED
      BY <2>4, <3>1
  <2>6. P(h)
    BY <2>5
  <2> HIDE DEF h, P
  <2> QED
    BY <2>6
<1> HIDE DEF sum
<1>3. \A S \in SUBSET D : AddsUp(sum, f, S)
  BY <1>2 DEF AddsUp
<1> HIDE DEF P
<1> DEFINE Wrong == {Cardinality(S) : S \in {S \in SUBSET D : sum[S] \notin Nat}}
<1>4. Wrong = {}
  <2> SUFFICES ASSUME Wrong # {} PROVE FALSE
    OBVIOUS
  <2>1. PICK n \in Wrong : \A k \in Wrong : n <= k
    <3>1. \A S \in SUBSET D : Cardinality(S) \in Nat
      BY WithoutPicked
    <3>2. Wrong \subseteq Nat
      BY <3>1
    <3> QED
      BY <3>2, SmallestNumber
  <2>2. PICK S \in SUBSET D : sum[S] \notin Nat /\ n = Cardinality(S)
    BY <2>1
  <2>3. S # {} /\ sum[S] = f[Picked(S)] + sum[S \ {Picked(S)}]
    <3>1. AddsUp(sum, f, S)
      BY <1>3
    <3> QED
      BY <2>2, <3>1 DEF AddsUp
  <2>4. /\ n \in Nat /\ Picked(S) \in D /\ S \ {Picked(S)} \in SUBSET D
        /\ Cardinality(S \ {Picked(S)}) = n - 1
    <3>1. S \subseteq D
      OBVIOUS
    <3> QED
      BY <2>2, <2>3, <3>1, WithoutPicked
  <2>5. n - 1 \notin Wrong
    BY <2>1, <2>4
  <2>6. sum[S \ {Picked(S)}] \in Nat
    BY <2>4, <2>5
  <2> QED
    BY <2>2, <2>3, <2>4, <2>6
<1> QED
  BY <1>1, <1>4
-----------------------------------------------------------------------------
(* Timelines are finite *)

\* Events of a log, in a finite number, and a window.
AreEvents(events) ==
    /\ IsFiniteSet(DOMAIN events) /\ DOMAIN events \subseteq Nat
    /\ \A i \in DOMAIN events : IsEvent(events[i])

IsWindow(w) == w.start \in Int /\ w.end \in Int

\* The values of a function over a finite set are finitely many.
LEMMA FiniteImage ==
    ASSUME NEW f, IsFiniteSet(DOMAIN f)
    PROVE  IsFiniteSet({f[x] : x \in DOMAIN f})
<1> DEFINE T == {f[x] : x \in DOMAIN f}
           g == [x \in DOMAIN f |-> f[x]]
<1>1. g \in [DOMAIN f -> T] /\ \A t \in T : \E x \in DOMAIN f : g[x] = t
  OBVIOUS
<1> HIDE DEF T, g
<1>2. g \in Surjection(DOMAIN f, T)
  BY <1>1 DEF Surjection
<1>3. IsFiniteSet(T)
  BY <1>2, FS_Surjection
<1> QED
  BY <1>3 DEF T

\* The times of the snapshots are finitely many numbers.
LEMMA TimesAreNumbers ==
    ASSUME NEW w, IsWindow(w)
    PROVE  /\ IsFiniteSet(DOMAIN SnapshotTimes(w)) /\ DOMAIN SnapshotTimes(w) \subseteq Nat
           /\ \A n \in DOMAIN SnapshotTimes(w) : SnapshotTimes(w)[n] \in Int
<1> DEFINE span == w.end - w.start
           steps == span \div Cadence + 1
<1>1. /\ span \in Int /\ Cadence \in Nat \ {0} /\ MaxSnapshots \in Nat \ {0, 1}
      /\ w.start \in Int
  BY IncidentAnalysisAssumption DEF IncidentAnalysisAssumption, IsWindow
<1>2. steps \in Int
  BY <1>1
<1>3. \A n \in Nat : w.start + (n - 1) * Cadence \in Int
  BY <1>1
<1>4. \A n \in Nat : w.start + ((n - 1) * span) \div (MaxSnapshots - 1) \in Int
  <2> TAKE n \in Nat
  <2>1. (n - 1) * span \in Int /\ MaxSnapshots - 1 \in Nat \ {0}
    BY <1>1
  <2>2. \A a \in Int : \A b \in Nat \ {0} : a \div b \in Int
    OBVIOUS
  <2> QED
    BY <1>1, <2>1, <2>2
<1> HIDE DEF span, steps
<1>5. SnapshotTimes(w) =
        IF span < 0 THEN <<>>
        ELSE IF steps <= MaxSnapshots THEN [n \in 1 .. steps |-> w.start + (n - 1) * Cadence]
        ELSE [n \in 1 .. MaxSnapshots |-> w.start + ((n - 1) * span) \div (MaxSnapshots - 1)]
  BY DEF SnapshotTimes, span, steps
<1>6. CASE span < 0
  BY <1>5, <1>6, FS_EmptySet
<1>7. CASE ~(span < 0) /\ steps <= MaxSnapshots
  <2>1. SnapshotTimes(w) = [n \in 1 .. steps |-> w.start + (n - 1) * Cadence]
    BY <1>5, <1>7
  <2>2. IsFiniteSet(1 .. steps) /\ 1 .. steps \subseteq Nat
    BY <1>2, FS_Interval
  <2> QED
    BY <1>3, <2>1, <2>2
<1>8. CASE ~(span < 0) /\ ~(steps <= MaxSnapshots)
  <2>1. SnapshotTimes(w) =
            [n \in 1 .. MaxSnapshots |-> w.start + ((n - 1) * span) \div (MaxSnapshots - 1)]
    BY <1>5, <1>8
  <2>2. IsFiniteSet(1 .. MaxSnapshots) /\ 1 .. MaxSnapshots \subseteq Nat
    BY <1>1, FS_Interval
  <2> QED
    BY <1>4, <2>1, <2>2
<1> QED
  BY <1>6, <1>7, <1>8

\* Rows of finitely many times, or of a number of them.
AreRows(rows) == IsFiniteSet(rows) /\ \A r \in rows : r.t \in Int

\* Rows that a function lists.
LEMMA RowsOf ==
    ASSUME NEW f, IsFiniteSet(DOMAIN f), \A x \in DOMAIN f : f[x].t \in Int,
           NEW rows, \A r \in rows : \E x \in DOMAIN f : r = f[x]
    PROVE  AreRows(rows)
<1> DEFINE S == {f[x] : x \in DOMAIN f}
<1>1. rows \in SUBSET S /\ IsFiniteSet(S)
  BY FiniteImage
<1> HIDE DEF S
<1>2. IsFiniteSet(rows)
  BY <1>1, FS_Subset
<1> QED
  BY <1>2 DEF AreRows

\* A timeline is finite.
LEMMA TimelineIsFinite ==
    ASSUME NEW events, AreEvents(events), NEW w, IsWindow(w)
    PROVE  AreRows(Timeline(events, w))
<1> DEFINE D == DOMAIN events
<1>1. IsFiniteSet(D) /\ IsFiniteSet(D \X D) /\ \A i \in D : events[i].t \in Int
  BY FS_Product DEF AreEvents, IsEvent
<1>2. AreRows({Row(events[i].t, events[i].type, "raw", events[i].subject, {i}) : i \in D})
  <2> DEFINE f == [i \in D |-> Row(events[i].t, events[i].type, "raw", events[i].subject, {i})]
  <2>1. DOMAIN f = D /\ \A i \in D : f[i].t \in Int
    BY <1>1 DEF Row
  <2>2. \A r \in {Row(events[i].t, events[i].type, "raw", events[i].subject, {i}) : i \in D} :
            \E i \in D : r = f[i]
    OBVIOUS
  <2> HIDE DEF f
  <2> QED
    BY <1>1, <2>1, <2>2, RowsOf
<1>3. AreRows(Silences(events))
  <2> DEFINE f == [p \in D \X D |-> Row(events[p[1]].t + Silence, "silence_interval", "ros",
                                        events[p[1]].subject, {p[1], p[2]})]
  <2>1. \A p \in D \X D : f[p].t \in Int
    BY <1>1, IncidentAnalysisAssumption DEF Row, IncidentAnalysisAssumption
  <2>2. \A r \in Silences(events) : \E p \in D \X D : r = f[p]
    <3>1. Where(events, "ros.frequency") \subseteq D
      BY DEF Where
    <3> QED
      BY <3>1 DEF Silences
  <2>3. DOMAIN f = D \X D
    OBVIOUS
  <2> HIDE DEF f
  <2> QED
    BY <1>1, <2>1, <2>2, <2>3, RowsOf
<1>4. AreRows(Excursions(events))
  <2> DEFINE T == DOMAIN MetricSubsystem
             f == [p \in (D \X D) \X T |->
                    Row(events[p[1][1]].t, "resource_excursion", MetricSubsystem[p[2]], p[2],
                        {p[1][1], p[1][2]})]
  <2>1. IsFiniteSet((D \X D) \X T)
    <3>1. IsFiniteSet(T)
      <4>1. T = {"system.cpu", "system.memory", "system.gpu"}
        BY DEF MetricSubsystem
      <4> QED
        <5>1. IsFiniteSet({} \cup {"system.cpu"})
          BY FS_EmptySet, FS_AddElement
        <5>2. IsFiniteSet({"system.cpu"} \cup {"system.memory"})
          BY <5>1, FS_AddElement
        <5>3. IsFiniteSet({"system.cpu", "system.memory"} \cup {"system.gpu"})
          BY <5>2, FS_AddElement
        <5> QED
          BY <4>1, <5>3
    <3> QED
      BY <1>1, <3>1, FS_Product
  <2>2. \A p \in (D \X D) \X T : f[p].t \in Int
    BY <1>1 DEF Row
  <2>3. \A r \in Excursions(events) : \E p \in (D \X D) \X T : r = f[p]
    <3>1. \A type : Where(events, type) \subseteq D
      BY DEF Where
    <3>2. ASSUME NEW r \in Excursions(events)
          PROVE  \E type \in T : \E i, j \in D :
                    r = Row(events[i].t, "resource_excursion", MetricSubsystem[type], type, {i, j})
      <4>1. PICK type \in T : \E p \in Where(events, type) \X Where(events, type) :
                r = Row(events[p[1]].t, "resource_excursion", MetricSubsystem[type], type,
                        {p[1], p[2]})
        <5>1. PICK type \in T : \E p \in Runs(events, type) :
                r = Row(events[p[1]].t, "resource_excursion", MetricSubsystem[type], type,
                        {p[1], p[2]})
          BY DEF Excursions
        <5> QED
          BY <5>1 DEF Runs
      <4>2. PICK p \in Where(events, type) \X Where(events, type) :
                r = Row(events[p[1]].t, "resource_excursion", MetricSubsystem[type], type,
                        {p[1], p[2]})
        BY <4>1
      <4>3. p[1] \in D /\ p[2] \in D
        BY <3>1
      <4> QED
        BY <4>2, <4>3
    <3>3. ASSUME NEW r \in Excursions(events) PROVE \E p \in (D \X D) \X T : r = f[p]
      <4>1. PICK type \in T, i \in D, j \in D :
                r = Row(events[i].t, "resource_excursion", MetricSubsystem[type], type, {i, j})
        BY <3>2
      <4>2. <<<<i, j>>, type>> \in (D \X D) \X T
        OBVIOUS
      <4>3. r = f[<<<<i, j>>, type>>]
        BY <4>1, <4>2
      <4> HIDE DEF f
      <4> QED
        BY <4>2, <4>3
    <3> QED
      BY <3>3
  <2>4. DOMAIN f = (D \X D) \X T
    OBVIOUS
  <2> HIDE DEF f, T
  <2> QED
    BY <2>1, <2>2, <2>3, <2>4, RowsOf
<1>5. AreRows(Deltas(Snapshots(events, w)))
  <2> DEFINE snaps == Snapshots(events, w)
             N == DOMAIN SnapshotTimes(w)
             S == {events[i].subject : i \in D}
             f == [p \in N \X S |-> Row(SnapshotTimes(w)[p[1]], "graph_delta", "ros", p[2], {})]
  <2>1. /\ DOMAIN snaps \subseteq N
        /\ \A n \in DOMAIN snaps : /\ snaps[n].t = SnapshotTimes(w)[n]
                                   /\ DOMAIN snaps[n].topics \subseteq S
    <3>1. \A t : DOMAIN TopicsAt(events, t) \subseteq S
      BY DEF TopicsAt, Where
    <3> QED
      BY <3>1 DEF Snapshots
  <2>2. IsFiniteSet(N \X S)
    <3>1. IsFiniteSet(S)
      <4> DEFINE g == [i \in D |-> events[i].subject]
      <4>1. DOMAIN g = D /\ S = {g[i] : i \in D}
        OBVIOUS
      <4> HIDE DEF g
      <4> QED
        BY <1>1, <4>1, FiniteImage
    <3> QED
      BY <3>1, TimesAreNumbers, FS_Product
  <2>3. \A p \in N \X S : f[p].t \in Int
    BY TimesAreNumbers DEF Row
  <2>4. \A r \in Deltas(snaps) : \E p \in N \X S : r = f[p]
    <3>1. ASSUME NEW r \in Deltas(snaps)
          PROVE  \E n \in DOMAIN snaps : \E p \in S :
                    r = Row(snaps[n].t, "graph_delta", "ros", p, {})
      <4> HIDE DEF snaps, S
      <4>1. PICK m \in DOMAIN snaps, n \in DOMAIN snaps :
                \E p \in DOMAIN snaps[m].topics \cup DOMAIN snaps[n].topics :
                    r = Row(snaps[n].t, "graph_delta", "ros", p, {})
        BY DEF Deltas
      <4> QED
        BY <2>1, <4>1
    <3>2. ASSUME NEW r \in Deltas(snaps) PROVE \E p \in N \X S : r = f[p]
      <4>1. PICK n \in DOMAIN snaps, p \in S : r = Row(snaps[n].t, "graph_delta", "ros", p, {})
        BY <3>1
      <4>2. <<n, p>> \in N \X S /\ r = f[<<n, p>>]
        <5> HIDE DEF snaps, S, N
        <5> QED
          BY <2>1, <4>1
      <4> HIDE DEF f
      <4> QED
        BY <4>2
    <3> QED
      BY <3>2
  <2>5. DOMAIN f = N \X S
    OBVIOUS
  <2> HIDE DEF f, snaps
  <2>6. AreRows(Deltas(snaps))
    BY <2>2, <2>3, <2>4, <2>5, RowsOf
  <2> QED
    BY <2>6 DEF snaps
<1>6. ASSUME NEW R, NEW S, AreRows(R), AreRows(S) PROVE AreRows(R \cup S)
  BY <1>6, FS_Union DEF AreRows
<1> QED
  BY <1>2, <1>3, <1>4, <1>5, <1>6 DEF Timeline, Derived
-----------------------------------------------------------------------------
(* Scores *)

\* Division by a positive number keeps bounds that are multiples of it.
LEMMA Divided ==
    ASSUME NEW a \in Int, NEW U \in Nat \ {0}, NEW q \in Int
    PROVE  /\ a \div U \in Int
           /\ a >= U * q => a \div U >= q
           /\ a < U * (q + 1) => a \div U <= q
<1>1. PICK d \in Int, m \in Int : d = a \div U /\ m = a % U
  OBVIOUS
<1>2. a = U * d + m /\ 0 <= m /\ m < U
  BY <1>1
<1>3. \A x, y \in Int : x < y => U * x + U <= U * y
  <2> TAKE x, y \in Int
  <2>1. \A z \in Nat : U * z >= 0
    OBVIOUS
  <2> HAVE x < y
  <2>2. U * (y - x - 1) >= 0
    BY <2>1
  <2>3. U * (y - x - 1) = U * y - U * x - U
    OBVIOUS
  <2> QED
    BY <2>2, <2>3
<1>4. a >= U * q => d >= q
  <2> SUFFICES ASSUME a >= U * q, d < q PROVE FALSE
    OBVIOUS
  <2>1. U * d + U <= U * q
    BY <1>3
  <2> QED
    BY <1>2, <2>1
<1>5. a < U * (q + 1) => d <= q
  <2> SUFFICES ASSUME a < U * (q + 1), q + 1 < d + 1 PROVE FALSE
    OBVIOUS
  <2>1. U * (q + 1) + U <= U * (d + 1) /\ U * (d + 1) = U * d + U
    BY <1>3
  <2> QED
    BY <1>2, <2>1
<1> QED
  BY <1>1, <1>4, <1>5

\* What a row adds to a score.
LEMMA RelevanceIsNumber ==
    ASSUME NEW trigger, trigger.t \in Int, NEW rows, AreRows(rows),
           NEW r \in Precursors(trigger, rows)
    PROVE  Relevance(trigger, r) \in Nat
<1> DEFINE peak   == PrecursorRelevance[trigger.class][r.kind]
           left   == Horizon - (trigger.t - r.t)
           align  == IF r.subsystem = Subsystem(trigger) THEN 100 ELSE 55
           boost  == IF r.kind \in {"graph_delta", "silence_interval"}
                            /\ r.subject = trigger.subject THEN 3 ELSE 2
<1>1. peak \in Nat
  BY DEF Precursors, PrecursorRelevance
<1>2. left \in Nat
  <2>1. r.t \in Int /\ trigger.t - r.t < Horizon /\ Horizon \in Nat
    BY IncidentAnalysisAssumption DEF Precursors, AreRows, IncidentAnalysisAssumption
  <2> QED
    BY <2>1
<1>3. align \in Nat /\ boost \in Nat
  OBVIOUS
<1>4. Relevance(trigger, r) = peak * left * align * boost
  BY DEF Relevance
<1> HIDE DEF peak, left, align, boost
<1>5. \A x, y \in Nat : x * y \in Nat
  OBVIOUS
<1>6. peak * left \in Nat
  BY <1>1, <1>2, <1>5
<1>7. peak * left * align \in Nat
  BY <1>3, <1>5, <1>6
<1> QED
  BY <1>3, <1>4, <1>5, <1>7

\* The precursors add something, up to the cap.
LEMMA BonusIsCapped ==
    ASSUME NEW trigger, trigger.t \in Int, NEW rows, AreRows(rows)
    PROVE  LET bonus == PrecursorBonus(trigger, Precursors(trigger, rows))
           IN  bonus \in Int /\ 0 <= bonus /\ bonus <= 30 * Unit
<1> DEFINE chain == Precursors(trigger, rows)
           f == [r \in chain |-> Relevance(trigger, r)]
<1>1. IsFiniteSet(chain)
  <2>1. chain \in SUBSET rows
    BY DEF Precursors
  <2> HIDE DEF chain
  <2> QED
    BY <2>1, FS_Subset DEF AreRows
<1>2. DOMAIN f = chain /\ \A r \in chain : f[r] \in Nat
  BY RelevanceIsNumber
<1>3. PrecursorBonus(trigger, chain) = MinOf(30 * Unit, SumOf(f))
  BY DEF PrecursorBonus
<1> HIDE DEF f, chain
<1>4. SumOf(f) \in Nat
  BY <1>1, <1>2, SumOfNat
<1>5. Unit \in Nat
  BY IncidentAnalysisAssumption DEF Unit, IncidentAnalysisAssumption
<1>6. MinOf(30 * Unit, SumOf(f)) \in 0 .. 30 * Unit
  BY <1>4, <1>5 DEF MinOf
<1>7. PrecursorBonus(trigger, chain) \in 0 .. 30 * Unit
  BY <1>3, <1>6
<1>8. 30 * Unit \in Int
  BY <1>5
<1> QED
  BY <1>7, <1>8 DEF chain

LEMMA DiffScores ==
    ASSUME NEW class, NEW baseline, NEW sig
    PROVE  DiffScore(class, baseline, sig) \in {0, 2, 5}
<1> DEFINE keys == DiffKeys(baseline.config, sig.config)
                    \cup DiffKeys(baseline.versions, sig.versions)
           relevant == IF class \in DOMAIN RelevantKeys THEN RelevantKeys[class] ELSE {}
<1>1. DiffScore(class, baseline, sig) =
        CASE baseline = None -> 0
          [] baseline # None /\ keys = {} -> 0
          [] baseline # None /\ keys \cap relevant # {} -> 5
          [] OTHER -> 2
  BY DEF DiffScore
<1> HIDE DEF keys, relevant
<1>2. CASE baseline = None
  BY <1>1, <1>2
<1>3. CASE baseline # None /\ keys = {}
  BY <1>1, <1>3
<1>4. CASE baseline # None /\ keys # {} /\ keys \cap relevant # {}
  BY <1>1, <1>4
<1>5. CASE baseline # None /\ keys # {} /\ keys \cap relevant = {}
  BY <1>1, <1>5
<1> QED
  BY <1>2, <1>3, <1>4, <1>5

\* The score of a cause: whatever precedes it, whatever changed and whoever
\* had it before, a threshold alarm stays below 81, a QoS mismatch above 84,
\* each plus what its severity is worth.
LEMMA Scores ==
    ASSUME NEW events, AreEvents(events), NEW i \in Triggers(events),
           NEW rows, AreRows(rows), NEW baseline, NEW sig, NEW prior
    PROVE  LET h == Hypothesis(events, i, rows, baseline, sig, prior)
               bonus == SeverityBonus[events[i].severity]
           IN  /\ h.trigger = i /\ h.confidence \in Int
               /\ events[i].class = "ThresholdDetector" => h.confidence <= 800 + 10 * bonus
               /\ events[i].class = "QoSMismatchDetector" => h.confidence >= 850 + 10 * bonus
<1> DEFINE h == Hypothesis(events, i, rows, baseline, sig, prior)
           bonus == SeverityBonus[events[i].severity]
           class == events[i].class
           base == IF class \in DOMAIN BaseScore THEN BaseScore[class] ELSE 30
           diff == DiffScore(class, baseline, sig)
           recurs == RecurrenceScore(prior)
           chained == PrecursorBonus(events[i], Precursors(events[i], rows))
           raw == Unit * (base + bonus + diff + recurs) + chained
           score == 10 * MinOf(raw, 100 * Unit) + Unit \div 2
<1>1. i \in DOMAIN events /\ events[i].t \in Int /\ bonus \in {0, 3, 7, 10}
  BY DEF Triggers, Where, AreEvents, IsEvent, SeverityBonus, SeverityRank
<1>2. /\ base \in Nat
      /\ class = "ThresholdDetector" => base = 40
      /\ class = "QoSMismatchDetector" => base = 85
  BY DEF BaseScore
<1>3. diff \in {0, 2, 5} /\ recurs \in {0, 5}
  BY DiffScores DEF RecurrenceScore
<1>4. chained \in Int /\ 0 <= chained /\ chained <= 30 * Unit
  BY <1>1, BonusIsCapped
<1>5. Unit \in Nat \ {0} /\ Unit \div 2 \in Int /\ 0 <= Unit \div 2 /\ Unit \div 2 < Unit
  BY IncidentAnalysisAssumption DEF Unit, IncidentAnalysisAssumption
<1>6. h.trigger = i /\ h.confidence = score \div Unit
  BY DEF Hypothesis
<1> HIDE DEF h, bonus, base, diff, recurs, chained
<1>7. base + bonus + diff + recurs \in Int
  BY <1>1, <1>2, <1>3
<1>8. \A x \in Int : Unit * x \in Int
  BY <1>5
<1>9. raw \in Int /\ 100 * Unit \in Int
  BY <1>4, <1>5, <1>7, <1>8
<1> HIDE DEF raw
<1>10. score \in Int
  BY <1>5, <1>9 DEF MinOf
<1>11. h.confidence \in Int
  BY <1>5, <1>6, <1>10, Divided
<1>12. ASSUME class = "ThresholdDetector" PROVE h.confidence <= 800 + 10 * bonus
  <2>1. Unit * (base + bonus + diff + recurs) <= Unit * (50 + bonus)
    <3>1. base + bonus + diff + recurs <= 50 + bonus
      BY <1>1, <1>2, <1>3, <1>12
    <3>2. \A x, y \in Int : x <= y => Unit * x <= Unit * y
      BY <1>5
    <3> QED
      BY <1>1, <1>7, <3>1, <3>2
  <2>2. Unit * (50 + bonus) + 30 * Unit = Unit * (80 + bonus)
    BY <1>1, <1>5
  <2>3. Unit * (50 + bonus) \in Int /\ Unit * (base + bonus + diff + recurs) \in Int
    BY <1>1, <1>7, <1>8
  <2>4. raw <= Unit * (80 + bonus)
    BY <1>4, <1>5, <2>1, <2>2, <2>3 DEF raw
  <2>5. Unit * (800 + 10 * bonus + 1) = 10 * (Unit * (80 + bonus)) + Unit
    BY <1>1, <1>5
  <2>6. Unit * (80 + bonus) \in Int
    BY <1>1, <1>8
  <2>7. score < Unit * (800 + 10 * bonus + 1)
    <3>1. MinOf(raw, 100 * Unit) \in Int /\ MinOf(raw, 100 * Unit) <= Unit * (80 + bonus)
      BY <1>9, <2>4, <2>6 DEF MinOf
    <3> QED
      BY <1>5, <2>5, <2>6, <3>1
  <2>8. 800 + 10 * bonus \in Int
    BY <1>1
  <2> QED
    BY <1>5, <1>6, <1>10, <2>7, <2>8, Divided
<1>13. ASSUME class = "QoSMismatchDetector" PROVE h.confidence >= 850 + 10 * bonus
  <2>1. Unit * (85 + bonus) <= Unit * (base + bonus + diff + recurs)
    <3>1. 85 + bonus <= base + bonus + diff + recurs
      BY <1>1, <1>2, <1>3, <1>13
    <3>2. \A x, y \in Int : x <= y => Unit * x <= Unit * y
      BY <1>5
    <3> QED
      BY <1>1, <1>7, <3>1, <3>2
  <2>2. Unit * (85 + bonus) \in Int /\ Unit * (base + bonus + diff + recurs) \in Int
    BY <1>1, <1>7, <1>8
  <2>3. Unit * (85 + bonus) <= raw
    BY <1>4, <2>1, <2>2 DEF raw
  <2>4. Unit * (85 + bonus) <= 100 * Unit
    BY <1>1, <1>5
  <2>5. Unit * (850 + 10 * bonus) = 10 * (Unit * (85 + bonus))
    BY <1>1, <1>5
  <2>6. score >= Unit * (850 + 10 * bonus)
    <3>1. MinOf(raw, 100 * Unit) \in Int /\ MinOf(raw, 100 * Unit) >= Unit * (85 + bonus)
      BY <1>9, <2>2, <2>3, <2>4 DEF MinOf
    <3> QED
      BY <1>5, <2>2, <2>5, <3>1
  <2>7. 850 + 10 * bonus \in Int
    BY <1>1
  <2> QED
    BY <1>5, <1>6, <1>10, <2>6, <2>7, Divided
<1> QED
  BY <1>6, <1>11, <1>12, <1>13 DEF h, bonus
-----------------------------------------------------------------------------
(* The ranking *)

\* A hypothesis about one of the triggers.
IsAbout(events, h) == h.confidence \in Int /\ h.trigger \in Triggers(events)

\* Before, spelled out.
LEMMA BeforeMeans ==
    ASSUME NEW events, AreEvents(events), NEW g, NEW h, IsAbout(events, g), IsAbout(events, h)
    PROVE  LET rank(x) == SeverityRank[events[x.trigger].severity]
               time(x) == events[x.trigger].t
           IN  /\ {rank(g), time(g), g.trigger, rank(h), time(h), h.trigger} \subseteq Int
               /\ Before(events, g, h) <=>
                    \/ g.confidence > h.confidence
                    \/ /\ g.confidence = h.confidence
                       /\ \/ rank(g) > rank(h)
                          \/ /\ rank(g) = rank(h)
                             /\ \/ time(g) < time(h)
                                \/ time(g) = time(h) /\ g.trigger < h.trigger
<1> DEFINE rank(x) == SeverityRank[events[x.trigger].severity]
           time(x) == events[x.trigger].t
           key(x) == <<-x.confidence, -rank(x), time(x), x.trigger>>
<1>1. ASSUME NEW x, IsAbout(events, x)
      PROVE  rank(x) \in Int /\ time(x) \in Int /\ x.trigger \in Int /\ x.confidence \in Int
  BY <1>1 DEF IsAbout, AreEvents, IsEvent, Triggers, Where, SeverityRank
<1>2. Before(events, g, h) <=>
        \E n \in 1 .. 4 : /\ key(g)[n] < key(h)[n]
                          /\ \A k \in 1 .. n - 1 : key(g)[k] = key(h)[k]
  BY DEF Before
<1>3. /\ key(g)[1] = -g.confidence /\ key(g)[2] = -rank(g)
      /\ key(g)[3] = time(g) /\ key(g)[4] = g.trigger
      /\ key(h)[1] = -h.confidence /\ key(h)[2] = -rank(h)
      /\ key(h)[3] = time(h) /\ key(h)[4] = h.trigger
  OBVIOUS
<1> HIDE DEF key
<1>4. 1 .. 4 = {1, 2, 3, 4} /\ 1 .. 1 - 1 = {} /\ 1 .. 2 - 1 = {1}
      /\ 1 .. 3 - 1 = {1, 2} /\ 1 .. 4 - 1 = {1, 2, 3}
  OBVIOUS
<1>5. Before(events, g, h) <=>
        \/ key(g)[1] < key(h)[1]
        \/ key(g)[2] < key(h)[2] /\ key(g)[1] = key(h)[1]
        \/ key(g)[3] < key(h)[3] /\ key(g)[1] = key(h)[1] /\ key(g)[2] = key(h)[2]
        \/ /\ key(g)[4] < key(h)[4]
           /\ key(g)[1] = key(h)[1] /\ key(g)[2] = key(h)[2] /\ key(g)[3] = key(h)[3]
  BY <1>2, <1>4
<1>6. /\ rank(g) \in Int /\ time(g) \in Int /\ g.trigger \in Int /\ g.confidence \in Int
      /\ rank(h) \in Int /\ time(h) \in Int /\ h.trigger \in Int /\ h.confidence \in Int
  BY <1>1
<1> HIDE DEF rank, time
<1>7. Before(events, g, h) <=>
        \/ g.confidence > h.confidence
        \/ /\ g.confidence = h.confidence
           /\ \/ rank(g) > rank(h)
              \/ /\ rank(g) = rank(h)
                 /\ \/ time(g) < time(h)
                    \/ time(g) = time(h) /\ g.trigger < h.trigger
  BY <1>3, <1>5, <1>6
<1> QED
  BY <1>6, <1>7 DEF rank, time

\* It orders the hypotheses.
LEMMA BeforeIsOrder ==
    ASSUME NEW events, AreEvents(events), NEW f, NEW g, NEW h,
           IsAbout(events, f), IsAbout(events, g), IsAbout(events, h)
    PROVE  /\ ~Before(events, f, f)
           /\ Before(events, f, g) /\ Before(events, g, h) => Before(events, f, h)
<1> DEFINE rank(x) == SeverityRank[events[x.trigger].severity]
           time(x) == events[x.trigger].t
           less(x, y) == \/ x.confidence > y.confidence
                         \/ /\ x.confidence = y.confidence
                            /\ \/ rank(x) > rank(y)
                               \/ /\ rank(x) = rank(y)
                                  /\ \/ time(x) < time(y)
                                     \/ time(x) = time(y) /\ x.trigger < y.trigger
<1>1. ASSUME NEW x, NEW y, IsAbout(events, x), IsAbout(events, y)
      PROVE  /\ Before(events, x, y) <=> less(x, y)
             /\ {rank(x), time(x), x.trigger, x.confidence} \subseteq Int
  BY <1>1, BeforeMeans DEF IsAbout
<1>2. /\ ~less(f, f)
      /\ less(f, g) /\ less(g, h) => less(f, h)
  <2>1. /\ {rank(f), time(f), f.trigger, f.confidence} \subseteq Int
        /\ {rank(g), time(g), g.trigger, g.confidence} \subseteq Int
        /\ {rank(h), time(h), h.trigger, h.confidence} \subseteq Int
    BY <1>1
  <2> HIDE DEF rank, time
  <2> QED
    BY <2>1
<1> HIDE DEF less
<1> QED
  BY <1>1, <1>2

\* The causes are hypotheses about the triggers, one after the other in
\* that order, the first in place 1.
LEMMA Ranked ==
    ASSUME NEW events, AreEvents(events), NEW rows, AreRows(rows),
           NEW baseline, NEW sig, NEW prior, NEW causes,
           causes = Rank(events, rows, baseline, sig, prior)
    PROVE  /\ DOMAIN causes \subseteq Nat
           /\ \A n \in DOMAIN causes :
                \E i \in Triggers(events) :
                    causes[n] = Hypothesis(events, i, rows, baseline, sig, prior)
           /\ \A m, n \in DOMAIN causes : m < n => ~Before(events, causes[n], causes[m])
           /\ causes # <<>> => 1 \in DOMAIN causes
<1> DEFINE T == Triggers(events)
           hyp(i) == Hypothesis(events, i, rows, baseline, sig, prior)
           found == [i \in T |-> hyp(i)]
           ahead(i) == {j \in T : Before(events, found[j], found[i])}
           place == [i \in T |-> 1 + Cardinality(ahead(i))]
           first == AntiFunction(place)
<1>1. causes = [n \in DOMAIN first |-> found[first[n]]]
  BY DEF Rank
<1>2. IsFiniteSet(T)
  <2>1. T \in SUBSET DOMAIN events
    BY DEF Triggers, Where
  <2> QED
    BY <2>1, FS_Subset DEF AreEvents
<1>3. \A i \in T : IsAbout(events, found[i]) /\ found[i] = hyp(i)
  BY Scores DEF IsAbout
<1>4. DOMAIN first = {place[i] : i \in T} /\ \A n \in DOMAIN first : first[n] \in T /\ place[first[n]] = n
  <2>1. first = [n \in {place[i] : i \in T} |->
                    CHOOSE i \in T : n \in {place[j] : j \in T} => place[i] = n]
    <3>1. DOMAIN place = T
      OBVIOUS
    <3> HIDE DEF place
    <3> QED
      BY <3>1 DEF AntiFunction, Inverse, Range
  <2> HIDE DEF place, first
  <2> QED
    BY <2>1
<1> HIDE DEF found
<1>5. \A i \in T : ahead(i) \in SUBSET T /\ Cardinality(ahead(i)) \in Nat /\ IsFiniteSet(ahead(i))
  <2> TAKE i \in T
  <2>1. ahead(i) \in SUBSET T
    OBVIOUS
  <2> HIDE DEF ahead
  <2> QED
    BY <1>2, <2>1, FS_Subset, FS_CardinalityType
<1>6. \A i \in T : place[i] \in Nat \ {0} /\ place[i] = 1 + Cardinality(ahead(i))
  BY <1>5
<1>7. ASSUME NEW i \in T, NEW j \in T, Before(events, found[j], found[i])
      PROVE  place[j] < place[i]
  <2>1. /\ IsAbout(events, found[i]) /\ IsAbout(events, found[j])
        /\ \A k \in T : IsAbout(events, found[k])
    BY <1>3
  <2>2. ahead(j) \subseteq ahead(i)
    BY <1>7, <2>1, BeforeIsOrder
  <2>3. j \in ahead(i) /\ j \notin ahead(j)
    BY <1>7, <2>1, BeforeIsOrder
  <2>4. ahead(j) \in SUBSET ahead(i) /\ ahead(j) # ahead(i)
    BY <2>2, <2>3
  <2>5. Cardinality(ahead(j)) <= Cardinality(ahead(i)) /\ Cardinality(ahead(j)) # Cardinality(ahead(i))
    <3>1. IsFiniteSet(ahead(i))
      BY <1>5
    <3> HIDE DEF ahead
    <3> QED
      BY <2>4, <3>1, FS_Subset
  <2> HIDE DEF ahead, place
  <2> QED
    BY <1>5, <1>6, <2>5
<1> HIDE DEF place, first, ahead
<1>8. DOMAIN causes = DOMAIN first /\ \A n \in DOMAIN causes : causes[n] = found[first[n]]
  BY <1>1
<1>9. DOMAIN causes \subseteq Nat
  BY <1>4, <1>6, <1>8
<1>10. \A n \in DOMAIN causes : \E i \in T : causes[n] = hyp(i)
  BY <1>3, <1>4, <1>8
<1>11. \A m, n \in DOMAIN causes : m < n => ~Before(events, causes[n], causes[m])
  <2> SUFFICES ASSUME NEW m \in DOMAIN causes, NEW n \in DOMAIN causes, m < n,
                      Before(events, causes[n], causes[m])
               PROVE  FALSE
    OBVIOUS
  <2>1. place[first[n]] < place[first[m]]
    BY <1>4, <1>7, <1>8
  <2>2. n < m /\ n \in Nat /\ m \in Nat
    BY <1>4, <1>8, <1>9, <2>1
  <2> QED
    BY <2>2
<1>12. ASSUME causes # <<>> PROVE 1 \in DOMAIN causes
  <2> DEFINE P == DOMAIN first
  <2>1. P # {}
    <3>1. CASE P = {}
      <4>1. causes = [n \in {} |-> found[first[n]]]
        BY <1>1, <3>1
      <4>2. causes = <<>>
        BY <4>1
      <4> QED
        BY <1>12, <4>2
    <3> QED
      BY <3>1
  <2>2. PICK n \in P : \A m \in P : n <= m
    <3>1. P \subseteq Nat
      BY <1>4, <1>6
    <3> QED
      BY <2>1, <3>1, SmallestNumber
  <2>3. PICK i \in T : place[i] = n
    BY <1>4
  <2>4. ahead(i) = {}
    <3> SUFFICES ASSUME NEW j \in ahead(i) PROVE FALSE
      OBVIOUS
    <3>1. j \in T /\ Before(events, found[j], found[i])
      BY DEF ahead
    <3>2. place[j] < place[i] /\ place[j] \in P
      BY <1>4, <1>7, <3>1
    <3>3. place[j] \in Nat /\ n \in Nat /\ n <= place[j]
      BY <1>6, <2>2, <2>3, <3>1, <3>2
    <3> QED
      BY <2>3, <3>2, <3>3
  <2>5. n = 1
    <3>1. Cardinality({}) = 0
      BY FS_EmptySet
    <3>2. Cardinality(ahead(i)) = 0
      BY <2>4, <3>1
    <3>3. place[i] = 1 + Cardinality(ahead(i))
      BY <1>6
    <3> QED
      BY <2>3, <3>2, <3>3
  <2> QED
    BY <1>8, <2>2, <2>5
<1> QED
  BY <1>9, <1>10, <1>11, <1>12

\* Whatever the timeline shows, no threshold alarm comes before a QoS
\* mismatch of the same or a higher severity.
LEMMA QosFirst ==
    ASSUME NEW events, AreEvents(events), NEW rows, AreRows(rows),
           NEW baseline, NEW sig, NEW prior, NEW causes,
           causes = Rank(events, rows, baseline, sig, prior),
           NEW m \in DOMAIN causes, NEW n \in DOMAIN causes, m < n,
           events[causes[m].trigger].class = "ThresholdDetector",
           events[causes[n].trigger].class = "QoSMismatchDetector"
    PROVE  SeverityRank[events[causes[m].trigger].severity]
             > SeverityRank[events[causes[n].trigger].severity]
<1> DEFINE hyp(i) == Hypothesis(events, i, rows, baseline, sig, prior)
<1>1. PICK i \in Triggers(events), j \in Triggers(events) : causes[m] = hyp(i) /\ causes[n] = hyp(j)
  BY Ranked
<1>2. ~Before(events, causes[n], causes[m])
  BY Ranked
<1>3. /\ hyp(i).trigger = i /\ hyp(i).confidence \in Int
      /\ hyp(j).trigger = j /\ hyp(j).confidence \in Int
  BY Scores
<1>4. events[i].class = "ThresholdDetector" /\ events[j].class = "QoSMismatchDetector"
  BY <1>1, <1>3
<1>5. /\ hyp(i).confidence <= 800 + 10 * SeverityBonus[events[i].severity]
      /\ hyp(j).confidence >= 850 + 10 * SeverityBonus[events[j].severity]
  BY <1>4, Scores
<1> HIDE DEF hyp
<1>6. IsAbout(events, causes[m]) /\ IsAbout(events, causes[n])
  BY <1>1, <1>3 DEF IsAbout
<1>7. ~(causes[n].confidence > causes[m].confidence)
  BY <1>2, <1>6, BeforeMeans
<1>8. SeverityBonus[events[i].severity] > SeverityBonus[events[j].severity]
      /\ events[i].severity \in DOMAIN SeverityRank /\ events[j].severity \in DOMAIN SeverityRank
  <2>1. /\ events[i].severity \in DOMAIN SeverityRank /\ events[j].severity \in DOMAIN SeverityRank
    BY DEF Triggers, Where, AreEvents, IsEvent
  <2>2. /\ SeverityBonus[events[i].severity] \in Nat /\ SeverityBonus[events[j].severity] \in Nat
    BY <2>1 DEF SeverityRank, SeverityBonus
  <2> QED
    BY <1>1, <1>3, <1>5, <1>7, <2>1, <2>2
<1> QED
  BY <1>1, <1>3, <1>8 DEF SeverityRank, SeverityBonus
-----------------------------------------------------------------------------
(* Fingerprints *)

\* Of some events one is the latest.
LEMMA LatestIsOne ==
    ASSUME NEW events, AreEvents(events), NEW S, S \subseteq DOMAIN events, S # {}
    PROVE  Latest(events, S) \in S
<1>1. /\ IsFiniteSet(S)
      /\ \A i \in S : i \in Nat /\ events[i].t \in Int
  <2>1. S \in SUBSET DOMAIN events
    OBVIOUS
  <2> QED
    BY <2>1, FS_Subset DEF AreEvents, IsEvent
<1>2. \A i, j, k \in S : /\ ~Earlier(events, i, i)
                         /\ i # j => Earlier(events, i, j) \/ Earlier(events, j, i)
                         /\ Earlier(events, i, j) /\ Earlier(events, j, k) => Earlier(events, i, k)
  BY <1>1 DEF Earlier
<1> DEFINE later(i) == {j \in S : Earlier(events, i, j)}
           N == {Cardinality(later(i)) : i \in S}
<1>3. \A i \in S : later(i) \in SUBSET S /\ IsFiniteSet(later(i)) /\ Cardinality(later(i)) \in Nat
  <2> TAKE i \in S
  <2>1. later(i) \in SUBSET S
    OBVIOUS
  <2> HIDE DEF later
  <2> QED
    BY <1>1, <2>1, FS_Subset, FS_CardinalityType
<1>4. PICK n \in N : \A m \in N : n <= m
  <2>1. N \subseteq Nat /\ N # {}
    BY <1>3
  <2> QED
    BY <2>1, SmallestNumber
<1>5. PICK i \in S : n = Cardinality(later(i))
  BY <1>4
<1>6. \A j \in S \ {i} : Earlier(events, j, i)
  <2> SUFFICES ASSUME NEW j \in S \ {i}, ~Earlier(events, j, i) PROVE FALSE
    OBVIOUS
  <2>1. j \in later(i) /\ j \notin later(j) /\ later(j) \subseteq later(i)
    BY <1>2
  <2>2. later(j) \in SUBSET later(i) /\ later(j) # later(i) /\ IsFiniteSet(later(i))
    BY <1>3, <2>1
  <2>3. Cardinality(later(j)) \in N
    OBVIOUS
  <2> HIDE DEF later
  <2>4. /\ Cardinality(later(j)) <= Cardinality(later(i))
        /\ Cardinality(later(j)) # Cardinality(later(i))
    BY <2>2, FS_Subset
  <2> HIDE DEF N
  <2>5. n <= Cardinality(later(j)) /\ n \in Nat /\ Cardinality(later(j)) \in Nat
    BY <1>3, <1>4, <1>5, <2>3
  <2> QED
    BY <1>5, <2>4, <2>5
<1> QED
  BY <1>6 DEF Latest

\* The same events, only later.
Shifted(events, later) == [i \in DOMAIN events |-> [events[i] EXCEPT !.t = @ + later]]

LEMMA ShiftedEvents ==
    ASSUME NEW e, AreEvents(e), NEW d \in Int, NEW f, f = Shifted(e, d)
    PROVE  /\ DOMAIN f = DOMAIN e
           /\ \A i \in DOMAIN e :
                /\ e[i].t \in Int /\ f[i].t = e[i].t + d
                /\ f[i].type = e[i].type /\ f[i].subject = e[i].subject
                /\ f[i].value = e[i].value /\ f[i].class = e[i].class
           /\ \A type : Where(f, type) = Where(e, type)
           /\ \A i, j \in DOMAIN e : Earlier(f, i, j) <=> Earlier(e, i, j)
           /\ \A S \in SUBSET DOMAIN e : Latest(f, S) = Latest(e, S)
           /\ \A t \in Int : \A i \in DOMAIN e : f[i].t <= t + d <=> e[i].t <= t
<1>1. DOMAIN f = DOMAIN e
  BY DEF Shifted
<1>2. ASSUME NEW i \in DOMAIN e
      PROVE  /\ e[i].t \in Int /\ f[i].t = e[i].t + d
             /\ f[i].type = e[i].type /\ f[i].subject = e[i].subject
             /\ f[i].value = e[i].value /\ f[i].class = e[i].class
  <2>1. IsEvent(e[i]) /\ f[i] = [e[i] EXCEPT !.t = @ + d]
    BY DEF AreEvents, Shifted
  <2> QED
    BY <2>1 DEF IsEvent
<1>3. \A type : Where(f, type) = Where(e, type)
  BY <1>1, <1>2 DEF Where
<1>4. \A i, j \in DOMAIN e : Earlier(f, i, j) <=> Earlier(e, i, j)
  <2> TAKE i, j \in DOMAIN e
  <2>1. /\ e[i].t \in Int /\ f[i].t = e[i].t + d
        /\ e[j].t \in Int /\ f[j].t = e[j].t + d
    BY <1>2
  <2>2. (f[i].t < f[j].t <=> e[i].t < e[j].t) /\ (f[i].t = f[j].t <=> e[i].t = e[j].t)
    <3>1. \A x, y \in Int : (x + d < y + d <=> x < y) /\ (x + d = y + d <=> x = y)
      OBVIOUS
    <3>2. PICK x \in Int, y \in Int : x = e[i].t /\ y = e[j].t
      BY <2>1
    <3>3. f[i].t = x + d /\ f[j].t = y + d
      BY <2>1, <3>2
    <3>4. (x + d < y + d <=> x < y) /\ (x + d = y + d <=> x = y)
      BY <3>1
    <3> QED
      BY <3>2, <3>3, <3>4
  <2> QED
    BY <2>2 DEF Earlier
<1>5. ASSUME NEW S \in SUBSET DOMAIN e PROVE Latest(f, S) = Latest(e, S)
  <2>1. \A i \in S : (\A j \in S \ {i} : Earlier(f, j, i)) <=> (\A j \in S \ {i} : Earlier(e, j, i))
    BY <1>4
  <2> QED
    BY <2>1 DEF Latest
<1>6. \A t \in Int : \A i \in DOMAIN e : f[i].t <= t + d <=> e[i].t <= t
  BY <1>2
<1> QED
  BY <1>1, <1>2, <1>3, <1>4, <1>5, <1>6

\* The snapshots of a window that lies later are taken later by as much.
LEMMA ShiftedTimes ==
    ASSUME NEW w, IsWindow(w), NEW v, IsWindow(v), NEW d \in Int,
           v.start = w.start + d, v.end = w.end + d
    PROVE  /\ DOMAIN SnapshotTimes(v) = DOMAIN SnapshotTimes(w)
           /\ \A n \in DOMAIN SnapshotTimes(w) : SnapshotTimes(v)[n] = SnapshotTimes(w)[n] + d
<1> DEFINE span == w.end - w.start
           steps == span \div Cadence + 1
           Times(u) ==
             IF span < 0 THEN <<>>
             ELSE IF steps <= MaxSnapshots THEN [n \in 1 .. steps |-> u.start + (n - 1) * Cadence]
             ELSE [n \in 1 .. MaxSnapshots |-> u.start + ((n - 1) * span) \div (MaxSnapshots - 1)]
<1>1. v.end - v.start = span /\ w.start \in Int /\ v.start \in Int /\ span \in Int
  BY DEF IsWindow
<1>2. Cadence \in Nat \ {0} /\ MaxSnapshots \in Nat \ {0, 1}
  BY IncidentAnalysisAssumption DEF IncidentAnalysisAssumption
<1>3. SnapshotTimes(w) = Times(w) /\ SnapshotTimes(v) = Times(v)
  BY <1>1 DEF SnapshotTimes
<1> HIDE DEF span, steps
<1>4. \A n \in Nat : (n - 1) * Cadence \in Int
  BY <1>2
<1>5. \A n \in Nat : ((n - 1) * span) \div (MaxSnapshots - 1) \in Int
  <2> TAKE n \in Nat
  <2>1. (n - 1) * span \in Int /\ MaxSnapshots - 1 \in Nat \ {0}
    BY <1>1, <1>2
  <2>2. \A a \in Int : \A b \in Nat \ {0} : a \div b \in Int
    OBVIOUS
  <2> QED
    BY <2>1, <2>2
<1>6. \A x \in Int : v.start + x = w.start + x + d
  BY <1>1
<1>7. CASE span < 0
  BY <1>3, <1>7
<1>8. CASE ~(span < 0) /\ steps <= MaxSnapshots
  <2>1. /\ SnapshotTimes(w) = [n \in 1 .. steps |-> w.start + (n - 1) * Cadence]
        /\ SnapshotTimes(v) = [n \in 1 .. steps |-> v.start + (n - 1) * Cadence]
    BY <1>3, <1>8
  <2> QED
    BY <1>4, <1>6, <2>1
<1>9. CASE ~(span < 0) /\ ~(steps <= MaxSnapshots)
  <2>1. /\ SnapshotTimes(w) = [n \in 1 .. MaxSnapshots |->
                                w.start + ((n - 1) * span) \div (MaxSnapshots - 1)]
        /\ SnapshotTimes(v) = [n \in 1 .. MaxSnapshots |->
                                v.start + ((n - 1) * span) \div (MaxSnapshots - 1)]
    BY <1>3, <1>9
  <2> QED
    BY <1>5, <1>6, <2>1
<1> QED
  BY <1>7, <1>8, <1>9

\* A snapshot taken later of what happened later shows the same topics.
LEMMA ShiftedTopics ==
    ASSUME NEW e, AreEvents(e), NEW d \in Int, NEW f, f = Shifted(e, d), NEW t \in Int
    PROVE  /\ NothingAt(f, t + d) <=> NothingAt(e, t)
           /\ TopicsAt(f, t + d) = TopicsAt(e, t)
<1> DEFINE D == DOMAIN e
           seen == {i \in D : e[i].t <= t}
<1>1. /\ DOMAIN f = D
      /\ \A i \in D : /\ f[i].type = e[i].type /\ f[i].subject = e[i].subject
                      /\ f[i].value = e[i].value /\ f[i].class = e[i].class
                      /\ f[i].t <= t + d <=> e[i].t <= t
      /\ \A type : Where(f, type) = Where(e, type) /\ Where(e, type) \subseteq D
      /\ \A S \in SUBSET D : Latest(f, S) = Latest(e, S)
  <2>1. \A type : Where(e, type) \subseteq D
    BY DEF Where
  <2>2. \A i \in D : f[i].t <= t + d <=> e[i].t <= t
    BY ShiftedEvents
  <2>3. /\ DOMAIN f = D
        /\ \A i \in D : /\ f[i].type = e[i].type /\ f[i].subject = e[i].subject
                        /\ f[i].value = e[i].value /\ f[i].class = e[i].class
    BY ShiftedEvents
  <2>4. /\ \A type : Where(f, type) = Where(e, type)
        /\ \A S \in SUBSET D : Latest(f, S) = Latest(e, S)
    BY ShiftedEvents
  <2> QED
    BY <2>1, <2>2, <2>3, <2>4
<1>2. \A S \in SUBSET D : S # {} => Latest(e, S) \in D
  BY LatestIsOne
<1>3. {i \in DOMAIN f : f[i].t <= t + d} = seen
  BY <1>1
<1>4. NothingAt(f, t + d) <=> NothingAt(e, t)
  <2> DEFINE gpu(g, u) == {j \in Where(g, "system.gpu") : g[j].t <= u}
  <2>1. gpu(f, t + d) = gpu(e, t) /\ gpu(e, t) \in SUBSET D
    BY <1>1
  <2>2. ASSUME NEW i \in D, e[i].t <= t, e[i].type = "system.gpu"
        PROVE  f[Latest(f, gpu(f, t + d))].value = e[Latest(e, gpu(e, t))].value
    <3>1. i \in gpu(e, t)
      BY <2>2 DEF Where
    <3> HIDE DEF gpu
    <3>2. Latest(f, gpu(e, t)) = Latest(e, gpu(e, t)) /\ Latest(e, gpu(e, t)) \in D
      BY <1>1, <1>2, <2>1, <3>1
    <3> QED
      BY <1>1, <2>1, <3>2
  <2> DEFINE blank(g, u, i) == \/ g[i].type = "anomaly"
                               \/ g[i].type = "system.gpu" /\ g[Latest(g, gpu(g, u))].value = 0
  <2>3. /\ NothingAt(f, t + d) <=> \A i \in DOMAIN f : f[i].t <= t + d => blank(f, t + d, i)
        /\ NothingAt(e, t) <=> \A i \in D : e[i].t <= t => blank(e, t, i)
    BY DEF NothingAt
  <2>4. \A i \in D : e[i].t <= t => (blank(f, t + d, i) <=> blank(e, t, i))
    <3> HIDE DEF gpu
    <3> QED
      BY <1>1, <2>2
  <2> HIDE DEF blank
  <2> QED
    BY <1>1, <2>3, <2>4
<1>5. TopicsAt(f, t + d) = TopicsAt(e, t)
  <2> DEFINE qos(g, p) == {i \in seen \cap Where(e, "ros.qos") : g[i].subject = p}
             label(g, p) == {i \in qos(g, p) : g[i].class # None}
             known(g) == {g[i].subject : i \in seen \cap
                            (Where(e, "ros.qos") \cup Where(e, "ros.frequency"))}
             view(g, p) ==
               [pubs |-> IF qos(g, p) = {} THEN 0 ELSE g[Latest(g, qos(g, p))].value,
                qos  |-> IF label(g, p) = {} THEN None ELSE g[Latest(g, label(g, p))].class]
  <2>1. /\ TopicsAt(f, t + d) = [p \in known(f) |-> view(f, p)]
        /\ TopicsAt(e, t) = [p \in known(e) |-> view(e, p)]
    <3>1. /\ {i \in DOMAIN f : f[i].t <= t + d} = seen
          /\ Where(f, "ros.qos") = Where(e, "ros.qos")
          /\ Where(f, "ros.frequency") = Where(e, "ros.frequency")
      BY <1>1, <1>3
    <3> HIDE DEF seen
    <3>2. TopicsAt(f, t + d) = [p \in known(f) |-> view(f, p)]
      BY <3>1 DEF TopicsAt
    <3>3. TopicsAt(e, t) = [p \in known(e) |-> view(e, p)]
      BY DEF TopicsAt, seen
    <3> QED
      BY <3>2, <3>3
  <2>2. known(f) = known(e)
    BY <1>1
  <2>3. ASSUME NEW p PROVE view(f, p) = view(e, p)
    <3>1. qos(f, p) = qos(e, p) /\ qos(e, p) \in SUBSET D
      BY <1>1
    <3>2. label(f, p) = label(e, p) /\ label(e, p) \in SUBSET D
      BY <1>1
    <3> HIDE DEF qos, label
    <3>3. qos(e, p) # {} => /\ Latest(f, qos(e, p)) = Latest(e, qos(e, p))
                            /\ Latest(e, qos(e, p)) \in D
      BY <1>1, <1>2, <3>1
    <3>4. label(e, p) # {} => /\ Latest(f, label(e, p)) = Latest(e, label(e, p))
                              /\ Latest(e, label(e, p)) \in D
      BY <1>1, <1>2, <3>2
    <3>5. qos(e, p) # {} => f[Latest(f, qos(f, p))].value = e[Latest(e, qos(e, p))].value
      BY <1>1, <3>1, <3>3
    <3>6. label(e, p) # {} => f[Latest(f, label(f, p))].class = e[Latest(e, label(e, p))].class
      BY <1>1, <3>2, <3>4
    <3> QED
      BY <3>1, <3>2, <3>5, <3>6
  <2> HIDE DEF known, view
  <2> QED
    BY <2>1, <2>2, <2>3
<1> QED
  BY <1>4, <1>5

\* The same failure has the same fingerprint, whenever it happens.
LEMMA ShiftedFingerprint ==
    ASSUME NEW e, AreEvents(e), NEW w, IsWindow(w), NEW v, IsWindow(v),
           NEW d \in Int, v.start = w.start + d, v.end = w.end + d,
           NEW f, f = Shifted(e, d)
    PROVE  Fingerprint(f, v) = Fingerprint(e, w)
<1> DEFINE old == Snapshots(e, w)
           new == Snapshots(f, v)
           N == {n \in DOMAIN SnapshotTimes(w) : ~NothingAt(e, SnapshotTimes(w)[n])}
<1>1. \A n \in DOMAIN SnapshotTimes(w) :
        LET t == SnapshotTimes(w)[n]
        IN  /\ SnapshotTimes(v)[n] = t + d
            /\ NothingAt(f, t + d) <=> NothingAt(e, t)
            /\ TopicsAt(f, t + d) = TopicsAt(e, t)
  <2> TAKE n \in DOMAIN SnapshotTimes(w)
  <2> DEFINE t == SnapshotTimes(w)[n]
  <2>1. t \in Int /\ SnapshotTimes(v)[n] = t + d
    BY TimesAreNumbers, ShiftedTimes
  <2> HIDE DEF t
  <2>2. (NothingAt(f, t + d) <=> NothingAt(e, t)) /\ TopicsAt(f, t + d) = TopicsAt(e, t)
    BY <2>1, ShiftedTopics
  <2> QED
    BY <2>1, <2>2 DEF t
<1>2. /\ DOMAIN old = N /\ DOMAIN new = N
      /\ \A n \in N : new[n].topics = old[n].topics
  <2>1. DOMAIN SnapshotTimes(v) = DOMAIN SnapshotTimes(w)
    BY ShiftedTimes
  <2> QED
    BY <1>1, <2>1 DEF Snapshots
<1> HIDE DEF old, new, N
<1> DEFINE shown(s) == UNION {{<<p, s[n].topics[p].qos>> : p \in DOMAIN s[n].topics} : n \in N}
<1>3. shown(new) = shown(old)
  BY <1>2
<1>4. /\ Triggers(f) = Triggers(e) /\ Triggers(e) \subseteq DOMAIN e
      /\ \A i \in Triggers(e) : f[i].class = e[i].class /\ f[i].subject = e[i].subject
  BY ShiftedEvents DEF Triggers, Where
<1> DEFINE signed(g, i) == <<g[i].class, g[i].subject>>
           keys(g) == {signed(g, i) : i \in Triggers(e)}
           classes(g) == {g[i].class : i \in Triggers(e)}
           count(g, key) == Cardinality({i \in Triggers(e) : signed(g, i) = key})
<1>5. classes(f) = classes(e) /\ keys(f) = keys(e)
  BY <1>4
<1>6. \A key : count(f, key) = count(e, key)
  <2> TAKE key
  <2>1. {i \in Triggers(e) : signed(f, i) = key} = {i \in Triggers(e) : signed(e, i) = key}
    BY <1>4
  <2> QED
    BY <2>1
<1>7. /\ Fingerprint(f, v) =
            [classes |-> classes(f), fields |-> [key \in keys(f) |-> count(f, key)],
             topology |-> IF N = {} THEN None ELSE shown(new)]
      /\ Fingerprint(e, w) =
            [classes |-> classes(e), fields |-> [key \in keys(e) |-> count(e, key)],
             topology |-> IF N = {} THEN None ELSE shown(old)]
  BY <1>2, <1>4 DEF Fingerprint, old, new
<1> HIDE DEF classes, keys, count, shown
<1> QED
  BY <1>3, <1>5, <1>6, <1>7
-----------------------------------------------------------------------------
(* The invariant *)

\* A record that Build made and the steps of a build changed.
IsBuild(b) ==
    /\ b = [id |-> b.id, window |-> b.window, host |-> b.host, events |-> b.events,
            sig |-> b.sig, fingerprint |-> b.fingerprint, pc |-> b.pc, step |-> b.step,
            best |-> b.best, baseline |-> b.baseline, prior |-> b.prior, causes |-> b.causes]
    /\ b.pc \in {"scan", "load", "rank", "open", "fill", "done", "dead"}
    /\ b.step \in DOMAIN FileOrder

BuiltOK ==
    /\ built \in Seq(Range(built))
    /\ \A n \in DOMAIN built : IsBuild(built[n])

\* The builds that wrote, or will write, into a bundle.
Writers(id) == {n \in DOMAIN built : built[n].id = id}

\* A bundle has the files of a bundle, by a build of its own each.
StoreOK ==
    /\ store = [id \in {built[n].id : n \in DOMAIN built} |-> store[id]]
    /\ \A id \in DOMAIN store :
        /\ store[id] = [file \in Files |-> store[id][file]]
        /\ \A file \in Files : store[id][file] \in {Absent, Torn} \cup Writers(id)

\* How far the only writer of a bundle came: the files before its step are
\* complete, those after it are not there, the one it is at never complete.
WrittenUpTo(n) ==
    \A k \in DOMAIN FileOrder :
        LET content == store[built[n].id][FileOrder[k]]
        IN  /\ built[n].pc = "done" \/ k < built[n].step => content = n
            /\ built[n].pc # "done" /\ k > built[n].step => content = Absent
            /\ built[n].pc # "done" /\ k = built[n].step => content \in {Absent, Torn}
            /\ built[n].pc = "fill" /\ k = built[n].step => content = Torn

InOrder ==
    \A n \in DOMAIN built : AloneIn(built[n].id) => WrittenUpTo(n)

\* A build of this robot whose window ended before that of another began.
Past(n, m) == built[m].host = Here /\ built[m].window.end < built[n].window.start

\* What a build knows of other bundles was written by builds of the past.
PastOnly(n) ==
    LET b == built[n]
    IN  /\ b.best # None => \E m \in Writers(b.best) : Past(n, m)
        /\ b.pc = "scan" => b.baseline = None
        /\ b.baseline # None => b.best # None /\ b.baseline.from \subseteq Writers(b.best)
        /\ \A id \in b.prior : \E m \in Writers(id) : Past(n, m)

KnowsThePast == \A n \in DOMAIN built : PastOnly(n)

IInv == BuiltOK /\ StoreOK /\ InOrder /\ KnowsThePast
-----------------------------------------------------------------------------
(* Files and sequences *)

\* The files of a bundle, and the last two in the order of writing.
LEMMA FilesAreOrdered ==
    /\ DOMAIN FileOrder = 1 .. 6 /\ Len(FileOrder) = 6
    /\ FileOrder[5] = "incident.json" /\ FileOrder[6] = "report.md"
    /\ Files = {FileOrder[k] : k \in 1 .. 6}
    /\ \A j, k \in 1 .. 6 : FileOrder[j] = FileOrder[k] => j = k
BY DEF FileOrder, Files, Range

\* A sequence with one element more.
LEMMA AppendedTo ==
    ASSUME NEW s, s \in Seq(Range(s)), NEW e
    PROVE  /\ Append(s, e) \in Seq(Range(Append(s, e)))
           /\ DOMAIN Append(s, e) = DOMAIN s \cup {Len(s) + 1}
           /\ Len(s) + 1 \notin DOMAIN s
           /\ \A n \in DOMAIN s : Append(s, e)[n] = s[n]
           /\ Append(s, e)[Len(s) + 1] = e
<1> DEFINE S == Range(s) \cup {e}
           t == Append(s, e)
<1>1. s \in Seq(S)
  BY DEF Range
<1>2. /\ t \in Seq(S) /\ Len(t) = Len(s) + 1 /\ Len(s) \in Nat
      /\ DOMAIN t = 1 .. Len(t) /\ DOMAIN s = 1 .. Len(s)
      /\ \A n \in DOMAIN s : t[n] = s[n]
      /\ t[Len(s) + 1] = e
  BY <1>1
<1> HIDE DEF t
<1>3. t \in [1 .. Len(t) -> Range(t)]
  <2>1. t = [k \in 1 .. Len(t) |-> t[k]] BY <1>2
  <2> QED BY <1>2, <2>1 DEF Range
<1>4. t \in Seq(Range(t))
  BY <1>2, <1>3, SeqDef
<1> QED
  BY <1>2, <1>4 DEF t

\* A sequence with one element changed.
LEMMA ChangedAt ==
    ASSUME NEW s, s \in Seq(Range(s)), NEW t, DOMAIN t = DOMAIN s,
           t = [n \in DOMAIN s |-> t[n]]
    PROVE  t \in Seq(Range(t))
<1>1. Len(s) \in Nat /\ DOMAIN s = 1 .. Len(s)
  OBVIOUS
<1>2. t \in [1 .. Len(s) -> Range(t)]
  BY <1>1 DEF Range
<1> QED
  BY <1>1, <1>2, SeqDef
-----------------------------------------------------------------------------
(* The steps of a build *)

\* A build changes none of what identifies it, nor what it is about.
Same(b, c) ==
    /\ c.id = b.id /\ c.window = b.window /\ c.host = b.host
    /\ c.events = b.events /\ c.sig = b.sig /\ c.fingerprint = b.fingerprint

\* A record with one field changed.
LEMMA FieldChanged ==
    ASSUME NEW b, IsBuild(b), NEW v
    PROVE  /\ \A c \in {[b EXCEPT !.best = v], [b EXCEPT !.baseline = v],
                        [b EXCEPT !.prior = v], [b EXCEPT !.causes = v]} :
                IsBuild(c) /\ Same(b, c) /\ c.pc = b.pc /\ c.step = b.step
           /\ v \in {"scan", "load", "rank", "open", "fill", "done", "dead"} =>
                LET c == [b EXCEPT !.pc = v]
                IN  IsBuild(c) /\ Same(b, c) /\ c.pc = v /\ c.step = b.step
           /\ v \in DOMAIN FileOrder =>
                LET c == [b EXCEPT !.step = v]
                IN  IsBuild(c) /\ Same(b, c) /\ c.pc = b.pc /\ c.step = v
<1>1. IsBuild([b EXCEPT !.best = v]) BY DEF IsBuild
<1>2. IsBuild([b EXCEPT !.baseline = v]) BY DEF IsBuild
<1>3. IsBuild([b EXCEPT !.prior = v]) BY DEF IsBuild
<1>4. IsBuild([b EXCEPT !.causes = v]) BY DEF IsBuild
<1>5. v \in {"scan", "load", "rank", "open", "fill", "done", "dead"} => IsBuild([b EXCEPT !.pc = v])
  BY DEF IsBuild
<1>6. v \in DOMAIN FileOrder => IsBuild([b EXCEPT !.step = v])
  BY DEF IsBuild
<1> QED
  BY <1>1, <1>2, <1>3, <1>4, <1>5, <1>6 DEF IsBuild, Same

\* A step of build n leaves the others alone.
Keeps(n) ==
    /\ DOMAIN built' = DOMAIN built
    /\ \A m \in DOMAIN built : m # n => built'[m] = built[m]
    /\ \A m \in DOMAIN built : Same(built[m], built'[m])

\* Every step of a build changes its own record only.
LEMMA StepKeeps ==
    ASSUME BuiltOK, NEW n \in DOMAIN built, BuildStep(n)
    PROVE  BuiltOK' /\ Keeps(n)
<1> DEFINE b == built[n]
           Changed(c) == built' = [built EXCEPT ![n] = c] /\ Same(b, c) /\ IsBuild(c)
<1>1. IsBuild(b)
  BY DEF BuiltOK
<1>2. ASSUME NEW c, Changed(c) PROVE BuiltOK' /\ Keeps(n)
  <2>1. built' = [m \in DOMAIN built |-> built'[m]] /\ DOMAIN built' = DOMAIN built
    BY <1>2
  <2>2. built' \in Seq(Range(built'))
    BY <2>1, ChangedAt DEF BuiltOK
  <2>3. \A m \in DOMAIN built' : IsBuild(built'[m])
    BY <1>2 DEF BuiltOK
  <2>4. Keeps(n)
    BY <1>2 DEF Keeps, Same
  <2> QED
    BY <2>2, <2>3, <2>4 DEF BuiltOK, IsBuild, FileOrder
<1>3. CASE Scan(n)
  <2>1. PICK best : built' = [built EXCEPT ![n].pc = "load", ![n].best = best]
    BY <1>3 DEF Scan
  <2> DEFINE c == [b EXCEPT !.pc = "load"]
             d == [c EXCEPT !.best = best]
  <2>2. built' = [built EXCEPT ![n] = d]
    BY <2>1
  <2>3. IsBuild(c) /\ Same(b, c)
    BY <1>1, FieldChanged
  <2>4. IsBuild(d) /\ Same(c, d)
    BY <2>3, FieldChanged
  <2> QED
    BY <1>2, <2>2, <2>3, <2>4 DEF Same
<1>4. CASE LoadBaseline(n)
  <2>1. PICK base : built' = [built EXCEPT ![n].pc = "rank", ![n].baseline = base]
    BY <1>4 DEF LoadBaseline
  <2> DEFINE c == [b EXCEPT !.pc = "rank"]
             d == [c EXCEPT !.baseline = base]
  <2>2. built' = [built EXCEPT ![n] = d]
    BY <2>1
  <2>3. IsBuild(c) /\ Same(b, c)
    BY <1>1, FieldChanged
  <2>4. IsBuild(d) /\ Same(c, d)
    BY <2>3, FieldChanged
  <2> QED
    BY <1>2, <2>2, <2>3, <2>4 DEF Same
<1>5. CASE RankCauses(n)
  <2>1. PICK prior, causes :
            built' = [built EXCEPT ![n].pc = "open", ![n].prior = prior, ![n].causes = causes]
    BY <1>5 DEF RankCauses
  <2> DEFINE c == [b EXCEPT !.pc = "open"]
             d == [c EXCEPT !.prior = prior]
             e == [d EXCEPT !.causes = causes]
  <2>2. built' = [built EXCEPT ![n] = e]
    BY <2>1
  <2>3. IsBuild(c) /\ Same(b, c)
    BY <1>1, FieldChanged
  <2>4. IsBuild(d) /\ Same(c, d)
    BY <2>3, FieldChanged
  <2>5. IsBuild(e) /\ Same(d, e)
    BY <2>4, FieldChanged
  <2> QED
    BY <1>2, <2>2, <2>3, <2>4, <2>5 DEF Same
<1>6. CASE Open(n)
  BY <1>1, <1>2, <1>6, FieldChanged DEF Open
<1>7. CASE RenderFails(n) \/ Die(n)
  BY <1>1, <1>2, <1>7, FieldChanged DEF RenderFails, Die
<1>8. CASE Fill(n)
  <2>1. PICK pc \in {"done", "open"}, step \in DOMAIN FileOrder :
            built' = [built EXCEPT ![n].pc = pc, ![n].step = step]
    <3>1. b.step \in 1 .. 6 /\ DOMAIN FileOrder = 1 .. 6 /\ Len(FileOrder) = 6
      BY <1>1, FilesAreOrdered DEF IsBuild
    <3> DEFINE p == IF b.step = 6 THEN "done" ELSE "open"
               k == IF b.step = 6 THEN b.step ELSE b.step + 1
    <3>2. built' = [built EXCEPT ![n].pc = p, ![n].step = k]
      BY <1>1, <1>8, <3>1 DEF Fill, IsBuild
    <3>3. p \in {"done", "open"} /\ k \in DOMAIN FileOrder
      BY <3>1
    <3> HIDE DEF p, k
    <3> QED
      BY <3>2, <3>3
  <2> DEFINE c == [b EXCEPT !.pc = pc]
             d == [c EXCEPT !.step = step]
  <2>2. built' = [built EXCEPT ![n] = d]
    BY <2>1
  <2>3. IsBuild(c) /\ Same(b, c)
    BY <1>1, FieldChanged
  <2>4. IsBuild(d) /\ Same(c, d)
    BY <2>3, FieldChanged
  <2> QED
    BY <1>2, <2>2, <2>3, <2>4 DEF Same
<1> QED
  BY <1>3, <1>4, <1>5, <1>6, <1>7, <1>8 DEF BuildStep

\* Who writes into a bundle does not change by it.
LEMMA KeptWriters ==
    ASSUME NEW n \in DOMAIN built, Keeps(n), NEW id
    PROVE  Writers(id)' = Writers(id) /\ AloneIn(id)' = AloneIn(id)
<1>1. Writers(id)' = Writers(id)
  BY DEF Writers, Keeps, Same
<1> QED
  BY <1>1 DEF Writers, AloneIn

\* A bundle of one build has no other.
LEMMA OnlyWriter ==
    BuiltOK => \A n \in DOMAIN built : AloneIn(built[n].id) => Writers(built[n].id) = {n}
<1> SUFFICES ASSUME BuiltOK, NEW n \in DOMAIN built, AloneIn(built[n].id)
             PROVE  Writers(built[n].id) = {n}
    OBVIOUS
<1> DEFINE W == Writers(built[n].id)
<1>1. IsFiniteSet(W)
  <2>1. Len(built) \in Nat /\ DOMAIN built = 1 .. Len(built)
    BY DEF BuiltOK
  <2>2. IsFiniteSet(1 .. Len(built)) /\ W \subseteq 1 .. Len(built)
    BY <2>1, FS_Interval DEF Writers
  <2> QED
    BY <2>2, FS_Subset
<1>2. Cardinality(W) = 1
  BY DEF AloneIn, Writers
<1>3. \E k : W = {k}
  BY <1>1, <1>2, FS_Singleton
<1> QED
  BY <1>3 DEF Writers

\* The same after a step.
LEMMA OnlyWriterThen ==
    (BuiltOK => \A n \in DOMAIN built : AloneIn(built[n].id) => Writers(built[n].id) = {n})'
BY OnlyWriter, PTL

\* A file that can be read was written by a build of its bundle.
LEMMA ReadableWriter ==
    ASSUME BuiltOK, StoreOK, NEW id \in DOMAIN store, NEW file \in Files, Readable(id, file)
    PROVE  store[id][file] \in Writers(id)
BY IncidentBuilderAssumption DEF StoreOK, Readable, IncidentBuilderAssumption

\* A build opens and fills files of its own bundle.
LEMMA StoreStep ==
    ASSUME BuiltOK, StoreOK, NEW n \in DOMAIN built, BuildStep(n)
    PROVE  StoreOK'
<1> DEFINE id == built[n].id
<1>1. Keeps(n) /\ \A i : Writers(i)' = Writers(i)
  BY StepKeeps, KeptWriters
<1>2. {built'[m].id : m \in DOMAIN built'} = {built[m].id : m \in DOMAIN built}
  BY <1>1 DEF Keeps, Same
<1>3. Files' = Files
  BY DEF Files, FileOrder, Range
<1>4. NextFile(n) \in Files /\ id \in DOMAIN store /\ n \in Writers(id)
  BY FilesAreOrdered DEF NextFile, BuiltOK, IsBuild, StoreOK, Writers
<1>5. ASSUME NEW content \in {Torn, n},
             store' = [store EXCEPT ![id][NextFile(n)] = content]
      PROVE  StoreOK'
  <2>1. store' = [i \in {built[m].id : m \in DOMAIN built} |-> store'[i]]
    BY <1>5 DEF StoreOK
  <2>2. \A i \in DOMAIN store' : store'[i] = [file \in Files |-> store'[i][file]]
    BY <1>4, <1>5 DEF StoreOK
  <2>3. \A i \in DOMAIN store' : \A file \in Files :
            store'[i][file] \in {Absent, Torn} \cup Writers(i)
    BY <1>4, <1>5 DEF StoreOK
  <2> QED
    BY <1>1, <1>2, <1>3, <2>1, <2>2, <2>3 DEF StoreOK
<1>6. CASE Open(n) BY <1>5, <1>6 DEF Open
<1>7. CASE Fill(n) BY <1>5, <1>7 DEF Fill
<1>8. CASE UNCHANGED store
  BY <1>1, <1>2, <1>3, <1>8 DEF StoreOK
<1> QED
  BY <1>6, <1>7, <1>8 DEF BuildStep, Scan, LoadBaseline, RankCauses, RenderFails, Die

\* A build writes the files of a bundle that it has for itself in order.
LEMMA OrderStep ==
    ASSUME BuiltOK, StoreOK, InOrder, NEW n \in DOMAIN built, BuildStep(n)
    PROVE  InOrder'
<1>1. BuiltOK' /\ Keeps(n) /\ \A id : Writers(id)' = Writers(id) /\ AloneIn(id)' = AloneIn(id)
  BY StepKeeps, KeptWriters
<1> SUFFICES ASSUME NEW m \in DOMAIN built, AloneIn(built[m].id)
             PROVE  WrittenUpTo(m)'
  BY <1>1 DEF InOrder, Keeps, Same
<1>2. WrittenUpTo(m) /\ Writers(built[m].id) = {m}
  BY OnlyWriter DEF InOrder
<1>3. FileOrder' = FileOrder
  BY DEF FileOrder
<1>4. built'[m].id = built[m].id /\ m \in DOMAIN built'
  BY <1>1 DEF Keeps, Same
<1>5. CASE m # n
  <2>1. built[n].id # built[m].id /\ built'[m] = built[m]
    BY <1>1, <1>2, <1>5 DEF Writers, Keeps
  <2>2. built[m].id \in DOMAIN store
    BY DEF StoreOK
  <2>3. store'[built[m].id] = store[built[m].id]
    BY <2>1, <2>2 DEF BuildStep, Scan, LoadBaseline, RankCauses, Open, RenderFails, Fill, Die
  <2> QED
    BY <1>2, <1>3, <2>1, <2>3 DEF WrittenUpTo
<1>6. CASE m = n
  <2> DEFINE b == built[n]
             id == b.id
  <2>1. /\ IsBuild(b) /\ b.step \in 1 .. 6 /\ DOMAIN FileOrder = 1 .. 6
        /\ \A j, k \in 1 .. 6 : FileOrder[j] = FileOrder[k] => j = k
        /\ \A k \in 1 .. 6 : FileOrder[k] \in Files
        /\ Len(FileOrder) = 6
    BY FilesAreOrdered DEF BuiltOK, IsBuild
  <2>2. id \in DOMAIN store /\ DOMAIN store[id] = Files
    BY DEF StoreOK
  <2>3. CASE UNCHANGED store /\ b.pc \notin {"done", "dead", "fill"} /\ built'[n].step = b.step
             /\ built'[n].pc \notin {"done", "fill"}
    BY <1>2, <1>3, <1>4, <1>6, <2>1, <2>3 DEF WrittenUpTo
  <2>4. CASE Scan(n) \/ LoadBaseline(n) \/ RankCauses(n) \/ RenderFails(n)
    <3>1. CASE Scan(n) BY <2>1, <2>3, <3>1 DEF Scan, IsBuild
    <3>2. CASE LoadBaseline(n)
      <4>1. PICK v : built' = [built EXCEPT ![n].pc = "rank", ![n].baseline = v]
        BY <3>2 DEF LoadBaseline
      <4> QED
        BY <2>1, <2>3, <3>2, <4>1 DEF LoadBaseline, IsBuild
    <3>3. CASE RankCauses(n)
      <4>1. PICK v, w :
                built' = [built EXCEPT ![n].pc = "open", ![n].prior = v, ![n].causes = w]
        BY <3>3 DEF RankCauses
      <4> QED
        BY <2>1, <2>3, <3>3, <4>1 DEF RankCauses, IsBuild
    <3>4. CASE RenderFails(n) BY <2>1, <2>3, <3>4 DEF RenderFails, IsBuild
    <3> QED BY <2>4, <3>1, <3>2, <3>3, <3>4
  <2>5. CASE Die(n)
    <3>1. /\ b.pc \notin {"done", "dead"} /\ UNCHANGED store
          /\ built'[n].pc = "dead" /\ built'[n].step = b.step
      BY <2>1, <2>5 DEF Die, Alive, IsBuild
    <3> QED
      BY <1>2, <1>3, <1>4, <1>6, <2>1, <3>1 DEF WrittenUpTo
  <2>6. CASE Open(n)
    <3>1. /\ b.pc = "open" /\ built'[n].pc = "fill" /\ built'[n].step = b.step
          /\ store' = [store EXCEPT ![id][FileOrder[b.step]] = Torn]
      BY <2>1, <2>6 DEF Open, IsBuild, NextFile
    <3>2. \A k \in 1 .. 6 : store'[id][FileOrder[k]] =
                            IF k = b.step THEN Torn ELSE store[id][FileOrder[k]]
      BY <2>1, <2>2, <3>1
    <3> QED
      BY <1>2, <1>3, <1>4, <1>6, <2>1, <3>1, <3>2 DEF WrittenUpTo
  <2>7. CASE Fill(n)
    <3>1. store[id][FileOrder[b.step]] = Torn /\ b.pc = "fill"
      BY <1>2, <1>6, <2>1, <2>7 DEF WrittenUpTo, Fill
    <3>2. store' = [store EXCEPT ![id][FileOrder[b.step]] = n]
      BY <2>7, <3>1 DEF Fill, NextFile
    <3>3. \A k \in 1 .. 6 : store'[id][FileOrder[k]] =
                            IF k = b.step THEN n ELSE store[id][FileOrder[k]]
      BY <2>1, <2>2, <3>2
    <3>4. /\ built'[n].pc = IF b.step = 6 THEN "done" ELSE "open"
          /\ built'[n].step = IF b.step = 6 THEN 6 ELSE b.step + 1
      BY <2>1, <2>7 DEF Fill, IsBuild
    <3> QED
      BY <1>2, <1>3, <1>4, <1>6, <2>1, <3>1, <3>3, <3>4 DEF WrittenUpTo
  <2> QED
    BY <2>4, <2>5, <2>6, <2>7 DEF BuildStep
<1> QED
  BY <1>5, <1>6

\* What a build learns of other bundles is of the past.
LEMMA PastStep ==
    ASSUME BuiltOK, StoreOK, KnowsThePast, NEW n \in DOMAIN built, BuildStep(n)
    PROVE  KnowsThePast'
<1> DEFINE b == built[n]
<1>1. BuiltOK' /\ Keeps(n) /\ \A id : Writers(id)' = Writers(id)
  BY StepKeeps, KeptWriters
<1>2. \A j, k \in DOMAIN built : Past(j, k)' <=> Past(j, k)
  BY <1>1 DEF Past, Keeps, Same
<1>3. \A id : Writers(id) \subseteq DOMAIN built
  BY DEF Writers
<1> SUFFICES PastOnly(n)'
  BY <1>1, <1>2, <1>3 DEF KnowsThePast, PastOnly, Keeps
<1>4. \A id \in DOMAIN store : IsEarlier(n, id) => \E k \in Writers(id) : Past(n, k)
  BY ReadableWriter, FilesAreOrdered DEF IsEarlier, The, Past
<1>5. PastOnly(n) /\ IsBuild(b) /\ n \in DOMAIN built'
  BY <1>1 DEF KnowsThePast, BuiltOK, Keeps
<1>6. CASE /\ built'[n].best = b.best /\ built'[n].baseline = b.baseline
           /\ built'[n].prior = b.prior /\ built'[n].pc # "scan"
  BY <1>1, <1>2, <1>3, <1>5, <1>6 DEF PastOnly
<1>7. CASE Scan(n)
  <2> DEFINE earlier == {id \in DOMAIN store : IsEarlier(n, id)}
  <2>1. PICK best \in IF earlier = {} THEN {None} ELSE earlier :
            built' = [built EXCEPT ![n].pc = "load", ![n].best = best]
    BY <1>7 DEF Scan
  <2>2. /\ built'[n].best = best /\ built'[n].baseline = b.baseline
        /\ built'[n].prior = b.prior /\ built'[n].pc = "load"
    BY <1>5, <2>1 DEF IsBuild
  <2>3. best # None => \E k \in Writers(best) : Past(n, k)
    BY <1>4, <2>1
  <2>4. b.baseline = None
    BY <1>5, <1>7 DEF Scan, PastOnly
  <2> QED
    BY <1>1, <1>2, <1>3, <1>5, <2>2, <2>3, <2>4 DEF PastOnly
<1>8. CASE LoadBaseline(n)
  <2> DEFINE readable == /\ b.best # None
                         /\ Readable(b.best, "config.json") /\ Readable(b.best, "versions.json")
             from == {store[b.best]["config.json"], store[b.best]["versions.json"]}
  <2>1. PICK base :
            /\ built' = [built EXCEPT ![n].pc = "rank", ![n].baseline = base]
            /\ readable => base.from = from
            /\ ~readable => base = None
    <3>1. CASE readable
      <4> DEFINE base == [config   |-> The(b.best, "config.json").sig.config,
                          versions |-> The(b.best, "versions.json").sig.versions,
                          from     |-> from]
      <4>1. built' = [built EXCEPT ![n].pc = "rank", ![n].baseline = base]
        BY <1>8, <3>1 DEF LoadBaseline
      <4> QED
        BY <3>1, <4>1
    <3>2. CASE ~readable
      BY <1>8, <3>2 DEF LoadBaseline
    <3> QED
      BY <3>1, <3>2
  <2>2. /\ built'[n].best = b.best /\ built'[n].baseline = base
        /\ built'[n].prior = b.prior /\ built'[n].pc = "rank"
    BY <1>5, <2>1 DEF IsBuild
  <2>3. readable => from \subseteq Writers(b.best)
    <3>1. {"config.json", "versions.json"} \subseteq Files
      BY DEF Files, FileOrder, Range
    <3>2. b.best # None => b.best \in DOMAIN store
      BY <1>5 DEF PastOnly, Writers, StoreOK
    <3> QED
      BY <3>1, <3>2, ReadableWriter
  <2> QED
    BY <1>1, <1>2, <1>3, <1>5, <2>1, <2>2, <2>3 DEF PastOnly
<1>9. CASE RankCauses(n)
  <2>1. PICK causes : built' = [built EXCEPT ![n].pc = "open", ![n].prior = Matches(n),
                                             ![n].causes = causes]
    BY <1>9 DEF RankCauses
  <2>2. /\ built'[n].best = b.best /\ built'[n].baseline = b.baseline
        /\ built'[n].prior = Matches(n) /\ built'[n].pc = "open"
    BY <1>5, <2>1 DEF IsBuild
  <2>3. \A id \in Matches(n) : \E k \in Writers(id) : Past(n, k)
    BY <1>4 DEF Matches
  <2> QED
    BY <1>1, <1>2, <1>3, <1>5, <2>2, <2>3 DEF PastOnly
<1>10. CASE Open(n) \/ RenderFails(n) \/ Die(n)
  BY <1>5, <1>6, <1>10 DEF Open, RenderFails, Die, IsBuild
<1>11. CASE Fill(n)
  <2>1. \E pc \in {"done", "open"} : \E step :
            built' = [built EXCEPT ![n].pc = pc, ![n].step = step]
    <3> DEFINE p == IF b.step = Len(FileOrder) THEN "done" ELSE "open"
    <3>1. built' = [built EXCEPT ![n].pc = p,
                                 ![n].step = IF @ = Len(FileOrder) THEN @ ELSE @ + 1]
      BY <1>11 DEF Fill
    <3>2. p \in {"done", "open"}
      OBVIOUS
    <3> HIDE DEF p
    <3> QED
      BY <3>1, <3>2
  <2>2. PICK pc \in {"done", "open"} : \E step :
            built' = [built EXCEPT ![n].pc = pc, ![n].step = step]
    BY <2>1
  <2>3. PICK step : built' = [built EXCEPT ![n].pc = pc, ![n].step = step]
    BY <2>2
  <2> QED
    BY <1>5, <1>6, <2>3 DEF IsBuild
<1> QED
  BY <1>7, <1>8, <1>9, <1>10, <1>11 DEF BuildStep

\* Every step of a build preserves the invariant.
LEMMA BuildStepKeepsInv ==
    ASSUME IInv, NEW n \in DOMAIN built, BuildStep(n)
    PROVE  IInv'
BY StepKeeps, StoreStep, OrderStep, PastStep DEF IInv
-----------------------------------------------------------------------------
(* A build begins *)

\* What a build has in memory when it begins.
LEMMA BuildBegins ==
    ASSUME NEW w, NEW host, NEW sig, NEW b, b = Build(w, host, sig)
    PROVE  /\ IsBuild(b) /\ IsBuild([b EXCEPT !.pc = "done"])
           /\ b.pc = "scan" /\ b.step = 1
           /\ b.best = None /\ b.baseline = None /\ b.prior = {}
<1> DEFINE events == Slice(log, w)
           id == IncidentId(w, Session(events), host)
           fingerprint == Fingerprint(events, w)
<1>1. b = [id |-> id, window |-> w, host |-> host,
           events |-> events, sig |-> sig, fingerprint |-> fingerprint,
           pc |-> "scan", step |-> 1, best |-> None, baseline |-> None, prior |-> {},
           causes |-> <<>>]
  BY DEF Build
<1> HIDE DEF events, id, fingerprint
<1>2. b.pc = "scan" /\ b.step = 1 /\ b.best = None /\ b.baseline = None /\ b.prior = {}
  BY <1>1
<1>3. IsBuild(b)
  BY <1>1, FilesAreOrdered DEF IsBuild
<1> QED
  BY <1>2, <1>3, FieldChanged

\* The invariant holds initially, with and without an earlier bundle.
LEMMA IInvInit == Init => IInv
<1> SUFFICES ASSUME Init PROVE IInv
    OBVIOUS
<1>1. CASE built = <<>> /\ store = <<>>
  <2>1. built \in Seq(Range(built)) /\ DOMAIN built = {} /\ DOMAIN store = {}
    BY <1>1 DEF Range
  <2>2. store = [id \in {built[n].id : n \in DOMAIN built} |-> store[id]]
    BY <1>1, <2>1
  <2> QED
    BY <2>1, <2>2 DEF IInv, BuiltOK, StoreOK, InOrder, KnowsThePast
<1>2. CASE built # <<>> \/ store # <<>>
  <2>1. PICK e \in Existing :
            LET b == Build(e.window, e.host, Collected(toolchain, {}))
            IN  built = <<[b EXCEPT !.pc = "done"]>> /\ store = [id \in {b.id} |-> Complete]
    BY <1>2 DEF Init
  <2> DEFINE b == Build(e.window, e.host, Collected(toolchain, {}))
             d == [b EXCEPT !.pc = "done"]
  <2>2. /\ IsBuild(d) /\ d.pc = "done" /\ d.id = b.id
        /\ d.best = None /\ d.baseline = None /\ d.prior = {}
    BY BuildBegins DEF IsBuild
  <2>3. store = [id \in {d.id} |-> Complete] /\ built = <<d>>
    BY <2>1, <2>2
  <2> HIDE DEF d, b
  <2>4. built \in Seq(Range(built)) /\ DOMAIN built = {1} /\ built[1] = d
    BY <2>3 DEF Range
  <2>5. BuiltOK
    BY <2>2, <2>4 DEF BuiltOK
  <2>6. \A id : Writers(id) = IF id = d.id THEN {1} ELSE {}
    BY <2>4 DEF Writers
  <2>7. \A file \in Files : Complete[file] = 1
    BY DEF Complete
  <2>8. StoreOK
    <3>1. {built[n].id : n \in DOMAIN built} = {d.id}
      BY <2>4
    <3>2. \A id \in DOMAIN store : store[id] = Complete
      BY <2>3
    <3> QED
      BY <2>3, <2>6, <2>7, <3>1, <3>2 DEF StoreOK, Complete
  <2>9. InOrder
    BY <2>2, <2>3, <2>4, <2>7, FilesAreOrdered DEF InOrder, WrittenUpTo
  <2>10. KnowsThePast
    BY <2>2, <2>4 DEF KnowsThePast, PastOnly
  <2> QED
    BY <2>5, <2>8, <2>9, <2>10 DEF IInv
<1> QED
  BY <1>1, <1>2

\* A build that begins adds itself to the writers of its bundle, which it
\* creates if there is none.
LEMMA BeginKeepsInv ==
    ASSUME IInv, NEW w, NEW failing, Begin(w, failing)
    PROVE  IInv'
<1>0. PICK b, n : b = Build(w, Here, Collected(toolchain, failing)) /\ n = Len(built) + 1
  OBVIOUS
<1>1. /\ IsBuild(b) /\ b.pc = "scan" /\ b.step = 1
      /\ b.best = None /\ b.baseline = None /\ b.prior = {}
  BY <1>0, BuildBegins
<1>2. /\ built' = Append(built, b)
      /\ store' = [id \in DOMAIN store \cup {b.id} |->
                    IF id \in DOMAIN store THEN store[id] ELSE [file \in Files |-> Absent]]
  BY <1>0 DEF Begin
<1>3. /\ built' \in Seq(Range(built')) /\ DOMAIN built' = DOMAIN built \cup {n}
      /\ n \notin DOMAIN built
      /\ \A m \in DOMAIN built : built'[m] = built[m]
      /\ built'[n] = b
  BY <1>0, <1>2, AppendedTo DEF IInv, BuiltOK
<1>4. BuiltOK'
  BY <1>1, <1>3 DEF IInv, BuiltOK, IsBuild, FileOrder
<1>5. \A id : Writers(id)' = IF id = b.id THEN Writers(id) \cup {n} ELSE Writers(id)
  BY <1>3 DEF Writers
<1>6. Files' = Files /\ FileOrder' = FileOrder
  BY DEF Files, FileOrder, Range
<1>7. /\ DOMAIN store' = DOMAIN store \cup {b.id}
      /\ \A id \in DOMAIN store : store'[id] = store[id]
      /\ b.id \notin DOMAIN store => store'[b.id] = [file \in Files |-> Absent]
      /\ store' = [id \in DOMAIN store' |-> store'[id]]
  BY <1>2 DEF IInv, StoreOK
<1>8. StoreOK'
  <2>1. {built'[m].id : m \in DOMAIN built'} = {built[m].id : m \in DOMAIN built} \cup {b.id}
    BY <1>3
  <2>2. DOMAIN store = {built[m].id : m \in DOMAIN built}
    BY DEF IInv, StoreOK
  <2>3. store' = [id \in {built'[m].id : m \in DOMAIN built'} |-> store'[id]]
    BY <1>7, <2>1, <2>2
  <2>4. ASSUME NEW id \in DOMAIN store'
        PROVE  /\ store'[id] = [file \in Files |-> store'[id][file]]
               /\ \A file \in Files :
                    store'[id][file] \in {Absent, Torn} \cup Writers(id)'
    <3>1. CASE id \in DOMAIN store
      BY <1>5, <1>7, <3>1 DEF IInv, StoreOK
    <3>2. CASE id \notin DOMAIN store
      BY <1>7, <2>4, <3>2
    <3> QED
      BY <3>1, <3>2
  <2> QED
    BY <1>6, <2>3, <2>4 DEF StoreOK
<1>9. InOrder'
  <2> SUFFICES ASSUME NEW m \in DOMAIN built', AloneIn(built[m].id)' PROVE WrittenUpTo(m)'
    BY DEF InOrder
  <2>1. Writers(built[m].id)' = {m}
    BY <1>4, OnlyWriterThen
  <2>2. CASE m = n
    <3>1. b.id \notin DOMAIN store
      BY <1>3, <1>5, <2>1, <2>2 DEF IInv, StoreOK, Writers
    <3> QED
      BY <1>1, <1>3, <1>6, <1>7, <2>2, <3>1, FilesAreOrdered DEF WrittenUpTo
  <2>3. CASE m \in DOMAIN built
    <3>1. built[m].id # b.id /\ built'[m] = built[m] /\ built[m].id \in DOMAIN store
      BY <1>3, <1>5, <2>1, <2>3 DEF IInv, StoreOK
    <3>2. Cardinality(Writers(built[m].id)') = 1
      BY DEF AloneIn, Writers
    <3>3. Writers(built[m].id)' = Writers(built[m].id)
      <4>1. \A id : id = built'[m].id => Writers(built[m].id)' = Writers(id)'
        BY DEF Writers
      <4> QED
        BY <1>5, <3>1, <4>1
    <3>4. AloneIn(built[m].id)
      BY <3>2, <3>3 DEF AloneIn, Writers
    <3> QED
      BY <1>6, <1>7, <2>3, <3>1, <3>4 DEF IInv, InOrder, WrittenUpTo
  <2> QED
    BY <1>3, <2>2, <2>3
<1>10. KnowsThePast'
  <2>1. \A m \in DOMAIN built : \A k \in DOMAIN built : Past(m, k)' <=> Past(m, k)
    BY <1>3 DEF Past
  <2>2. \A id : Writers(id) \subseteq Writers(id)' /\ Writers(id) \subseteq DOMAIN built
    BY <1>5 DEF Writers
  <2>3. \A m \in DOMAIN built : PastOnly(m)'
    BY <1>3, <2>1, <2>2 DEF IInv, KnowsThePast, PastOnly
  <2>4. PastOnly(n)'
    BY <1>1, <1>3 DEF PastOnly
  <2> QED
    BY <1>3, <2>3, <2>4 DEF KnowsThePast
<1> QED
  BY <1>4, <1>8, <1>9, <1>10 DEF IInv
-----------------------------------------------------------------------------
(* The theorems *)

\* Whatever neither builds nor writes changes nothing of this.
LEMMA OtherStepsKeepInv == IInv /\ UNCHANGED <<store, built>> => IInv'
<1> SUFFICES ASSUME IInv, UNCHANGED <<store, built>> PROVE IInv'
    OBVIOUS
<1>1. BuiltOK' = BuiltOK BY DEF BuiltOK, IsBuild, FileOrder
<1>2. \A id : Writers(id)' = Writers(id) BY DEF Writers
<1>3. StoreOK'
  <2>1. Files' = Files BY DEF Files, FileOrder, Range
  <2> QED BY <1>2, <2>1 DEF IInv, StoreOK
<1>4. InOrder' BY DEF IInv, InOrder, AloneIn, WrittenUpTo, FileOrder
<1>5. KnowsThePast' BY <1>2 DEF IInv, KnowsThePast, PastOnly, Past
<1> QED BY <1>1, <1>3, <1>4, <1>5 DEF IInv

\* Every step preserves the invariant.
LEMMA IInvStep == IInv /\ [Next]_vars => IInv'
<1> SUFFICES ASSUME IInv, [Next]_vars PROVE IInv'
    OBVIOUS
<1>1. CASE \E w \in Windows, failing \in SUBSET Queries : Begin(w, failing)
  BY <1>1, BeginKeepsInv
<1>2. CASE \E n \in DOMAIN built : BuildStep(n)
  BY <1>2, BuildStepKeepsInv
<1>3. CASE UNCHANGED <<store, built>>
  BY <1>3, OtherStepsKeepInv
<1> QED
  BY <1>1, <1>2, <1>3 DEF Next, BuildNext, LoseOldest, Upgrade, Adopt, vars, buildVars

\* IInv holds in every reachable state.
LEMMA Invariance == Spec => []IInv
BY IInvInit, IInvStep, PTL DEF Spec, PreventionInit

\* An incident.json announces a whole bundle: any number of builds, of any
\* log, that die between any two file operations.
THEOREM AnnouncedBundlesAreWhole == Spec => []AnnouncedIsWhole
<1>1. IInv => AnnouncedIsWhole
  <2> SUFFICES ASSUME IInv, NEW id \in DOMAIN store, AloneIn(id),
                      Readable(id, "incident.json"), NEW file \in Files \ {"report.md"}
               PROVE  Readable(id, file)
    BY DEF AnnouncedIsWhole
  <2>1. PICK n \in DOMAIN built : built[n].id = id
    BY DEF IInv, StoreOK
  <2>2. WrittenUpTo(n) /\ n \in Nat /\ built[n].step \in 1 .. 6
    <3>1. DOMAIN built \subseteq Nat
      BY DEF IInv, BuiltOK
    <3> QED
      BY <2>1, <3>1, FilesAreOrdered DEF IInv, InOrder, BuiltOK, IsBuild
  <2>3. PICK k \in 1 .. 5 : file = FileOrder[k]
    BY FilesAreOrdered
  <2>4. built[n].pc = "done" \/ built[n].step > 5
    BY <2>1, <2>2, FilesAreOrdered, IncidentBuilderAssumption
       DEF WrittenUpTo, Readable, IncidentBuilderAssumption
  <2>5. store[id][file] = n
    BY <2>1, <2>2, <2>3, <2>4, FilesAreOrdered DEF WrittenUpTo
  <2> QED
    BY <2>2, <2>5 DEF Readable
<1> QED
  BY <1>1, Invariance, PTL

\* What a ranking takes for the past is the past, however the builds
\* interleave.
THEOREM RankingsLookBack == Spec => []OnlyThePast
<1>1. IInv => OnlyThePast
  <2> SUFFICES ASSUME IInv, NEW n \in DOMAIN built
               PROVE  /\ built[n].baseline # None /\ built[n].best # None
                         /\ AloneIn(built[n].best) => \A m \in built[n].baseline.from : Past(n, m)
                      /\ \A id \in built[n].prior :
                            \E m \in DOMAIN built : built[m].id = id /\ Past(n, m)
    BY DEF OnlyThePast, Past
  <2>1. PastOnly(n)
    BY DEF IInv, KnowsThePast
  <2>2. \A m \in DOMAIN built : AloneIn(built[m].id) => Writers(built[m].id) = {m}
    BY OnlyWriter DEF IInv
  <2> QED
    BY <2>1, <2>2 DEF PastOnly, Writers
<1> QED
  BY <1>1, Invariance, PTL

\* A recurrence is never overlooked, whatever lies beside the bundle.
THEOREM EarlierTwinsAreFound == Spec => EarlierTwinIsFound
<1>1. ASSUME IInv, [Next]_vars, NEW n \in DOMAIN built,
             built[n].pc = "rank", built'[n].pc = "open",
             NEW id \in DOMAIN store, AloneIn(id), Whole(id), id # built[n].id,
             NEW m \in DOMAIN built, built[m].id = id, built[m].host = Here,
             built[m].window.end < built[n].window.start,
             built[m].fingerprint = built[n].fingerprint
      PROVE  id \in built'[n].prior
  <2>1. Writers(id) = {m}
    BY <1>1, OnlyWriter DEF IInv
  <2>2. id \in Matches(n)
    <3>1. \A file \in Files : The(id, file) = built[m]
      BY <1>1, <2>1, ReadableWriter DEF Whole, The, IInv
    <3>2. {"incident.json", "fingerprint.json"} \subseteq Files
      BY DEF Files, FileOrder, Range
    <3> QED
      BY <1>1, <3>1, <3>2 DEF Matches, IsEarlier, Whole
  <2>3. RankCauses(n)
    <3>1. PICK k \in DOMAIN built : BuildStep(k)
      <4>1. built'[n] # built[n]
        BY <1>1
      <4> QED
        <5>1. ASSUME NEW w, NEW failing, Begin(w, failing) PROVE built'[n] = built[n]
          <6>1. built \in Seq(Range(built)) /\ n \in DOMAIN built
            BY <1>1 DEF IInv, BuiltOK
          <6> QED
            BY <5>1, <6>1, AppendedTo DEF Begin
        <5> QED
          BY <1>1, <4>1, <5>1 DEF Next, BuildNext, LoseOldest, Upgrade, Adopt, vars, buildVars
    <3>2. k = n
      BY <1>1, <3>1, StepKeeps DEF Keeps, IInv
    <3>3. IsBuild(built[n])
      BY <1>1 DEF IInv, BuiltOK
    <3>4. CASE LoadBaseline(n) BY <1>1, <3>4 DEF LoadBaseline
    <3>5. CASE RenderFails(n) BY <1>1, <3>5 DEF RenderFails
    <3>6. CASE Die(n) BY <1>1, <3>3, <3>6 DEF Die, IsBuild
    <3>7. CASE Scan(n) \/ Open(n) \/ Fill(n) BY <1>1, <3>7 DEF Scan, Open, Fill
    <3> QED
      BY <3>1, <3>2, <3>4, <3>5, <3>6, <3>7 DEF BuildStep
  <2>4. PICK causes : built' = [built EXCEPT ![n].pc = "open", ![n].prior = Matches(n),
                                             ![n].causes = causes]
    BY <2>3 DEF RankCauses
  <2>5. IsBuild(built[n])
    BY <1>1 DEF IInv, BuiltOK
  <2>6. built'[n].prior = Matches(n)
    BY <2>4, <2>5 DEF IsBuild
  <2> QED
    BY <2>2, <2>6
<1>2. IInv /\ [Next]_vars =>
        \A n \in DOMAIN built : built[n].pc = "rank" /\ built'[n].pc = "open" =>
            \A id \in DOMAIN store :
                /\ AloneIn(id) /\ Whole(id) /\ id # built[n].id
                /\ \E m \in DOMAIN built :
                    /\ built[m].id = id /\ built[m].host = Here
                    /\ built[m].window.end < built[n].window.start
                    /\ built[m].fingerprint = built[n].fingerprint
                => id \in built'[n].prior
  BY <1>1
<1> QED
  BY <1>2, Invariance, PTL DEF Spec, EarlierTwinIsFound
-----------------------------------------------------------------------------
(* What a build concludes *)

\* What a build has in memory: events of the log, their fingerprint, and once
\* it has ranked them the ranking.
MadeOf(b) ==
    /\ b.window \in Windows
    /\ IsFiniteSet(DOMAIN b.events) /\ DOMAIN b.events \subseteq Nat
    /\ \A i \in DOMAIN b.events : b.events[i] \in Events
    /\ b.fingerprint = Fingerprint(b.events, b.window)
    /\ b.pc \in {"scan", "load", "rank"} => b.causes = <<>>
    /\ b.causes # <<>> =>
        b.causes = Rank(b.events, Timeline(b.events, b.window), b.baseline, b.sig, b.prior)

Made == log \in Seq(Events) /\ \A n \in DOMAIN built : MadeOf(built[n])

\* The events of a build are events, and its window is one.
LEMMA MadeOfEvents ==
    ASSUME NEW b, MadeOf(b)
    PROVE  AreEvents(b.events) /\ IsWindow(b.window)
           /\ AreRows(Timeline(b.events, b.window))
<1>1. AreEvents(b.events)
  BY IncidentBuilderAssumption DEF MadeOf, AreEvents, IncidentBuilderAssumption
<1>2. IsWindow(b.window)
  BY IncidentBuilderAssumption DEF MadeOf, IsWindow, IncidentBuilderAssumption
<1> QED
  BY <1>1, <1>2, TimelineIsFinite

\* A slice of the log is made of events of the log.
LEMMA SliceOfLog ==
    ASSUME NEW events, events \in Seq(Events), NEW w
    PROVE  /\ IsFiniteSet(DOMAIN Slice(events, w)) /\ DOMAIN Slice(events, w) \subseteq Nat
           /\ \A n \in DOMAIN Slice(events, w) : Slice(events, w)[n] \in Events
<1> DEFINE kept == {i \in DOMAIN events : w.start <= events[i].t /\ events[i].t <= w.end}
           place == [i \in kept |-> Cardinality(kept \cap 1 .. i)]
           first == AntiFunction(place)
<1>1. Slice(events, w) = [n \in DOMAIN first |-> events[first[n]]]
  BY DEF Slice
<1>2. /\ IsFiniteSet(kept) /\ kept \subseteq DOMAIN events
      /\ \A i \in DOMAIN events : i \in Nat /\ events[i] \in Events
  <2>1. kept \in SUBSET (1 .. Len(events)) /\ Len(events) \in Nat
        /\ DOMAIN events = 1 .. Len(events)
    OBVIOUS
  <2> HIDE DEF kept
  <2>2. IsFiniteSet(1 .. Len(events))
    BY <2>1, FS_Interval
  <2>3. IsFiniteSet(kept)
    BY <2>1, <2>2, FS_Subset
  <2> QED
    BY <2>1, <2>3 DEF kept
<1> HIDE DEF kept
<1>3. \A i \in kept : place[i] \in Nat
  <2> TAKE i \in kept
  <2>1. IsFiniteSet(kept \cap 1 .. i)
    BY <1>2, FS_Intersection
  <2> QED
    BY <2>1, FS_CardinalityType
<1>4. DOMAIN place = kept
  OBVIOUS
<1> HIDE DEF place
<1>5. /\ DOMAIN first = {place[i] : i \in kept}
      /\ \A n \in DOMAIN first : first[n] \in kept
  <2>1. first = [n \in {place[i] : i \in kept} |->
                    CHOOSE i \in kept : n \in {place[j] : j \in kept} => place[i] = n]
    BY <1>4 DEF AntiFunction, Inverse, Range
  <2> HIDE DEF first
  <2> QED
    BY <2>1
<1>6. IsFiniteSet({place[i] : i \in kept})
  BY <1>2, <1>4, FiniteImage
<1> HIDE DEF first
<1> QED
  BY <1>1, <1>2, <1>3, <1>5, <1>6

\* What a build has in memory when it begins.
LEMMA BuildIsMade ==
    ASSUME log \in Seq(Events), NEW w \in Windows, NEW host, NEW sig
    PROVE  LET b == Build(w, host, sig) IN MadeOf(b) /\ MadeOf([b EXCEPT !.pc = "done"])
<1> DEFINE events == Slice(log, w)
           id == IncidentId(w, Session(events), host)
           fingerprint == Fingerprint(events, w)
           b == Build(w, host, sig)
<1>1. b = [id |-> id, window |-> w, host |-> host,
           events |-> events, sig |-> sig, fingerprint |-> fingerprint,
           pc |-> "scan", step |-> 1, best |-> None, baseline |-> None, prior |-> {},
           causes |-> <<>>]
  BY DEF Build
<1>2. /\ IsFiniteSet(DOMAIN events) /\ DOMAIN events \subseteq Nat
      /\ \A n \in DOMAIN events : events[n] \in Events
  BY SliceOfLog
<1>3. fingerprint = Fingerprint(events, w)
  OBVIOUS
<1> HIDE DEF b, events, id, fingerprint
<1>4. /\ b.window = w /\ b.events = events /\ b.fingerprint = Fingerprint(events, w)
      /\ b.causes = <<>>
  BY <1>1, <1>3
<1> DEFINE d == [b EXCEPT !.pc = "done"]
<1>5. /\ d.window = w /\ d.events = events /\ d.fingerprint = Fingerprint(events, w)
      /\ d.causes = <<>>
  BY <1>1, <1>3
<1> HIDE DEF d
<1>6. MadeOf(b) /\ MadeOf(d)
  BY <1>2, <1>4, <1>5 DEF MadeOf
<1> QED
  BY <1>6 DEF b, d

\* A step of a build ranks what it has, or keeps it.
LEMMA MadeStep ==
    ASSUME BuiltOK, Made, NEW n \in DOMAIN built, BuildStep(n)
    PROVE  Made'
<1> DEFINE b == built[n]
           c == built'[n]
<1>1. /\ BuiltOK' /\ Keeps(n) /\ log' = log
  BY StepKeeps DEF BuildStep, Scan, LoadBaseline, RankCauses, Open, RenderFails, Fill, Die
<1>2. IsBuild(b) /\ MadeOf(b) /\ n \in DOMAIN built' /\ Same(b, c)
  BY <1>1 DEF BuiltOK, Made, Keeps
<1> SUFFICES MadeOf(c)
  BY <1>1 DEF Made, Keeps, MadeOf
<1>3. CASE /\ c.causes = b.causes /\ c.baseline = b.baseline /\ c.prior = b.prior
           /\ c.pc \in {"scan", "load", "rank"} => b.pc \in {"scan", "load", "rank"}
  BY <1>2, <1>3 DEF MadeOf, Same
<1>4. CASE Scan(n)
  BY <1>2, <1>3, <1>4 DEF Scan, IsBuild
<1>5. CASE LoadBaseline(n)
  <2>1. PICK v : built' = [built EXCEPT ![n].pc = "rank", ![n].baseline = v]
    BY <1>5 DEF LoadBaseline
  <2>2. b.causes = <<>> /\ c.causes = b.causes
    BY <1>2, <1>5, <2>1 DEF LoadBaseline, MadeOf, IsBuild
  <2> QED
    BY <1>2, <2>2 DEF MadeOf, Same
<1>6. CASE RankCauses(n)
  <2> DEFINE causes == Rank(b.events, Timeline(b.events, b.window), b.baseline, b.sig, Matches(n))
  <2>1. built' = [built EXCEPT ![n].pc = "open", ![n].prior = Matches(n), ![n].causes = causes]
    BY <1>6 DEF RankCauses
  <2> HIDE DEF causes
  <2>2. c.pc = "open" /\ c.prior = Matches(n) /\ c.causes = causes /\ c.baseline = b.baseline
    BY <1>2, <2>1 DEF IsBuild
  <2> QED
    BY <1>2, <2>2 DEF MadeOf, Same, causes
<1>7. CASE Open(n) \/ RenderFails(n) \/ Die(n)
  BY <1>2, <1>3, <1>7 DEF Open, RenderFails, Die, IsBuild
<1>8. CASE Fill(n)
  <2> DEFINE p == IF b.step = Len(FileOrder) THEN "done" ELSE "open"
  <2>1. PICK step : built' = [built EXCEPT ![n].pc = p, ![n].step = step]
    BY <1>8 DEF Fill
  <2>2. p \notin {"scan", "load", "rank"}
    OBVIOUS
  <2> HIDE DEF p
  <2> QED
    BY <1>2, <1>3, <2>1, <2>2 DEF IsBuild
<1> QED
  BY <1>4, <1>5, <1>6, <1>7, <1>8 DEF BuildStep

\* Initially a bundle is one that was built.
LEMMA MadeInit == Init => Made
<1> SUFFICES ASSUME Init PROVE Made
    OBVIOUS
<1>1. log \in Seq(Events)
  BY IncidentBuilderAssumption DEF Init, IncidentBuilderAssumption
<1>2. CASE built = <<>>
  BY <1>1, <1>2 DEF Made
<1>3. CASE built # <<>>
  <2>1. PICK e \in Existing :
            LET b == Build(e.window, e.host, Collected(toolchain, {}))
            IN  built = <<[b EXCEPT !.pc = "done"]>> /\ store = [id \in {b.id} |-> Complete]
    BY <1>3 DEF Init
  <2>2. e.window \in Windows
    BY IncidentBuilderAssumption DEF IncidentBuilderAssumption
  <2> DEFINE d == [Build(e.window, e.host, Collected(toolchain, {})) EXCEPT !.pc = "done"]
  <2>3. MadeOf(d) /\ built = <<d>>
    BY <1>1, <2>1, <2>2, BuildIsMade
  <2> HIDE DEF d
  <2> QED
    BY <1>1, <2>3 DEF Made
<1> QED
  BY <1>2, <1>3

\* Every step keeps what builds have in memory true.
LEMMA MadeKept == IInv /\ Made /\ [Next]_vars => Made'
<1> SUFFICES ASSUME IInv, Made, [Next]_vars PROVE Made'
    OBVIOUS
<1>1. ASSUME NEW w \in Windows, NEW failing \in SUBSET Queries, Begin(w, failing)
      PROVE  Made'
  <2>1. PICK b : b = Build(w, Here, Collected(toolchain, failing))
    OBVIOUS
  <2>2. MadeOf(b) /\ built' = Append(built, b) /\ log' = log
    BY <1>1, <2>1, BuildIsMade DEF Begin, Made
  <2>3. \A m \in DOMAIN built' : built'[m] = b \/ (m \in DOMAIN built /\ built'[m] = built[m])
    BY <2>2, AppendedTo DEF IInv, BuiltOK
  <2>4. \A m \in DOMAIN built' : MadeOf(built'[m])
    BY <2>2, <2>3 DEF Made
  <2> QED
    BY <2>2, <2>4 DEF Made, MadeOf
<1>2. CASE \E n \in DOMAIN built : BuildStep(n)
  BY <1>2, MadeStep DEF IInv
<1>3. CASE LoseOldest
  <2>1. Tail(log) \in Seq(Events)
    BY <1>3 DEF LoseOldest, Made
  <2> QED
    BY <1>3, <2>1 DEF LoseOldest, Made, MadeOf
<1>4. CASE UNCHANGED <<log, built>>
  BY <1>4 DEF Made, MadeOf
<1> QED
  BY <1>1, <1>2, <1>3, <1>4 DEF Next, BuildNext, Upgrade, Adopt, vars, buildVars

LEMMA MadeInvariance == Spec => []Made
<1>1. PreventionInit => Made
  BY MadeInit DEF PreventionInit
<1> QED
  BY <1>1, MadeKept, Invariance, PTL DEF Spec

\* Noise never outranks a QoS mismatch, for any log, configuration and
\* history of bundles.
THEOREM NoiseIsOutranked == Spec => []NoiseNeverOutranksQos
<1>1. Made => NoiseNeverOutranksQos
  <2> SUFFICES ASSUME Made, NEW n \in DOMAIN built,
                      NEW h \in DOMAIN built[n].causes, NEW k \in DOMAIN built[n].causes, h < k,
                      built[n].events[built[n].causes[h].trigger].class = "ThresholdDetector",
                      built[n].events[built[n].causes[k].trigger].class = "QoSMismatchDetector"
               PROVE  SeverityRank[built[n].events[built[n].causes[h].trigger].severity]
                        > SeverityRank[built[n].events[built[n].causes[k].trigger].severity]
    BY DEF NoiseNeverOutranksQos
  <2> DEFINE b == built[n]
  <2>1. MadeOf(b)
    BY DEF Made
  <2>2. AreEvents(b.events) /\ AreRows(Timeline(b.events, b.window))
    BY <2>1, MadeOfEvents
  <2>3. b.causes = Rank(b.events, Timeline(b.events, b.window), b.baseline, b.sig, b.prior)
    BY <2>1 DEF MadeOf
  <2> QED
    BY <2>2, <2>3, QosFirst
<1> QED
  BY <1>1, MadeInvariance, PTL

\* The same failure has the same fingerprint, whenever it happens and
\* whichever build looks at it.
THEOREM FingerprintsAgree == Spec => []SameFailureSameFingerprint
<1>1. Made => SameFailureSameFingerprint
  <2> SUFFICES ASSUME Made, NEW m \in DOMAIN built, NEW n \in DOMAIN built, NEW later,
                      later = built[n].window.start - built[m].window.start,
                      built[n].window.end - built[m].window.end = later,
                      built[n].events = Shifted(built[m].events, later)
               PROVE  built[m].fingerprint = built[n].fingerprint
    BY DEF SameFailureSameFingerprint, Shifted
  <2> DEFINE b == built[m]
             c == built[n]
  <2>1. MadeOf(b) /\ MadeOf(c)
    BY DEF Made
  <2>2. AreEvents(b.events) /\ IsWindow(b.window) /\ IsWindow(c.window)
    BY <2>1, MadeOfEvents
  <2>3. later \in Int /\ c.window.start = b.window.start + later
        /\ c.window.end = b.window.end + later
    BY <2>2 DEF IsWindow
  <2>4. c.events = Shifted(b.events, later)
    OBVIOUS
  <2>5. \A e, w, f, v : AreEvents(e) /\ IsWindow(w) /\ IsWindow(v)
            /\ v.start = w.start + later /\ v.end = w.end + later /\ f = Shifted(e, later)
            => Fingerprint(f, v) = Fingerprint(e, w)
    <3> SUFFICES ASSUME NEW e, AreEvents(e), NEW w, IsWindow(w), NEW f, NEW v, IsWindow(v),
                        v.start = w.start + later, v.end = w.end + later, f = Shifted(e, later)
                 PROVE  Fingerprint(f, v) = Fingerprint(e, w)
      OBVIOUS
    <3>1. later \in Int
      BY <2>3
    <3> HIDE DEF b, c
    <3> QED
      BY <3>1, ShiftedFingerprint
  <2>6. Fingerprint(c.events, c.window) = Fingerprint(b.events, b.window)
    <3> HIDE DEF b, c
    <3> QED
      BY <2>2, <2>3, <2>4, <2>5
  <2> QED
    BY <2>1, <2>6 DEF MadeOf
<1> QED
  BY <1>1, MadeInvariance, PTL
-----------------------------------------------------------------------------
(* Adopted rules *)

\* An adopted rule blocks, and comes from an incident: if one build alone
\* wrote its bundle, from one that had another alarm than a dead topic or
\* asks for the topic of one of its alarms.
Traced(rule) ==
    /\ rule.onFail = "block" /\ rule.disabled = FALSE
    /\ rule.from \in DOMAIN built /\ rule.source = built[rule.from].id
    /\ AloneIn(rule.source) =>
        LET events == built[rule.from].events
        IN  \E i \in Triggers(events) :
                \/ events[i].class # "DeadTopicDetector"
                \/ /\ rule.kind = "topic_present"
                   /\ rule.params = [topic |-> events[i].subject, min |-> 1]

RulesTraced == \A rule \in rules : rule.from # NotSet => Traced(rule)

\* A bundle that is one build's was that before.
LEMMA AloneBefore ==
    ASSUME BuiltOK, BuiltOK', DOMAIN built \subseteq DOMAIN built',
           \A m \in DOMAIN built : built'[m].id = built[m].id,
           NEW n \in DOMAIN built, NEW id, id = built[n].id, AloneIn(id)'
    PROVE  AloneIn(id)
<1>1. Writers(id)' = {n}
  <2>1. \A i : i = built'[n].id /\ AloneIn(i)' => Writers(i)' = {n}
    BY OnlyWriterThen
  <2> QED
    BY <2>1
<1>2. Writers(id) = {n}
  BY <1>1 DEF Writers
<1> QED
  BY <1>2, FS_Singleton DEF Writers, AloneIn

\* A rule stays traced to its incident.
LEMMA TracedStill ==
    ASSUME BuiltOK, BuiltOK', DOMAIN built \subseteq DOMAIN built',
           \A m \in DOMAIN built : built'[m].id = built[m].id /\ built'[m].events = built[m].events,
           NEW rule, Traced(rule)
    PROVE  Traced(rule)'
<1>1. rule.from \in DOMAIN built /\ rule.source = built[rule.from].id
  BY DEF Traced
<1>2. AloneIn(rule.source)' => AloneIn(rule.source)
  BY <1>1, AloneBefore
<1> QED
  BY <1>1, <1>2 DEF Traced

\* The rule that is adopted is traced to the incident.
LEMMA AdoptedIsTraced ==
    ASSUME IInv, Made, NEW id \in DOMAIN store, Adopt(id)
    PROVE  \E rule : Traced(rule) /\ rules' = Saved(rule)
<1> DEFINE n == store[id]["incident.json"]
           incident == The(id, "incident.json")
           events == IF store[id]["triggers.json"] = Absent THEN <<>>
                     ELSE The(id, "triggers.json").events
           cause == incident.events[incident.causes[1].trigger]
           what(topic) == Recommended(cause.class, topic)
           Rule(topic) == [kind |-> what(topic).kind, params |-> what(topic).params,
                           onFail |-> "block", disabled |-> FALSE,
                           rationale |-> Cause(cause),
                           source |-> id, from |-> n]
<1>1. /\ Readable(id, "incident.json") /\ store[id]["triggers.json"] # Torn
      /\ incident.causes # <<>>
      /\ cause.class \in {"QoSMismatchDetector", "DeadTopicDetector"}
      /\ \E topic \in FirstOf(events, cause.class) : rules' = Saved(Rule(topic))
  BY DEF Adopt
<1>2. PICK topic \in FirstOf(events, cause.class) : rules' = Saved(Rule(topic))
  BY <1>1
<1>3. n \in Writers(id) /\ n \in DOMAIN built /\ built[n].id = id /\ incident = built[n]
  <2>1. "incident.json" \in Files
    BY FilesAreOrdered
  <2> QED
    BY <1>1, <2>1, ReadableWriter DEF IInv, Writers, The
<1>4. incident.causes[1].trigger \in Triggers(incident.events)
  <2> DEFINE b == built[n]
             causes == b.causes
             hyp(i) == Hypothesis(b.events, i, Timeline(b.events, b.window), b.baseline,
                                  b.sig, b.prior)
  <2>1. MadeOf(b) /\ causes # <<>>
    BY <1>1, <1>3 DEF Made
  <2>2. AreEvents(b.events) /\ AreRows(Timeline(b.events, b.window))
    BY <2>1, MadeOfEvents
  <2>3. causes = Rank(b.events, Timeline(b.events, b.window), b.baseline, b.sig, b.prior)
    BY <2>1 DEF MadeOf
  <2>4. \E i \in Triggers(b.events) : causes[1] = hyp(i)
    BY <2>1, <2>2, <2>3, Ranked
  <2>5. \A i \in Triggers(b.events) : hyp(i).trigger = i
    BY <2>2, Scores
  <2> HIDE DEF hyp
  <2> QED
    BY <1>3, <2>4, <2>5
<1>5. ASSUME AloneIn(id), cause.class = "DeadTopicDetector"
      PROVE  \E i \in Triggers(built[n].events) :
                /\ Rule(topic).kind = "topic_present"
                /\ Rule(topic).params = [topic |-> built[n].events[i].subject, min |-> 1]
  <2>1. Writers(id) = {n}
    BY <1>3, <1>5, OnlyWriter DEF IInv
  <2>2. events = <<>> \/ events = built[n].events
    <3>1. "triggers.json" \in Files
      BY DEF Files, FileOrder, Range
    <3>2. store[id]["triggers.json"] \in {Absent, n}
      BY <1>1, <2>1, <3>1 DEF IInv, StoreOK
    <3> QED
      BY <3>2 DEF The
  <2>3. \E i \in Triggers(events) : topic = events[i].subject
    <3> HIDE DEF events, cause
    <3> DEFINE found == {i \in Triggers(events) : events[i].class = cause.class}
               first == CHOOSE i \in found : \A j \in found : i <= j
    <3>1. found # {} /\ topic = events[first].subject
      BY DEF FirstOf
    <3>2. first \in found
      <4>1. found \subseteq Nat
        <5>1. DOMAIN events \subseteq Nat
          <6>1. DOMAIN built[n].events \subseteq Nat
            BY <1>3 DEF Made, MadeOf
          <6> QED
            BY <2>2, <6>1
        <5> QED
          BY <5>1 DEF Triggers, Where
      <4>2. \E i \in found : \A j \in found : i <= j
        BY <3>1, <4>1, SmallestNumber
      <4> HIDE DEF found
      <4> QED
        BY <4>2
    <3> QED
      BY <3>1, <3>2
  <2>4. PICK i \in Triggers(built[n].events) : topic = built[n].events[i].subject
    <3>1. Triggers(<<>>) = {}
      BY DEF Triggers, Where
    <3> QED
      BY <2>2, <2>3, <3>1
  <2>5. what(topic) = [kind |-> "topic_present", params |-> [topic |-> topic, min |-> 1]]
    BY <1>5 DEF Recommended
  <2>6. /\ Rule(topic).kind = what(topic).kind
        /\ Rule(topic).params = what(topic).params
    <3> HIDE DEF what, cause, n
    <3> QED
      OBVIOUS
  <2> HIDE DEF Rule, what, cause, n
  <2> QED
    BY <2>4, <2>5, <2>6
<1>6. Traced(Rule(topic))
  <2>1. /\ Rule(topic).onFail = "block" /\ Rule(topic).disabled = FALSE
        /\ Rule(topic).from = n /\ Rule(topic).source = id
    OBVIOUS
  <2>2. cause.class # "DeadTopicDetector" =>
            \E i \in Triggers(built[n].events) :
                built[n].events[i].class # "DeadTopicDetector"
    BY <1>3, <1>4
  <2> HIDE DEF Rule, n, cause
  <2> QED
    BY <1>3, <1>5, <2>1, <2>2 DEF Traced
<1> QED
  BY <1>2, <1>6

\* Initially there are no rules.
LEMMA RulesInit == PreventionInit => RulesTraced
BY DEF PreventionInit, PreflightInit, RulesTraced

\* Every step leaves every adopted rule traced to its incident.
LEMMA RulesKept == IInv /\ IInv' /\ Made /\ RulesTraced /\ [Next]_vars => RulesTraced'
<1> SUFFICES ASSUME IInv, IInv', Made, RulesTraced, [Next]_vars PROVE RulesTraced'
    OBVIOUS
<1>1. BuiltOK /\ BuiltOK'
  BY DEF IInv
<1>2. ASSUME DOMAIN built \subseteq DOMAIN built', UNCHANGED rules,
             \A m \in DOMAIN built : built'[m].id = built[m].id /\ built'[m].events = built[m].events
      PROVE  RulesTraced'
  BY <1>1, <1>2, TracedStill DEF RulesTraced
<1>3. ASSUME UNCHANGED built PROVE \A rule : Traced(rule)' <=> Traced(rule)
  BY <1>3 DEF Traced, AloneIn
<1>4. ASSUME NEW w, NEW failing, Begin(w, failing), UNCHANGED preflightVars PROVE RulesTraced'
  <2>1. /\ DOMAIN built \subseteq DOMAIN built'
        /\ \A m \in DOMAIN built : built'[m] = built[m]
    BY <1>1, <1>4, AppendedTo DEF Begin, BuiltOK
  <2> QED
    BY <1>2, <1>4, <2>1 DEF preflightVars
<1>5. ASSUME NEW n \in DOMAIN built, BuildStep(n), UNCHANGED preflightVars PROVE RulesTraced'
  <2>1. Keeps(n)
    BY <1>1, <1>5, StepKeeps
  <2> QED
    BY <1>2, <1>5, <2>1 DEF Keeps, Same, preflightVars
<1>6. CASE UNCHANGED <<built, rules>>
  BY <1>3, <1>6 DEF RulesTraced
<1>7. ASSUME NEW id \in DOMAIN store, Adopt(id) PROVE RulesTraced'
  <2>1. PICK rule : Traced(rule) /\ rules' = Saved(rule)
    BY <1>7, AdoptedIsTraced
  <2>2. UNCHANGED built
    BY <1>7 DEF Adopt, buildVars
  <2> QED
    BY <1>3, <2>1, <2>2 DEF RulesTraced, Saved
<1>8. CASE Write /\ UNCHANGED buildVars
  <2>1. PICK written \in Handwritten : rules' = rules \cup written
    BY <1>8 DEF Write
  <2>2. UNCHANGED built
    BY <1>8 DEF buildVars
  <2>3. \A rule \in written : rule.from = NotSet
    BY PreflightAssumption DEF PreflightAssumption
  <2> QED
    BY <1>3, <2>1, <2>2, <2>3 DEF RulesTraced
<1>9. CASE \E r \in Robots : Preflight(r) /\ UNCHANGED buildVars
  BY <1>6, <1>9 DEF Preflight, buildVars
<1> QED
  BY <1>4, <1>5, <1>6, <1>7, <1>8, <1>9
     DEF Next, BuildNext, PreflightNext, LoseOldest, Upgrade, vars, buildVars, preflightVars

LEMMA RulesInvariance == Spec => []RulesTraced
BY RulesInit, RulesKept, Invariance, MadeInvariance, PTL DEF Spec

\* The incident that was fixed does not come back unseen: whatever rules
\* were written beside the adopted one, and on whatever robot.
THEOREM AdoptedRulesBlock == Spec => AdoptedRuleBlocks
<1>1. ASSUME RulesTraced, NEW r \in Robots, Preflight(r), NEW rule \in rules,
             rule.from # NotSet, AloneIn(rule.source), r.rclpy = "ok",
             \A i \in Triggers(built[rule.from].events) :
                /\ built[rule.from].events[i].class = "DeadTopicDetector"
                /\ r.pubs[built[rule.from].events[i].subject] = {}
      PROVE  gate' = 1
  <2> DEFINE events == built[rule.from].events
             results == [x \in rules |-> Result(r, x)]
  <2>1. PICK i \in Triggers(events) :
            /\ rule.kind = "topic_present"
            /\ rule.params = [topic |-> events[i].subject, min |-> 1]
    BY <1>1 DEF RulesTraced, Traced
  <2>2. rule.onFail = "block" /\ rule.disabled = FALSE
    BY <1>1 DEF RulesTraced, Traced
  <2>3. TopicPresent(r, rule.params) = "fail"
    <3>1. r.pubs[rule.params.topic] = {} /\ rule.params.min = 1
      BY <1>1, <2>1
    <3>2. Cardinality({}) = 0
      BY FS_EmptySet
    <3> QED
      BY <3>1, <3>2 DEF TopicPresent
  <2>4. Status(r, rule) = "fail"
    <3>1. GraphStatus(r, rule) = "fail"
      BY <1>1, <2>1, <2>3 DEF GraphStatus
    <3> QED
      BY <2>1, <3>1 DEF Status, GraphKinds
  <2>5. Result(r, rule) = "block"
    BY <2>2, <2>4 DEF Result
  <2>6. "block" \in {results[x] : x \in rules}
    BY <2>5
  <2>7. ExitCode({results[x] : x \in rules}) = 1
    <3> HIDE DEF results
    <3> QED
      BY <2>6 DEF ExitCode
  <2>8. gate' = IF Loadable THEN ExitCode({results[x] : x \in rules}) ELSE 1
    BY <1>1 DEF Preflight
  <2> QED
    BY <2>7, <2>8
<1>2. RulesTraced /\ [Next]_vars =>
        \A r \in Robots : Preflight(r) => \A rule \in rules :
            /\ rule.from # NotSet /\ AloneIn(rule.source)
            /\ r.rclpy = "ok"
            /\ \A i \in Triggers(built[rule.from].events) :
                /\ built[rule.from].events[i].class = "DeadTopicDetector"
                /\ r.pubs[built[rule.from].events[i].subject] = {}
            => gate' = 1
  BY <1>1
<1> QED
  BY <1>2, RulesInvariance, PTL DEF Spec, AdoptedRuleBlocks
=============================================================================
