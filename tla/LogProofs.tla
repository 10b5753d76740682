------------------------------ MODULE LogProofs ------------------------------
(***************************************************************************)
(* Invariance proofs for the rotating writer and for the follower of its   *)
(* log, for all limits, lengths and bounds: whatever files were unlinked,  *)
(* and whenever the daemon crashed, names sort like the order of creation. *)
(***************************************************************************)
EXTENDS LogTail, FiniteSetTheorems, FunctionTheorems, SequenceTheorems,
        WellFoundedInduction, TLAPS

\* The suffixes of one point in time have no gap, over all files ever made.
NoGaps ==
    \A f \in Created : \A j \in 0 .. name[f][2] - 1 :
        \E g \in Created : name[g] = <<name[f][1], j>>

\* Names sort like the order of creation, also those of files long unlinked.
NamesAscend ==
    /\ \A f, g \in Created : f < g => Before(f, g)
    /\ \A f \in Created : name[f][1] <= clock

\* Files are written one after the other.
TimesAscend ==
    /\ \A f, g \in Created : f < g => mtime[f] <= mtime[g]
    /\ \A f \in Created : mtime[f] <= clock

\* The writer has the last file open, or none.
CurrentIsLast == current # 0 => current = Len(name) /\ current \in files

\* Where write() is between its first file operation and its last.
Writing == {"rotate", "open", "retain", "unlink", "expire", "append"}

\* What write() has in hand, and what only one of its steps has.
InHand ==
    /\ pc \in Writing => line \in (1 .. MaxEvents) \X Lengths /\ line[1] = last
    /\ pc \in {"retain", "unlink", "expire", "append"} /\ ~stopping => current # 0
    /\ pc \in {"rotate", "open"} => current = 0
    /\ doomed # {} => pc = "unlink"

\* What is to be unlinked is older than what stays, and never the last file.
DoomedAreOldest ==
    /\ Len(name) \notin doomed
    /\ \A g \in doomed, f \in files : f < g => f \in doomed \cup stuck

\* The files that will be left when the loop has ended.
DoomedAreEnough == pc = "unlink" => Cardinality((files \ doomed) \ stuck) <= MaxFiles

\* The first event that no line can be of yet: the one in hand or the next.
Unseen == IF pc \in Writing THEN last ELSE last + 1

\* No line is of an event that write() has not seen, or of the one in hand.
EventsSeen ==
    \A f \in Created : \A i \in 1 .. Len(content[f]) : content[f][i][1] < Unseen

\* The order of all lines ever written, in files unlinked or not.
LinesInOrder ==
    \A f, g \in Created :
        \A i \in 1 .. Len(content[f]), j \in 1 .. Len(content[g]) :
            (f < g \/ (f = g /\ i < j)) /\ content[f][i][1] > 0 /\ content[g][j][1] > 0
                => content[f][i][1] < content[g][j][1]

\* The inductive invariant of the writer.
LogInv ==
    /\ TypeOK /\ InHand
    /\ NamesAscend /\ NoGaps /\ TimesAscend /\ CurrentIsLast
    /\ DoomedAreOldest /\ DoomedAreEnough /\ RotationRestoresLimit /\ OldestGoFirst
    /\ EventsSeen /\ LinesInOrder

\* Where a line is ahead of the follower.
Ahead(f, i) == f > tfile \/ (f = tfile /\ i > tpos)

\* Without expiry the last file is never unlinked.
LastStays == Len(name) > 0 => Len(name) \in files

\* The inductive invariant of the follower.
TailInv ==
    /\ TailTypeOK
    /\ LastStays
    /\ tpc \in {"start", "open"} => yielded = <<>>
    /\ tpc \in {"read", "check", "switch"} => tfile # 0
    /\ tpc = "switch" => tnext > tfile
    /\ TailInOrder
    /\ \A k \in 1 .. Len(yielded) : yielded[k] < Unseen
    /\ \A k \in 1 .. Len(yielded), f \in Created : \A i \in 1 .. Len(content[f]) :
            Ahead(f, i) /\ content[f][i][1] > 0 => yielded[k] < content[f][i][1]

Event == (0 .. MaxEvents) \X Lengths

USE RotatingLogAssumption
USE DEF Created, faults, wvars, logvars

-----------------------------------------------------------------------------
(* Names *)

\* Least elements.
LEMMA LeastNat ==
  ASSUME NEW S \in SUBSET Nat, S # {}
  PROVE  \E m \in S : \A n \in S : m <= n
<1> DEFINE R == {ss \in Nat \X Nat : ss[1] < ss[2]}
<1>1. IsWellFoundedOn(R, Nat)
  BY NatLessThanWellFounded, Zenon DEF OpToRel
<1>2. \E m \in S : \A n \in S : ~(<<n, m>> \in R)
  <2> HIDE DEF R
  <2>1. QED
    BY <1>1, WFMin
<1>3. \A m, n \in Nat : n < m => <<n, m>> \in R
  OBVIOUS
<1>4. QED
  <2> HIDE DEF R
  <2>1. \E m \in S : \A n \in S : ~(n < m)
    BY <1>2, <1>3, Zenon
  <2>2. QED
    BY <2>1

\* Pigeons that all fit are no more than the holes.
LEMMA SuffixesFit ==
  ASSUME TypeOK, NEW t \in Nat, NEW k \in Nat,
         \A j \in 0 .. k - 1 : \E f \in files : name[f] = <<t, j>>
  PROVE  k <= Cardinality(files) /\ Cardinality(files) \in Nat
<1>1. IsFiniteSet(files)
  <2>1. files \in SUBSET (1 .. Len(name)) /\ Len(name) \in Nat
    BY DEF TypeOK
  <2>2. IsFiniteSet(1 .. Len(name))
    BY <2>1, FS_Interval
  <2>3. QED
    BY <2>1, <2>2, FS_Subset
<1> DEFINE h == [j \in 0 .. k - 1 |-> CHOOSE f \in files : name[f] = <<t, j>>]
<1>2. \A j \in 0 .. k - 1 : h[j] \in files /\ name[h[j]] = <<t, j>>
  OBVIOUS
<1>3. h \in Injection(0 .. k - 1, files)
  <2>1. h \in [0 .. k - 1 -> files]
    BY <1>2
  <2>2. \A i, j \in 0 .. k - 1 : h[i] = h[j] => i = j
    <3>1. \A i, j : <<t, i>> = <<t, j>> => i = j
      OBVIOUS
    <3> HIDE DEF h
    <3>2. QED
      BY <1>2, <3>1
  <2>3. QED
    BY <2>1, <2>2 DEF Injection, IsInjective
<1>4. Cardinality(0 .. k - 1) <= Cardinality(files)
  BY <1>1, <1>3, FS_Injection
<1>5. Cardinality(0 .. k - 1) = k
  BY FS_Interval
<1>6. QED
  BY <1>1, <1>4, <1>5, FS_CardinalityType

\* What exclusive creation finds: a suffix above every one of this time.
LEMMA FreeSuffixIsNext ==
  ASSUME LogInv, \A f \in Created \ files : name[f][1] < clock
  PROVE  /\ FreeSuffix \in Nat
         /\ \A f \in Created :
              name[f][1] < clock \/ (name[f][1] = clock /\ name[f][2] < FreeSuffix)
         /\ \A j \in 0 .. FreeSuffix - 1 : \E f \in Created : name[f] = <<clock, j>>
<1> DEFINE Free(k) == /\ \A f \in files : name[f] # <<clock, k>>
                      /\ \A j \in 0 .. k - 1 : \E f \in files : name[f] = <<clock, j>>
<1>1. /\ Len(name) \in Nat /\ name \in Seq(Nat \X Nat)
      /\ \A f \in Created : /\ name[f][1] \in Nat /\ name[f][2] \in Nat
                            /\ name[f] = <<name[f][1], name[f][2]>>
      /\ clock \in Nat /\ files \subseteq Created
  <2>1. name \in Seq(Nat \X Nat) /\ clock \in 0 .. MaxClock /\ files \in SUBSET Created
    BY DEF LogInv, TypeOK
  <2>2. \A f \in Created : name[f] \in Nat \X Nat
    BY <2>1
  <2>3. \A x \in Nat \X Nat : x[1] \in Nat /\ x[2] \in Nat /\ x = <<x[1], x[2]>>
    OBVIOUS
  <2>4. QED
    BY <2>1, <2>2, <2>3
<1>2. \E k \in Nat : Free(k)
  <2>1. CASE \A f \in Created : name[f][1] < clock
    <3>1. Free(0)
      BY <1>1, <2>1
    <3>2. QED
      BY <3>1
  <2>2. CASE \E f \in Created : ~(name[f][1] < clock)
    <3> DEFINE n == Len(name)
    <3>1. n \in Created /\ name[n][1] = clock
      <4>1. PICK f \in Created : ~(name[f][1] < clock)
        BY <2>2
      <4>2. name[f][1] = clock /\ n \in Created
        BY <1>1, <4>1 DEF LogInv, NamesAscend
      <4>3. f = n \/ Before(f, n)
        BY <1>1, <4>2 DEF LogInv, NamesAscend
      <4>4. name[n][1] <= clock
        BY <4>2 DEF LogInv, NamesAscend
      <4>5. QED
        BY <1>1, <4>2, <4>3, <4>4 DEF Before
    <3> DEFINE k == name[n][2] + 1
    <3>2. k \in Nat
      BY <1>1, <3>1
    <3>3. \A f \in Created : name[f][1] = clock => f \in files
      BY <1>1
    <3>4. \A j \in 0 .. k - 1 : \E f \in files : name[f] = <<clock, j>>
      <4>0. \A f, j : name[f] = <<clock, j>> => name[f][1] = clock
        OBVIOUS
      <4>1. SUFFICES ASSUME NEW j \in 0 .. k - 1
                     PROVE  \E f \in Created : name[f] = <<clock, j>>
        BY <3>3, <4>0
      <4>2. CASE j = name[n][2]
        BY <1>1, <3>1, <4>2
      <4>3. CASE j \in 0 .. name[n][2] - 1
        BY <3>1, <4>3 DEF LogInv, NoGaps
      <4>4. QED
        BY <1>1, <3>1, <4>2, <4>3
    <3>5. \A f \in files : name[f] # <<clock, k>>
      <4>1. SUFFICES ASSUME NEW f \in Created, name[f] = <<clock, k>>
                     PROVE  FALSE
        BY <1>1
      <4>2. f = n \/ Before(f, n)
        BY <1>1, <3>1 DEF LogInv, NamesAscend
      <4>3. QED
        BY <1>1, <3>1, <4>1, <4>2 DEF Before
    <3>6. QED
      BY <3>2, <3>4, <3>5
  <2>3. QED
    BY <2>1, <2>2
<1>3. PICK k \in Nat : Free(k)
  BY <1>2
<1>4. k \in 0 .. Cardinality(files)
  <2>1. k <= Cardinality(files) /\ Cardinality(files) \in Nat
    BY <1>1, <1>3, SuffixesFit DEF LogInv
  <2>2. QED
    BY <2>1
<1>5. FreeSuffix \in 0 .. Cardinality(files) /\ Free(FreeSuffix)
  BY <1>3, <1>4 DEF FreeSuffix
<1>6. FreeSuffix \in Nat
  BY <1>5
<1>7. \A f \in Created :
              name[f][1] < clock \/ (name[f][1] = clock /\ name[f][2] < FreeSuffix)
  <2>1. \A f \in Created : name[f][1] <= clock
    BY DEF LogInv, NamesAscend
  <2>2. ASSUME NEW f \in Created, name[f][1] = clock, ~(name[f][2] < FreeSuffix)
        PROVE  FALSE
    <3>1. f \in files
      BY <1>1, <2>2
    <3>2. name[f][2] # FreeSuffix
      BY <1>1, <1>5, <2>2, <3>1
    <3>3. FreeSuffix \in 0 .. name[f][2] - 1
      BY <1>1, <1>6, <2>2, <3>2
    <3>4. PICK g \in Created : name[g] = <<clock, FreeSuffix>>
      BY <2>2, <3>3 DEF LogInv, NoGaps
    <3>5. g \in files
      BY <1>1, <1>6, <3>4
    <3>6. QED
      BY <1>5, <3>4, <3>5
  <2>3. \A f \in Created : name[f][1] < clock \/ name[f][1] = clock
    BY <1>1, <2>1
  <2>4. \A f \in Created : name[f][1] = clock => name[f][2] < FreeSuffix
    BY <2>2
  <2>5. QED
    BY <2>3, <2>4
<1>8. QED
  BY <1>1, <1>5, <1>6, <1>7

-----------------------------------------------------------------------------
(* What the actions do to the files *)

\* _open_new_file adds a file after all others.
LEMMA OpenNewAdds ==
  ASSUME LogInv, OpenNew
  PROVE  /\ name' \in Seq(Nat \X Nat) /\ content' \in Seq(Seq(Event))
         /\ mtime' \in Seq(0 .. MaxClock)
         /\ Len(name') = Len(name) + 1 /\ Len(content') = Len(name') /\ Len(mtime') = Len(name')
         /\ Created' = Created \cup {Len(name) + 1} /\ Len(name) \in Nat
         /\ \A f \in Created :
              name'[f] = name[f] /\ content'[f] = content[f] /\ mtime'[f] = mtime[f]
         /\ name'[Len(name) + 1] = <<clock, FreeSuffix>>
         /\ content'[Len(name) + 1] = <<>>
         /\ mtime'[Len(name) + 1] = clock
<1>1. /\ name \in Seq(Nat \X Nat) /\ content \in Seq(Seq(Event)) /\ mtime \in Seq(0 .. MaxClock)
      /\ Len(content) = Len(name) /\ Len(mtime) = Len(name) /\ Len(name) \in Nat
      /\ clock \in 0 .. MaxClock /\ clock \in Nat
  BY DEF LogInv, TypeOK, Event
<1>2. <<clock, FreeSuffix>> \in Nat \X Nat
  BY <1>1, FreeSuffixIsNext DEF OpenNew
<1>3. name' = Append(name, <<clock, FreeSuffix>>) /\ content' = Append(content, <<>>)
      /\ mtime' = Append(mtime, clock)
  BY DEF OpenNew
<1>4. /\ name' \in Seq(Nat \X Nat) /\ Len(name') = Len(name) + 1
      /\ \A f \in 1 .. Len(name) : name'[f] = name[f]
      /\ name'[Len(name) + 1] = <<clock, FreeSuffix>>
  BY <1>1, <1>2, <1>3, AppendProperties
<1>5. /\ content' \in Seq(Seq(Event)) /\ Len(content') = Len(content) + 1
      /\ \A f \in 1 .. Len(content) : content'[f] = content[f]
      /\ content'[Len(content) + 1] = <<>>
  <2>1. <<>> \in Seq(Event)
    OBVIOUS
  <2>2. QED
    BY <1>1, <1>3, <2>1, AppendProperties
<1>6. /\ mtime' \in Seq(0 .. MaxClock) /\ Len(mtime') = Len(mtime) + 1
      /\ \A f \in 1 .. Len(mtime) : mtime'[f] = mtime[f]
      /\ mtime'[Len(mtime) + 1] = clock
  BY <1>1, <1>3, AppendProperties
<1>7. Created' = Created \cup {Len(name) + 1}
  <2>1. \A n \in Nat : 1 .. n + 1 = (1 .. n) \cup {n + 1}
    OBVIOUS
  <2>2. QED
    BY <1>1, <1>4, <2>1, Zenon
<1>8. \A f \in Created :
          name'[f] = name[f] /\ content'[f] = content[f] /\ mtime'[f] = mtime[f]
  BY <1>1, <1>4, <1>5, <1>6
<1>9. /\ name'[Len(name) + 1] = <<clock, FreeSuffix>>
      /\ content'[Len(name) + 1] = <<>>
      /\ mtime'[Len(name) + 1] = clock
  BY <1>1, <1>4, <1>5, <1>6
<1>10. Len(name') = Len(name) + 1 /\ Len(content') = Len(name') /\ Len(mtime') = Len(name')
  BY <1>1, <1>4, <1>5, <1>6
<1>11. QED
  BY <1>1, <1>4, <1>5, <1>6, <1>7, <1>8, <1>9, <1>10, Zenon

\* A line goes to the end of the file that is open, and nowhere else.
Grows(e) ==
    /\ content' \in Seq(Seq(Event)) /\ Len(content') = Len(content)
    /\ \A f \in Created \ {current} : content'[f] = content[f]
    /\ Len(content'[current]) = Len(content[current]) + 1
    /\ \A i \in 1 .. Len(content[current]) : content'[current][i] = content[current][i]
    /\ content'[current][Len(content[current]) + 1] = e

\* A line appended to the current file.
LEMMA AppendGrows ==
  ASSUME TypeOK, current # 0, NEW e \in Event,
         content' = [content EXCEPT ![current] = Append(@, e)]
  PROVE  Grows(e)
<1>1. content \in Seq(Seq(Event)) /\ current \in 1 .. Len(content) /\ Len(content) = Len(name)
  BY DEF TypeOK, Event
<1>2. content[current] \in Seq(Event)
  BY <1>1, ElementOfSeq
<1>3. /\ Append(content[current], e) \in Seq(Event)
      /\ Len(Append(content[current], e)) = Len(content[current]) + 1
      /\ \A i \in 1 .. Len(content[current]) : Append(content[current], e)[i] = content[current][i]
      /\ Append(content[current], e)[Len(content[current]) + 1] = e
  BY <1>2, AppendProperties
<1>4. /\ content' \in Seq(Seq(Event)) /\ Len(content') = Len(content)
      /\ \A f \in Created \ {current} : content'[f] = content[f]
      /\ content'[current] = Append(content[current], e)
  BY <1>1, <1>3, ExceptSeq
<1>5. QED
  BY <1>3, <1>4 DEF Grows

\* The three actions that add a line, and what they add.
LEMMA TornGrows ==
  ASSUME LogInv, Crash
  PROVE  UNCHANGED content \/ (current # 0 /\ Grows(<<0, line[2]>>) /\ line[2] \in Lengths)
<1>1. CASE UNCHANGED content
  BY <1>1
<1>2. CASE /\ pc = "append" /\ current # 0
           /\ content' = [content EXCEPT ![current] = Append(@, <<0, line[2]>>)]
  <2>1. line[2] \in Lengths
    BY <1>2 DEF LogInv, InHand, Writing
  <2>2. <<0, line[2]>> \in Event
    BY <2>1 DEF Event
  <2>3. QED
    BY <1>2, <2>1, <2>2, AppendGrows DEF LogInv
<1>3. QED
  BY <1>1, <1>2 DEF Crash

\* A line is appended whole, torn or not at all.
LEMMA LineGrows ==
  ASSUME LogInv, AppendLine \/ AppendFails
  PROVE  /\ line \in Event /\ line[1] = last /\ current # 0
         /\ UNCHANGED content \/ Grows(line)
<1>1. line \in (1 .. MaxEvents) \X Lengths /\ line[1] = last
  BY DEF LogInv, InHand, Writing, AppendLine, AppendFails
<1>2. line \in Event
  BY <1>1 DEF Event
<1>3. QED
  BY <1>1, <1>2, AppendGrows DEF LogInv, AppendLine, AppendFails

-----------------------------------------------------------------------------
(* What a step may do to the files *)

\* The types of what a file is known by, one by one.
LEMMA TypedFiles ==
  ASSUME TypeOK
  PROVE  /\ Len(name) \in Nat /\ Len(content) = Len(name) /\ Len(mtime) = Len(name)
         /\ name \in Seq(Nat \X Nat) /\ content \in Seq(Seq(Event)) /\ mtime \in Seq(0 .. MaxClock)
         /\ \A f \in Created : /\ name[f][1] \in Nat /\ name[f][2] \in Nat /\ mtime[f] \in Nat
                               /\ content[f] \in Seq(Event) /\ Len(content[f]) \in Nat
         /\ \A f \in Created : \A i \in 1 .. Len(content[f]) :
                content[f][i] \in Event /\ content[f][i][1] \in Nat
         /\ clock \in Nat /\ last \in Nat /\ current \in Nat /\ size \in Nat
<1>1. /\ Len(name) \in Nat /\ Len(content) = Len(name) /\ Len(mtime) = Len(name)
      /\ name \in Seq(Nat \X Nat) /\ content \in Seq(Seq(Event)) /\ mtime \in Seq(0 .. MaxClock)
      /\ clock \in Nat /\ last \in Nat /\ current \in Nat /\ size \in Nat
  BY DEF TypeOK, Event
<1>2. \A f \in Created : name[f] \in Nat \X Nat
  BY <1>1, ElementOfSeq
<1>3. \A f \in Created : mtime[f] \in 0 .. MaxClock
  BY <1>1, ElementOfSeq
<1>4. \A f \in Created : content[f] \in Seq(Event)
  BY <1>1, ElementOfSeq
<1>5. \A f \in Created : \A i \in 1 .. Len(content[f]) : content[f][i] \in Event
  BY <1>4, ElementOfSeq
<1>6. (\A e \in Event : e[1] \in Nat) /\ (\A x \in Nat \X Nat : x[1] \in Nat /\ x[2] \in Nat)
      /\ (\A x \in 0 .. MaxClock : x \in Nat) /\ (\A s \in Seq(Event) : Len(s) \in Nat)
  BY DEF Event
<1>7. QED
  BY <1>1, <1>2, <1>3, <1>4, <1>5, <1>6, Zenon

\* Numbers and names order the files alike.
LEMMA BeforeIsOlder ==
  ASSUME TypeOK, NamesAscend
  PROVE  \A f, g \in Created : Before(f, g) <=> f < g
<1>1. SUFFICES ASSUME NEW f \in Created, NEW g \in Created
               PROVE  Before(f, g) <=> f < g
  OBVIOUS
<1>2. f \in Nat /\ g \in Nat /\ name[f][1] \in Nat /\ name[f][2] \in Nat
      /\ name[g][1] \in Nat /\ name[g][2] \in Nat
  <2>1. f \in Nat /\ g \in Nat
    BY TypedFiles, SMT DEF Created
  <2>2. \A h \in Created : name[h][1] \in Nat /\ name[h][2] \in Nat
    BY TypedFiles, Zenon
  <2> QED
    BY <2>1, <2>2
<1>3. (f < g => Before(f, g)) /\ (g < f => Before(g, f))
  BY DEF NamesAscend
<1>4. ~(Before(f, g) /\ Before(g, f)) /\ ~Before(f, f)
  BY <1>2 DEF Before
<1>5. QED
  BY <1>2, <1>3, <1>4

\* Names are given once, by _open_new_file; the clock is not set back.
LEMMA WhoNames ==
  ASSUME LogInv, [LogNext]_logvars
  PROVE  clock <= clock' /\ clock' \in Nat /\ (UNCHANGED name \/ (OpenNew /\ UNCHANGED clock))
<1>1. clock \in Nat /\ clock' \in {clock, clock + 1} => clock <= clock' /\ clock' \in Nat
  OBVIOUS
<1>2. clock \in Nat
  BY TypedFiles DEF LogInv
<1>3. CASE UNCHANGED <<name, clock>>
  BY <1>1, <1>2, <1>3
<1>4. CASE Tick
  BY <1>1, <1>2, <1>4 DEF Tick
<1>5. CASE OpenNew
  BY <1>1, <1>2, <1>5 DEF OpenNew
<1>6. UNCHANGED <<name, clock>> \/ Tick \/ OpenNew
  BY DEF LogNext, Writer, Construct, Write, OpenFails, Retain, Unlink, Unlinked, Expire,
         ExpireDone, AppendLine, AppendFails, AppendClosed, Close, Crash
<1>7. QED
  BY <1>3, <1>4, <1>5, <1>6

\* A line is written to the open file, and it is of the event in hand.
NewLine(e) ==
    /\ pc = "append" /\ current # 0 /\ UNCHANGED <<name, last>> /\ pc' \notin Writing
    /\ e \in Event /\ Grows(e) /\ e[1] \in {0, last}

\* Only a rotation adds a file and only a line is written to one.
LEMMA WhoWrites ==
  ASSUME LogInv, [LogNext]_logvars
  PROVE  UNCHANGED <<name, content>> \/ OpenNew \/ \E e : NewLine(e)
<1>1. CASE Crash
  <2>1. /\ UNCHANGED <<name, last>> /\ pc' \notin Writing
        /\ UNCHANGED content \/ (pc = "append" /\ current # 0)
    BY <1>1 DEF Crash, Writing
  <2>2. line[2] \in Lengths => <<0, line[2]>> \in Event /\ <<0, line[2]>>[1] = 0
    BY DEF Event
  <2>3. QED
    BY <1>1, <2>1, <2>2, TornGrows DEF NewLine
<1>2. CASE AppendLine \/ AppendFails
  <2>1. /\ UNCHANGED <<name, last>> /\ pc' \notin Writing
        /\ pc = "append" /\ current # 0
    BY <1>2 DEF AppendLine, AppendFails, Writing
  <2>2. QED
    BY <1>2, <2>1, LineGrows DEF NewLine
<1>3. CASE UNCHANGED <<name, content>>
  BY <1>3
<1>4. CASE OpenNew
  BY <1>4
<1>5. UNCHANGED <<name, content>> \/ OpenNew \/ Crash \/ AppendLine \/ AppendFails
  BY DEF LogNext, Writer, Construct, Write, OpenFails, Retain, Unlink, Unlinked, Expire,
         ExpireDone, AppendClosed, Close, Tick
<1>6. QED
  BY <1>1, <1>2, <1>3, <1>4, <1>5

\* No event becomes unseen again.
LEMMA UnseenGrows ==
  ASSUME LogInv, [LogNext]_logvars
  PROVE  Unseen \in Nat /\ Unseen' \in Nat /\ Unseen <= Unseen'
<1>1. last \in Nat
  BY TypedFiles DEF LogInv
<1>2. CASE UNCHANGED last /\ (pc' \in Writing => pc \in Writing)
  BY <1>1, <1>2 DEF Unseen
<1>3. CASE last' = last + 1 /\ pc \notin Writing
  BY <1>1, <1>3 DEF Unseen
<1>4. \/ UNCHANGED last /\ (pc' \in Writing => pc \in Writing)
      \/ last' = last + 1 /\ pc \notin Writing
  BY DEF LogNext, Writer, Construct, Write, OpenNew, OpenFails, Retain, Unlink, Unlinked, Expire,
         ExpireDone, AppendLine, AppendFails, AppendClosed, Close, Crash, Tick, Writing
<1>5. QED
  BY <1>2, <1>3, <1>4

-----------------------------------------------------------------------------
(* The invariant of the writer, part by part *)

\* Suffixes stay without gap: the new one is the first that is free.
LEMMA NoGapsStep ==
  ASSUME LogInv, [LogNext]_logvars
  PROVE  NoGaps'
<1>1. CASE UNCHANGED name
  BY <1>1 DEF LogInv, NoGaps
<1>2. CASE OpenNew
  <2> DEFINE n == Len(name) + 1
  <2>1. /\ FreeSuffix \in Nat
        /\ \A j \in 0 .. FreeSuffix - 1 : \E f \in Created : name[f] = <<clock, j>>
    BY <1>2, FreeSuffixIsNext DEF OpenNew
  <2>2. /\ Created' = Created \cup {n} /\ Len(name) \in Nat
        /\ \A f \in Created : name'[f] = name[f]
        /\ name'[n] = <<clock, FreeSuffix>>
    BY <1>2, OpenNewAdds
  <2>3. SUFFICES ASSUME NEW f \in Created', NEW j \in 0 .. name'[f][2] - 1
                 PROVE  \E g \in Created' : name'[g] = <<name'[f][1], j>>
    BY DEF NoGaps
  <2>4. CASE f \in Created
    <3>1. \E g \in Created : name[g] = <<name[f][1], j>>
      BY <2>2, <2>3, <2>4 DEF LogInv, NoGaps
    <3>2. QED
      BY <2>2, <2>4, <3>1
  <2>5. CASE f = n
    <3>1. name'[f][1] = clock /\ name'[f][2] = FreeSuffix
      BY <2>2, <2>5
    <3>2. \E g \in Created : name[g] = <<clock, j>>
      BY <2>1, <2>3, <3>1
    <3>3. QED
      BY <2>2, <3>1, <3>2
  <2>6. QED
    BY <2>2, <2>4, <2>5
<1>3. QED
  BY <1>1, <1>2, WhoNames

\* The new name sorts after all others.
LEMMA NamesAscendStep ==
  ASSUME LogInv, [LogNext]_logvars
  PROVE  NamesAscend'
<1>1. CASE UNCHANGED name
  <2>1. \A f, g \in Created : Before(f, g)' = Before(f, g)
    BY <1>1 DEF Before
  <2>2. Created' = Created
    BY <1>1
  <2>3. \A f \in Created : name[f][1] \in Nat /\ name[f][1] <= clock
    BY TypedFiles DEF LogInv, NamesAscend
  <2>4. clock \in Nat /\ clock' \in Nat /\ clock <= clock'
    BY WhoNames, TypedFiles DEF LogInv
  <2>5. \A f \in Created : name'[f][1] <= clock'
    BY <1>1, <2>3, <2>4
  <2>6. QED
    BY <2>1, <2>2, <2>5 DEF LogInv, NamesAscend
<1>2. CASE OpenNew /\ UNCHANGED clock
  <2> DEFINE n == Len(name) + 1
  <2>1. /\ FreeSuffix \in Nat
        /\ \A f \in Created :
             name[f][1] < clock \/ (name[f][1] = clock /\ name[f][2] < FreeSuffix)
    BY <1>2, FreeSuffixIsNext DEF OpenNew
  <2>2. /\ Created' = Created \cup {n} /\ Len(name) \in Nat
        /\ \A f \in Created : name'[f] = name[f]
        /\ name'[n] = <<clock, FreeSuffix>>
    BY <1>2, OpenNewAdds
  <2>3. name'[n][1] = clock /\ name'[n][2] = FreeSuffix
    BY <2>2
  <2>4. \A f \in Created' : name'[f][1] <= clock'
    <3>1. \A f \in Created : name'[f][1] <= clock'
      BY <1>2, <2>2 DEF LogInv, NamesAscend
    <3>2. clock \in Nat
      BY TypedFiles DEF LogInv
    <3>3. name'[n][1] <= clock'
      BY <1>2, <2>3, <3>2
    <3>4. QED
      BY <2>2, <3>1, <3>3
  <2>5. ASSUME NEW f \in Created', NEW g \in Created', f < g
        PROVE  Before(f, g)'
    <3>1. f \in Created /\ name'[f] = name[f]
      BY <2>2, <2>5
    <3>2. CASE g \in Created
      BY <2>2, <2>5, <3>1, <3>2 DEF LogInv, NamesAscend, Before
    <3>3. CASE g = n
      BY <2>1, <2>3, <3>1, <3>3 DEF Before
    <3>4. QED
      BY <2>2, <3>2, <3>3
  <2>6. QED
    BY <2>4, <2>5 DEF NamesAscend
<1>3. QED
  BY <1>1, <1>2, WhoNames

\* Modification times: only the last file gets a new one.
LEMMA TimesAscendStep ==
  ASSUME LogInv, [LogNext]_logvars
  PROVE  TimesAscend'
<1>0. /\ \A f \in Created : mtime[f] \in Nat /\ mtime[f] <= clock
      /\ clock \in Nat /\ clock' \in Nat /\ clock <= clock' /\ Len(name) \in Nat
  BY WhoNames, TypedFiles DEF LogInv, TimesAscend
<1>1. CASE UNCHANGED <<name, mtime>>
  BY <1>0, <1>1 DEF LogInv, TimesAscend
<1>2. CASE OpenNew
  <2> DEFINE n == Len(name) + 1
  <2>1. /\ Created' = Created \cup {n} /\ clock' = clock
        /\ \A f \in Created : mtime'[f] = mtime[f]
        /\ mtime'[n] = clock
    BY <1>0, <1>2, OpenNewAdds DEF OpenNew
  <2>2. \A f, g \in Created' : f < g => f \in Created /\ (g \in Created \/ g = n)
    BY <2>1
  <2>3. QED
    BY <1>0, <2>1, <2>2 DEF LogInv, TimesAscend
<1>3. CASE AppendLine
  <2>1. /\ UNCHANGED <<name, clock>> /\ current = Len(name) /\ current \in Created
        /\ mtime' = [mtime EXCEPT ![current] = clock]
        /\ mtime \in Seq(0 .. MaxClock) /\ Len(mtime) = Len(name)
    BY <1>3 DEF AppendLine, LogInv, CurrentIsLast, TypeOK
  <2>2. /\ \A f \in Created \ {current} : mtime'[f] = mtime[f]
        /\ mtime'[current] = clock
    BY <2>1
  <2>3. QED
    BY <1>0, <2>1, <2>2 DEF LogInv, TimesAscend
<1>4. UNCHANGED <<name, mtime>> \/ OpenNew \/ AppendLine
  BY DEF LogNext, Writer, Construct, Write, OpenFails, Retain, Unlink, Unlinked, Expire,
         ExpireDone, AppendFails, AppendClosed, Close, Crash, Tick
<1>5. QED
  BY <1>1, <1>2, <1>3, <1>4

\* No line is of an event still to come.
LEMMA EventsSeenStep ==
  ASSUME LogInv, [LogNext]_logvars
  PROVE  EventsSeen'
<1>0. /\ Unseen \in Nat /\ Unseen' \in Nat /\ Unseen <= Unseen'
      /\ \A f \in Created : \A i \in 1 .. Len(content[f]) :
           content[f][i][1] \in Nat /\ content[f][i][1] < Unseen
      /\ Len(name) \in Nat /\ last \in Nat /\ current \in Created \cup {0}
      /\ \A f \in Created : Len(content[f]) \in Nat
  BY UnseenGrows, TypedFiles DEF LogInv, EventsSeen, TypeOK
<1>1. CASE UNCHANGED <<name, content>>
  BY <1>0, <1>1 DEF EventsSeen
<1>2. CASE OpenNew
  <2>1. /\ Created' = Created \cup {Len(name) + 1}
        /\ \A f \in Created : content'[f] = content[f]
        /\ content'[Len(name) + 1] = <<>>
    BY <1>0, <1>2, OpenNewAdds
  <2>2. \A i \in 1 .. Len(<<>>) : FALSE
    OBVIOUS
  <2>3. QED
    BY <1>0, <2>1, <2>2 DEF EventsSeen
<1>3. ASSUME NEW e, NewLine(e)
      PROVE  EventsSeen'
  <2>1. e[1] < Unseen' /\ Created' = Created /\ current \in Created
    BY <1>0, <1>3 DEF NewLine, Unseen
  <2>2. SUFFICES ASSUME NEW f \in Created, NEW i \in 1 .. Len(content'[f])
                 PROVE  content'[f][i][1] < Unseen'
    BY <2>1 DEF EventsSeen
  <2>3. CASE i \in 1 .. Len(content[f]) /\ content'[f][i] = content[f][i]
    <3>1. content[f][i][1] \in Nat /\ content[f][i][1] < Unseen
      BY <1>0, <2>3
    <3>2. QED
      BY <1>0, <2>3, <3>1
  <2>4. content'[f] = content[f] \/ f = current
    BY <1>3, <2>2 DEF NewLine, Grows
  <2>5. CASE f = current /\ i = Len(content[current]) + 1
    BY <1>3, <2>1, <2>5 DEF NewLine, Grows
  <2>6. QED
    BY <1>0, <1>3, <2>1, <2>2, <2>3, <2>4, <2>5 DEF NewLine, Grows
<1>4. QED
  BY <1>1, <1>2, <1>3, WhoWrites

\* Lines stay in the order of their events: a new one comes after all.
LEMMA LinesInOrderStep ==
  ASSUME LogInv, [LogNext]_logvars
  PROVE  LinesInOrder'
<1>0. /\ \A f \in Created : \A i \in 1 .. Len(content[f]) :
           content[f][i][1] \in Nat /\ content[f][i][1] < Unseen
      /\ Len(name) \in Nat /\ last \in Nat /\ current \in Created \cup {0}
      /\ \A f \in Created : Len(content[f]) \in Nat
  BY UnseenGrows, TypedFiles DEF LogInv, EventsSeen, TypeOK
<1>1. CASE UNCHANGED <<name, content>>
  BY <1>1 DEF LogInv, LinesInOrder
<1>2. CASE OpenNew
  <2>1. /\ Created' = Created \cup {Len(name) + 1}
        /\ \A f \in Created : content'[f] = content[f]
        /\ content'[Len(name) + 1] = <<>>
    BY <1>0, <1>2, OpenNewAdds
  <2>2. \A i \in 1 .. Len(<<>>) : FALSE
    OBVIOUS
  <2>3. \A f \in Created' : \A i \in 1 .. Len(content'[f]) :
          f \in Created /\ content'[f] = content[f]
    BY <2>1, <2>2
  <2>4. QED
    BY <2>3 DEF LogInv, LinesInOrder
<1>3. ASSUME NEW e, NewLine(e)
      PROVE  LinesInOrder'
  <2>1. /\ Created' = Created /\ current = Len(name) /\ current \in Created
        /\ e[1] = 0 \/ e[1] = Unseen
    BY <1>0, <1>3 DEF NewLine, Unseen, Writing, LogInv, CurrentIsLast
  <2> DEFINE n == Len(content[current]) + 1
  <2>2. \A f \in Created : \A i \in 1 .. Len(content'[f]) :
          \/ i \in 1 .. Len(content[f]) /\ content'[f][i] = content[f][i]
          \/ f = current /\ i = n /\ content'[f][i] = e
    <3>1. \A f \in Created \ {current} : content'[f] = content[f]
      BY <1>3 DEF NewLine, Grows
    <3>2. /\ Len(content'[current]) = n
          /\ \A i \in 1 .. Len(content[current]) : content'[current][i] = content[current][i]
          /\ content'[current][n] = e
      BY <1>3 DEF NewLine, Grows
    <3>3. \A i \in 1 .. n : i \in 1 .. Len(content[current]) \/ i = n
      BY <1>0, <2>1
    <3>4. QED
      BY <3>1, <3>2, <3>3
  <2>3. SUFFICES ASSUME NEW f \in Created, NEW g \in Created,
                        NEW i \in 1 .. Len(content'[f]), NEW j \in 1 .. Len(content'[g]),
                        f < g \/ (f = g /\ i < j),
                        content'[f][i][1] > 0, content'[g][j][1] > 0
                 PROVE  content'[f][i][1] < content'[g][j][1]
    BY <2>1 DEF LinesInOrder
  <2>4. CASE f = current /\ i = n
    <3>1. g = current /\ j > n
      BY <1>0, <2>1, <2>3, <2>4
    <3>2. Len(content'[current]) = n
      BY <1>3 DEF NewLine, Grows
    <3>3. QED
      BY <1>0, <2>1, <2>3, <3>1, <3>2
  <2>5. CASE i \in 1 .. Len(content[f]) /\ content'[f][i] = content[f][i] /\ g = current
             /\ j = n /\ content'[g][j] = e
    BY <1>0, <2>1, <2>3, <2>5
  <2>6. CASE /\ i \in 1 .. Len(content[f]) /\ content'[f][i] = content[f][i]
             /\ j \in 1 .. Len(content[g]) /\ content'[g][j] = content[g][j]
    BY <2>3, <2>6 DEF LogInv, LinesInOrder
  <2>7. QED
    BY <2>2, <2>3, <2>4, <2>5, <2>6
<1>4. QED
  BY <1>1, <1>2, <1>3, WhoWrites

\* The state of the writer is of its types.
LEMMA TypeStep ==
  ASSUME LogInv, [LogNext]_logvars
  PROVE  TypeOK'
<1>1. CASE Construct
  <2>1. starts' \in 0 .. MaxStarts
    BY <1>1 DEF Construct, LogInv, TypeOK
  <2>2. QED
    BY <1>1, <2>1 DEF Construct, LogInv, TypeOK
<1>2. CASE Close
  BY <1>2 DEF Close, LogInv, TypeOK
<1>3. CASE Crash
  <2>1. content' \in Seq(Seq(Event)) /\ Len(content') = Len(content)
    BY <1>3, TornGrows DEF Grows, LogInv, TypeOK, Event
  <2>2. QED
    BY <1>3, <2>1 DEF Crash, LogInv, TypeOK, Event
<1>4. ASSUME NEW len \in Lengths, Write(len)
      PROVE  TypeOK'
  <2>1. last' \in 0 .. MaxEvents /\ line' \in (0 .. MaxEvents) \X (Lengths \cup {0})
    BY <1>4, TypedFiles DEF Write, LogInv
  <2>2. /\ pc' \in {"rotate", "open", "append"} /\ (pc' = "append" => current' # 0)
        /\ current' \in Created \cup {0} /\ size' \in Nat
    BY <1>4 DEF Write, Full, LogInv, TypeOK
  <2>3. QED
    BY <1>4, <2>1, <2>2 DEF Write, LogInv, TypeOK
<1>5. CASE OpenNew
  <2>1. Created' = Created \cup {Len(name) + 1} /\ Len(name') = Len(name) + 1 /\ Len(name) \in Nat
    BY <1>5, OpenNewAdds
  <2>2. /\ files' \in SUBSET Created' /\ current' \in Created' /\ current' # 0
        /\ doomed' \in SUBSET Created' /\ stuck' \in SUBSET Created' /\ size' \in Nat
        /\ pc' \in {"retain", "append"}
    <3>1. files \in SUBSET Created /\ doomed \in SUBSET Created /\ stuck \in SUBSET Created
      BY DEF LogInv, TypeOK
    <3>2. /\ files' = files \cup {Len(name) + 1} /\ current' = Len(name) + 1
          /\ size' = 0 /\ UNCHANGED <<doomed, stuck>> /\ pc' \in {"retain", "append"}
      BY <1>5 DEF OpenNew
    <3>3. Len(name) + 1 # 0 /\ 0 \in Nat
      BY <2>1
    <3>4. QED
      BY <2>1, <3>1, <3>2, <3>3, Zenon
  <2>3. QED
    BY <1>5, <2>2, OpenNewAdds DEF OpenNew, LogInv, TypeOK, Event
<1>6. CASE OpenFails
  <2>1. line[1] \in 1 .. MaxEvents
    BY <1>6 DEF OpenFails, LogInv, InHand, Writing
  <2>2. QED
    BY <1>6, <2>1 DEF OpenFails, LogInv, TypeOK
<1>7. CASE Retain
  <2>1. doomed' \in SUBSET Created
    BY <1>7 DEF Retain, Excess, LogInv, TypeOK
  <2>2. QED
    BY <1>7, <2>1 DEF Retain, LogInv, TypeOK
<1>8. ASSUME NEW f \in doomed, Unlink(f)
      PROVE  TypeOK'
  BY <1>8 DEF Unlink, LogInv, TypeOK
<1>9. CASE Unlinked
  BY <1>9 DEF Unlinked, LogInv, TypeOK
<1>10. ASSUME NEW f \in files, Expire(f)
       PROVE  TypeOK'
  BY <1>10 DEF Expire, LogInv, TypeOK
<1>11. CASE ExpireDone
  BY <1>11 DEF ExpireDone, LogInv, TypeOK, InHand, Writing
<1>12. CASE AppendLine
  <2>1. content' \in Seq(Seq(Event)) /\ Len(content') = Len(content)
    BY <1>12, LineGrows DEF Grows, LogInv, TypeOK, Event
  <2>2. mtime' \in Seq(0 .. MaxClock) /\ Len(mtime') = Len(mtime)
    <3>1. mtime \in Seq(0 .. MaxClock) /\ current \in 1 .. Len(mtime) /\ clock \in 0 .. MaxClock
      BY <1>12 DEF AppendLine, LogInv, TypeOK
    <3>2. mtime' = [mtime EXCEPT ![current] = clock]
      BY <1>12 DEF AppendLine
    <3>3. QED
      BY <3>1, <3>2, ExceptSeq
  <2>3. size' \in Nat
    <3>1. line[2] \in Nat /\ size \in Nat
      BY <1>12, LineGrows DEF LogInv, TypeOK, Event
    <3>2. QED
      BY <1>12, <3>1 DEF AppendLine
  <2>4. QED
    BY <1>12, <2>1, <2>2, <2>3 DEF AppendLine, LogInv, TypeOK, Event
<1>13. CASE AppendFails
  <2>1. content' \in Seq(Seq(Event)) /\ Len(content') = Len(content)
    BY <1>13, LineGrows DEF Grows, LogInv, TypeOK, Event
  <2>2. line[1] \in 1 .. MaxEvents
    BY <1>13 DEF AppendFails, LogInv, InHand, Writing
  <2>3. QED
    BY <1>13, <2>1, <2>2 DEF AppendFails, LogInv, TypeOK, Event
<1>14. CASE AppendClosed
  <2>1. line[1] \in 1 .. MaxEvents
    BY <1>14 DEF AppendClosed, LogInv, InHand, Writing
  <2>2. QED
    BY <1>14, <2>1 DEF AppendClosed, LogInv, TypeOK
<1>15. CASE Tick
  <2>1. clock' \in 0 .. MaxClock
    BY <1>15 DEF Tick, LogInv, TypeOK
  <2>2. QED
    BY <1>15, <2>1 DEF Tick, LogInv, TypeOK
<1>16. CASE UNCHANGED logvars
  BY <1>16 DEF LogInv, TypeOK
<1>17. QED
  BY <1>1, <1>2, <1>3, <1>4, <1>5, <1>6, <1>7, <1>8, <1>9, <1>10, <1>11, <1>12, <1>13, <1>14,
     <1>15, <1>16 DEF LogNext, Writer

\* What the writer has in hand.
LEMMA InHandStep ==
  ASSUME LogInv, [LogNext]_logvars
  PROVE  InHand'
<1>1. CASE Construct \/ OpenFails \/ AppendLine \/ AppendFails \/ AppendClosed
  BY <1>1 DEF Construct, OpenFails, AppendLine, AppendFails, AppendClosed, LogInv, InHand, Writing
<1>2. CASE Close \/ Crash \/ Tick \/ UNCHANGED logvars
  BY <1>2 DEF Close, Crash, Tick, LogInv, InHand, Writing
<1>3. ASSUME NEW len \in Lengths, Write(len)
      PROVE  InHand'
  <2>1. last' = last + 1 /\ line' = <<last + 1, len>> /\ last + 1 \in 1 .. MaxEvents
    BY <1>3, TypedFiles DEF Write, LogInv
  <2>2. /\ line' \in (1 .. MaxEvents) \X Lengths /\ line'[1] = last'
    BY <2>1
  <2>3. /\ pc' \in {"rotate", "open", "append"} /\ (pc' = "append" => current' # 0)
        /\ (pc' \in {"rotate", "open"} => current' = 0) /\ doomed' = {}
    BY <1>3 DEF Write, Full, LogInv, InHand
  <2>4. QED
    BY <2>2, <2>3 DEF InHand
<1>4. CASE OpenNew
  <2>1. current' # 0 /\ doomed' = {} /\ pc \in Writing /\ pc' \in {"retain", "append"}
    BY <1>4, TypedFiles DEF OpenNew, LogInv, InHand, Writing
  <2>2. QED
    BY <1>4, <2>1 DEF OpenNew, LogInv, InHand
<1>5. CASE Retain \/ Unlinked \/ ExpireDone
  BY <1>5 DEF Retain, Unlinked, ExpireDone, LogInv, InHand, Writing
<1>6. ASSUME NEW f \in doomed, Unlink(f)
      PROVE  InHand'
  BY <1>6 DEF Unlink, LogInv, InHand, Writing
<1>7. ASSUME NEW f \in files, Expire(f)
      PROVE  InHand'
  BY <1>7 DEF Expire, LogInv, InHand, Writing
<1>8. QED
  BY <1>1, <1>2, <1>3, <1>4, <1>5, <1>6, <1>7 DEF LogNext, Writer

\* Retention never takes the file the writer has open.
LEMMA CurrentIsLastStep ==
  ASSUME LogInv, [LogNext]_logvars
  PROVE  CurrentIsLast'
<1>1. CASE OpenNew
  <2>1. Len(name') = Len(name) + 1
    BY <1>1, OpenNewAdds
  <2>2. QED
    BY <1>1, <2>1 DEF OpenNew, CurrentIsLast
<1>2. ASSUME NEW f \in doomed, Unlink(f)
      PROVE  CurrentIsLast'
  BY <1>2 DEF Unlink, LogInv, CurrentIsLast, DoomedAreOldest
<1>3. ASSUME NEW f \in files, Expire(f)
      PROVE  CurrentIsLast'
  BY <1>3 DEF Expire, LogInv, CurrentIsLast
<1>4. CASE UNCHANGED <<name, files>> /\ (UNCHANGED current \/ current' = 0)
  BY <1>4 DEF LogInv, CurrentIsLast
<1>5. \/ OpenNew \/ (\E f \in doomed : Unlink(f)) \/ (\E f \in files : Expire(f))
      \/ UNCHANGED <<name, files>> /\ (UNCHANGED current \/ current' = 0)
  BY DEF LogNext, Writer, Construct, Write, OpenFails, Retain, Unlinked,
         ExpireDone, AppendLine, AppendFails, AppendClosed, Close, Crash, Tick
<1>6. QED
  BY <1>1, <1>2, <1>3, <1>4, <1>5

\* An expired file stays so, unless a line is written to it.
LEMMA StaysExpired ==
  ASSUME LogInv, [LogNext]_logvars, NEW f \in Created, Expired(f), f # Len(name)
  PROVE  Expired(f)'
<1>1. clock \in Nat /\ clock' \in Nat /\ clock <= clock' /\ mtime[f] \in Nat /\ MaxAge \in Nat
  BY WhoNames, TypedFiles DEF LogInv
<1>2. UNCHANGED mtime \/ OpenNew \/ AppendLine
  BY DEF LogNext, Writer, Construct, Write, OpenFails, Retain, Unlink, Unlinked, Expire,
         ExpireDone, AppendFails, AppendClosed, Close, Crash, Tick
<1>3. CASE AppendLine
  <2>1. current = Len(name) /\ mtime' = [mtime EXCEPT ![current] = clock]
    BY <1>3 DEF AppendLine, LogInv, CurrentIsLast
  <2>2. mtime'[f] = mtime[f]
    BY <2>1, TypedFiles DEF LogInv
  <2>3. QED
    BY <1>1, <2>2 DEF Expired
<1>4. CASE UNCHANGED mtime \/ OpenNew
  <2>1. mtime'[f] = mtime[f]
    BY <1>4, OpenNewAdds
  <2>2. QED
    BY <1>1, <2>1 DEF Expired
<1>5. QED
  BY <1>2, <1>3, <1>4

\* A file is deleted when all older ones are, or are too old to matter.
LEMMA OldestGoFirstStep ==
  ASSUME LogInv, [LogNext]_logvars
  PROVE  OldestGoFirst'
<1>0. /\ Len(name) \in Nat /\ files \subseteq Created /\ stuck \subseteq Created
      /\ doomed \subseteq Created
      /\ \A f \in files \ stuck, g \in Created \ files : f < g => Expired(f)
  BY TypedFiles DEF LogInv, OldestGoFirst, TypeOK
<1>1. ASSUME UNCHANGED name, files' \ stuck' \subseteq files \ stuck,
             NEW f \in files' \ stuck', NEW g \in Created \ files, f < g
      PROVE  Expired(f)'
  <2>1. f \in files \ stuck /\ f \in Created
    BY <1>0, <1>1
  <2>2. Expired(f) /\ f # Len(name)
    BY <1>0, <1>1, <2>1
  <2>3. QED
    BY <2>1, <2>2, StaysExpired
<1>2. CASE UNCHANGED <<name, files, stuck>>
  BY <1>1, <1>2 DEF OldestGoFirst
<1>3. CASE OpenNew
  <2>1. /\ Created' = Created \cup {Len(name) + 1} /\ files' = files \cup {Len(name) + 1}
        /\ UNCHANGED stuck
    BY <1>3, OpenNewAdds DEF OpenNew
  <2>2. SUFFICES ASSUME NEW f \in files' \ stuck', NEW g \in Created' \ files', f < g
                 PROVE  Expired(f)'
    BY DEF OldestGoFirst
  <2>3. f \in files \ stuck /\ g \in Created \ files /\ f \in Created /\ f # Len(name)
    BY <1>0, <2>1, <2>2
  <2>4. QED
    BY <1>0, <2>2, <2>3, StaysExpired
<1>4. ASSUME NEW h \in doomed, Unlink(h)
      PROVE  OldestGoFirst'
  <2>1. /\ UNCHANGED name
        /\ files' = files \ {h} \/ (UNCHANGED files /\ stuck' = stuck \cup {h})
        /\ files' \ stuck' \subseteq files \ stuck
        /\ \A f \in files' \ stuck' : f # h
    BY <1>4 DEF Unlink
  <2>2. SUFFICES ASSUME NEW f \in files' \ stuck', NEW g \in Created \ files', f < g
                 PROVE  Expired(f)'
    BY <2>1 DEF OldestGoFirst
  <2>3. CASE g \in files
    <3>1. g = h /\ f \in files /\ f \notin stuck /\ f # h
      BY <2>1, <2>2, <2>3
    <3>2. f \in doomed
      BY <1>4, <2>2, <3>1 DEF LogInv, DoomedAreOldest
    <3>3. Before(h, f)
      BY <1>4, <3>1, <3>2 DEF Unlink
    <3>4. h < f
      BY <1>0, <1>4, <3>2, <3>3, BeforeIsOlder DEF LogInv
    <3>5. QED
      BY <1>0, <1>4, <2>2, <3>1, <3>4
  <2>4. QED
    BY <1>1, <2>1, <2>2, <2>3
<1>5. ASSUME NEW h \in files, Expire(h)
      PROVE  OldestGoFirst'
  <2>1. /\ UNCHANGED <<name, stuck, mtime, clock>> /\ files' = files \ {h}
        /\ files' \ stuck' \subseteq files \ stuck /\ Expired(h)
    BY <1>5 DEF Expire
  <2>2. SUFFICES ASSUME NEW f \in files' \ stuck', NEW g \in Created \ files', f < g
                 PROVE  Expired(f)'
    BY <2>1 DEF OldestGoFirst
  <2>3. CASE g = h
    <3>1. /\ mtime[f] <= mtime[g] /\ mtime[f] \in Nat /\ mtime[g] \in Nat /\ clock \in Nat
          /\ MaxAge \in Nat
      BY <1>0, <2>1, <2>2, TypedFiles DEF LogInv, TimesAscend
    <3>2. QED
      BY <2>1, <2>3, <3>1 DEF Expired
  <2>4. QED
    BY <1>1, <2>1, <2>2, <2>3
<1>6. \/ UNCHANGED <<name, files, stuck>> \/ OpenNew
      \/ (\E f \in doomed : Unlink(f)) \/ (\E f \in files : Expire(f))
  BY DEF LogNext, Writer, Construct, Write, OpenFails, Retain, Unlinked,
         ExpireDone, AppendLine, AppendFails, AppendClosed, Close, Crash, Tick
<1>7. QED
  BY <1>2, <1>3, <1>4, <1>5, <1>6

\* The directory is finite.
LEMMA FilesAreFinite ==
  ASSUME TypeOK
  PROVE  \A S \in SUBSET files : IsFiniteSet(S) /\ Cardinality(S) \in Nat
<1>1. files \in SUBSET (1 .. Len(name)) /\ Len(name) \in Nat
  BY DEF TypeOK
<1>2. IsFiniteSet(1 .. Len(name))
  BY <1>1, FS_Interval
<1>3. \A S \in SUBSET files : IsFiniteSet(S)
  BY <1>1, <1>2, FS_Subset
<1>4. QED
  BY <1>3, FS_CardinalityType

\* What _cleanup_old_files picks is the old end of the directory.
LEMMA ExcessIsOldest ==
  ASSUME TypeOK, NamesAscend
  PROVE  /\ \A g \in Excess, f \in files : f < g => f \in Excess
         /\ Len(name) \notin Excess
         /\ Cardinality(files \ Excess) <= MaxFiles
<1> DEFINE Older(f) == {g \in files : Before(g, f)}
<1>1. /\ files \subseteq Created /\ \A f \in files : f \in Nat /\ f <= Len(name)
      /\ Len(name) \in Nat
      /\ \A f, g \in files : Before(f, g) <=> f < g
      /\ \A f \in files : Older(f) \subseteq files
      /\ MaxFiles \in Nat /\ MaxFiles > 0
  <2>1. files \subseteq Created /\ Len(name) \in Nat
    BY TypedFiles DEF TypeOK
  <2>2. \A f, g \in files : Before(f, g) <=> f < g
    BY <2>1, BeforeIsOlder
  <2>3. \A f \in files : f \in Nat /\ f <= Len(name)
    BY <2>1
  <2>4. QED
    BY <2>1, <2>2, <2>3
<1>2. /\ Excess \subseteq files
      /\ \A f \in files : f \in Excess <=> Cardinality(Older(f)) + MaxFiles < Cardinality(files)
  BY Zenon DEF Excess
<1>3. \A f, h \in files : h \in Older(f) <=> h < f
  BY <1>1
<1>4. ASSUME NEW g \in Excess, NEW f \in files, f < g
      PROVE  f \in Excess
  <2>1. g \in files /\ Older(f) \subseteq Older(g)
    <3>1. g \in files
      BY <1>4, <1>2
    <3>2. \A h \in files : h < f => h < g
      BY <1>1, <1>4, <3>1
    <3> HIDE DEF Older
    <3>3. QED
      BY <1>1, <1>4, <1>3, <3>1, <3>2
  <2>2. IsFiniteSet(Older(g)) /\ Cardinality(Older(g)) \in Nat /\ Cardinality(Older(f)) \in Nat
        /\ Cardinality(files) \in Nat
    BY FilesAreFinite
  <2>3. Cardinality(Older(f)) <= Cardinality(Older(g))
    <3> HIDE DEF Older
    <3>1. QED
      BY <2>1, <2>2, FS_Subset
  <2>4. Cardinality(Older(g)) + MaxFiles < Cardinality(files)
    BY <1>4, <1>2, <2>1, Zenon
  <2>5. Cardinality(Older(f)) + MaxFiles < Cardinality(files)
    <3> HIDE DEF Older
    <3>1. QED
      BY <1>1, <2>2, <2>3, <2>4
  <2>6. QED
    BY <1>4, <1>2, <2>5, Zenon
<1>5. ASSUME Len(name) \in Excess
      PROVE  FALSE
  <2> DEFINE n == Len(name)
  <2>1. n \in files /\ files = Older(n) \cup {n} /\ n \notin Older(n)
    <3>1. n \in files
      BY <1>5, <1>2
    <3>2. \A h \in files : h < n \/ h = n
      BY <1>1
    <3>3. ~(n < n)
      BY <1>1
    <3>4. Older(n) \subseteq files
      BY <1>1, <3>1
    <3> HIDE DEF Older, n
    <3>5. QED
      BY <1>3, <3>1, <3>2, <3>3, <3>4
  <2>2. IsFiniteSet(Older(n)) /\ Cardinality(Older(n)) \in Nat
    BY FilesAreFinite
  <2>3. Cardinality(files) = Cardinality(Older(n)) + 1
    <3> HIDE DEF Older, n
    <3>1. QED
      BY <2>1, <2>2, FS_AddElement
  <2>4. Cardinality(Older(n)) + MaxFiles < Cardinality(files)
    BY <1>5, <1>2, <2>1, Zenon
  <2> HIDE DEF Older, n
  <2>5. QED
    BY <1>1, <2>2, <2>3, <2>4
<1>6. Cardinality(files \ Excess) <= MaxFiles
  <2> DEFINE S == files \ Excess
  <2>1. CASE S = {}
    <3>1. Cardinality(S) = 0
      BY <2>1, FS_EmptySet, Zenon
    <3>2. QED
      BY <1>1, <3>1
  <2>2. CASE S # {}
    <3>1. PICK m \in S : \A n \in S : m <= n
      <4>1. S \in SUBSET Nat
        BY <1>1
      <4> HIDE DEF S
      <4>2. QED
        BY <2>2, <4>1, LeastNat
    <3>2. S \subseteq files \ Older(m) /\ m \in files /\ Older(m) \subseteq files
      <4>1. m \in files /\ \A h \in S : h \in files /\ ~(h < m)
        BY <1>1, <3>1
      <4>2. Older(m) \subseteq files
        BY <1>1, <4>1
      <4> HIDE DEF Older
      <4>3. QED
        BY <1>3, <4>1, <4>2
    <3>3. /\ IsFiniteSet(files) /\ Cardinality(files) \in Nat
          /\ IsFiniteSet(Older(m)) /\ Cardinality(Older(m)) \in Nat
          /\ IsFiniteSet(files \ Older(m)) /\ Cardinality(files \ Older(m)) \in Nat
          /\ Cardinality(S) \in Nat
      BY FilesAreFinite
    <3>4. ~(Cardinality(Older(m)) + MaxFiles < Cardinality(files))
      BY <1>2, <3>1, Zenon
    <3>5. Cardinality(files \ Older(m)) = Cardinality(files) - Cardinality(files \cap Older(m))
      <4> HIDE DEF Older
      <4>1. QED
        BY <3>3, FS_Difference
    <3>6. files \cap Older(m) = Older(m)
      BY <3>2
    <3>7. Cardinality(S) <= Cardinality(files \ Older(m))
      <4> HIDE DEF Older, S
      <4>1. QED
        BY <3>2, <3>3, FS_Subset
    <3>8. MaxFiles \in Nat
      OBVIOUS
    <3>9. \A a, b, c, d, e \in Nat : ~(a + b < c) /\ d = c - a /\ e <= d => e <= b
      OBVIOUS
    <3> HIDE DEF Older, S
    <3>10. Cardinality(S) <= MaxFiles
      BY <3>3, <3>4, <3>5, <3>6, <3>7, <3>8, <3>9
    <3>11. QED
      BY <3>10 DEF S
  <2>3. QED
    BY <2>1, <2>2
<1>7. QED
  BY <1>4, <1>5, <1>6

\* What is to be unlinked stays the old end of the directory while files go.
LEMMA DoomedAreOldestStep ==
  ASSUME LogInv, [LogNext]_logvars
  PROVE  DoomedAreOldest'
<1>1. CASE Retain
  <2>1. UNCHANGED <<name, files, stuck>> /\ doomed' = Excess
    BY <1>1 DEF Retain
  <2>2. QED
    BY <2>1, ExcessIsOldest DEF LogInv, DoomedAreOldest
<1>2. ASSUME NEW h \in doomed, Unlink(h)
      PROVE  DoomedAreOldest'
  BY <1>2 DEF Unlink, LogInv, DoomedAreOldest
<1>3. CASE doomed' = {}
  BY <1>3 DEF DoomedAreOldest
<1>4. CASE UNCHANGED <<name, stuck, doomed>> /\ files' \subseteq files
  BY <1>4 DEF LogInv, DoomedAreOldest
<1>5. \/ Retain \/ (\E h \in doomed : Unlink(h)) \/ doomed' = {}
      \/ UNCHANGED <<name, stuck, doomed>> /\ files' \subseteq files
  BY DEF LogNext, Writer, Construct, Write, OpenNew, OpenFails, Unlinked, Expire,
         ExpireDone, AppendLine, AppendFails, AppendClosed, Close, Crash, Tick, LogInv, InHand
<1>6. QED
  BY <1>1, <1>2, <1>3, <1>4, <1>5

\* The loop ends with at most max_files files, besides those it could not unlink.
LEMMA DoomedAreEnoughStep ==
  ASSUME LogInv, [LogNext]_logvars
  PROVE  DoomedAreEnough'
<1>1. CASE Retain
  <2>1. UNCHANGED <<files, stuck>> /\ doomed' = Excess
    BY <1>1 DEF Retain
  <2>2. IsFiniteSet(files \ Excess) /\ Cardinality(files \ Excess) \in Nat
        /\ Cardinality((files \ Excess) \ stuck) \in Nat
    BY FilesAreFinite DEF LogInv
  <2>3. Cardinality((files \ Excess) \ stuck) <= Cardinality(files \ Excess)
    BY <2>2, FS_Subset
  <2>4. Cardinality(files \ Excess) <= MaxFiles
    BY ExcessIsOldest DEF LogInv
  <2>5. QED
    BY <2>1, <2>2, <2>3, <2>4 DEF DoomedAreEnough
<1>2. ASSUME NEW h \in doomed, Unlink(h)
      PROVE  DoomedAreEnough'
  <2>1. (files' \ doomed') \ stuck' = (files \ doomed) \ stuck
    BY <1>2 DEF Unlink
  <2>2. QED
    BY <1>2, <2>1 DEF Unlink, LogInv, DoomedAreEnough
<1>3. CASE pc' # "unlink" \/ UNCHANGED <<pc, files, doomed, stuck>>
  BY <1>3 DEF LogInv, DoomedAreEnough
<1>4. \/ Retain \/ (\E h \in doomed : Unlink(h))
      \/ pc' # "unlink" \/ UNCHANGED <<pc, files, doomed, stuck>>
  BY DEF LogNext, Writer, Construct, Write, OpenNew, OpenFails, Unlinked, Expire,
         ExpireDone, AppendLine, AppendFails, AppendClosed, Close, Crash, Tick
<1>5. QED
  BY <1>1, <1>2, <1>3, <1>4

\* After the loop only expiry takes files away, until the next rotation.
LEMMA RotationStep ==
  ASSUME LogInv, [LogNext]_logvars
  PROVE  RotationRestoresLimit'
<1>1. CASE Unlinked
  <2>1. doomed = {} /\ pc = "unlink" /\ UNCHANGED <<files, stuck>>
    BY <1>1 DEF Unlinked
  <2>2. (files \ doomed) \ stuck = files \ stuck
    BY <2>1
  <2>3. QED
    BY <2>1, <2>2 DEF LogInv, DoomedAreEnough, RotationRestoresLimit
<1>2. ASSUME NEW h \in files, Expire(h)
      PROVE  RotationRestoresLimit'
  <2>1. UNCHANGED <<pc, stuck>> /\ files' = files \ {h}
    BY <1>2 DEF Expire
  <2>2. IsFiniteSet(files \ stuck) /\ Cardinality(files \ stuck) \in Nat
        /\ Cardinality((files \ {h}) \ stuck) \in Nat
    BY FilesAreFinite DEF LogInv
  <2>3. Cardinality((files \ {h}) \ stuck) <= Cardinality(files \ stuck)
    BY <2>2, FS_Subset
  <2>4. QED
    BY <2>1, <2>2, <2>3 DEF LogInv, RotationRestoresLimit
<1>3. CASE pc' # "expire" \/ UNCHANGED <<pc, files, stuck>>
  BY <1>3 DEF LogInv, RotationRestoresLimit
<1>4. \/ Unlinked \/ (\E h \in files : Expire(h))
      \/ pc' # "expire" \/ UNCHANGED <<pc, files, stuck>>
  BY DEF LogNext, Writer, Construct, Write, OpenNew, OpenFails, Retain, Unlink,
         ExpireDone, AppendLine, AppendFails, AppendClosed, Close, Crash, Tick
<1>5. QED
  BY <1>1, <1>2, <1>3, <1>4

\* The invariant holds from the first start on.
LEMMA LogInvHolds == LogSpec => []LogInv
<1>1. Init => LogInv
  <2>1. ASSUME Init
        PROVE  TypeOK
    <3>1. /\ <<0, 0>> \in (0 .. MaxEvents) \X (Lengths \cup {0})
          /\ 0 \in 0 .. MaxClock /\ 0 \in 0 .. MaxEvents /\ 0 \in 0 .. MaxStarts
      OBVIOUS
    <3>2. /\ <<>> \in Seq(Nat \X Nat) /\ <<>> \in Seq(Seq((0 .. MaxEvents) \X Lengths))
          /\ <<>> \in Seq(0 .. MaxClock)
      OBVIOUS
    <3>3. QED
      BY <2>1, <3>1, <3>2 DEF Init, TypeOK
  <2>2. ASSUME Init
        PROVE  /\ Len(name) = 0 /\ Created = {} /\ files = {} /\ doomed = {}
               /\ current = 0 /\ pc = "down"
    BY <2>2 DEF Init
  <2>3. QED
    BY <2>1, <2>2 DEF LogInv, InHand, Writing, NamesAscend, NoGaps, TimesAscend, CurrentIsLast,
                      DoomedAreOldest, DoomedAreEnough, RotationRestoresLimit, OldestGoFirst,
                      EventsSeen, LinesInOrder
<1>2. LogInv /\ [LogNext]_logvars => LogInv'
  <2>1. SUFFICES ASSUME LogInv, [LogNext]_logvars
                 PROVE  LogInv'
    OBVIOUS
  <2>2. TypeOK' /\ InHand' /\ NamesAscend' /\ NoGaps' /\ TimesAscend' /\ CurrentIsLast'
    BY <2>1, TypeStep, InHandStep, NamesAscendStep, NoGapsStep, TimesAscendStep,
       CurrentIsLastStep
  <2>3. DoomedAreOldest' /\ DoomedAreEnough' /\ RotationRestoresLimit' /\ OldestGoFirst'
    BY <2>1, DoomedAreOldestStep, DoomedAreEnoughStep, RotationStep, OldestGoFirstStep
  <2>4. EventsSeen' /\ LinesInOrder'
    BY <2>1, EventsSeenStep, LinesInOrderStep
  <2>5. QED
    BY <2>2, <2>3, <2>4 DEF LogInv
<1>3. QED
  BY <1>1, <1>2, PTL DEF LogSpec

-----------------------------------------------------------------------------
(* The bytes of a file                                                     *)

\* The line in hand fits into the open file, or is the first to count in it.
InHandFits ==
    pc \in {"retain", "unlink", "expire", "append"} /\ current # 0
        => size + line[2] <= MaxBytes \/ Counted(current) = {}

\* No event failed that write() has not seen, nor yet the one in hand.
FailedWereSeen == \A n \in failed : n < Unseen

SizeInv ==
    /\ \A f \in Created : IsFiniteSet(Bytes(f))
    /\ FailedWereSeen /\ InHandFits /\ FileSizeBounded

\* The event in hand may fail, and with it no line that was written before.
LEMMA WhoFails ==
  ASSUME LogInv, SizeInv, [LogNext]_logvars
  PROVE  /\ failed' = failed \/ (failed' = failed \cup {last} /\ pc \in Writing /\ pc' \notin Writing
                                 /\ UNCHANGED last)
         /\ FailedWereSeen'
         /\ \A f \in Created : \A i \in 1 .. Len(content[f]) :
                content[f][i][1] \in failed' <=> content[f][i][1] \in failed
<1>1. \/ failed' = failed
      \/ failed' = failed \cup {last} /\ pc \in Writing /\ pc' \notin Writing /\ UNCHANGED last
  <2>1. CASE OpenFails \/ AppendFails \/ AppendClosed
    BY <2>1 DEF OpenFails, AppendFails, AppendClosed, Writing, LogInv, InHand
  <2>2. CASE failed' = failed
    BY <2>2
  <2>3. failed' = failed \/ OpenFails \/ AppendFails \/ AppendClosed
    BY DEF LogNext, Writer, Construct, Write, OpenNew, Retain, Unlink, Unlinked, Expire,
           ExpireDone, AppendLine, Close, Crash, Tick, logvars, wvars, faults
  <2> QED
    BY <2>1, <2>2, <2>3
<1>2. Unseen \in Nat /\ Unseen' \in Nat /\ Unseen <= Unseen' /\ last \in Nat
  BY UnseenGrows, TypedFiles DEF LogInv
<1>3. failed \subseteq Nat /\ failed' \subseteq Nat
  <2>1. failed \subseteq Nat
    BY DEF LogInv, TypeOK
  <2> QED
    BY <1>1, <1>2, <2>1
<1>4. FailedWereSeen'
  BY <1>1, <1>2, <1>3 DEF SizeInv, FailedWereSeen, Unseen
<1>5. ASSUME NEW f \in Created, NEW i \in 1 .. Len(content[f])
      PROVE  content[f][i][1] \in failed' <=> content[f][i][1] \in failed
  <2>1. content[f][i][1] < Unseen /\ content[f][i][1] \in Nat
    BY TypedFiles DEF LogInv, EventsSeen
  <2> QED
    BY <1>1, <1>2, <2>1 DEF Unseen
<1> QED
  BY <1>1, <1>4, <1>5

\* A file no line goes to keeps what counts of it.
LEMMA SameBytes ==
  ASSUME NEW f, content'[f] = content[f],
         \A i \in 1 .. Len(content[f]) : content[f][i][1] \in failed' <=> content[f][i][1] \in failed
  PROVE  Counted(f)' = Counted(f) /\ Bytes(f)' = Bytes(f)
<1>1. Counted(f)' = Counted(f)
  BY DEF Counted
<1> QED
  BY <1>1 DEF Bytes

\* A line that is written counts with its length, unless it is torn or failed.
LEMMA NewLineCounts ==
  ASSUME LogInv, SizeInv, [LogNext]_logvars, NEW c, c = current, c # 0, NEW e \in Event, Grows(e)
  PROVE  /\ e[1] \in failed' \cup {0} => Counted(c)' = Counted(c) /\ Bytes(c)' = Bytes(c)
         /\ e[1] \notin failed' \cup {0}
               => /\ \E n : Counted(c)' = Counted(c) \cup {n}
                  /\ IsFiniteSet(Bytes(c)')
                  /\ Cardinality(Bytes(c)') = Cardinality(Bytes(c)) + e[2]
<1> DEFINE n == Len(content[c]) + 1
<1>1. c \in Created /\ Len(content[c]) \in Nat /\ e[2] \in Nat
  <2>1. c \in Created
    BY DEF LogInv, TypeOK
  <2>2. Lengths \subseteq Nat
    BY RotatingLogAssumption
  <2> QED
    BY <2>1, <2>2, TypedFiles DEF LogInv, Event
<1>2. /\ \A i \in 1 .. Len(content[c]) : content'[c][i] = content[c][i]
      /\ content'[c][n] = e /\ Len(content'[c]) = n
  BY DEF Grows
<1>3. /\ n \in Nat \ {0} /\ 1 .. n = (1 .. Len(content[c])) \cup {n}
      /\ n \notin 1 .. Len(content[c])
  BY <1>1
<1>4. \A i \in 1 .. Len(content[c]) : content[c][i][1] \in failed' <=> content[c][i][1] \in failed
  BY <1>1, WhoFails
<1> HIDE DEF n
<1>5. Counted(c)' = Counted(c) \cup (IF e[1] \in failed' \cup {0} THEN {} ELSE {n})
  <2>1. Counted(c)' = {i \in 1 .. n : content'[c][i][1] \notin failed' \cup {0}}
    BY <1>2 DEF Counted
  <2>2. Counted(c) = {i \in 1 .. Len(content[c]) : content[c][i][1] \notin failed \cup {0}}
    BY DEF Counted
  <2>3. \A i : i \in Counted(c)'
               <=> i \in Counted(c) \/ (i = n /\ e[1] \notin failed' \cup {0})
    BY <1>2, <1>3, <1>4, <2>1, <2>2
  <2> QED
    BY <2>3
<1>6. \A i \in Counted(c) : content'[c][i][2] = content[c][i][2] /\ i # n
  BY <1>2, <1>3 DEF Counted
<1> DEFINE BytesOf(I) == UNION {{i} \X (1 .. content'[c][i][2]) : i \in I}
<1>7. Bytes(c)' = BytesOf(Counted(c)')
  BY DEF Bytes
<1>8. Bytes(c) = BytesOf(Counted(c))
  <2>1. \A i \in Counted(c) :
            {i} \X (1 .. content'[c][i][2]) = {i} \X (1 .. content[c][i][2])
    BY <1>6
  <2>2. {{i} \X (1 .. content'[c][i][2]) : i \in Counted(c)}
            = {{i} \X (1 .. content[c][i][2]) : i \in Counted(c)}
    BY <2>1, Zenon
  <2> QED
    BY <2>2 DEF Bytes
<1>9. CASE e[1] \in failed' \cup {0}
  <2>1. Counted(c)' = Counted(c)
    BY <1>5, <1>9
  <2> QED
    BY <1>7, <1>8, <1>9, <2>1
<1>10. CASE e[1] \notin failed' \cup {0}
  <2> DEFINE line2 == {n} \X (1 .. e[2])
  <2>1. Counted(c)' = Counted(c) \cup {n}
    BY <1>5, <1>10
  <2>2. Bytes(c)' = Bytes(c) \cup line2
    <3>1. ASSUME NEW I PROVE BytesOf(I \cup {n}) = BytesOf(I) \cup line2
      <4>1. {n} \X (1 .. content'[c][n][2]) = line2
        BY <1>2
      <4>2. \A b : b \in BytesOf(I \cup {n})
                   <=> b \in BytesOf(I) \/ b \in {n} \X (1 .. content'[c][n][2])
        BY Zenon
      <4> QED
        BY <4>1, <4>2, Zenon
    <3> HIDE DEF BytesOf
    <3> QED
      BY <1>7, <1>8, <2>1, <3>1
  <2>3. IsFiniteSet(line2) /\ Cardinality(line2) = e[2]
    <3>1. IsFiniteSet({n}) /\ Cardinality({n}) = 1
      BY FS_Singleton
    <3>2. IsFiniteSet(1 .. e[2]) /\ Cardinality(1 .. e[2]) = e[2]
      <4>1. ASSUME NEW k \in Nat PROVE IsFiniteSet(1 .. k) /\ Cardinality(1 .. k) = k
        BY FS_Interval
      <4> QED
        BY <1>1, <4>1
    <3>3. IsFiniteSet(line2) /\ Cardinality(line2) = Cardinality({n}) * Cardinality(1 .. e[2])
      BY <3>1, <3>2, FS_Product
    <3> QED
      BY <1>1, <3>1, <3>2, <3>3
  <2>4. Bytes(c) \cap line2 = {}
    <3>1. ASSUME NEW b \in Bytes(c) PROVE b[1] # n
      BY <1>6, <1>8
    <3>2. \A b \in line2 : b[1] = n
      OBVIOUS
    <3> QED
      BY <3>1, <3>2
  <2> HIDE DEF line2
  <2>5. IsFiniteSet(Bytes(c)) /\ Cardinality(Bytes(c)) \in Nat
    BY <1>1, FS_CardinalityType DEF SizeInv
  <2>6. IsFiniteSet(Bytes(c) \cup line2)
        /\ Cardinality(Bytes(c) \cup line2) = Cardinality(Bytes(c)) + e[2] - Cardinality({})
    BY <2>3, <2>4, <2>5, FS_Union
  <2>7. Cardinality(Bytes(c)') = Cardinality(Bytes(c)) + e[2]
    BY <1>1, <2>2, <2>5, <2>6, FS_EmptySet
  <2> QED
    BY <1>10, <2>1, <2>2, <2>6, <2>7
<1> QED
  BY <1>9, <1>10

\* What a step does to the lines of the files there are.
LEMMA WhichLine ==
  ASSUME LogInv, SizeInv, [LogNext]_logvars, NEW f \in Created
  PROVE  \/ content'[f] = content[f]
         \/ AppendLine /\ f = current /\ Grows(line)
         \/ /\ f = current /\ f # 0
            /\ \E e \in Event : Grows(e) /\ e[1] \in failed' \cup {0}
<1>1. CASE UNCHANGED content
  BY <1>1
<1>2. CASE OpenNew
  BY <1>2, OpenNewAdds
<1>3. CASE AppendLine \/ AppendFails
  <2>1. line \in Event /\ line[1] = last /\ current # 0 /\ (UNCHANGED content \/ Grows(line))
    BY <1>3, LineGrows
  <2>2. CASE f # current /\ Grows(line)
    BY <2>2 DEF Grows
  <2>3. CASE f = current /\ Grows(line) /\ AppendFails
    BY <2>1, <2>3 DEF AppendFails
  <2> QED
    BY <1>3, <2>1, <2>2, <2>3
<1>4. CASE Crash
  <2>1. UNCHANGED content \/ (current # 0 /\ Grows(<<0, line[2]>>) /\ <<0, line[2]>> \in Event)
    BY <1>4, TornGrows, RotatingLogAssumption DEF Event
  <2>2. CASE f # current /\ Grows(<<0, line[2]>>)
    BY <2>2 DEF Grows
  <2> QED
    BY <1>4, <2>1, <2>2
<1> QED
  BY <1>1, <1>2, <1>3, <1>4
     DEF LogNext, Writer, Construct, Write, OpenFails, Retain, Unlink, Unlinked, Expire,
         ExpireDone, AppendClosed, Close, Tick, logvars, wvars

\* The lines that count and their bytes, file by file.
LEMMA CountsOfFiles ==
  ASSUME LogInv, SizeInv, [LogNext]_logvars, NEW f \in Created
  PROVE  \/ Counted(f)' = Counted(f) /\ Bytes(f)' = Bytes(f) /\ ~(AppendLine /\ f = current)
         \/ /\ AppendLine /\ f = current
            /\ \E n : Counted(f)' = Counted(f) \cup {n}
            /\ IsFiniteSet(Bytes(f)')
            /\ Cardinality(Bytes(f)') = Cardinality(Bytes(f)) + line[2]
<1>1. CASE AppendLine /\ f = current
  <2>1. line \in Event /\ line[1] = last /\ f # 0 /\ pc \in Writing /\ failed' = failed
    BY <1>1, LineGrows DEF AppendLine, Writing, faults
  <2>2. Grows(line)
    BY <1>1, <2>1, AppendGrows DEF AppendLine, LogInv
  <2>3. last \in Nat /\ last # 0
    BY <2>1 DEF LogInv, InHand, TypeOK
  <2>4. line[1] \notin failed' \cup {0}
    BY <2>1, <2>3 DEF SizeInv, FailedWereSeen, Unseen
  <2> QED
    BY <1>1, <2>1, <2>2, <2>4, NewLineCounts
<1>2. CASE ~(AppendLine /\ f = current) /\ content'[f] = content[f]
  <2>1. \A i \in 1 .. Len(content[f]) : content[f][i][1] \in failed' <=> content[f][i][1] \in failed
    BY WhoFails
  <2> QED
    BY <1>2, <2>1, SameBytes
<1>3. ASSUME ~(AppendLine /\ f = current), f = current, f # 0,
             NEW e \in Event, Grows(e), e[1] \in failed' \cup {0}
      PROVE  Counted(f)' = Counted(f) /\ Bytes(f)' = Bytes(f)
  BY <1>3, NewLineCounts
<1> QED
  BY <1>1, <1>2, <1>3, WhichLine

\* A new file has no lines yet.
LEMMA NewFileIsEmpty ==
  ASSUME LogInv, OpenNew, NEW f, f = Len(name) + 1
  PROVE  /\ Created' = Created \cup {f} /\ f \in Created' /\ Counted(f)' = {} /\ Bytes(f)' = {}
         /\ IsFiniteSet(Bytes(f)') /\ Cardinality(Bytes(f)') = 0
<1>1. Created' = Created \cup {f} /\ content'[f] = <<>>
  BY OpenNewAdds
<1>2. Counted(f)' = {}
  BY <1>1 DEF Counted
<1>3. Bytes(f)' = {}
  BY <1>2 DEF Bytes
<1> QED
  BY <1>1, <1>2, <1>3, FS_EmptySet

\* Files there are, or the new one.
LEMMA WhoCreates ==
  ASSUME LogInv, [LogNext]_logvars
  PROVE  Created' = Created \/ (OpenNew /\ Created' = Created \cup {Len(name) + 1})
<1>1. CASE UNCHANGED name
  BY <1>1
<1>2. CASE OpenNew
  BY <1>2, NewFileIsEmpty
<1> QED
  BY <1>1, <1>2, WhoNames

\* What write() has in hand where it may still append.
LEMMA InHandFitsStep ==
  ASSUME LogInv, SizeInv, [LogNext]_logvars
  PROVE  InHandFits'
<1> DEFINE Late == {"retain", "unlink", "expire", "append"}
<1>1. SUFFICES ASSUME pc' \in Late, NEW c, c = current', c # 0
               PROVE  size' + line'[2] <= MaxBytes \/ Counted(c)' = {}
  BY DEF InHandFits, Counted
<1>2. CASE OpenNew
  BY <1>1, <1>2, NewFileIsEmpty DEF OpenNew
<1>3. CASE \E len \in Lengths : Write(len)
  <2>1. PICK len \in Lengths : Write(len)
    BY <1>3
  <2>2. c = current /\ size' = size /\ line'[2] = len /\ ~Full(len)
    BY <1>1, <2>1 DEF Write
  <2>3. size \in Nat /\ len \in Nat /\ MaxBytes \in Nat
    BY RotatingLogAssumption DEF LogInv, TypeOK
  <2> QED
    BY <1>1, <2>2, <2>3 DEF Full
<1>4. CASE /\ pc \in Late /\ UNCHANGED <<current, size, line, content, failed>>
  <2>1. Counted(c)' = Counted(c)
    BY <1>4 DEF Counted
  <2> QED
    BY <1>1, <1>4, <2>1 DEF SizeInv, InHandFits
<1>5. OpenNew \/ (\E len \in Lengths : Write(len))
      \/ (pc \in Late /\ UNCHANGED <<current, size, line, content, failed>>)
  BY <1>1 DEF LogNext, Writer, Construct, OpenFails, Retain, Unlink, Unlinked, Expire,
         ExpireDone, AppendLine, AppendFails, AppendClosed, Close, Crash, Tick, logvars, wvars,
         faults
<1> QED
  BY <1>2, <1>3, <1>4, <1>5

\* The byte counter is the size of the open file.
LEMMA SizeStep ==
  ASSUME LogInv, SizeInv, [LogNext]_logvars, NEW c, c = current', c # 0
  PROVE  size' = Cardinality(Bytes(c)')
<1>1. CASE OpenNew
  BY <1>1, NewFileIsEmpty DEF OpenNew
<1>2. CASE ~OpenNew
  <2>1. /\ c = current /\ c \in Created
        /\ IF AppendLine THEN size' = size + line[2] ELSE UNCHANGED size
    <3>1. current \in Created \cup {0}
      BY DEF LogInv, TypeOK
    <3>2. CASE AppendLine
      BY <3>1, <3>2 DEF AppendLine
    <3>3. CASE ~AppendLine
      <4>1. current' = 0 \/ UNCHANGED <<current, size>>
        BY <1>2, <3>3 DEF LogNext, Writer, Construct, Write, OpenFails, Retain, Unlink, Unlinked,
           Expire, ExpireDone, AppendFails, AppendClosed, Close, Crash, Tick, logvars, wvars
      <4> QED
        BY <3>1, <3>3, <4>1
    <3> QED
      BY <3>2, <3>3
  <2>2. size = Cardinality(Bytes(c))
    BY <2>1 DEF SizeInv, FileSizeBounded
  <2> QED
    BY <2>1, <2>2, CountsOfFiles
<1> QED
  BY <1>1, <1>2

\* No file outgrows the limit, unless one line does.
LEMMA BoundStep ==
  ASSUME LogInv, SizeInv, [LogNext]_logvars, NEW f \in Created'
  PROVE  /\ IsFiniteSet(Bytes(f)')
         /\ Cardinality(Bytes(f)') <= MaxBytes \/ Cardinality(Counted(f)') = 1
<1>1. CASE f \notin Created
  <2>1. OpenNew /\ f = Len(name) + 1
    BY <1>1, WhoCreates
  <2>2. IsFiniteSet(Bytes(f)') /\ Cardinality(Bytes(f)') = 0
    BY <2>1, NewFileIsEmpty
  <2> QED
    BY <2>2, RotatingLogAssumption
<1>2. CASE f \in Created /\ Counted(f)' = Counted(f) /\ Bytes(f)' = Bytes(f)
  BY <1>2 DEF SizeInv, FileSizeBounded
<1>3. CASE f \in Created /\ AppendLine /\ f = current
  <2>1. /\ IsFiniteSet(Bytes(f)')
        /\ Cardinality(Bytes(f)') = Cardinality(Bytes(f)) + line[2]
    BY <1>3, CountsOfFiles
  <2>2. PICK n : Counted(f)' = Counted(f) \cup {n}
    BY <1>3, CountsOfFiles
  <2>3. f # 0 /\ size = Cardinality(Bytes(f))
    BY <1>3 DEF AppendLine, SizeInv, FileSizeBounded
  <2>4. size + line[2] <= MaxBytes \/ Counted(f) = {}
    BY <1>3, <2>3 DEF AppendLine, SizeInv, InHandFits
  <2>5. CASE Counted(f) = {}
    <3>1. Counted(f)' = {n}
      BY <2>2, <2>5
    <3> QED
      BY <2>1, <3>1, FS_Singleton
  <2> QED
    BY <2>1, <2>3, <2>4, <2>5
<1> QED
  BY <1>1, <1>2, <1>3, CountsOfFiles

\* The sizes, from the first start on.
LEMMA SizeInvHolds == LogSpec => []SizeInv
<1>1. Init => SizeInv
  BY DEF Init, SizeInv, FailedWereSeen, InHandFits, FileSizeBounded
<1>2. ASSUME LogInv, SizeInv, [LogNext]_logvars
      PROVE  SizeInv'
  <2>1. FailedWereSeen' /\ InHandFits'
    BY <1>2, WhoFails, InHandFitsStep
  <2>2. \A f \in Created' : /\ IsFiniteSet(Bytes(f)')
                            /\ Cardinality(Bytes(f)') <= MaxBytes \/ Cardinality(Counted(f)') = 1
    BY <1>2, BoundStep
  <2>3. current' # 0 => size' = Cardinality(Bytes(current)')
    <3>1. \A c : c = current' /\ c # 0 => size' = Cardinality(Bytes(c)')
      BY <1>2, SizeStep
    <3> QED
      BY <3>1 DEF Bytes, Counted
  <2> QED
    BY <2>1, <2>2, <2>3 DEF SizeInv, FileSizeBounded
<1> QED
  BY <1>1, <1>2, LogInvHolds, PTL DEF LogSpec

-----------------------------------------------------------------------------
(* The theorems about the writer *)

\* The writer's variables keep their types, and the assertion in write() holds
\* unless the pipeline has closed the writer (writer.py).
THEOREM TypeCorrect == LogSpec => []TypeOK
<1>1. LogInv => TypeOK
  BY DEF LogInv
<1>2. QED
  BY <1>1, LogInvHolds, PTL

\* Retention deletes the oldest files and no other (_cleanup_old_files), also
\* when an unlink failed, a file expired, or a crash left a cleanup unfinished.
THEOREM RetentionTakesTheOldest == LogSpec => []OldestGoFirst
<1>1. LogInv => OldestGoFirst
  BY DEF LogInv
<1>2. QED
  BY <1>1, LogInvHolds, PTL

\* The writer keeps its limits, whatever fails and wherever it is stopped or
\* dies: max_file_mb at every write, but for a line that is longer on its own,
\* and max_files at every rotation, but for files it could not unlink
\* (RotatingJsonlWriter.write, _cleanup_old_files).
THEOREM LimitsAreKept == LogSpec => []LimitsKept
<1>1. LogInv /\ SizeInv => LimitsKept
  BY DEF LogInv, SizeInv, LimitsKept
<1>2. QED
  BY <1>1, LogInvHolds, SizeInvHolds, PTL

\* As long as the last file is there, readers find it.
LEMMA NewestIsLast ==
  ASSUME LogInv, Len(name) \in files
  PROVE  Newest(files) = Len(name)
<1> DEFINE n == Len(name)
<1>1. files \subseteq Created /\ Len(name) \in Nat
  BY TypedFiles DEF LogInv, TypeOK
<1>2. \A f, g \in files : Before(f, g) <=> f < g
  BY <1>1, BeforeIsOlder DEF LogInv
<1>3. \A g \in files \ {n} : Before(g, n)
  BY <1>1, <1>2
<1>4. ASSUME NEW f \in files, \A g \in files \ {f} : Before(g, f)
      PROVE  f = n
  BY <1>1, <1>2, <1>4
<1>5. Newest(files) \in files /\ \A g \in files \ {Newest(files)} : Before(g, Newest(files))
  BY <1>1, <1>3, Zenon DEF Newest
<1>6. QED
  BY <1>4, <1>5

\* The file being written is in the directory and is the one readers find as
\* the newest (_latest_log_file_in), whatever retention and expiry delete.
THEOREM ReadersFindTheCurrent == LogSpec => []CurrentIsNewest
<1>1. LogInv => CurrentIsNewest
  BY NewestIsLast DEF LogInv, CurrentIsLast, CurrentIsNewest
<1>2. QED
  BY <1>1, LogInvHolds, PTL

\* read_all returns the events in the order they were written, across
\* rotations, failed writes, crashes and restarts (reader.py).
THEOREM EventsAreReadInOrder == LogSpec => []ReadAllInOrder
<1>1. ASSUME LogInv
      PROVE  ReadAllInOrder
  <2>1. files \subseteq Created /\ \A f, g \in Created : Before(f, g) <=> f < g
    BY <1>1, BeforeIsOlder DEF LogInv, TypeOK
  <2>2. QED
    BY <1>1, <2>1 DEF LogInv, LinesInOrder, ReadAllInOrder
<1>2. QED
  BY <1>1, LogInvHolds, PTL

-----------------------------------------------------------------------------
(* The follower *)

\* What the writer does while the follower reads.
LEMMA TailWriterStep ==
  ASSUME MaxAge = 0, LogInv, TailInv, LogInv', [LogNext]_logvars, UNCHANGED tailvars
  PROVE  TailInv'
<1>0. /\ Len(name) \in Nat /\ current \in Nat
      /\ \A f \in Created : Len(content[f]) \in Nat
      /\ Len(name') \in Nat
      /\ Unseen \in Nat /\ Unseen' \in Nat /\ Unseen <= Unseen'
      /\ \A k \in 1 .. Len(yielded) : yielded[k] \in Nat /\ yielded[k] < Unseen
      /\ UNCHANGED <<tpc, tfile, tpos, tnext, yielded>>
      /\ tfile \in Created \cup {0} /\ tnext \in Created \cup {0}
      /\ tpos \in 0 .. IF tfile = 0 THEN 0 ELSE Len(content[tfile])
  <2>1. \A k \in 1 .. Len(yielded) : yielded[k] \in Nat
    BY DEF TailInv, TailTypeOK
  <2>2. Len(name') \in Nat
    BY DEF LogInv, TypeOK
  <2>3. QED
    BY <2>1, <2>2, UnseenGrows, TypedFiles DEF LogInv, TailInv, TailTypeOK, tailvars
<1>1. /\ Len(name') >= Len(name) /\ \A f \in Created : Len(content'[f]) >= Len(content[f])
      /\ \A f \in Created' : \A i \in 1 .. Len(content'[f]) :
            \/ f \in Created /\ i \in 1 .. Len(content[f]) /\ content'[f][i] = content[f][i]
            \/ content'[f][i][1] \in {0, Unseen}
  <2>1. CASE UNCHANGED <<name, content>>
    BY <1>0, <2>1
  <2>2. CASE OpenNew
    <3>1. /\ Created' = Created \cup {Len(name) + 1}
          /\ \A f \in Created : content'[f] = content[f]
          /\ content'[Len(name) + 1] = <<>> /\ Len(name') = Len(name) + 1
      BY <2>2, OpenNewAdds
    <3>2. \A i \in 1 .. Len(<<>>) : FALSE
      OBVIOUS
    <3>3. QED
      BY <1>0, <3>1, <3>2
  <2>3. ASSUME NEW e, NewLine(e)
        PROVE  <1>1!:
    <3>1. /\ Created' = Created /\ e[1] \in {0, Unseen} /\ Len(name') = Len(name)
          /\ \A f \in Created \ {current} : content'[f] = content[f]
          /\ Len(content'[current]) = Len(content[current]) + 1
          /\ \A i \in 1 .. Len(content[current]) : content'[current][i] = content[current][i]
          /\ content'[current][Len(content[current]) + 1] = e
      BY <2>3 DEF NewLine, Grows, Unseen, Writing
    <3>2. current \in Created
      BY <2>3 DEF NewLine, LogInv, TypeOK
    <3>3. \A i \in 1 .. Len(content'[current]) :
             i \in 1 .. Len(content[current]) \/ i = Len(content[current]) + 1
      BY <1>0, <3>1, <3>2
    <3>4. \A f \in Created : Len(content'[f]) >= Len(content[f])
      BY <1>0, <3>1
    <3>5. \A f \in Created : \A i \in 1 .. Len(content'[f]) :
             \/ i \in 1 .. Len(content[f]) /\ content'[f][i] = content[f][i]
             \/ content'[f][i][1] \in {0, Unseen}
      <4>1. ASSUME NEW i \in 1 .. Len(content'[current])
            PROVE  \/ i \in 1 .. Len(content[current])
                         /\ content'[current][i] = content[current][i]
                   \/ content'[current][i][1] \in {0, Unseen}
        BY <3>1, <3>3
      <4>2. QED
        BY <3>1, <3>2, <4>1
    <3>6. QED
      BY <1>0, <3>1, <3>4, <3>5
  <2>4. QED
    BY <2>1, <2>2, <2>3, WhoWrites
<1>2. TailTypeOK'
  <2>1. tfile' \in Created' \cup {0} /\ tnext' \in Created' \cup {0}
    BY <1>0, <1>1
  <2>2. tpos' \in 0 .. IF tfile' = 0 THEN 0 ELSE Len(content'[tfile'])
    <3>1. CASE tfile = 0
      BY <1>0, <3>1
    <3>2. CASE tfile # 0
      <4>1. tfile \in Created /\ Len(content'[tfile]) \in Nat
        <5>1. tfile \in Created /\ tfile \in 1 .. Len(content')
          BY <1>0, <1>1, <3>2 DEF LogInv, TypeOK
        <5>2. content' \in Seq(Seq(Event))
          BY DEF LogInv, TypeOK, Event
        <5>3. content'[tfile] \in Seq(Event)
          BY <5>1, <5>2, ElementOfSeq
        <5>4. QED
          BY <5>1, <5>3
      <4>2. QED
        BY <1>0, <1>1, <3>2, <4>1
    <3>3. QED
      BY <3>1, <3>2
  <2>3. QED
    BY <1>0, <2>1, <2>2 DEF TailInv, TailTypeOK
<1>3. LastStays'
  <2>1. CASE OpenNew
    BY <2>1, OpenNewAdds DEF OpenNew, LastStays
  <2>2. ASSUME NEW f \in doomed, Unlink(f)
        PROVE  LastStays'
    BY <2>2 DEF Unlink, LogInv, DoomedAreOldest, TailInv, LastStays
  <2>3. ~ \E f \in files : Expire(f)
    BY DEF Expire, Expired
  <2>4. CASE UNCHANGED <<name, files>>
    BY <2>4 DEF TailInv, LastStays
  <2>5. \/ OpenNew \/ (\E f \in doomed : Unlink(f)) \/ (\E f \in files : Expire(f))
        \/ UNCHANGED <<name, files>>
    BY DEF LogNext, Writer, Construct, Write, OpenFails, Retain, Unlinked,
           ExpireDone, AppendLine, AppendFails, AppendClosed, Close, Crash, Tick
  <2>6. QED
    BY <2>1, <2>2, <2>3, <2>4, <2>5
<1>4. \A k \in 1 .. Len(yielded') : yielded'[k] < Unseen'
  BY <1>0
<1>5. ASSUME NEW k \in 1 .. Len(yielded), NEW f \in Created', NEW i \in 1 .. Len(content'[f]),
             Ahead(f, i), content'[f][i][1] > 0
      PROVE  yielded[k] < content'[f][i][1]
  <2>1. CASE f \in Created /\ i \in 1 .. Len(content[f]) /\ content'[f][i] = content[f][i]
    BY <1>5, <2>1 DEF TailInv
  <2>2. CASE content'[f][i][1] \in {0, Unseen}
    BY <1>0, <1>5, <2>2
  <2>3. QED
    BY <1>1, <1>5, <2>1, <2>2
<1>6. \A k \in 1 .. Len(yielded'), f \in Created' : \A i \in 1 .. Len(content'[f]) :
            Ahead(f, i)' /\ content'[f][i][1] > 0 => yielded'[k] < content'[f][i][1]
  <2>1. \A f, i : Ahead(f, i)' = Ahead(f, i)
    BY <1>0 DEF Ahead
  <2>2. QED
    BY <1>0, <1>5, <2>1
<1>7. TailInOrder'
  BY <1>0 DEF TailInv, TailInOrder
<1>8. QED
  BY <1>0, <1>2, <1>3, <1>4, <1>6, <1>7 DEF TailInv

\* What the follower does itself.
LEMMA FollowStep ==
  ASSUME LogInv, TailInv, Follow
  PROVE  TailInv'
<1>0. /\ Len(name) \in Nat /\ UNCHANGED logvars /\ Unseen' = Unseen
      /\ LastStays' /\ files \subseteq Created
      /\ \A f \in Created : Len(content[f]) \in Nat
      /\ tfile \in Created \cup {0} /\ tnext \in Created \cup {0} /\ tpos \in Nat
      /\ yielded \in Seq(1 .. MaxEvents)
  <2>1. UNCHANGED logvars
    BY DEF Follow, TailStart, TailOpen, TailLine, TailEof, TailCheck, TailSwitch
  <2>2. tpos \in Nat
    BY TypedFiles DEF LogInv, TailInv, TailTypeOK
  <2>3. QED
    BY <2>1, <2>2, TypedFiles DEF Unseen, LastStays, LogInv, TypeOK, TailInv, TailTypeOK
<1>1. CASE TailStart
  <2>1. files # {} => Newest(files) \in Created
    <3>1. files # {} => Len(name) \in Created
      <4>1. SUFFICES ASSUME NEW f \in files
                     PROVE  Len(name) \in Created
        OBVIOUS
      <4>2. f \in 1 .. Len(name)
        BY <1>0
      <4>3. QED
        BY <1>0, <4>2
    <3>2. Len(name) \in Created => Len(name) \in files
      BY <1>0 DEF TailInv, LastStays
    <3>3. QED
      BY <3>1, <3>2, NewestIsLast
  <2>2. tnext' \in Created' \cup {0} /\ tpc' \in {"over", "open"}
    BY <1>0, <1>1, <2>1 DEF TailStart
  <2>3. yielded = <<>> /\ UNCHANGED <<logvars, tfile, tpos, yielded>>
    BY <1>1 DEF TailStart, TailInv
  <2>4. QED
    BY <1>0, <2>2, <2>3 DEF TailInv, TailTypeOK, TailInOrder
<1>2. CASE TailOpen
  <2>1. /\ UNCHANGED <<logvars, tnext, yielded>> /\ yielded = <<>>
        /\ tpc' \in {"read", "raised"} /\ (tpc' = "read" => tfile' # 0)
        /\ tfile' \in Created \cup {0}
        /\ tpos' \in 0 .. IF tfile' = 0 THEN 0 ELSE Len(content[tfile'])
    <3>1. CASE tnext \in files
      <4>1. tnext \in Created /\ tnext # 0 /\ Len(content[tnext]) \in Nat
        BY <1>0, <3>1
      <4>2. QED
        BY <1>2, <3>1, <4>1 DEF TailOpen, TailInv
    <3>2. CASE tnext \notin files
      BY <1>2, <3>2 DEF TailOpen, TailInv, TailTypeOK
    <3>3. QED
      BY <3>1, <3>2
  <2>2. QED
    BY <1>0, <2>1 DEF TailInv, TailTypeOK, TailInOrder
<1>3. CASE TailLine
  <2> DEFINE e == content[tfile][tpos + 1][1]
  <2>1. /\ tpc = "read" /\ tfile \in Created /\ tpos + 1 \in 1 .. Len(content[tfile])
        /\ tpos' = tpos + 1 /\ UNCHANGED <<tpc, tfile, tnext>>
        /\ yielded' = IF e = 0 THEN yielded ELSE Append(yielded, e)
    BY <1>0, <1>3 DEF TailLine, TailInv
  <2>2. e \in 0 .. MaxEvents /\ e < Unseen
    <3>1. content[tfile][tpos + 1] \in Event
      BY <2>1, TypedFiles DEF LogInv
    <3>2. QED
      BY <2>1, <3>1 DEF Event, LogInv, EventsSeen
  <2>3. Ahead(tfile, tpos + 1)
    BY <1>0, <2>1 DEF Ahead
  <2>4. ASSUME NEW f \in Created, NEW i \in 1 .. Len(content[f]), Ahead(f, i)',
               content[f][i][1] > 0
        PROVE  Ahead(f, i) /\ (e > 0 => e < content[f][i][1])
    <3>1. f > tfile \/ (f = tfile /\ i > tpos + 1)
      BY <2>1, <2>4 DEF Ahead
    <3>2. Ahead(f, i)
      BY <1>0, <3>1 DEF Ahead
    <3>3. e > 0 => e < content[f][i][1]
      BY <2>1, <2>4, <3>1 DEF LogInv, LinesInOrder
    <3>4. QED
      BY <3>2, <3>3
  <2>5. e > 0 => \A k \in 1 .. Len(yielded) : yielded[k] < e
    BY <2>1, <2>3 DEF TailInv
  <2>6. \/ yielded' = yielded
        \/ /\ e > 0 /\ yielded' \in Seq(1 .. MaxEvents) /\ Len(yielded') = Len(yielded) + 1
           /\ \A k \in 1 .. Len(yielded) : yielded'[k] = yielded[k]
           /\ yielded'[Len(yielded) + 1] = e
    <3>1. CASE e = 0
      BY <2>1, <3>1
    <3>2. CASE e # 0
      <4>1. e \in 1 .. MaxEvents /\ yielded' = Append(yielded, e)
        BY <2>1, <2>2, <3>2
      <4> HIDE DEF e
      <4>2. QED
        BY <1>0, <4>1, AppendProperties
    <3>3. QED
      BY <3>1, <3>2
  <2> HIDE DEF e
  <2>7. /\ Len(yielded) \in Nat /\ Len(yielded') \in Nat /\ yielded' \in Seq(1 .. MaxEvents)
        /\ \A k \in 1 .. Len(yielded') :
              \/ k \in 1 .. Len(yielded) /\ yielded'[k] = yielded[k]
              \/ k = Len(yielded) + 1 /\ yielded'[k] = e /\ e > 0
    BY <1>0, <2>6
  <2>8. TailTypeOK'
    <3>1. tpos' \in 0 .. IF tfile' = 0 THEN 0 ELSE Len(content[tfile'])
      BY <1>0, <2>1
    <3>2. QED
      BY <1>0, <2>1, <2>7, <3>1 DEF TailInv, TailTypeOK
  <2>9. \A k \in 1 .. Len(yielded') : yielded'[k] < Unseen'
    BY <1>0, <2>2, <2>7 DEF TailInv
  <2>10. TailInOrder'
    <3>1. SUFFICES ASSUME NEW j \in 1 .. Len(yielded'), NEW k \in 1 .. Len(yielded'), j < k
                   PROVE  yielded'[j] < yielded'[k]
      BY DEF TailInOrder
    <3>2. j \in 1 .. Len(yielded) /\ yielded'[j] = yielded[j]
      BY <2>7, <3>1
    <3>3. QED
      BY <2>5, <2>7, <3>1, <3>2 DEF TailInv, TailInOrder
  <2>11. ASSUME NEW k \in 1 .. Len(yielded'), NEW f \in Created, NEW i \in 1 .. Len(content[f]),
                Ahead(f, i)', content[f][i][1] > 0
         PROVE  yielded'[k] < content[f][i][1]
    BY <2>4, <2>7, <2>11 DEF TailInv
  <2>12. QED
    BY <1>0, <2>1, <2>8, <2>9, <2>10, <2>11 DEF TailInv
<1>4. CASE TailEof
  BY <1>0, <1>4 DEF TailEof, TailInv, TailTypeOK, TailInOrder, Ahead
<1>5. CASE TailCheck
  <2>1. /\ tpc = "check" /\ UNCHANGED <<tfile, tpos, yielded>>
        /\ \/ tpc' = "read" /\ UNCHANGED tnext
           \/ tpc' = "switch" /\ tnext' = Newest(files) /\ tnext' # tfile /\ files # {}
    BY <1>5 DEF TailCheck
  <2>2. tpc' = "switch" => tnext' \in Created /\ tnext' > tfile
    <3>1. tpc' = "switch" => tnext' = Len(name) /\ Len(name) \in Created
      BY <1>0, <2>1, NewestIsLast DEF TailInv, LastStays
    <3>2. QED
      BY <1>0, <2>1, <3>1
  <2>3. tnext' \in Created \cup {0} /\ tpc' \in {"read", "switch"}
    BY <1>0, <2>1, <2>2
  <2>4. tfile # 0
    BY <2>1 DEF TailInv
  <2>5. \A f, i : Ahead(f, i)' = Ahead(f, i)
    BY <2>1 DEF Ahead
  <2>6. QED
    BY <1>0, <2>1, <2>2, <2>3, <2>4, <2>5 DEF TailInv, TailTypeOK, TailInOrder
<1>6. CASE TailSwitch
  <2>1. CASE tnext \in files
    <3>1. /\ tpc' = "read" /\ tfile' = tnext /\ tpos' = 0 /\ UNCHANGED <<tnext, yielded>>
          /\ tnext > tfile /\ tnext # 0 /\ tnext \in Created
      BY <1>0, <1>6, <2>1 DEF TailSwitch, TailInv
    <3>2. \A f \in Created : \A i \in 1 .. Len(content[f]) : Ahead(f, i)' => Ahead(f, i)
      BY <1>0, <3>1 DEF Ahead
    <3>3. tpos' \in 0 .. IF tfile' = 0 THEN 0 ELSE Len(content[tfile'])
      BY <1>0, <3>1
    <3>4. QED
      BY <1>0, <3>1, <3>2, <3>3 DEF TailInv, TailTypeOK, TailInOrder
  <2>2. CASE tnext \notin files
    <3>1. tpc' = "raised" /\ UNCHANGED <<tfile, tpos, tnext, yielded>>
      BY <1>6, <2>2 DEF TailSwitch
    <3>2. \A f, i : Ahead(f, i)' = Ahead(f, i)
      BY <3>1 DEF Ahead
    <3>3. QED
      BY <1>0, <3>1, <3>2 DEF TailInv, TailTypeOK, TailInOrder
  <2>3. QED
    BY <2>1, <2>2
<1>7. QED
  BY <1>1, <1>2, <1>3, <1>4, <1>5, <1>6 DEF Follow

\* The follower takes nothing from the writer: its steps are the writer's too.
LEMMA FollowedLog == Spec => LogSpec
<1>1. TailInit => Init
  BY DEF TailInit
<1>2. [Next]_vars => [LogNext]_logvars
  BY DEF Next, WriterStep, Follow, TailStart, TailOpen, TailLine, TailEof, TailCheck, TailSwitch,
         vars
<1>3. QED
  BY <1>1, <1>2, PTL DEF Spec, LogSpec

\* Where nothing expires, "logs --follow" prints every event at most once and
\* in the order they were written (_iter_tail_events), whatever is rotated,
\* pruned, torn or lost between two steps of the follower.
THEOREM FollowerKeepsTheOrder == ASSUME MaxAge = 0 PROVE Spec => []TailInOrder
<1>1. TailInit => TailInv
  <2>1. ASSUME TailInit
        PROVE  yielded = <<>> /\ name = <<>> /\ tpc = "start" /\ tfile = 0 /\ tpos = 0 /\ tnext = 0
    BY <2>1 DEF TailInit, Init
  <2>2. QED
    BY <2>1 DEF TailInv, TailTypeOK, TailInOrder, LastStays
<1>2. LogInv /\ LogInv' /\ TailInv /\ [Next]_vars => TailInv'
  <2>1. SUFFICES ASSUME LogInv, LogInv', TailInv, [Next]_vars
                 PROVE  TailInv'
    OBVIOUS
  <2>2. CASE WriterStep \/ UNCHANGED vars
    BY <2>1, <2>2, TailWriterStep DEF WriterStep, vars
  <2>3. CASE Follow
    BY <2>1, <2>3, FollowStep
  <2>4. QED
    BY <2>1, <2>2, <2>3 DEF Next
<1>3. TailInv => TailInOrder
  BY DEF TailInv
<1>4. QED
  BY <1>1, <1>2, <1>3, FollowedLog, LogInvHolds, PTL DEF Spec

=============================================================================
