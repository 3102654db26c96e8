--------------------------- MODULE WorkloadProofs ---------------------------
(***************************************************************************)
(* A paced replay follows the recording, for any source files, target      *)
(* sizes and symbol filter.  Generating the rows matters only for their    *)
(* types: no row is generated once the replay has begun.                   *)
(***************************************************************************)
EXTENDS Workload, TLAPS, WellFoundedInduction

Lines == TextLines({Absent} \cup Int)

-----------------------------------------------------------------------------
(* Times *)

\* The rows in scope among the first n lines of q, and the time of a row.
Scoped(f, q, n) == {k \in 1 .. n : InScope(Parse(f, q[k]))}
Time(f, q, k) == Parse(f, q[k]).time

\* The time of a parsed line is an integer, positive for a row in scope.
LEMMA TimeType ==
    ASSUME NEW f, NEW line \in Lines
    PROVE  /\ Parse(f, line).time \in Int
           /\ InScope(Parse(f, line)) => Parse(f, line).time > 0
<1>1. /\ line.event_time \in {Absent} \cup Int /\ line.trade_time \in {Absent} \cup Int
  BY DEF Lines, TextLines
<1>2. \A e, t \in Int : \A first, final : Event(line, e, t, first, final).time \in Int
  BY DEF Event, EventTimeMillis
<1>3. ParseJSONLine(line).time \in Int
  <2> DEFINE e == Or(line.event_time, 0)
             t == Or(line.trade_time, 0)
  <2>1. e \in Int /\ t \in Int
    BY <1>1 DEF Or
  <2>2. ParseJSONLine(line).time = 0
        \/ \E first, final : ParseJSONLine(line) = Event(line, e, t, first, final)
    BY DEF ParseJSONLine, Garbage
  <2> QED
    BY <1>2, <2>1, <2>2
<1>4. parseCSV(line).time \in Int
  <2> DEFINE t == Or(line.event_time, line.trade_time)
  <2>1. t = Absent \/ t \in Int
    BY <1>1 DEF Or
  <2>2. \/ parseCSV(line).time = 0
        \/ /\ t # Absent
           /\ \E first, final : \/ parseCSV(line) = Event(line, t, 0, first, final)
                                \/ parseCSV(line) = Event(line, 0, t, first, final)
    BY DEF parseCSV, Garbage
  <2> QED
    BY <1>2, <2>1, <2>2
<1> QED
  BY <1>3, <1>4 DEF Parse, InScope, validateEventShape

-----------------------------------------------------------------------------
(* The pace *)

\* The time to sleep from a to b, and the sleeps after an event at t.
Span(w, a, b) == w * (b - a)
Slept(w, p, t, s) == IF w = 0 \/ t <= 0 \/ p = 0 \/ t - p <= 0 THEN s ELSE s + Span(w, p, t)

(***************************************************************************)
(* What previousEventTime and the sleeps are after the rows of D, with     *)
(* times T: the first of them sets the clock, every later one adds the     *)
(* time since its predecessor, unless that is negative.                    *)
(***************************************************************************)
Pace(D, T, w, prev, s) ==
    /\ D = {} => prev = 0 /\ s = 0
    /\ D # {} => \E a, z \in D :
          /\ \A k \in D : a <= k /\ k <= z
          /\ prev = T[z]
          /\ \A k \in D : s >= Span(w, T[a], T[k])
          /\ (\A k, l \in D : k < l => T[k] <= T[l]) => s = Span(w, T[a], T[z])

LEMMA SpanType ==
    ASSUME NEW w \in {0, 1, 10}, NEW a \in Int, NEW b \in Int
    PROVE  Span(w, a, b) \in Int /\ Span(w, a, a) = 0
BY DEF Span

\* One more row in scope, after all those of D.
LEMMA PaceStep ==
    ASSUME NEW n \in Nat, NEW D \in SUBSET (1 .. n), NEW m \in Nat, n < m,
           NEW T \in [1 .. m -> Int], \A k \in D \cup {n + 1} : T[k] > 0,
           NEW w \in {0, 1, 10}, NEW prev \in Int, NEW s \in Int,
           Pace(D, T, w, prev, s)
    PROVE  Pace(D \cup {n + 1}, T, w, T[n + 1], Slept(w, prev, T[n + 1], s))
<1> DEFINE E == D \cup {n + 1}
           z == n + 1
           r == Slept(w, prev, T[z], s)
<1>1. CASE D = {}
  <2>1. r = 0 /\ E = {z} /\ T[z] \in Int
    BY <1>1 DEF Pace, Slept
  <2>2. Span(w, T[z], T[z]) = 0
    BY <2>1, SpanType
  <2> QED
    BY <2>1, <2>2 DEF Pace
<1>2. CASE D # {}
  <2>1. PICK a \in D, y \in D :
          /\ \A k \in D : a <= k /\ k <= y
          /\ prev = T[y]
          /\ \A k \in D : s >= Span(w, T[a], T[k])
          /\ (\A k, l \in D : k < l => T[k] <= T[l]) => s = Span(w, T[a], T[y])
    BY <1>2 DEF Pace
  <2>2. /\ \A k \in E : T[k] \in Int /\ k \in Int
        /\ T[y] > 0 /\ T[z] > 0 /\ a \in E /\ z \in E /\ y < z
        /\ \A k \in D : k < z
    OBVIOUS
  <2>3. \A k \in E : a <= k /\ k <= z
    BY <2>1, <2>2
  <2>4. /\ T[a] \in Int /\ T[y] \in Int /\ T[z] \in Int /\ T[y] # 0 /\ T[z] > 0
        /\ s >= Span(w, T[a], T[y])
    BY <2>1, <2>2
  <2>5. /\ r \in Int /\ r >= s
        /\ r >= Span(w, T[a], T[z])
        /\ T[y] <= T[z] /\ s = Span(w, T[a], T[y]) => r = Span(w, T[a], T[z])
    <3>1. r = Slept(w, T[y], T[z], s)
      BY <2>1
    <3> HIDE DEF z, r
    <3>2. /\ Slept(w, T[y], T[z], s) \in Int
          /\ Slept(w, T[y], T[z], s) >= s
          /\ Slept(w, T[y], T[z], s) >= Span(w, T[a], T[z])
          /\ T[y] <= T[z] /\ s = Span(w, T[a], T[y])
                => Slept(w, T[y], T[z], s) = Span(w, T[a], T[z])
      <4>1. ASSUME NEW A \in Int, A = T[a], NEW Y \in Int, Y = T[y], NEW Z \in Int, Z = T[z]
            PROVE  /\ Slept(w, Y, Z, s) \in Int
                   /\ Slept(w, Y, Z, s) >= s
                   /\ Slept(w, Y, Z, s) >= Span(w, A, Z)
                   /\ Y <= Z /\ s = Span(w, A, Y) => Slept(w, Y, Z, s) = Span(w, A, Z)
        <5>1. Y # 0 /\ Z > 0 /\ s >= Span(w, A, Y)
          BY <2>4, <4>1
        <5>2. CASE w = 0
          BY <5>1, <5>2 DEF Slept, Span
        <5>3. CASE w = 1
          BY <5>1, <5>3 DEF Slept, Span
        <5>4. CASE w = 10
          BY <5>1, <5>4 DEF Slept, Span
        <5> QED
          BY <5>2, <5>3, <5>4
      <4> QED
        BY <2>4, <4>1
    <3> QED
      BY <3>1, <3>2
  <2>6. \A k \in E : r >= Span(w, T[a], T[k])
    <3> TAKE k \in E
    <3>1. CASE k = z
      BY <2>5, <3>1
    <3>2. CASE k \in D
      <4>1. s >= Span(w, T[a], T[k])
        BY <2>1, <3>2
      <4>2. Span(w, T[a], T[k]) \in Int
        BY <2>2, SpanType
      <4> QED
        BY <2>5, <4>1, <4>2
    <3> QED
      BY <3>1, <3>2
  <2>7. ASSUME \A k, l \in E : k < l => T[k] <= T[l]
        PROVE  r = Span(w, T[a], T[z])
    <3>1. T[y] <= T[z] /\ s = Span(w, T[a], T[y])
      BY <2>1, <2>2, <2>7
    <3> QED
      BY <2>5, <3>1
  <2> QED
    BY <2>2, <2>3, <2>6, <2>7 DEF Pace
<1> QED
  BY <1>1, <1>2
-----------------------------------------------------------------------------
(* The inductive invariant *)

Weight == IF speed = "max" THEN 0 ELSE IF speed = "10x" THEN 1 ELSE 10

\* The times of all lines of q.
Times(f, q) == [k \in DOMAIN q |-> Parse(f, q[k]).time]

PaceInv ==
    /\ source \in Sources
    /\ speed \in {"max", "1x", "10x"}
    /\ output \in Seq(Lines)
    /\ pos \in 0 .. Len(output)
    /\ pos # 0 => Len(output) = target
    /\ previous \in Int /\ slept \in Int
    /\ Pace(Scoped(source.format, output, pos), Times(source.format, output), Weight,
            previous, slept)

\* What WriteRow appends is again a line.
LEMMA NormalizeType ==
    ASSUME source \in Sources, NEW line \in Lines, NEW cycle \in Nat,
           \E l \in DOMAIN source.rows : line = source.rows[l]
    PROVE  normalize(line, cycle) \in Lines
<1> USE DEF Lines
<1>1. source.rows \in Seq(Lines) /\ source.rows # <<>>
  BY SourcesAssumption
<1>2. 1 \in DOMAIN source.rows /\ Len(source.rows) \in DOMAIN source.rows
  BY <1>1
<1>3. Base \in Lines /\ Final \in Lines
  BY <1>1, <1>2 DEF Base, Final
<1>4. PICK l \in DOMAIN source.rows : line = source.rows[l]
  OBVIOUS
<1>5. ASSUME jsonlEnabled
      PROVE  jsonlNormalize(line, cycle) \in Lines
  <2>1. \A m \in DOMAIN source.rows :
          /\ source.rows[m].first_update_id # Absent
          /\ source.rows[m].final_update_id # Absent
          /\ source.rows[m].event_time # Absent
    BY <1>5 DEF jsonlEnabled
  <2>2. \A r \in {line, Base, Final} :
          r.first_update_id \in Int /\ r.final_update_id \in Int /\ r.event_time \in Int
    BY <1>2, <1>3, <1>4, <2>1 DEF Base, Final, TextLines
  <2> DEFINE n == cycle * (Final.final_update_id - Base.first_update_id + 1)
             x == line.first_update_id + n
             y == line.final_update_id + n
             t == line.event_time + cycle * (Final.event_time - Base.event_time + 1)
  <2>3. x \in Int /\ y \in Int /\ t \in Int
    BY <2>2
  <2>4. \/ jsonlNormalize(line, cycle) = line
        \/ jsonlNormalize(line, cycle) =
             [line EXCEPT !.first_update_id = x, !.final_update_id = y, !.event_time = t]
    BY DEF jsonlNormalize, TextLines
  <2> HIDE DEF n, x, y, t
  <2>5. [line EXCEPT !.first_update_id = x, !.final_update_id = y, !.event_time = t] \in Lines
    BY <2>3 DEF TextLines
  <2> QED
    BY <2>4, <2>5
<1>6. ASSUME csvEnabled
      PROVE  csvNormalize(line, cycle) \in Lines
  <2>1. \A m \in DOMAIN source.rows :
          source.rows[m].trade_id # Absent /\ source.rows[m].trade_time # Absent
    BY <1>6 DEF csvEnabled
  <2>2. \A r \in {line, Base, Final} : r.trade_id \in Int /\ r.trade_time \in Int
    BY <1>2, <1>3, <1>4, <2>1 DEF Base, Final, TextLines
  <2> DEFINE x == line.trade_id + cycle * (Final.trade_id - Base.trade_id + 1)
             t == line.trade_time + cycle * (Final.trade_time - Base.trade_time + 1)
  <2>3. x \in Int /\ t \in Int
    BY <2>2
  <2>4. csvNormalize(line, cycle) = [line EXCEPT !.trade_id = x, !.trade_time = t]
    BY <1>6 DEF csvNormalize, TextLines
  <2> HIDE DEF x, t
  <2>5. [line EXCEPT !.trade_id = x, !.trade_time = t] \in Lines
    BY <2>3 DEF TextLines
  <2> QED
    BY <2>4, <2>5
<1>7. /\ ~jsonlEnabled => jsonlNormalize(line, cycle) = line
      /\ ~csvEnabled => csvNormalize(line, cycle) = line
  BY DEF jsonlNormalize, csvNormalize
<1> QED
  BY <1>5, <1>6, <1>7 DEF normalize

-----------------------------------------------------------------------------
(* The steps *)

LEMMA TimesType ==
    ASSUME NEW f, NEW q \in Seq(Lines)
    PROVE  /\ Times(f, q) \in [1 .. Len(q) -> Int]
           /\ \A k \in 1 .. Len(q) : /\ Times(f, q)[k] = Parse(f, q[k]).time
                                     /\ InScope(Parse(f, q[k])) => Times(f, q)[k] > 0
<1>1. \A k \in 1 .. Len(q) : q[k] \in Lines
  OBVIOUS
<1>2. \A k \in 1 .. Len(q) : /\ Parse(f, q[k]).time \in Int
                             /\ InScope(Parse(f, q[k])) => Parse(f, q[k]).time > 0
  BY <1>1, TimeType
<1> QED
  BY <1>2 DEF Times

LEMMA Wrap ==
    ASSUME NEW n \in Nat, NEW c \in Nat, c > 0
    PROVE  (n % c) + 1 \in 1 .. c /\ n \div c \in Nat
<1>1. n % c \in 0 .. (c - 1)
  OBVIOUS
<1>2. n \div c \in Int /\ n = c * (n \div c) + (n % c)
  OBVIOUS
<1>3. n \div c >= 0
  BY <1>1, <1>2
<1> QED
  BY <1>1, <1>2, <1>3

LEMMA Extremes ==
    ASSUME NEW S \in SUBSET Int, NEW a \in S, NEW z \in S, \A k \in S : a <= k /\ k <= z
    PROVE  Min(S) = a /\ Max(S) = z
<1>1. \A x \in S : (\A y \in S : x <= y) <=> x = a
  OBVIOUS
<1>2. \A x \in S : (\A y \in S : x >= y) <=> x = z
  OBVIOUS
<1>3. Min(S) = a
  BY <1>1, Zenon DEF Min
<1>4. Max(S) = z
  BY <1>2, Zenon DEF Max
<1> QED
  BY <1>3, <1>4

LEMMA NothingScoped ==
    ASSUME NEW f, NEW q, NEW T, NEW w
    PROVE  Pace(Scoped(f, q, 0), T, w, 0, 0)
BY DEF Pace, Scoped

LEMMA PaceInit == Init => PaceInv
<1> HAVE Init
<1>1. output = <<>> /\ output \in Seq(Lines) /\ pos \in 0 .. Len(output)
  BY DEF Init
<1> QED
  BY <1>1, NothingScoped DEF Init, PaceInv

LEMMA WriteRowPace == PaceInv /\ WriteRow => PaceInv'
<1> SUFFICES ASSUME PaceInv, WriteRow PROVE PaceInv'
  OBVIOUS
<1> DEFINE n == Len(output)
           c == Len(source.rows)
           i == (n % c) + 1
<1>1. source.rows \in Seq(Lines) /\ source.rows # <<>>
  BY SourcesAssumption DEF PaceInv, Lines
<1>2. n \in Nat /\ c \in Nat /\ c > 0
  BY <1>1 DEF PaceInv
<1>3. i \in 1 .. c /\ n \div c \in Nat
  BY <1>2, Wrap
<1>4. source.rows[i] \in Lines /\ \E l \in DOMAIN source.rows : source.rows[i] = source.rows[l]
  BY <1>1, <1>3
<1>5. normalize(source.rows[i], n \div c) \in Lines
  BY <1>3, <1>4, NormalizeType DEF PaceInv
<1>6. output' = Append(output, normalize(source.rows[i], n \div c))
  BY DEF WriteRow
<1>7. output' \in Seq(Lines) /\ Len(output') = n + 1
  <2> DEFINE line == normalize(source.rows[i], n \div c)
  <2>1. line \in Lines /\ output' = Append(output, line) /\ output \in Seq(Lines)
    BY <1>5, <1>6 DEF PaceInv
  <2> HIDE DEF line
  <2> QED
    BY <2>1
<1>8. pos = 0
  BY <1>2 DEF PaceInv, WriteRow
<1>9. previous = 0 /\ slept = 0
  BY <1>8 DEF PaceInv, Pace, Scoped
<1>10. /\ source' = source /\ speed' = speed /\ pos' = 0 /\ previous' = 0 /\ slept' = 0
  BY <1>8, <1>9 DEF WriteRow
<1>11. Pace(Scoped(source'.format, output', 0), Times(source'.format, output'), Weight', 0, 0)
  BY NothingScoped
<1> QED
  BY <1>2, <1>7, <1>10, <1>11 DEF PaceInv

LEMMA ReplayRowPace == PaceInv /\ ReplayRow => PaceInv'
<1> SUFFICES ASSUME PaceInv, ReplayRow PROVE PaceInv'
  OBVIOUS
<1> DEFINE f == source.format
           T == Times(f, output)
           D == Scoped(f, output, pos)
           row == Parse(f, output[pos + 1])
<1>1. /\ source' = source /\ speed' = speed /\ output' = output /\ target' = target
      /\ pos' = pos + 1 /\ pos \in Nat /\ pos < Len(output) /\ Len(output) = target
      /\ Len(output) \in Nat /\ Weight' = Weight
  BY DEF PaceInv, ReplayRow, Weight
<1>2. Weight \in {0, 1, 10}
  BY DEF Weight
<1>3. /\ T \in [1 .. Len(output) -> Int]
      /\ \A k \in 1 .. Len(output) : T[k] = Parse(f, output[k]).time
      /\ \A k \in 1 .. Len(output) : InScope(Parse(f, output[k])) => T[k] > 0
  BY TimesType DEF PaceInv
<1>4. D \in SUBSET (1 .. pos) /\ \A k \in D : T[k] > 0
  BY <1>1, <1>3 DEF Scoped
<1>5. Pace(D, T, Weight, previous, slept) /\ previous \in Int /\ slept \in Int
  BY DEF PaceInv
<1>6. CASE InScope(row)
  <2>1. Scoped(f, output, pos + 1) = D \cup {pos + 1}
    BY <1>1, <1>6 DEF Scoped
  <2>2. T[pos + 1] = row.time /\ T[pos + 1] \in Int /\ T[pos + 1] > 0
    BY <1>1, <1>3, <1>6
  <2>3. Pace(D \cup {pos + 1}, T, Weight, T[pos + 1], Slept(Weight, previous, T[pos + 1], slept))
    <3> HIDE DEF T, D
    <3> QED
      BY <1>1, <1>2, <1>3, <1>4, <1>5, <2>2, PaceStep
  <2>4. sleepForEvent(row.time)
    BY <1>6 DEF ReplayRow
  <2>5. previous' = T[pos + 1] /\ slept' = Slept(Weight, previous, T[pos + 1], slept)
    BY <2>2, <2>4 DEF sleepForEvent, Slept, Span, Weight
  <2>6. slept' \in Int
    BY <1>2, <1>5, <2>2, <2>5 DEF Slept, Span
  <2>7. previous' \in Int
    BY <2>2, <2>5
  <2>8. Pace(Scoped(f, output, pos + 1), T, Weight, previous', slept')
    BY <2>1, <2>3, <2>5
  <2>9. pos + 1 \in 0 .. Len(output)
    BY <1>1
  <2> QED
    BY <1>1, <2>6, <2>7, <2>8, <2>9 DEF PaceInv
<1>7. CASE ~InScope(row)
  <2>1. Scoped(f, output, pos + 1) = D
    BY <1>1, <1>7 DEF Scoped
  <2>2. previous' = previous /\ slept' = slept
    BY <1>7 DEF ReplayRow
  <2> QED
    BY <1>1, <1>5, <2>1, <2>2 DEF PaceInv
<1> QED
  BY <1>6, <1>7

-----------------------------------------------------------------------------
LEMMA PaceImplies == PaceInv => PacedByRecording
<1> SUFFICES ASSUME PaceInv, Due # {} PROVE PacedByRecording
  BY DEF PacedByRecording
<1> DEFINE f == source.format
           T == Times(f, output)
<1>1. Due = Scoped(f, output, pos)
  BY DEF Due, Scoped, Row
<1>2. Due \subseteq 1 .. Len(output) /\ Due \subseteq Int
  BY <1>1 DEF PaceInv, Scoped
<1>3. \A k \in Due : Row(k).time = T[k] /\ T[k] \in Int
  BY <1>2, TimesType DEF PaceInv, Row
<1>4. Factor = Weight /\ Weight \in {0, 1, 10}
  BY DEF Factor, Weight
<1>5. PICK a \in Due, z \in Due :
        /\ \A k \in Due : a <= k /\ k <= z
        /\ \A k \in Due : slept >= Span(Weight, T[a], T[k])
        /\ (\A k, l \in Due : k < l => T[k] <= T[l]) => slept = Span(Weight, T[a], T[z])
  BY <1>1 DEF PaceInv, Pace
<1>6. Min(Due) = a /\ Max(Due) = z
  BY <1>2, <1>5, Extremes
<1>7. \A k \in Due : slept >= Factor * (Row(k).time - Row(a).time)
  BY <1>3, <1>4, <1>5 DEF Span
<1>8. InOrder => slept = Factor * (Row(z).time - Row(a).time)
  BY <1>3, <1>4, <1>5 DEF Span, InOrder
<1> QED
  BY <1>6, <1>7, <1>8 DEF PacedByRecording

\* A paced replay (Runner.Stream, sleepForEvent) never runs ahead of the
\* recording, and keeps exactly to it while the rows in scope are in order.
THEOREM PacedReplay == Spec => []PacedByRecording
<1>1. PaceInv /\ [Next]_vars => PaceInv'
  <2> SUFFICES ASSUME PaceInv, [Next]_vars PROVE PaceInv'
    OBVIOUS
  <2>1. CASE UNCHANGED vars
    BY <2>1 DEF vars, PaceInv, Weight
  <2> QED
    BY <2>1, WriteRowPace, ReplayRowPace DEF Next
<1> QED
  BY PaceInit, <1>1, PaceImplies, PTL DEF Spec

-----------------------------------------------------------------------------
(* The validator's run over a file: Validated satisfies its own equation *)

\* A set of natural numbers has a least element: induction over lines is by
\* the least counterexample.
LEMMA Least ==
    ASSUME NEW S \in SUBSET Nat, S # {}
    PROVE  \E m \in S : \A k \in S : m <= k
<1> DEFINE R == {p \in Nat \X Nat : p[1] < p[2]}
<1>1. OpToRel(<, Nat) = R
  BY DEF OpToRel
<1>2. IsWellFoundedOn(R, Nat)
  BY <1>1, NatLessThanWellFounded
<1> HIDE DEF R
<1>3. PICK m \in S : \A k \in S : ~(<<k, m>> \in R)
  BY <1>2, WFMin
<1>4. ASSUME NEW k \in S, ~(m <= k) PROVE FALSE
  <2>1. k \in Nat /\ m \in Nat /\ k < m
    BY <1>4
  <2>2. <<k, m>> \in R
    BY <2>1 DEF R
  <2> QED
    BY <1>3, <2>2
<1> QED
  BY <1>4

Step(v, f, line) == Process(v, 0, Parse(f, line))

\* v is the run of a validator over the first n lines of q.
Runs(v, f, q, n) ==
    v = [l \in 0 .. n |-> IF l = 0 THEN NewValidator ELSE Step(v[l - 1], f, q[l])]

LEMMA RunExists ==
    ASSUME NEW f, NEW q, NEW n \in Nat
    PROVE  \E v : Runs(v, f, q, n)
<1> DEFINE S == {m \in Nat : ~\E v : Runs(v, f, q, m)}
<1> SUFFICES ASSUME S # {} PROVE FALSE
  OBVIOUS
<1>1. PICK m \in S : \A k \in S : m <= k
  BY Least
<1>2. m # 0
  <2> DEFINE v == [l \in 0 .. 0 |-> NewValidator]
  <2>1. Runs(v, f, q, 0)
    BY DEF Runs
  <2> QED
    BY <2>1
<1>3. m - 1 \in Nat /\ m - 1 \notin S
  BY <1>1, <1>2
<1>4. PICK v : Runs(v, f, q, m - 1)
  BY <1>3
<1> DEFINE w == [l \in 0 .. m |-> IF l = m THEN Step(v[m - 1], f, q[m]) ELSE v[l]]
<1>5. \A l \in 0 .. (m - 1) : w[l] = v[l]
  BY <1>2
<1>6. \A l \in 0 .. m : w[l] = IF l = 0 THEN NewValidator ELSE Step(w[l - 1], f, q[l])
  <2> TAKE l \in 0 .. m
  <2>1. CASE l = m
    <3>1. w[m] = Step(v[m - 1], f, q[m]) /\ m - 1 \in 0 .. (m - 1)
      BY <1>2, <1>3
    <3> HIDE DEF w
    <3> QED
      BY <1>2, <1>5, <2>1, <3>1
  <2>2. CASE l # m
    <3>1. l \in 0 .. (m - 1) /\ (l # 0 => l - 1 \in 0 .. (m - 1))
      BY <2>2
    <3>2. v[l] = IF l = 0 THEN NewValidator ELSE Step(v[l - 1], f, q[l])
      BY <1>4, <3>1 DEF Runs
    <3> HIDE DEF w
    <3> QED
      BY <1>5, <3>1, <3>2
  <2> QED
    BY <2>1, <2>2
<1>7. w = [l \in 0 .. m |-> w[l]]
  OBVIOUS
<1>8. Runs(w, f, q, m)
  <2> HIDE DEF w
  <2> QED
    BY <1>6, <1>7 DEF Runs
<1> QED
  BY <1>8

LEMMA ValidatedRuns ==
    ASSUME NEW f, NEW q \in Seq(Lines)
    PROVE  LET v == Validated(f, q) IN
           /\ v[0] = NewValidator
           /\ \A l \in 1 .. Len(q) : v[l] = Step(v[l - 1], f, q[l])
<1>1. Len(q) \in Nat
  OBVIOUS
<1>2. \E v : Runs(v, f, q, Len(q))
  BY <1>1, RunExists
<1>3. Runs(Validated(f, q), f, q, Len(q))
  BY <1>2 DEF Runs, Step, Validated
<1> DEFINE v == Validated(f, q)
<1> HIDE DEF v
<1>4. v = [l \in 0 .. Len(q) |-> IF l = 0 THEN NewValidator ELSE Step(v[l - 1], f, q[l])]
  BY <1>3 DEF Runs, v
<1>5. \A l \in 0 .. Len(q) : v[l] = IF l = 0 THEN NewValidator ELSE Step(v[l - 1], f, q[l])
  BY <1>4
<1>6. v[0] = NewValidator
  BY <1>1, <1>5
<1>7. \A l \in 1 .. Len(q) : v[l] = Step(v[l - 1], f, q[l])
  BY <1>1, <1>5
<1> QED
  BY <1>6, <1>7 DEF v

-----------------------------------------------------------------------------
(* Lines of the two kinds the generator is written for *)

\* A CSV trade by trade_time, a JSONL depth update by its update ids.
Numbered(f, line) ==
    IF f = "csv"
    THEN /\ line.type = "trade" /\ line.event_time = Absent
         /\ line.trade_id \in Int /\ line.trade_time \in Int
    ELSE /\ line.type = "depth" /\ line.sequence = Absent /\ line.prev_sequence = Absent
         /\ line.first_update_id \in Int /\ line.final_update_id \in Int
         /\ line.event_time \in Int

Lo(f, line) == IF f = "csv" THEN line.trade_id ELSE line.first_update_id
Hi(f, line) == IF f = "csv" THEN line.trade_id ELSE line.final_update_id
At(f, line) == IF f = "csv" THEN line.trade_time ELSE line.event_time

\* The shape validateEventShape asks for, and the ids of the sequence check.
Shaped(f, lo, hi, at) == at > 0 /\ hi >= lo /\ (f = "csv" => lo > 0)
Ids(tr, f) == IF f = "csv" THEN tr.trade ELSE tr.depth

Kept(s) == OptSymbol \in {AnySymbol, s}

LEMMA NumberedTypes ==
    ASSUME NEW f, NEW line \in Lines, Numbered(f, line)
    PROVE  Lo(f, line) \in Int /\ Hi(f, line) \in Int /\ At(f, line) \in Int
BY DEF Numbered, Lo, Hi, At

LEMMA ParseNumbered ==
    ASSUME NEW f, NEW line \in Lines, Numbered(f, line)
    PROVE  LET row == Parse(f, line) IN
           /\ row \in RawRows
           /\ row.symbol = line.symbol
           /\ row.type = IF f = "csv" THEN "trade" ELSE "depth"
           /\ validateEventShape(row) <=> Shaped(f, Lo(f, line), Hi(f, line), At(f, line))
           /\ At(f, line) > 0 => row.time = At(f, line)
           /\ f = "csv" => row.trade = Lo(f, line)
           /\ f # "csv" => row.first = Lo(f, line) /\ row.final = Hi(f, line)
<1>1. Absent \notin Int
  BY SourcesAssumption
<1>2. line.symbol \in Symbols /\ line.priced \in BOOLEAN
  BY DEF Lines, TextLines
<1>3. CASE f = "csv"
  <2>1. /\ line.type = "trade" /\ line.event_time = Absent
        /\ line.trade_id \in Int /\ line.trade_time \in Int
    BY <1>3 DEF Numbered
  <2>2. Parse(f, line) = Event(line, 0, line.trade_time, 0, 0)
    BY <1>1, <1>3, <2>1 DEF Parse, parseCSV, Or
  <2> DEFINE t == IF line.trade_time <= 0 THEN 0 ELSE line.trade_time
  <2>3. Parse(f, line) = [type |-> "trade", symbol |-> line.symbol, time |-> t,
                          first |-> 0, final |-> 0, trade |-> line.trade_id,
                          priced |-> line.priced]
    BY <2>1, <2>2 DEF Event, EventTimeMillis
  <2>4. t \in Int /\ (t > 0 <=> line.trade_time > 0) /\ (line.trade_time > 0 => t = line.trade_time)
    BY <2>1
  <2> HIDE DEF t
  <2>5. Parse(f, line) \in RawRows
    BY <1>2, <2>1, <2>3, <2>4 DEF RawRows
  <2>6. Lo(f, line) = line.trade_id /\ Hi(f, line) = line.trade_id /\ At(f, line) = line.trade_time
    BY <1>3 DEF Lo, Hi, At
  <2> QED
    BY <1>3, <2>1, <2>3, <2>4, <2>5, <2>6 DEF validateEventShape, Shaped
<1>4. CASE f # "csv"
  <2>1. /\ line.type = "depth" /\ line.sequence = Absent /\ line.prev_sequence = Absent
        /\ line.first_update_id \in Int /\ line.final_update_id \in Int
        /\ line.event_time \in Int
    BY <1>4 DEF Numbered
  <2> DEFINE o == Or(line.trade_time, 0)
  <2>2. Parse(f, line) = Event(line, line.event_time, o, line.first_update_id,
                               line.final_update_id)
    BY <1>1, <1>4, <2>1 DEF Parse, ParseJSONLine, Or, Successor
  <2> DEFINE t == IF line.event_time <= 0 THEN 0 ELSE line.event_time
  <2>3. Parse(f, line) = [type |-> "depth", symbol |-> line.symbol, time |-> t,
                          first |-> line.first_update_id, final |-> line.final_update_id,
                          trade |-> 0, priced |-> line.priced]
    BY <2>1, <2>2 DEF Event, EventTimeMillis
  <2>4. t \in Int /\ (t > 0 <=> line.event_time > 0) /\ (line.event_time > 0 => t = line.event_time)
    BY <2>1
  <2> HIDE DEF t
  <2>5. Parse(f, line) \in RawRows
    BY <1>2, <2>1, <2>3, <2>4 DEF RawRows
  <2>6. /\ Lo(f, line) = line.first_update_id /\ Hi(f, line) = line.final_update_id
        /\ At(f, line) = line.event_time
    BY <1>4 DEF Lo, Hi, At
  <2> QED
    BY <1>4, <2>1, <2>3, <2>4, <2>5, <2>6 DEF validateEventShape, Shaped
<1> QED
  BY <1>3, <1>4

-----------------------------------------------------------------------------
(* Verdicts on such lines *)

\* A line fits after the rows tracked so far.
Fits(tr, f, s, lo, hi, at) ==
    /\ Shaped(f, lo, hi, at)
    /\ tr.time[s].ok => at >= tr.time[s].last
    /\ Ids(tr, f)[s].ok => lo = Ids(tr, f)[s].last + 1 /\ hi > Ids(tr, f)[s].last

\* The last line tracked ended with this id, at this time.
Stands(tr, f, s, hi, at) ==
    tr \in Trackings /\ tr.time[s] = Present(at) /\ Ids(tr, f)[s] = Present(hi)

After(tr, row) == Track(tr, row, Checked)

LEMMA FitsIsClean ==
    ASSUME NEW f, NEW line \in Lines, Numbered(f, line), NEW tr \in Trackings,
           Kept(line.symbol)
    PROVE  RowFailures(tr, Parse(f, line)) = {} <=>
           Fits(tr, f, line.symbol, Lo(f, line), Hi(f, line), At(f, line))
<1> DEFINE row == Parse(f, line)
           s == line.symbol
           lo == Lo(f, line)
           hi == Hi(f, line)
           at == At(f, line)
<1>1. /\ row \in RawRows /\ row.symbol = s
      /\ row.type = IF f = "csv" THEN "trade" ELSE "depth"
      /\ validateEventShape(row) <=> Shaped(f, lo, hi, at)
      /\ at > 0 => row.time = at
      /\ f = "csv" => row.trade = lo
      /\ f # "csv" => row.first = lo /\ row.final = hi
  BY ParseNumbered
<1>2. lo \in Int /\ hi \in Int /\ at \in Int /\ (f = "csv" => hi = lo)
  BY NumberedTypes DEF Lo, Hi
<1>3. /\ s \in Symbols /\ tr.time[s] \in Entry /\ tr.depth[s] \in Entry /\ tr.trade[s] \in Entry
  BY DEF Lines, TextLines, Trackings
<1>4. /\ tr.time[s].last \in Int /\ tr.depth[s].last \in Int /\ tr.trade[s].last \in Int
  BY <1>3 DEF Entry
<1> HIDE DEF row, s, lo, hi, at
<1>5. CASE ~Shaped(f, lo, hi, at)
  BY <1>1, <1>5 DEF RowFailures, Fits, row, s, lo, hi, at
<1>6. CASE Shaped(f, lo, hi, at)
  <2>1. InScope(row) /\ validateEventShape(row) /\ row.time = at
    BY <1>1, <1>6 DEF InScope, Kept, Shaped, s
  <2>2. RowFailures(tr, row) = checkTime(tr, row) \cup
          (IF f = "csv" THEN checkTradeSequence(tr, row) ELSE checkDepthSequence(tr, row))
    BY <1>1, <2>1 DEF RowFailures
  <2>3. checkTime(tr, row) = {} <=> (tr.time[s].ok => at >= tr.time[s].last)
    BY <1>1, <1>2, <1>4, <2>1 DEF checkTime
  <2>4. CASE f = "csv"
    <3>1. checkTradeSequence(tr, row) = {} <=>
            (tr.trade[s].ok => lo = tr.trade[s].last + 1 /\ hi > tr.trade[s].last)
      BY <1>1, <1>2, <1>4, <2>4 DEF checkTradeSequence
    <3> QED
      BY <1>6, <2>2, <2>3, <2>4, <3>1 DEF Fits, Ids, row, s, lo, hi, at
  <2>5. CASE f # "csv"
    <3>1. checkDepthSequence(tr, row) = {} <=>
            (tr.depth[s].ok => lo = tr.depth[s].last + 1 /\ hi > tr.depth[s].last)
      BY <1>1, <1>2, <1>4, <2>5 DEF checkDepthSequence
    <3> QED
      BY <1>6, <2>2, <2>3, <2>5, <3>1 DEF Fits, Ids, row, s, lo, hi, at
  <2> QED
    BY <2>4, <2>5
<1> QED
  BY <1>5, <1>6

LEMMA CheckedLatest ==
    ASSUME NEW e \in Entry, NEW x \in Int, e.ok => x >= e.last
    PROVE  Checked(e, x) = Present(x)
<1>1. CASE ~e.ok \/ x > e.last
  BY <1>1 DEF Checked
<1>2. CASE e.ok /\ x <= e.last
  <2>1. e.ok = TRUE /\ e.last = x
    BY <1>2 DEF Entry
  <2>2. e = [ok |-> TRUE, last |-> x]
    BY <2>1 DEF Entry
  <2> QED
    BY <2>2 DEF Checked, Present
<1> QED
  BY <1>1, <1>2 DEF Entry

LEMMA FitsThenStands ==
    ASSUME NEW f, NEW line \in Lines, Numbered(f, line), NEW tr \in Trackings,
           Kept(line.symbol),
           Fits(tr, f, line.symbol, Lo(f, line), Hi(f, line), At(f, line))
    PROVE  Stands(After(tr, Parse(f, line)), f, line.symbol, Hi(f, line), At(f, line))
<1> DEFINE row == Parse(f, line)
           s == line.symbol
           lo == Lo(f, line)
           hi == Hi(f, line)
           at == At(f, line)
<1>1. /\ row.symbol = s /\ row.type = IF f = "csv" THEN "trade" ELSE "depth"
      /\ validateEventShape(row) /\ row.time = at
      /\ f = "csv" => row.trade = hi
      /\ f # "csv" => row.final = hi
  BY ParseNumbered DEF Fits, Shaped, Lo, Hi
<1>2. lo \in Int /\ hi \in Int /\ at \in Int
  BY NumberedTypes
<1>3. /\ s \in Symbols /\ tr.time \in [Symbols -> Entry] /\ tr.depth \in [Symbols -> Entry]
      /\ tr.trade \in [Symbols -> Entry]
  BY DEF Lines, TextLines, Trackings
<1>4. Fits(tr, f, s, lo, hi, at)
  OBVIOUS
<1> HIDE DEF row, s, lo, hi, at
<1>5. InScope(row)
  BY <1>1 DEF InScope, Kept, s
<1>6. Checked(tr.time[s], at) = Present(at)
  <2>1. tr.time[s] \in Entry /\ (tr.time[s].ok => at >= tr.time[s].last)
    BY <1>3, <1>4 DEF Fits
  <2> QED
    BY <1>2, <2>1, CheckedLatest
<1>7. Checked(Ids(tr, f)[s], hi) = Present(hi)
  BY <1>2, <1>3, <1>4 DEF Fits, Checked, Present, Entry, Ids
<1>8. Present(at) \in Entry /\ Present(hi) \in Entry
  BY <1>2 DEF Present, Entry
<1>9. CASE f = "csv"
  <2>1. After(tr, row) = [time  |-> [tr.time EXCEPT ![s] = Present(at)],
                          depth |-> tr.depth,
                          trade |-> [tr.trade EXCEPT ![s] = Present(hi)]]
    BY <1>1, <1>5, <1>6, <1>7, <1>9 DEF After, Track, Ids
  <2> QED
    BY <1>3, <1>8, <1>9, <2>1 DEF Stands, Ids, Trackings, row, s, hi, at
<1>10. CASE f # "csv"
  <2>1. After(tr, row) = [time  |-> [tr.time EXCEPT ![s] = Present(at)],
                          depth |-> [tr.depth EXCEPT ![s] = Present(hi)],
                          trade |-> tr.trade]
    BY <1>1, <1>5, <1>6, <1>7, <1>10 DEF After, Track, Ids
  <2> QED
    BY <1>3, <1>8, <1>10, <2>1 DEF Stands, Ids, Trackings, row, s, hi, at
<1> QED
  BY <1>9, <1>10

\* After a line that stands, the next one fits if it continues it.
LEMMA StandsThenFits ==
    ASSUME NEW f, NEW s, NEW tr, NEW hi \in Int, NEW at \in Int, Stands(tr, f, s, hi, at),
           NEW lo2 \in Int, NEW hi2 \in Int, NEW at2 \in Int
    PROVE  Fits(tr, f, s, lo2, hi2, at2) <=>
           Shaped(f, lo2, hi2, at2) /\ at2 >= at /\ lo2 = hi + 1
BY DEF Stands, Fits, Shaped, Present

-----------------------------------------------------------------------------
(* A clean file of such lines: every line continues the one before *)

Continues(f, a, b) == At(f, b) >= At(f, a) /\ Lo(f, b) = Hi(f, a) + 1

Chain(f, q) ==
    /\ \A l \in 1 .. Len(q) : Shaped(f, Lo(f, q[l]), Hi(f, q[l]), At(f, q[l]))
    /\ \A l \in 1 .. (Len(q) - 1) : Continues(f, q[l], q[l + 1])

LEMMA StepIsClean ==
    ASSUME NEW v, NEW f, NEW line, NEW n
    PROVE  LET new == Process(v, n, Parse(f, line)) IN
           /\ new.track = After(v.track, Parse(f, line))
           /\ new.failures = {} <=>
                 v.failures = {} /\ RowFailures(v.track, Parse(f, line)) = {}
<1> DEFINE S == RowFailures(v.track, Parse(f, line))
<1>1. /\ Process(v, n, Parse(f, line)).failures = v.failures \cup ({n} \X S)
      /\ Process(v, n, Parse(f, line)).track = After(v.track, Parse(f, line))
  BY DEF Process, After
<1> HIDE DEF S
<1>2. {n} \X S = {} <=> S = {}
  <2>1. ASSUME NEW x \in S PROVE <<n, x>> \in {n} \X S
    OBVIOUS
  <2>2. S = {} => {n} \X S = {}
    OBVIOUS
  <2> QED
    BY <2>1, <2>2
<1> QED
  BY <1>1, <1>2 DEF S

LEMMA CleanIsChain ==
    ASSUME NEW f, NEW q \in Seq(Lines), NEW s, Kept(s),
           \A l \in 1 .. Len(q) : Numbered(f, q[l]) /\ q[l].symbol = s,
           Validated(f, q)[Len(q)].failures = {}
    PROVE  Chain(f, q)
<1> DEFINE v == Validated(f, q)
           n == Len(q)
           lo(l) == Lo(f, q[l])
           hi(l) == Hi(f, q[l])
           at(l) == At(f, q[l])
<1>1. /\ v[0] = NewValidator
      /\ \A l \in 1 .. n : v[l] = Step(v[l - 1], f, q[l])
      /\ v[n].failures = {} /\ n \in Nat
  BY ValidatedRuns
<1>2. \A l \in 1 .. n : q[l] \in Lines /\ lo(l) \in Int /\ hi(l) \in Int /\ at(l) \in Int
  BY NumberedTypes
<1> HIDE DEF v
<1>3. \A l \in 1 .. n :
        /\ v[l].track = After(v[l - 1].track, Parse(f, q[l]))
        /\ v[l].failures = {} =>
              v[l - 1].failures = {} /\ RowFailures(v[l - 1].track, Parse(f, q[l])) = {}
  <2> TAKE l \in 1 .. n
  <2>1. v[l] = Process(v[l - 1], 0, Parse(f, q[l]))
    BY <1>1 DEF Step
  <2>2. /\ Process(v[l - 1], 0, Parse(f, q[l])).track = After(v[l - 1].track, Parse(f, q[l]))
        /\ Process(v[l - 1], 0, Parse(f, q[l])).failures = {} <=>
              v[l - 1].failures = {} /\ RowFailures(v[l - 1].track, Parse(f, q[l])) = {}
    BY StepIsClean, Zenon
  <2> QED
    BY <2>1, <2>2
<1>4. \A l \in 0 .. n : v[l].failures = {}
  <2> DEFINE S == {d \in 0 .. n : v[n - d].failures # {}}
  <2>1. S = {}
    <3> SUFFICES ASSUME S # {} PROVE FALSE
      OBVIOUS
    <3>0. S \in SUBSET Nat
      BY <1>1
    <3>1. PICK d \in S : \A k \in S : d <= k
      <4> HIDE DEF S
      <4> QED
        BY <3>0, Least
    <3>2. d # 0 /\ d \in 1 .. n
      BY <1>1, SMTT(30)
    <3>3. d - 1 \in 0 .. n /\ d - 1 \notin S /\ n - (d - 1) \in 1 .. n /\ n - (d - 1) - 1 = n - d
      BY <1>1, <3>1, <3>2
    <3>4. v[n - (d - 1)].failures = {}
      BY <3>3
    <3>5. v[n - d].failures = {}
      BY <1>3, <3>3, <3>4
    <3> QED
      BY <3>5
  <2>2. \A l \in 0 .. n : n - l \in 0 .. n /\ n - (n - l) = l
    BY <1>1
  <2> QED
    BY <2>1, <2>2
<1>5. ASSUME NEW l \in 1 .. n, v[l - 1].track \in Trackings
      PROVE  /\ Fits(v[l - 1].track, f, s, lo(l), hi(l), at(l))
             /\ Stands(v[l].track, f, s, hi(l), at(l))
  <2>1. l \in 0 .. n /\ q[l] \in Lines /\ Numbered(f, q[l]) /\ q[l].symbol = s
    BY <1>1, <1>2
  <2>2. RowFailures(v[l - 1].track, Parse(f, q[l])) = {}
    BY <1>3, <1>4, <2>1
  <2>3. Kept(q[l].symbol)
    BY <2>1
  <2>4. Fits(v[l - 1].track, f, q[l].symbol, Lo(f, q[l]), Hi(f, q[l]), At(f, q[l]))
    BY <1>5, <2>1, <2>2, <2>3, FitsIsClean, Zenon
  <2>5. Stands(After(v[l - 1].track, Parse(f, q[l])), f, q[l].symbol, Hi(f, q[l]), At(f, q[l]))
    BY <1>5, <2>1, <2>3, <2>4, FitsThenStands, Zenon
  <2> QED
    BY <1>3, <2>1, <2>4, <2>5
<1>6. \A l \in 0 .. n : v[l].track \in Trackings
  <2> DEFINE S == {l \in 0 .. n : v[l].track \notin Trackings}
  <2> SUFFICES ASSUME S # {} PROVE FALSE
    OBVIOUS
  <2>0. S \in SUBSET Nat
    BY <1>1
  <2>1. PICK l \in S : \A k \in S : l <= k
    <3> HIDE DEF S
    <3> QED
      BY <2>0, Least
  <2>2. v[0].track \in Trackings
    BY <1>1 DEF NewValidator, Trackings, Missing, Entry
  <2>3. l \in 1 .. n /\ l - 1 \in 0 .. n /\ l - 1 \notin S
    BY <1>1, <2>1, <2>2
  <2>4. Stands(v[l].track, f, s, hi(l), at(l))
    BY <1>5, <2>3
  <2> QED
    BY <2>4 DEF Stands
<1>7. \A l \in 1 .. n : /\ Fits(v[l - 1].track, f, s, lo(l), hi(l), at(l))
                        /\ Stands(v[l].track, f, s, hi(l), at(l))
  <2> TAKE l \in 1 .. n
  <2>1. l - 1 \in 0 .. n
    BY <1>1
  <2> QED
    BY <1>5, <1>6, <2>1
<1>8. \A l \in 1 .. n : Shaped(f, lo(l), hi(l), at(l))
  BY <1>7 DEF Fits
<1>9. \A l \in 1 .. (n - 1) : Continues(f, q[l], q[l + 1])
  <2> TAKE l \in 1 .. (n - 1)
  <2>1. l \in 1 .. n /\ l + 1 \in 1 .. n /\ (l + 1) - 1 = l
    BY <1>1
  <2>2. Stands(v[l].track, f, s, hi(l), at(l))
    BY <1>7, <2>1
  <2>3. Fits(v[l].track, f, s, lo(l + 1), hi(l + 1), at(l + 1))
    BY <1>7, <2>1
  <2>4. /\ hi(l) \in Int /\ at(l) \in Int
        /\ lo(l + 1) \in Int /\ hi(l + 1) \in Int /\ at(l + 1) \in Int
    BY <1>2, <2>1
  <2>5. at(l + 1) >= at(l) /\ lo(l + 1) = hi(l) + 1
    <3> HIDE DEF lo, hi, at
    <3> QED
      BY <2>2, <2>3, <2>4 DEF Stands, Fits, Present
  <2> QED
    BY <2>5 DEF Continues
<1> QED
  BY <1>8, <1>9 DEF Chain

\* The ids and the times of a chain only grow.
LEMMA ChainGrows ==
    ASSUME NEW f, NEW q \in Seq(Lines), \A l \in 1 .. Len(q) : Numbered(f, q[l]),
           Chain(f, q), q # <<>>
    PROVE  /\ Hi(f, q[Len(q)]) - Lo(f, q[1]) + 1 > 0
           /\ At(f, q[Len(q)]) - At(f, q[1]) + 1 > 0
<1> DEFINE n == Len(q)
           lo(l) == Lo(f, q[l])
           hi(l) == Hi(f, q[l])
           at(l) == At(f, q[l])
           S == {l \in 1 .. n : ~(lo(1) <= hi(l) /\ at(1) <= at(l))}
<1>1. \A l \in 1 .. n : q[l] \in Lines /\ lo(l) \in Int /\ hi(l) \in Int /\ at(l) \in Int
  BY NumberedTypes
<1>2. n \in Nat /\ n \in 1 .. n /\ 1 \in 1 .. n
  OBVIOUS
<1>3. \A l \in 1 .. n : hi(l) >= lo(l)
  BY DEF Chain, Shaped
<1>4. \A l \in 1 .. (n - 1) : at(l + 1) >= at(l) /\ lo(l + 1) = hi(l) + 1
  BY DEF Chain, Continues
<1>5. S = {}
  <2> SUFFICES ASSUME S # {} PROVE FALSE
    OBVIOUS
  <2>0. S \in SUBSET Nat
    BY <1>2
  <2>1. PICK l \in S : \A k \in S : l <= k
    <3> HIDE DEF S
    <3> QED
      BY <2>0, Least
  <2>2. l # 1
    BY <1>1, <1>2, <1>3
  <2>3. l - 1 \in 1 .. n /\ l - 1 \notin S /\ l - 1 \in 1 .. (n - 1) /\ (l - 1) + 1 = l
    BY <1>2, <2>1, <2>2
  <2> DEFINE k == l - 1
  <2>4. lo(1) <= hi(k) /\ at(1) <= at(k)
    BY <2>3
  <2>5. at(l) >= at(k) /\ lo(l) = hi(k) + 1
    BY <1>4, <2>3
  <2>6. hi(l) >= lo(l) /\ lo(l) \in Int /\ hi(l) \in Int /\ at(l) \in Int
    BY <1>1, <1>3
  <2>7. hi(k) \in Int /\ at(k) \in Int /\ lo(1) \in Int /\ at(1) \in Int
    BY <1>1, <1>2, <2>3
  <2>8. lo(1) <= hi(l) /\ at(1) <= at(l)
    <3> HIDE DEF lo, hi, at, k
    <3> QED
      BY <2>4, <2>5, <2>6, <2>7
  <2> QED
    BY <2>8
<1>6. lo(1) <= hi(n) /\ at(1) <= at(n)
  BY <1>2, <1>5
<1>7. lo(1) \in Int /\ hi(n) \in Int /\ at(1) \in Int /\ at(n) \in Int
  BY <1>1, <1>2
<1> HIDE DEF lo, hi, at
<1>8. hi(n) - lo(1) + 1 > 0 /\ at(n) - at(1) + 1 > 0
  BY <1>6, <1>7
<1> QED
  BY <1>8 DEF lo, hi, at

-----------------------------------------------------------------------------
(* The expanded file is such a chain too *)

IdSpan == Hi(source.format, Final) - Lo(source.format, Base) + 1
TimeSpan == At(source.format, Final) - At(source.format, Base) + 1

LEMMA SourceChain ==
    ASSUME source \in Sources, CleanSource, Expandable
    PROVE  /\ source.rows \in Seq(Lines) /\ source.rows # <<>>
           /\ \A l \in 1 .. Len(source.rows) : /\ Numbered(source.format, source.rows[l])
                                               /\ source.rows[l].symbol = Base.symbol
           /\ Kept(Base.symbol)
           /\ Chain(source.format, source.rows)
           /\ source.format = "csv" => csvEnabled
           /\ source.format # "csv" => jsonlEnabled
<1> DEFINE f == source.format
           q == source.rows
<1>1. q \in Seq(Lines) /\ q # <<>>
  BY SourcesAssumption DEF Lines
<1>2. DOMAIN q = 1 .. Len(q) /\ 1 \in 1 .. Len(q) /\ \A l \in 1 .. Len(q) : q[l] \in Lines
  BY <1>1
<1>3. Kept(Base.symbol) /\ \A l \in 1 .. Len(q) : q[l].symbol = Base.symbol
  BY <1>2 DEF Expandable, Kept, Base
<1>4. (f = "csv" => csvEnabled) /\ (f # "csv" => jsonlEnabled)
  BY DEF Expandable
<1>5. \A l \in 1 .. Len(q) : Numbered(f, q[l])
  <2> TAKE l \in 1 .. Len(q)
  <2>1. CASE f = "csv"
    <3>1. /\ q[l].trade_id # Absent /\ q[l].trade_time # Absent
          /\ q[l].type = "trade" /\ q[l].event_time = Absent
      BY <1>2, <2>1 DEF Expandable, csvEnabled
    <3>2. q[l].trade_id \in Int /\ q[l].trade_time \in Int
      BY <1>2, <3>1 DEF Lines, TextLines
    <3> QED
      BY <2>1, <3>1, <3>2 DEF Numbered
  <2>2. CASE f # "csv"
    <3>1. /\ q[l].first_update_id # Absent /\ q[l].final_update_id # Absent
          /\ q[l].event_time # Absent /\ q[l].type = "depth"
          /\ q[l].sequence = Absent /\ q[l].prev_sequence = Absent
      BY <1>2, <2>2 DEF Expandable, jsonlEnabled
    <3>2. /\ q[l].first_update_id \in Int /\ q[l].final_update_id \in Int
          /\ q[l].event_time \in Int
      BY <1>2, <3>1 DEF Lines, TextLines
    <3> QED
      BY <2>2, <3>1, <3>2 DEF Numbered
  <2> QED
    BY <2>1, <2>2
<1>6. Validated(f, q)[Len(q)].failures = {}
  BY DEF CleanSource
<1>7. Chain(f, q)
  <2> HIDE DEF f, q
  <2> QED
    BY <1>1, <1>3, <1>5, <1>6, CleanIsChain, Zenon
<1> QED
  BY <1>1, <1>3, <1>4, <1>5, <1>7

\* The normalizers move the ids and the time of a line by whole spans.
LEMMA Advanced ==
    ASSUME source \in Sources, CleanSource, Expandable,
           NEW l \in 1 .. Len(source.rows), NEW c \in Nat
    PROVE  LET f == source.format
               line == source.rows[l]
               out == normalize(line, c)
           IN  /\ out \in Lines /\ Numbered(f, out) /\ out.symbol = Base.symbol
               /\ Lo(f, out) = Lo(f, line) + c * IdSpan
               /\ Hi(f, out) = Hi(f, line) + c * IdSpan
               /\ At(f, out) = At(f, line) + c * TimeSpan
<1> DEFINE f == source.format
           q == source.rows
           line == q[l]
           i == c * IdSpan
           t == c * TimeSpan
<1>1. /\ q \in Seq(Lines) /\ q # <<>> /\ Chain(f, q)
      /\ \A k \in 1 .. Len(q) : Numbered(f, q[k]) /\ q[k].symbol = Base.symbol
      /\ f = "csv" => csvEnabled
      /\ f # "csv" => jsonlEnabled
  BY SourceChain
<1>2. 1 \in 1 .. Len(q) /\ Len(q) \in 1 .. Len(q) /\ \A k \in 1 .. Len(q) : q[k] \in Lines
  BY <1>1
<1>3. /\ line \in Lines /\ Numbered(f, line) /\ line.symbol = Base.symbol
      /\ Base \in Lines /\ Numbered(f, Base) /\ Final \in Lines /\ Numbered(f, Final)
  BY <1>1, <1>2 DEF Base, Final
<1>4. /\ Lo(f, Base) \in Int /\ Hi(f, Final) \in Int /\ At(f, Base) \in Int /\ At(f, Final) \in Int
      /\ Lo(f, line) \in Int /\ Hi(f, line) \in Int /\ At(f, line) \in Int
  BY <1>3, NumberedTypes
<1>5. IdSpan \in Int /\ TimeSpan \in Int
  BY <1>4 DEF IdSpan, TimeSpan
<1>6. i \in Int /\ t \in Int
  BY <1>5
<1>7. IdSpan > 0 /\ TimeSpan > 0
  <2>1. Base = q[1] /\ Final = q[Len(q)]
    BY DEF Base, Final
  <2>2. /\ Hi(f, q[Len(q)]) - Lo(f, q[1]) + 1 > 0
        /\ At(f, q[Len(q)]) - At(f, q[1]) + 1 > 0
    <3> HIDE DEF f, q
    <3> QED
      BY <1>1, ChainGrows
  <2> QED
    BY <2>1, <2>2 DEF IdSpan, TimeSpan
<1>8. CASE f = "csv"
  <2>1. normalize(line, c) = csvNormalize(line, c) /\ csvEnabled
    BY <1>1, <1>8 DEF normalize
  <2>2. IdSpan = Final.trade_id - Base.trade_id + 1 /\ TimeSpan = Final.trade_time - Base.trade_time + 1
    BY <1>8 DEF IdSpan, TimeSpan, Lo, Hi, At
  <2>3. normalize(line, c) = [line EXCEPT !.trade_id = @ + i, !.trade_time = @ + t]
    BY <2>1, <2>2 DEF csvNormalize
  <2> DEFINE x == line.trade_id + i
             y == line.trade_time + t
  <2>4. x \in Int /\ y \in Int
    BY <1>3, <1>6, <1>8 DEF Numbered
  <2>5. normalize(line, c) = [line EXCEPT !.trade_id = x, !.trade_time = y]
    BY <1>3, <2>3 DEF Lines, TextLines
  <2>6. Lo(f, line) = line.trade_id /\ Hi(f, line) = line.trade_id /\ At(f, line) = line.trade_time
    BY <1>8 DEF Lo, Hi, At
  <2>7. x = Lo(f, line) + i /\ x = Hi(f, line) + i /\ y = At(f, line) + t
    BY <2>6
  <2> HIDE DEF x, y, f, q, line, i, t
  <2>8. normalize(line, c) \in Lines
    BY <1>3, <2>4, <2>5 DEF Lines, TextLines
  <2>9. Numbered(f, normalize(line, c)) /\ normalize(line, c).symbol = Base.symbol
    BY <1>3, <1>8, <2>4, <2>5 DEF Numbered, Lines, TextLines
  <2>10. /\ Lo(f, normalize(line, c)) = x /\ Hi(f, normalize(line, c)) = x
         /\ At(f, normalize(line, c)) = y
    BY <1>3, <1>8, <2>5 DEF Lo, Hi, At, Lines, TextLines
  <2> QED
    BY <2>7, <2>8, <2>9, <2>10 DEF f, q, line, i, t
<1>9. CASE f # "csv"
  <2>1. normalize(line, c) = jsonlNormalize(line, c) /\ jsonlEnabled
    BY <1>1, <1>9 DEF normalize
  <2>2. /\ IdSpan = Final.final_update_id - Base.first_update_id + 1
        /\ TimeSpan = Final.event_time - Base.event_time + 1
    BY <1>9 DEF IdSpan, TimeSpan, Lo, Hi, At
  <2>3. normalize(line, c) = [line EXCEPT !.first_update_id = @ + i, !.final_update_id = @ + i,
                                          !.event_time = @ + t]
    BY <1>5, <1>7, <2>1, <2>2 DEF jsonlNormalize
  <2> DEFINE x == line.first_update_id + i
             z == line.final_update_id + i
             y == line.event_time + t
  <2>4. x \in Int /\ y \in Int /\ z \in Int
    BY <1>3, <1>6, <1>9, SMTT(30) DEF Numbered
  <2>5. normalize(line, c) = [line EXCEPT !.first_update_id = x, !.final_update_id = z,
                                          !.event_time = y]
    BY <1>3, <2>3 DEF Lines, TextLines
  <2>6. /\ Lo(f, line) = line.first_update_id /\ Hi(f, line) = line.final_update_id
        /\ At(f, line) = line.event_time
    BY <1>9 DEF Lo, Hi, At
  <2>7. x = Lo(f, line) + i /\ z = Hi(f, line) + i /\ y = At(f, line) + t
    BY <2>6
  <2> HIDE DEF x, y, z, f, q, line, i, t
  <2>8. normalize(line, c) \in Lines
    BY <1>3, <2>4, <2>5 DEF Lines, TextLines
  <2>9. Numbered(f, normalize(line, c)) /\ normalize(line, c).symbol = Base.symbol
    BY <1>3, <1>9, <2>4, <2>5 DEF Numbered, Lines, TextLines
  <2>10. /\ Lo(f, normalize(line, c)) = x /\ Hi(f, normalize(line, c)) = z
         /\ At(f, normalize(line, c)) = y
    BY <1>3, <1>9, <2>5 DEF Lo, Hi, At, Lines, TextLines
  <2> QED
    BY <2>7, <2>8, <2>9, <2>10 DEF f, q, line, i, t
<1> QED
  BY <1>8, <1>9

LEMMA WrapUnique ==
    ASSUME NEW n \in Nat, NEW c \in Nat, c > 0, NEW d \in Nat, NEW r \in 0 .. (c - 1),
           n = c * d + r
    PROVE  n \div c = d /\ n % c = r
<1> DEFINE D == n \div c
           R == n % c
<1>1. D \in Int /\ R \in 0 .. (c - 1) /\ n = c * D + R
  OBVIOUS
<1> HIDE DEF D, R
<1>2. ASSUME D >= d + 1 PROVE FALSE
  <2>1. c * (D - d) >= c * 1
    BY <1>1, <1>2
  <2> QED
    BY <1>1, <2>1
<1>3. ASSUME d >= D + 1 PROVE FALSE
  <2>1. c * (d - D) >= c * 1
    BY <1>1, <1>3
  <2> QED
    BY <1>1, <2>1
<1>4. D = d
  BY <1>1, <1>2, <1>3
<1> QED
  BY <1>1, <1>4 DEF D, R

\* The row after row n of a source of c rows.
LEMMA WrapNext ==
    ASSUME NEW n \in Nat, NEW c \in Nat, c > 0
    PROVE  /\ (n % c) + 1 < c => (n + 1) % c = (n % c) + 1 /\ (n + 1) \div c = n \div c
           /\ (n % c) + 1 = c => (n + 1) % c = 0 /\ (n + 1) \div c = (n \div c) + 1
<1> DEFINE d == n \div c
           r == n % c
<1>1. d \in Nat /\ r \in 0 .. (c - 1) /\ n = c * d + r
  BY Wrap
<1> HIDE DEF d, r
<1>2. ASSUME r + 1 < c PROVE (n + 1) % c = r + 1 /\ (n + 1) \div c = d
  <2>1. n + 1 = c * d + (r + 1) /\ r + 1 \in 0 .. (c - 1) /\ n + 1 \in Nat
    BY <1>1, <1>2
  <2> QED
    BY <1>1, <2>1, WrapUnique
<1>3. ASSUME r + 1 = c PROVE (n + 1) % c = 0 /\ (n + 1) \div c = d + 1
  <2>1. n + 1 = c * (d + 1) + 0 /\ 0 \in 0 .. (c - 1) /\ n + 1 \in Nat /\ d + 1 \in Nat
    BY <1>1, <1>3
  <2> QED
    BY <2>1, WrapUnique
<1> QED
  BY <1>2, <1>3 DEF d, r

\* Row i of the expansion, counted from zero as in GenerateFile.
Expanded(i) ==
    normalize(source.rows[(i % Len(source.rows)) + 1], i \div Len(source.rows))

LEMMA ExpandedChain ==
    ASSUME source \in Sources, CleanSource, Expandable, NEW i \in Nat
    PROVE  LET f == source.format
               out == Expanded(i)
           IN  /\ out \in Lines /\ Numbered(f, out) /\ out.symbol = Base.symbol
               /\ Shaped(f, Lo(f, out), Hi(f, out), At(f, out))
               /\ Continues(f, out, Expanded(i + 1))
<1> DEFINE f == source.format
           q == source.rows
           n == Len(q)
           l == (i % n) + 1
           c == i \div n
           m == ((i + 1) % n) + 1
           d == (i + 1) \div n
<1>1. /\ q \in Seq(Lines) /\ q # <<>> /\ Chain(f, q)
      /\ \A k \in 1 .. Len(q) : Numbered(f, q[k])
  BY SourceChain
<1>2. n \in Nat /\ n > 0
  BY <1>1
<1>3. l \in 1 .. n /\ c \in Nat /\ m \in 1 .. n /\ d \in Nat
  <2>1. i + 1 \in Nat
    OBVIOUS
  <2> HIDE DEF n
  <2>2. l \in 1 .. n /\ c \in Nat
    BY <1>2, Wrap
  <2>3. m \in 1 .. n /\ d \in Nat
    BY <1>2, <2>1, Wrap
  <2> QED
    BY <2>2, <2>3
<1>4. /\ Expanded(i) = normalize(q[l], c)
      /\ Expanded(i + 1) = normalize(q[m], d)
  BY DEF Expanded
<1>5. /\ l < n => m = l + 1 /\ d = c
      /\ l = n => m = 1 /\ d = c + 1
  <2> HIDE DEF n
  <2>1. /\ (i % n) + 1 < n => (i + 1) % n = (i % n) + 1 /\ (i + 1) \div n = i \div n
        /\ (i % n) + 1 = n => (i + 1) % n = 0 /\ (i + 1) \div n = (i \div n) + 1
    BY <1>2, WrapNext
  <2> QED
    BY <2>1
<1> HIDE DEF l, c, m, d
<1>6. /\ Expanded(i) \in Lines /\ Numbered(f, Expanded(i)) /\ Expanded(i).symbol = Base.symbol
      /\ Lo(f, Expanded(i)) = Lo(f, q[l]) + c * IdSpan
      /\ Hi(f, Expanded(i)) = Hi(f, q[l]) + c * IdSpan
      /\ At(f, Expanded(i)) = At(f, q[l]) + c * TimeSpan
  BY <1>3, <1>4, Advanced
<1>7. /\ Lo(f, Expanded(i + 1)) = Lo(f, q[m]) + d * IdSpan
      /\ At(f, Expanded(i + 1)) = At(f, q[m]) + d * TimeSpan
  BY <1>3, <1>4, Advanced
<1>8. \A k \in 1 .. n : /\ Lo(f, q[k]) \in Int /\ Hi(f, q[k]) \in Int /\ At(f, q[k]) \in Int
                        /\ Shaped(f, Lo(f, q[k]), Hi(f, q[k]), At(f, q[k]))
  <2> TAKE k \in 1 .. n
  <2>1. q[k] \in Lines /\ Numbered(f, q[k])
    BY <1>1
  <2> HIDE DEF f, q
  <2> QED
    BY <1>1, <2>1, NumberedTypes DEF Chain
<1>9. 1 \in 1 .. n /\ n \in 1 .. n
  BY <1>2
<1>10. /\ IdSpan = Hi(f, q[n]) - Lo(f, q[1]) + 1 /\ TimeSpan = At(f, q[n]) - At(f, q[1]) + 1
       /\ IdSpan > 0 /\ TimeSpan > 0
  <2>1. /\ Hi(f, q[Len(q)]) - Lo(f, q[1]) + 1 > 0
        /\ At(f, q[Len(q)]) - At(f, q[1]) + 1 > 0
    <3> HIDE DEF f, q
    <3> QED
      BY <1>1, ChainGrows
  <2> QED
    BY <2>1 DEF IdSpan, TimeSpan, Base, Final
<1>11. IdSpan \in Int /\ TimeSpan \in Int
  BY <1>8, <1>9, <1>10
<1> DEFINE a == c * IdSpan
           b == c * TimeSpan
<1>12. /\ a \in Int /\ b \in Int /\ a >= 0 /\ b >= 0
  BY <1>3, <1>10, <1>11
<1>13. (c + 1) * IdSpan = a + IdSpan /\ (c + 1) * TimeSpan = b + TimeSpan
  BY <1>3, <1>11
<1>14. Shaped(f, Lo(f, Expanded(i)), Hi(f, Expanded(i)), At(f, Expanded(i)))
  <2>1. /\ Lo(f, q[l]) \in Int /\ Hi(f, q[l]) \in Int /\ At(f, q[l]) \in Int
        /\ Shaped(f, Lo(f, q[l]), Hi(f, q[l]), At(f, q[l]))
    BY <1>3, <1>8
  <2>2. /\ Lo(f, Expanded(i)) = Lo(f, q[l]) + a
        /\ Hi(f, Expanded(i)) = Hi(f, q[l]) + a
        /\ At(f, Expanded(i)) = At(f, q[l]) + b
    BY <1>6
  <2> HIDE DEF a, b
  <2> QED
    BY <1>12, <2>1, <2>2 DEF Shaped
<1>15. Continues(f, Expanded(i), Expanded(i + 1))
  <2>1. /\ Hi(f, Expanded(i)) = Hi(f, q[l]) + a
        /\ At(f, Expanded(i)) = At(f, q[l]) + b
    BY <1>6
  <2>2. CASE l < n
    <3>1. l \in 1 .. (n - 1) /\ m = l + 1 /\ d = c
      BY <1>2, <1>3, <1>5, <2>2
    <3>2. At(f, q[m]) >= At(f, q[l]) /\ Lo(f, q[m]) = Hi(f, q[l]) + 1
      BY <1>1, <3>1 DEF Chain, Continues
    <3>3. Lo(f, Expanded(i + 1)) = Lo(f, q[m]) + a /\ At(f, Expanded(i + 1)) = At(f, q[m]) + b
      BY <1>7, <3>1
    <3>4. /\ Hi(f, q[l]) \in Int /\ At(f, q[l]) \in Int /\ At(f, q[m]) \in Int
      BY <1>3, <1>8
    <3> HIDE DEF a, b
    <3> QED
      BY <1>12, <2>1, <3>2, <3>3, <3>4 DEF Continues
  <2>3. CASE l = n
    <3>1. m = 1 /\ d = c + 1
      BY <1>5, <2>3
    <3>2. /\ Lo(f, Expanded(i + 1)) = Lo(f, q[1]) + (a + IdSpan)
          /\ At(f, Expanded(i + 1)) = At(f, q[1]) + (b + TimeSpan)
      BY <1>7, <1>13, <3>1
    <3>3. /\ Lo(f, q[1]) \in Int /\ At(f, q[1]) \in Int
          /\ Hi(f, q[n]) \in Int /\ At(f, q[n]) \in Int
      BY <1>8, <1>9
    <3>4. /\ Hi(f, Expanded(i)) = Hi(f, q[n]) + a /\ At(f, Expanded(i)) = At(f, q[n]) + b
      BY <2>1, <2>3
    <3> HIDE DEF a, b, f, q, n
    <3>5. Lo(f, Expanded(i + 1)) = Hi(f, Expanded(i)) + 1
      BY <1>10, <1>12, <3>2, <3>3, <3>4
    <3>6. At(f, Expanded(i + 1)) >= At(f, Expanded(i))
      BY <1>10, <1>12, <3>2, <3>3, <3>4
    <3> QED
      BY <3>5, <3>6 DEF Continues
  <2> QED
    BY <1>2, <1>3, <2>2, <2>3
<1> QED
  BY <1>6, <1>14, <1>15

-----------------------------------------------------------------------------
(* The replay of an expanded file *)

(***************************************************************************)
(* The lines written so far are those of the expansion, and the validator  *)
(* stands at the line it read last.                                        *)
(***************************************************************************)
ExpandInv ==
    /\ source \in Sources
    /\ output \in Seq(Lines)
    /\ pos \in 0 .. Len(output)
    /\ \A k \in 1 .. Len(output) : output[k] = Expanded(k - 1)
    /\ CleanSource /\ Expandable =>
          /\ state.failures = {}
          /\ pos = 0 => state = NewValidator
          /\ pos > 0 => Stands(state.track, source.format, Base.symbol,
                               Hi(source.format, output[pos]), At(source.format, output[pos]))

LEMMA SourceOnly ==
    ASSUME source' = source
    PROVE  /\ CleanSource' = CleanSource /\ Expandable' = Expandable /\ Base' = Base
           /\ \A k \in Nat : Expanded(k)' = Expanded(k)
BY DEF CleanSource, Expandable, csvEnabled, jsonlEnabled, Base, Expanded, normalize,
       csvNormalize, jsonlNormalize, Final

LEMMA NothingTracked ==
    /\ NewValidator.track \in Trackings
    /\ \A s \in Symbols : /\ ~NewValidator.track.time[s].ok /\ ~NewValidator.track.depth[s].ok
                          /\ ~NewValidator.track.trade[s].ok
BY DEF NewValidator, Trackings, Missing, Entry

LEMMA ExpandInit == Init => ExpandInv
<1> HAVE Init
<1>1. output = <<>> /\ output \in Seq(Lines) /\ pos \in 0 .. Len(output) /\ Len(output) = 0
  BY DEF Init
<1>2. state.failures = {}
  BY DEF Init, NewValidator
<1> QED
  BY <1>1, <1>2 DEF Init, ExpandInv

LEMMA ExpandWrite == PaceInv /\ ExpandInv /\ WriteRow => ExpandInv'
<1> SUFFICES ASSUME PaceInv, ExpandInv, WriteRow PROVE ExpandInv'
  OBVIOUS
<1> DEFINE n == Len(output)
<1>1. /\ source' = source /\ pos' = pos /\ state' = state /\ pos = 0
      /\ output \in Seq(Lines) /\ n \in Nat
      /\ output' = Append(output, Expanded(n))
  BY DEF WriteRow, Expanded, PaceInv, ExpandInv
<1>2. /\ CleanSource' = CleanSource /\ Expandable' = Expandable
      /\ \A k \in Nat : Expanded(k)' = Expanded(k)
  BY <1>1, SourceOnly
<1>3. output' \in Seq(Lines)
  BY WriteRowPace DEF PaceInv
<1>4. Len(output') = n + 1 /\ \A k \in 1 .. (n + 1) : output'[k] = Expanded(k - 1)
  <2> DEFINE x == Expanded(n)
  <2>1. /\ Len(output') = n + 1 /\ output'[n + 1] = x
        /\ \A k \in 1 .. n : output'[k] = output[k]
    <3> HIDE DEF x
    <3>1. output' = Append(output, x)
      BY <1>1 DEF x
    <3> QED
      BY <1>1, <3>1
  <2>2. \A k \in 1 .. n : output[k] = Expanded(k - 1)
    BY DEF ExpandInv
  <2>3. \A k \in 1 .. (n + 1) : k \in 1 .. n \/ (k = n + 1 /\ k - 1 = n)
    BY <1>1
  <2> QED
    BY <2>1, <2>2, <2>3
<1>5. \A k \in 1 .. Len(output') : output'[k] = Expanded(k - 1)'
  <2>1. \A k \in 1 .. Len(output') : k - 1 \in Nat
    BY <1>1, <1>4
  <2> QED
    BY <1>2, <1>4, <2>1
<1>6. pos' \in 0 .. Len(output')
  BY <1>1, <1>4
<1> QED
  BY <1>1, <1>2, <1>3, <1>5, <1>6 DEF ExpandInv

LEMMA ExpandReplay == PaceInv /\ ExpandInv /\ ReplayRow => ExpandInv'
<1> SUFFICES ASSUME PaceInv, ExpandInv, ReplayRow PROVE ExpandInv'
  OBVIOUS
<1>1. /\ source' = source /\ output' = output /\ pos' = pos + 1
      /\ pos \in Nat /\ pos < Len(output) /\ Len(output) \in Nat
      /\ output \in Seq(Lines) /\ source \in Sources
      /\ state' = Process(state, Number(pos + 1), Parse(source.format, output[pos + 1]))
  BY DEF ReplayRow, PaceInv, ExpandInv
<1>2. /\ CleanSource' = CleanSource /\ Expandable' = Expandable
      /\ \A k \in Nat : Expanded(k)' = Expanded(k)
  BY <1>1, SourceOnly
<1>3. \A k \in 1 .. Len(output') : output'[k] = Expanded(k - 1)'
  <2>1. \A k \in 1 .. Len(output) : k - 1 \in Nat /\ output[k] = Expanded(k - 1)
    BY <1>1 DEF ExpandInv
  <2> QED
    BY <1>1, <1>2, <2>1
<1>4. pos' \in 0 .. Len(output') /\ pos' > 0 /\ ~(pos' = 0)
  BY <1>1
<1>5. ASSUME CleanSource, Expandable
      PROVE  /\ state'.failures = {}
             /\ Stands(state'.track, source.format, Base.symbol,
                       Hi(source.format, output[pos + 1]), At(source.format, output[pos + 1]))
  <2> DEFINE f == source.format
             line == output[pos + 1]
             s == Base.symbol
  <2>1. /\ line = Expanded(pos)
        /\ pos > 0 => pos - 1 \in Nat /\ output[pos] = Expanded(pos - 1) /\ (pos - 1) + 1 = pos
    BY <1>1 DEF ExpandInv
  <2>2. /\ line \in Lines /\ Numbered(f, line) /\ line.symbol = s
        /\ Shaped(f, Lo(f, line), Hi(f, line), At(f, line))
    BY <1>1, <1>5, <2>1, ExpandedChain
  <2>3. pos > 0 => /\ output[pos] \in Lines /\ Numbered(f, output[pos])
                   /\ Continues(f, output[pos], line)
    <3> SUFFICES ASSUME pos > 0
                 PROVE  /\ output[pos] \in Lines /\ Numbered(f, output[pos])
                        /\ Continues(f, output[pos], line)
      OBVIOUS
    <3>1. /\ Expanded(pos - 1) \in Lines /\ Numbered(f, Expanded(pos - 1))
          /\ Continues(f, Expanded(pos - 1), Expanded((pos - 1) + 1))
      BY <1>1, <1>5, <2>1, ExpandedChain
    <3> QED
      BY <2>1, <3>1
  <2>4. Kept(s)
    BY <1>1, <1>5, SourceChain
  <2>5. Lo(f, line) \in Int /\ Hi(f, line) \in Int /\ At(f, line) \in Int
    BY <2>2, NumberedTypes
  <2>6. /\ state.failures = {}
        /\ pos = 0 => state = NewValidator
        /\ pos > 0 => Stands(state.track, f, s, Hi(f, output[pos]), At(f, output[pos]))
    BY <1>5 DEF ExpandInv
  <2>7. state' = Process(state, Number(pos + 1), Parse(f, line))
    BY <1>1
  <2> HIDE DEF f, line, s
  <2>8. state.track \in Trackings /\ Fits(state.track, f, s, Lo(f, line), Hi(f, line), At(f, line))
    <3>1. CASE pos = 0
      <4>1. s \in Symbols
        BY <2>2 DEF Lines, TextLines
      <4>2. /\ state.track \in Trackings /\ ~state.track.time[s].ok
            /\ ~state.track.depth[s].ok /\ ~state.track.trade[s].ok
        BY <2>6, <3>1, <4>1, NothingTracked
      <4> QED
        BY <2>2, <4>2 DEF Fits, Ids
    <3>2. CASE pos > 0
      <4>1. Stands(state.track, f, s, Hi(f, output[pos]), At(f, output[pos]))
        BY <2>6, <3>2
      <4>2. Hi(f, output[pos]) \in Int /\ At(f, output[pos]) \in Int
        BY <2>3, <3>2, NumberedTypes
      <4>3. At(f, line) >= At(f, output[pos]) /\ Lo(f, line) = Hi(f, output[pos]) + 1
        BY <2>3, <3>2 DEF Continues
      <4> QED
        BY <2>2, <2>5, <4>1, <4>2, <4>3 DEF Stands, Fits, Shaped, Present
    <3> QED
      BY <1>1, <3>1, <3>2
  <2>9. RowFailures(state.track, Parse(f, line)) = {}
    BY <2>2, <2>4, <2>8, FitsIsClean
  <2>10. Stands(After(state.track, Parse(f, line)), f, s, Hi(f, line), At(f, line))
    BY <2>2, <2>4, <2>8, FitsThenStands
  <2>11. state'.failures = {} /\ state'.track = After(state.track, Parse(f, line))
    BY <2>6, <2>7, <2>9, StepIsClean
  <2> QED
    BY <2>10, <2>11 DEF f, line, s
<1>6. Base' = Base
  BY <1>1, SourceOnly
<1>7. CleanSource' /\ Expandable' =>
        /\ state'.failures = {}
        /\ Stands(state'.track, source'.format, Base'.symbol,
                  Hi(source'.format, output'[pos']), At(source'.format, output'[pos']))
  BY <1>1, <1>2, <1>5, <1>6
<1> QED
  BY <1>1, <1>3, <1>4, <1>7 DEF ExpandInv

\* A clean source of the kind GenerateFile is written for stays clean when
\* it is expanded, however often it is repeated and wherever it is cut off.
THEOREM ExpansionIsClean == Spec => []ExpandedStaysClean
<1>1. PaceInv /\ ExpandInv /\ [Next]_vars => PaceInv' /\ ExpandInv'
  <2> SUFFICES ASSUME PaceInv, ExpandInv, [Next]_vars PROVE PaceInv' /\ ExpandInv'
    OBVIOUS
  <2>1. CASE UNCHANGED vars
    <3>1. PaceInv'
      BY <2>1 DEF vars, PaceInv, Weight
    <3>2. ExpandInv'
      <4>1. /\ source' = source /\ output' = output /\ pos' = pos /\ state' = state
        BY <2>1 DEF vars
      <4>2. \A k \in 1 .. Len(output) : k - 1 \in Nat
        BY DEF ExpandInv
      <4> QED
        BY <4>1, <4>2, SourceOnly DEF ExpandInv
    <3> QED
      BY <3>1, <3>2
  <2>2. CASE WriteRow
    BY <2>2, WriteRowPace, ExpandWrite
  <2>3. CASE ReplayRow
    BY <2>3, ReplayRowPace, ExpandReplay
  <2> QED
    BY <2>1, <2>2, <2>3 DEF Next
<1>2. ExpandInv => ExpandedStaysClean
  BY DEF ExpandInv, ExpandedStaysClean
<1> QED
  BY PaceInit, ExpandInit, <1>1, <1>2, PTL DEF Spec
=============================================================================
