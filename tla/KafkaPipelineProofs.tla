------------------------ MODULE KafkaPipelineProofs -------------------------
(***************************************************************************)
(* Proofs about the Kafka validator, for any files, symbols, foreign       *)
(* messages, batches and number of stops: it loses no record, what a       *)
(* verdict depends on, and that a clean file raises no false alarm.        *)
(***************************************************************************)
EXTENDS KafkaPipeline, TLAPS

\* Everything up to n in topic t has been routed at least once.
Covered(t, n) == \A o \in 1 .. n : \E r \in routed : r[1] = t /\ r[2] = o

\* The consumer's positions are offsets.
Positions ==
    /\ committed \in [Topics -> Nat]
    /\ safe \in [Topics -> Nat]
    /\ head \in [Topics -> Nat]
    /\ done \in [Topics -> Nat]

\* NothingLost alone is not inductive: a commit stores `safe`, so what is
\* safe must be routed, which holds because a poll comes after the last
\* record of the one before has been routed.
KafkaInv ==
    /\ Positions
    /\ \A t \in Topics :
          /\ safe[t] <= done[t]
          /\ Covered(t, done[t])
          /\ Covered(t, committed[t])

\* Routed records stay routed (the consumer only appends to its topics).
LEMMA CoveredKept ==
    ASSUME NEW t \in Topics, NEW n \in Nat, NEW m \in Nat, m <= n,
           routed \subseteq routed', Covered(t, n)
    PROVE  Covered(t, m)'
  BY DEF Covered

LEMMA KafkaInit == Init => KafkaInv
  BY DEF Init, KafkaInv, Positions, Covered, Nowhere

\* A step that leaves the consumer alone (publisher and foreign messages).
LEMMA ConsumerKept ==
    ASSUME KafkaInv, UNCHANGED consumerVars PROVE KafkaInv'
  BY DEF KafkaInv, Positions, Covered, consumerVars

\* PollFetches moves `safe` to the end of a poll whose records are routed.
LEMMA PollKept == ASSUME KafkaInv, PollFetches PROVE KafkaInv'
<1>1. UNCHANGED <<committed, done, routed>> /\ safe' = head
      /\ \A t \in Topics : done[t] = head[t]
  BY DEF PollFetches
<1>2. Positions'
  <2> DEFINE top == Len(log["depth"]) + Len(log["trade"])
  <2>0. PICK n \in [Topics -> 0 .. top] : head' = n
    BY DEF PollFetches
  <2>1. head' \in [Topics -> Nat]
    <3> HIDE DEF top
    <3> QED BY <2>0
  <2> QED BY <1>1, <2>1 DEF KafkaInv, Positions
<1>3. ASSUME NEW t \in Topics
      PROVE  safe'[t] <= done'[t] /\ Covered(t, done[t])' /\ Covered(t, committed[t])'
  BY <1>1, <1>3 DEF KafkaInv, Positions, Covered
<1> QED BY <1>2, <1>3 DEF KafkaInv

\* Route advances `done` by the record it routes.
LEMMA RouteKept == ASSUME KafkaInv, NEW u \in Topics, Route(u) PROVE KafkaInv'
<1> DEFINE o == done[u] + 1
<1>1. /\ routed' = routed \cup {<<u, o, Kinds(u, o)>>}
      /\ done' = [done EXCEPT ![u] = o]
      /\ UNCHANGED <<committed, safe, head>>
  BY DEF Route
<1>2. Positions'
  BY <1>1 DEF KafkaInv, Positions
<1>3. ASSUME NEW t \in Topics
      PROVE  safe'[t] <= done'[t] /\ Covered(t, done[t])' /\ Covered(t, committed[t])'
  <2>1. safe'[t] <= done'[t]
    BY <1>1 DEF KafkaInv, Positions
  <2>2. Covered(t, committed[t])'
    BY <1>1, CoveredKept DEF KafkaInv, Positions
  <2>3. CASE t # u
    <3>1. done'[t] = done[t]
      BY <1>1, <2>3 DEF KafkaInv, Positions
    <3>2. Covered(t, done[t])'
      BY <1>1, <3>1 DEF KafkaInv, Positions, Covered
    <3> QED BY <2>1, <2>2, <3>2
  <2>4. CASE t = u
    <3>1. done'[t] = o /\ done[t] \in Nat
      BY <1>1, <2>4 DEF KafkaInv, Positions
    <3>2. \E r \in routed' : r[1] = t /\ r[2] = o
      <4>1. <<u, o, Kinds(u, o)>> \in routed'
        BY <1>1
      <4> QED BY <4>1, <2>4
    <3>3. Covered(t, done[t])'
      BY <1>1, <2>4, <3>1, <3>2 DEF KafkaInv, Covered
    <3> QED BY <2>1, <2>2, <3>3
  <2> QED BY <2>3, <2>4
<1> QED BY <1>2, <1>3 DEF KafkaInv

\* A commit, on its own or when the consumer stops, stores what is safe.
LEMMA CommitKept ==
    ASSUME KafkaInv, committed' \in {committed, safe}, routed \subseteq routed',
           UNCHANGED <<safe, head, done>>
    PROVE  KafkaInv'
<1>1. Positions'
  BY DEF KafkaInv, Positions
<1>2. ASSUME NEW t \in Topics
      PROVE  safe'[t] <= done'[t] /\ Covered(t, done[t])' /\ Covered(t, committed[t])'
  <2>1. /\ done[t] \in Nat /\ safe[t] \in Nat /\ committed[t] \in Nat
        /\ safe[t] <= done[t] /\ Covered(t, done[t]) /\ Covered(t, committed[t])
    BY DEF KafkaInv, Positions
  <2>2. Covered(t, done[t])'
    BY <2>1, CoveredKept
  <2>3. Covered(t, safe[t])' /\ \A o \in 1 .. committed[t] : \E r \in routed' : r[1] = t /\ r[2] = o
    BY <2>1, CoveredKept DEF Covered
  <2>4. Covered(t, committed[t])'
    BY <2>1, <2>3 DEF Covered
  <2> QED BY <2>1, <2>2, <2>4
<1> QED BY <1>1, <1>2 DEF KafkaInv

\* A consumer starts at the committed offset, below which all is routed.
LEMMA StartKept == ASSUME KafkaInv, StartConsumer PROVE KafkaInv'
  BY DEF KafkaInv, Positions, Covered, StartConsumer, Start

\* Every step of the pipeline preserves the invariant.
LEMMA KafkaStep == KafkaInv /\ [Next]_vars => KafkaInv'
<1> SUFFICES ASSUME KafkaInv, [Next]_vars PROVE KafkaInv'
  OBVIOUS
<1>1. CASE BeginPublish \/ Publish \/ EndPublish
  BY <1>1, ConsumerKept DEF BeginPublish, Publish, EndPublish
<1>2. ASSUME NEW t \in Topics, NEW row \in ForeignRows, Foreign(t, row) PROVE KafkaInv'
  BY <1>2, ConsumerKept DEF Foreign
<1>3. CASE PollFetches
  BY <1>3, PollKept
<1>4. CASE AutoCommit
  BY <1>4, CommitKept DEF AutoCommit
<1>5. CASE StopConsumer
  <2>1. routed \subseteq routed' /\ committed' \in {committed, safe} /\ UNCHANGED <<safe, head, done>>
    BY <1>5 DEF StopConsumer
  <2> QED BY <2>1, CommitKept
<1>6. CASE StartConsumer
  BY <1>6, StartKept
<1>7. ASSUME NEW t \in Topics, Route(t) PROVE KafkaInv'
  BY <1>7, RouteKept
<1>8. CASE UNCHANGED vars
  BY <1>8, ConsumerKept DEF vars
<1> QED BY <1>1, <1>2, <1>3, <1>4, <1>5, <1>6, <1>7, <1>8 DEF Next

(***************************************************************************)
(* No record the group has committed past is unrouted, whatever is         *)
(* published, however polls are batched and whenever consumers stop.       *)
(***************************************************************************)
THEOREM AtLeastOnce == Spec => []NothingLost
<1>1. KafkaInv => NothingLost
  BY DEF KafkaInv, NothingLost, Covered
<1> QED BY <1>1, KafkaInit, KafkaStep, PTL DEF Spec

-----------------------------------------------------------------------------
(* What the validator has tracked *)

\* The records of symbol s after b and up to n that the validator tracks, in
\* a topic t whose rows are q.
Seen(q, t, b, n, s) ==
    {i \in (b + 1) .. n : Rejected(t, q[i]) = {} /\ q[i].symbol = s}

\* The entry of a symbol holds the greatest id tracked after b, if any.
Greatest(q, t, b, n, entries) ==
    \A s \in Symbols :
        LET e == entries[s]
            B == Seen(q, t, b, n, s)
        IN  /\ e.ok <=> B # {}
            /\ e.ok => \E i \in B : IdOf(q[i]) = e.last
            /\ \A i \in B : IdOf(q[i]) <= e.last

Entries(tr, t) == IF t = "depth" THEN tr.depth ELSE tr.trade

Tracks(t, b) == Greatest(log[t], t, b, done[t], Entries(state.track, t))

\* The last time of a symbol is the time of a record routed before.
TimeTracked ==
    \A s \in Symbols : state.track.time[s].ok =>
        \E t \in Topics : \E i \in 1 .. done[t] :
            /\ log[t][i].symbol = s
            /\ log[t][i].time = state.track.time[s].last

\* What SequenceVerdicts says of one verdict: for a consumer that started
\* after b, and for some consumer.
Explains(q, t, b, o, kinds) ==
    LET before == Seen(q, t, b, o - 1, q[o].symbol) IN
    /\ b < o
    /\ kinds \cap {"depth_gap", "trade_gap"} # {} <=>
          /\ before # {}
          /\ ~\E i \in before :
                /\ IdOf(q[i]) = FirstIdOf(q[o]) - 1
                /\ \A k \in before : IdOf(q[k]) <= IdOf(q[i])

Verdict(q, S, t, o, kinds) ==
    Rejected(t, q[o]) = {} => \E b \in S : Explains(q, t, b, o, kinds)

LogType ==
    /\ file \in Seq(RawRows)
    /\ pub \in [runs : Nat, active : BOOLEAN, line : Nat]
    /\ foreign \in Nat
    /\ log \in [Topics -> Seq(RawRows)]
    /\ state.track \in Trackings
    /\ starts \in [Topics -> SUBSET Nat]

\* Nothing is read or committed beyond the end of a topic.
Reached ==
    \A t \in Topics : /\ done[t] <= head[t] /\ head[t] <= Len(log[t])
                      /\ committed[t] <= Len(log[t])

(***************************************************************************)
(* The verdicts given so far are right, and the next one will be: some     *)
(* start of the present consumer explains what its validator knows.        *)
(***************************************************************************)
VerdictInv ==
    /\ LogType
    /\ Reached
    /\ \A t \in Topics : \E b \in starts[t] : b <= done[t] /\ Tracks(t, b)
    /\ TimeTracked
    /\ \A r \in routed : /\ r[1] \in Topics /\ r[2] \in Offsets(r[1])
                          /\ Verdict(log[r[1]], starts[r[1]], r[1], r[2], r[3])

-----------------------------------------------------------------------------
(* Rows and tracking maps *)

LEMMA NotRejected ==
    ASSUME NEW t \in Topics, NEW row
    PROVE  Rejected(t, row) = {} <=> validateEventShape(row) /\ row.type = t
BY DEF Rejected, RawTopic

\* The tracking maps after Process has seen a row.
After(tr, row) == Track(tr, row, Checked)

\* What an accepted row does to the tracking maps.
LEMMA TrackRow ==
    ASSUME NEW tr \in Trackings, NEW row \in RawRows, validateEventShape(row)
    PROVE  LET new == After(tr, row) IN
           /\ new \in Trackings
           /\ \A s \in Symbols \ {row.symbol} :
                 new.time[s] = tr.time[s] /\ new.depth[s] = tr.depth[s] /\ new.trade[s] = tr.trade[s]
           /\ new.time[row.symbol] = Checked(tr.time[row.symbol], row.time)
           /\ row.type = "depth" =>
                 /\ new.depth[row.symbol] = Checked(tr.depth[row.symbol], row.final)
                 /\ new.trade = tr.trade
           /\ row.type = "trade" =>
                 /\ new.trade[row.symbol] = Checked(tr.trade[row.symbol], row.trade)
                 /\ new.depth = tr.depth
<1>1. InScope(row)
  BY KafkaAssumption DEF InScope
<1>2. /\ row.symbol \in Symbols /\ row.time \in Int /\ row.final \in Int /\ row.trade \in Int
      /\ row.type \in {"depth", "trade"}
  BY DEF RawRows, validateEventShape
<1>3. /\ tr.time \in [Symbols -> Entry] /\ tr.depth \in [Symbols -> Entry]
      /\ tr.trade \in [Symbols -> Entry]
  BY DEF Trackings
<1>4. \A e \in Entry : \A x \in Int : Checked(e, x) \in Entry
  BY DEF Checked, Present, Entry
<1>5. CASE row.type = "depth"
  <2>1. After(tr, row) =
          [time  |-> [tr.time EXCEPT ![row.symbol] = Checked(@, row.time)],
           depth |-> [tr.depth EXCEPT ![row.symbol] = Checked(@, row.final)],
           trade |-> tr.trade]
    BY <1>1, <1>5 DEF After, Track
  <2> QED
    BY <1>2, <1>3, <1>4, <1>5, <2>1 DEF Trackings
<1>6. CASE row.type = "trade"
  <2>1. After(tr, row) =
          [time  |-> [tr.time EXCEPT ![row.symbol] = Checked(@, row.time)],
           depth |-> tr.depth,
           trade |-> [tr.trade EXCEPT ![row.symbol] = Checked(@, row.trade)]]
    BY <1>1, <1>6 DEF After, Track
  <2> QED
    BY <1>2, <1>3, <1>4, <1>6, <2>1 DEF Trackings
<1> QED
  BY <1>2, <1>5, <1>6

-----------------------------------------------------------------------------
(* Topics only grow *)

LogGrows ==
    \A t \in Topics : /\ Len(log[t]) <= Len(log'[t])
                      /\ \A i \in Offsets(t) : log'[t][i] = log[t][i]

LEMMA LogAppend ==
    ASSUME log \in [Topics -> Seq(RawRows)], NEW t \in Topics, NEW row \in RawRows,
           log' = [log EXCEPT ![t] = Append(@, row)]
    PROVE  /\ log' \in [Topics -> Seq(RawRows)]
           /\ \A u \in Topics \ {t} : log'[u] = log[u]
           /\ Len(log'[t]) = Len(log[t]) + 1
           /\ log'[t][Len(log[t]) + 1] = row
           /\ LogGrows
<1>1. log[t] \in Seq(RawRows) /\ log'[t] = Append(log[t], row)
  OBVIOUS
<1>2. \A u \in Topics \ {t} : log'[u] = log[u]
  OBVIOUS
<1>3. /\ Append(log[t], row) \in Seq(RawRows)
      /\ Len(Append(log[t], row)) = Len(log[t]) + 1
      /\ Append(log[t], row)[Len(log[t]) + 1] = row
      /\ \A i \in 1 .. Len(log[t]) : Append(log[t], row)[i] = log[t][i]
  BY <1>1
<1>4. LogGrows
  <2>1. \A u \in Topics : Len(log[u]) \in Nat
    OBVIOUS
  <2> QED
    BY <1>1, <1>2, <1>3, <2>1 DEF LogGrows, Offsets
<1> QED
  BY <1>1, <1>2, <1>3, <1>4

\* q is a prefix of p, for the topics of one type.
Extends(p, q) ==
    /\ Len(q) <= Len(p)
    /\ \A i \in 1 .. Len(q) : p[i] = q[i]

LEMMA SeenKept ==
    ASSUME NEW q \in Seq(RawRows), NEW p \in Seq(RawRows), Extends(p, q), NEW t \in Topics,
           NEW b \in Nat, NEW n \in Nat, n <= Len(q), NEW s \in Symbols
    PROVE  /\ Seen(p, t, b, n, s) = Seen(q, t, b, n, s)
           /\ \A i \in Seen(q, t, b, n, s) : p[i] = q[i]
<1>1. \A i \in (b + 1) .. n : p[i] = q[i]
  BY DEF Extends
<1> QED
  BY <1>1 DEF Seen

LEMMA VerdictKept ==
    ASSUME NEW q \in Seq(RawRows), NEW p \in Seq(RawRows), Extends(p, q), NEW t \in Topics,
           NEW S \in SUBSET Nat, NEW T, S \subseteq T,
           NEW o \in 1 .. Len(q), NEW kinds, Verdict(q, S, t, o, kinds)
    PROVE  o \in 1 .. Len(p) /\ Verdict(p, T, t, o, kinds)
<1>1. /\ Len(q) \in Nat /\ Len(p) \in Nat /\ Len(q) <= Len(p) /\ p[o] = q[o]
      /\ o \in Nat /\ o - 1 \in Nat /\ o - 1 <= Len(q)
  BY DEF Extends
<1>2. ASSUME NEW b \in S, Explains(q, t, b, o, kinds)
      PROVE  Explains(p, t, b, o, kinds)
  <2> DEFINE B == Seen(q, t, b, o - 1, q[o].symbol)
  <2>1. /\ Seen(p, t, b, o - 1, p[o].symbol) = B
        /\ \A i \in B : p[i] = q[i]
    <3>0. q[o] \in RawRows
      OBVIOUS
    <3>1. b \in Nat /\ q[o].symbol \in Symbols
      BY <3>0 DEF RawRows
    <3> QED
      BY <1>1, <3>1, SeenKept
  <2> QED
    BY <1>1, <1>2, <2>1 DEF Explains
<1> QED
  BY <1>1, <1>2 DEF Verdict

\* What the validator knows does not depend on records it has not read.
LEMMA GreatestKept ==
    ASSUME NEW q \in Seq(RawRows), NEW p \in Seq(RawRows), Extends(p, q), NEW t \in Topics,
           NEW b \in Nat, NEW n \in Nat, n <= Len(q), NEW entries, Greatest(q, t, b, n, entries)
    PROVE  Greatest(p, t, b, n, entries)
<1>1. ASSUME NEW s \in Symbols
      PROVE  /\ Seen(p, t, b, n, s) = Seen(q, t, b, n, s)
             /\ \A i \in Seen(q, t, b, n, s) : p[i] = q[i]
  BY SeenKept
<1> QED
  BY <1>1 DEF Greatest

-----------------------------------------------------------------------------
(* The next record *)

LEMMA SeenNext ==
    ASSUME NEW q \in Seq(RawRows), NEW t \in Topics, NEW b \in Nat, NEW n \in Nat, b <= n,
           NEW s \in Symbols
    PROVE  /\ Rejected(t, q[n + 1]) = {} /\ q[n + 1].symbol = s =>
                 Seen(q, t, b, n + 1, s) = Seen(q, t, b, n, s) \cup {n + 1}
           /\ ~(Rejected(t, q[n + 1]) = {} /\ q[n + 1].symbol = s) =>
                 Seen(q, t, b, n + 1, s) = Seen(q, t, b, n, s)
<1>1. (b + 1) .. (n + 1) = ((b + 1) .. n) \cup {n + 1}
  OBVIOUS
<1> QED
  BY <1>1 DEF Seen

LEMMA IdType ==
    ASSUME NEW row \in RawRows
    PROVE  IdOf(row) \in Int /\ FirstIdOf(row) \in Int /\ row.time \in Int
           /\ row.symbol \in Symbols
BY DEF IdOf, FirstIdOf, RawRows

\* An accepted record raises the entry of its symbol to its own id, or leaves
\* it where it is greater.
LEMMA GreatestNext ==
    ASSUME NEW q \in Seq(RawRows), NEW t \in Topics, NEW b \in Nat, NEW n \in Nat, b <= n,
           n + 1 <= Len(q), NEW tr \in Trackings, Greatest(q, t, b, n, Entries(tr, t)),
           Rejected(t, q[n + 1]) = {}
    PROVE  Greatest(q, t, b, n + 1, Entries(After(tr, q[n + 1]), t))
<1> DEFINE row == q[n + 1]
           E == Entries(tr, t)
           F == Entries(After(tr, row), t)
<1>1. row \in RawRows /\ \A i \in 1 .. n + 1 : q[i] \in RawRows
  OBVIOUS
<1>2. validateEventShape(row) /\ row.type = t
  BY NotRejected
<1>3. /\ F[row.symbol] = Checked(E[row.symbol], IdOf(row))
      /\ \A s \in Symbols \ {row.symbol} : F[s] = E[s]
      /\ \A s \in Symbols : E[s] \in Entry
  <2>1. CASE t = "depth"
    BY <1>1, <1>2, <2>1, TrackRow DEF Entries, IdOf, Trackings
  <2>2. CASE t = "trade"
    <3>1. /\ E = tr.trade /\ F = After(tr, row).trade /\ IdOf(row) = row.trade
      BY <1>2, <2>2 DEF Entries, IdOf
    <3>2. /\ After(tr, row).trade[row.symbol] = Checked(tr.trade[row.symbol], row.trade)
          /\ \A s \in Symbols \ {row.symbol} :
                After(tr, row).trade[s] = tr.trade[s]
      BY <1>1, <1>2, <2>2, TrackRow
    <3>3. \A s \in Symbols : tr.trade[s] \in Entry
      BY DEF Trackings
    <3> QED
      BY <3>1, <3>2, <3>3
  <2> QED
    BY <2>1, <2>2 DEF Topics
<1>4. row.symbol \in Symbols /\ IdOf(row) \in Int
  BY <1>1, IdType
<1> HIDE DEF row, E, F
<1>5. ASSUME NEW s \in Symbols \ {row.symbol}
      PROVE  Seen(q, t, b, n + 1, s) = Seen(q, t, b, n, s)
  BY <1>4, SeenNext, SMTT(30) DEF row
<1>6. Seen(q, t, b, n + 1, row.symbol) = Seen(q, t, b, n, row.symbol) \cup {n + 1}
  BY <1>4, SeenNext, SMTT(30) DEF row
<1>7. \A s \in Symbols : \A i \in Seen(q, t, b, n, s) : IdOf(q[i]) \in Int
  <2>1. \A s \in Symbols : Seen(q, t, b, n, s) \subseteq 1 .. n + 1
    BY DEF Seen
  <2> QED
    BY <1>1, <2>1, IdType
<1>8. ASSUME NEW s \in Symbols
      PROVE  LET e == F[s]
                 B == Seen(q, t, b, n + 1, s)
             IN  /\ e.ok <=> B # {}
                 /\ e.ok => \E i \in B : IdOf(q[i]) = e.last
                 /\ \A i \in B : IdOf(q[i]) <= e.last
  <2> DEFINE B == Seen(q, t, b, n, s)
  <2>0. /\ E[s].ok <=> B # {}
        /\ E[s].ok => \E i \in B : IdOf(q[i]) = E[s].last
        /\ \A i \in B : IdOf(q[i]) <= E[s].last
    BY DEF Greatest, E
  <2>1. CASE s # row.symbol
    BY <1>3, <1>5, <2>0, <2>1
  <2>2. CASE s = row.symbol
    <3>1. /\ E[s].ok \in BOOLEAN /\ E[s].last \in Int /\ \A i \in B : IdOf(q[i]) \in Int
      BY <1>3, <1>7 DEF Entry
    <3>2. q[n + 1] = row /\ Seen(q, t, b, n + 1, s) = B \cup {n + 1}
      BY <1>6, <2>2 DEF row
    <3> HIDE DEF B
    <3>3. CASE ~E[s].ok \/ IdOf(row) > E[s].last
      <4>1. F[s].ok /\ F[s].last = IdOf(row)
        BY <1>3, <2>2, <3>3 DEF Checked, Present
      <4> QED
        BY <1>4, <2>0, <3>1, <3>2, <3>3, <4>1
    <3>4. CASE E[s].ok /\ ~(IdOf(row) > E[s].last)
      <4>1. F[s] = E[s]
        BY <1>3, <2>2, <3>4 DEF Checked
      <4> QED
        BY <1>4, <2>0, <3>1, <3>2, <3>4, <4>1
    <3> QED
      BY <3>3, <3>4
  <2> QED
    BY <2>1, <2>2
<1> QED
  BY <1>8 DEF Greatest, F, row

\* A rejected record changes nothing.
LEMMA GreatestSkip ==
    ASSUME NEW q \in Seq(RawRows), NEW t \in Topics, NEW b \in Nat, NEW n \in Nat, b <= n,
           NEW entries, Greatest(q, t, b, n, entries), Rejected(t, q[n + 1]) # {}
    PROVE  Greatest(q, t, b, n + 1, entries)
<1>1. ASSUME NEW s \in Symbols
      PROVE  Seen(q, t, b, n + 1, s) = Seen(q, t, b, n, s)
  <2>1. (b + 1) .. (n + 1) = ((b + 1) .. n) \cup {n + 1}
    OBVIOUS
  <2> QED
    BY <2>1 DEF Seen
<1> QED
  BY <1>1 DEF Greatest

\* The verdict on the next record follows from the greatest id tracked.
LEMMA ExplainsNext ==
    ASSUME NEW q \in Seq(RawRows), NEW t \in Topics, NEW b \in Nat, NEW n \in Nat, b <= n,
           n + 1 <= Len(q), NEW tr \in Trackings, Greatest(q, t, b, n, Entries(tr, t)),
           Rejected(t, q[n + 1]) = {}
    PROVE  Explains(q, t, b, n + 1, RowFailures(tr, q[n + 1]))
<1> DEFINE row == q[n + 1]
           e == Entries(tr, t)[row.symbol]
           B == Seen(q, t, b, n, row.symbol)
           kinds == RowFailures(tr, row)
<1>1. row \in RawRows /\ row.symbol \in Symbols /\ FirstIdOf(row) \in Int
  BY IdType
<1>2. validateEventShape(row) /\ row.type = t /\ InScope(row)
  BY NotRejected, KafkaAssumption DEF InScope
<1>3. e \in Entry
  BY <1>1 DEF Entries, Trackings, Topics
<1>4. kinds \cap {"depth_gap", "trade_gap"} # {} <=> e.ok /\ FirstIdOf(row) # e.last + 1
  <2>1. CASE t = "depth"
    BY <1>2, <2>1 DEF RowFailures, checkTime, checkDepthSequence, FirstIdOf, Entries
  <2>2. CASE t = "trade"
    BY <1>2, <2>2 DEF RowFailures, checkTime, checkTradeSequence, FirstIdOf, Entries
  <2> QED
    BY <2>1, <2>2 DEF Topics
<1>5. /\ e.ok <=> B # {}
      /\ e.ok => \E i \in B : IdOf(q[i]) = e.last
      /\ \A i \in B : IdOf(q[i]) <= e.last
  BY <1>1 DEF Greatest
<1>6. \A i \in B : IdOf(q[i]) \in Int
  <2>1. B \subseteq 1 .. Len(q)
    BY DEF Seen
  <2> QED
    BY <2>1, IdType
<1>7. e.last \in Int
  BY <1>3 DEF Entry
<1> HIDE DEF e, kinds
<1>8. kinds \cap {"depth_gap", "trade_gap"} # {} <=>
          /\ B # {}
          /\ ~\E i \in B : /\ IdOf(q[i]) = FirstIdOf(row) - 1
                           /\ \A k \in B : IdOf(q[k]) <= IdOf(q[i])
  <2> HIDE DEF B, row
  <2> QED
    BY <1>1, <1>4, <1>5, <1>6, <1>7, SMTT(30)
<1>9. (n + 1) - 1 = n /\ b < n + 1
  OBVIOUS
<1> QED
  BY <1>8, <1>9 DEF Explains, kinds
-----------------------------------------------------------------------------
(* SequenceVerdicts *)

LEMMA VerdictInit == Init => VerdictInv
<1> SUFFICES ASSUME Init PROVE VerdictInv
  OBVIOUS
<1>1. Missing \in Entry /\ ~Missing.ok
  BY DEF Missing, Entry
<1>2. LogType
  <2>1. NewValidator.track \in Trackings
    BY <1>1 DEF NewValidator, Trackings
  <2> QED
    BY <2>1, KafkaAssumption DEF Init, LogType
<1>3. Reached
  BY DEF Init, Reached, Nowhere
<1>4. ASSUME NEW t \in Topics
      PROVE  0 \in starts[t] /\ 0 <= done[t] /\ Tracks(t, 0)
  <2>1. done[t] = 0 /\ starts[t] = {0}
    BY DEF Init, Nowhere
  <2>2. \A s \in Symbols : Seen(log[t], t, 0, 0, s) = {}
    BY DEF Seen
  <2>3. \A s \in Symbols : ~Entries(state.track, t)[s].ok
    BY <1>1 DEF Init, NewValidator, Entries
  <2> QED
    BY <2>1, <2>2, <2>3 DEF Tracks, Greatest
<1>5. TimeTracked
  BY <1>1 DEF Init, NewValidator, TimeTracked
<1> QED
  BY <1>2, <1>3, <1>4, <1>5 DEF VerdictInv, Init

LEMMA SameLog ==
    ASSUME log \in [Topics -> Seq(RawRows)], UNCHANGED log
    PROVE  LogGrows /\ log' \in [Topics -> Seq(RawRows)]
<1>1. \A t \in Topics : Len(log[t]) \in Nat
  OBVIOUS
<1> QED
  BY <1>1 DEF LogGrows

\* Verdicts given stay right while topics and starts grow.
LEMMA RoutedKept ==
    ASSUME VerdictInv, LogGrows, log' \in [Topics -> Seq(RawRows)],
           \A t \in Topics : starts[t] \subseteq starts'[t],
           NEW t \in Topics, NEW o \in Offsets(t), NEW kinds,
           Verdict(log[t], starts[t], t, o, kinds)
    PROVE  o \in Offsets(t)' /\ Verdict(log'[t], starts'[t], t, o, kinds)
<1>1. Extends(log'[t], log[t])
  BY DEF Extends, LogGrows, Offsets
<1>2. log[t] \in Seq(RawRows) /\ log'[t] \in Seq(RawRows) /\ starts[t] \in SUBSET Nat
  BY DEF VerdictInv, LogType
<1> QED
  BY <1>1, <1>2, VerdictKept DEF Offsets

\* Steps that leave the validator and its position alone.
LEMMA QuietVerdicts ==
    ASSUME KafkaInv, VerdictInv, LogGrows, log' \in [Topics -> Seq(RawRows)],
           UNCHANGED <<state, done, starts>>,
           Reached', LogType',
           \A r \in routed' : r \in routed
              \/ /\ r[1] \in Topics /\ r[2] \in Offsets(r[1])
                 /\ Verdict(log[r[1]], starts[r[1]], r[1], r[2], r[3])
    PROVE  VerdictInv'
<1>0. /\ log \in [Topics -> Seq(RawRows)] /\ starts \in [Topics -> SUBSET Nat]
      /\ done \in [Topics -> Nat] /\ \A t \in Topics : done[t] <= Len(log[t])
  <2>1. head \in [Topics -> Nat] /\ done \in [Topics -> Nat] /\ log \in [Topics -> Seq(RawRows)]
    BY DEF KafkaInv, Positions, VerdictInv, LogType
  <2>2. \A t \in Topics : done[t] <= head[t] /\ head[t] <= Len(log[t])
    BY DEF VerdictInv, Reached
  <2>3. \A t \in Topics : done[t] \in Nat /\ head[t] \in Nat /\ Len(log[t]) \in Nat
    BY <2>1
  <2> QED
    BY <2>1, <2>2, <2>3 DEF VerdictInv, LogType
<1>1. ASSUME NEW t \in Topics
      PROVE  \E b \in starts'[t] : b <= done'[t] /\ Tracks(t, b)'
  <2>1. PICK b \in starts[t] : b <= done[t] /\ Tracks(t, b)
    BY DEF VerdictInv
  <2>2. Extends(log'[t], log[t])
    BY DEF Extends, LogGrows, Offsets
  <2>3. /\ b \in Nat /\ done[t] \in Nat /\ log[t] \in Seq(RawRows) /\ log'[t] \in Seq(RawRows)
        /\ done[t] <= Len(log[t])
    BY <1>0
  <2>4. Greatest(log'[t], t, b, done[t], Entries(state.track, t))
    BY <2>1, <2>2, <2>3, GreatestKept DEF Tracks
  <2>5. Tracks(t, b)'
    BY <2>4 DEF Tracks
  <2> QED
    BY <2>1, <2>5
<1>2. TimeTracked'
  <2>1. \A t \in Topics : \A i \in 1 .. done[t] : log'[t][i] = log[t][i]
    BY <1>0 DEF LogGrows, Offsets
  <2> QED
    BY <2>1 DEF TimeTracked, VerdictInv
<1>3. ASSUME NEW r \in routed'
      PROVE  /\ r[1] \in Topics /\ r[2] \in Offsets(r[1])'
             /\ Verdict(log'[r[1]], starts'[r[1]], r[1], r[2], r[3])
  <2>1. /\ r[1] \in Topics /\ r[2] \in Offsets(r[1])
        /\ Verdict(log[r[1]], starts[r[1]], r[1], r[2], r[3])
    BY DEF VerdictInv
  <2> QED
    BY <2>1, RoutedKept DEF Offsets
<1> QED
  BY <1>1, <1>2, <1>3 DEF VerdictInv, Offsets
\* The publisher, or another producer, appends at most one row to a topic.
Appends(t, row) == log' = [log EXCEPT ![t] = Append(@, row)]

LEMMA ProducerVerdicts ==
    ASSUME KafkaInv, VerdictInv, UNCHANGED <<file, consumerVars>>,
           pub' \in [runs : Nat, active : BOOLEAN, line : Nat], foreign' \in Nat,
           UNCHANGED log \/ \E t \in Topics : \E row \in RawRows : Appends(t, row)
    PROVE  VerdictInv'
<1>1. log \in [Topics -> Seq(RawRows)]
  BY DEF VerdictInv, LogType
<1>2. LogGrows /\ log' \in [Topics -> Seq(RawRows)]
  <2>1. ASSUME NEW t \in Topics, NEW row \in RawRows, Appends(t, row)
        PROVE  LogGrows /\ log' \in [Topics -> Seq(RawRows)]
    BY <1>1, <2>1, LogAppend DEF Appends
  <2> QED
    BY <1>1, <2>1, SameLog
<1>3. LogType'
  BY <1>2 DEF VerdictInv, LogType, consumerVars
<1>4. Reached'
  <2>1. \A t \in Topics : /\ Len(log[t]) \in Nat /\ Len(log'[t]) \in Nat
                          /\ head[t] \in Nat /\ committed[t] \in Nat
    BY <1>1, <1>2 DEF KafkaInv, Positions
  <2>2. \A t \in Topics : Len(log[t]) <= Len(log'[t])
    BY <1>2 DEF LogGrows
  <2> QED
    BY <2>1, <2>2 DEF VerdictInv, Reached, consumerVars
<1> QED
  BY <1>2, <1>3, <1>4, QuietVerdicts DEF consumerVars

LEMMA MarshalType ==
    ASSUME NEW row \in RawRows PROVE Marshal(row) \in RawRows
BY DEF Marshal, RawRows

\* The row the publisher is at.
LEMMA NextRow ==
    ASSUME LogType, pub.line < Len(file), validateEventShape(file[pub.line + 1])
    PROVE  /\ file[pub.line + 1] \in RawRows
           /\ RawTopic(file[pub.line + 1]) \in Topics
           /\ Marshal(file[pub.line + 1]) \in RawRows
<1>1. pub.line \in Nat /\ file \in Seq(RawRows)
  BY DEF LogType
<1>2. file[pub.line + 1] \in RawRows
  BY <1>1
<1> QED
  BY <1>2, MarshalType DEF RawTopic, validateEventShape, Topics

\* What the producers do to the topics.
LEMMA ProducerSteps ==
    ASSUME KafkaInv, VerdictInv,
           \/ BeginPublish \/ Publish \/ EndPublish
           \/ \E t \in Topics, row \in ForeignRows : Foreign(t, row)
    PROVE  VerdictInv'
<1>0. LogType /\ pub \in [runs : Nat, active : BOOLEAN, line : Nat] /\ foreign \in Nat
  BY DEF VerdictInv, LogType
<1>1. CASE BeginPublish
  BY <1>0, <1>1, ProducerVerdicts DEF BeginPublish
<1>2. CASE Publish
  <2>1. Appends(RawTopic(file[pub.line + 1]), Marshal(file[pub.line + 1]))
    BY <1>2 DEF Publish, Appends
  <2>2. pub' \in [runs : Nat, active : BOOLEAN, line : Nat]
    BY <1>0, <1>2 DEF Publish
  <2> QED
    BY <1>0, <1>2, <2>1, <2>2, NextRow, ProducerVerdicts DEF Publish
<1>3. CASE EndPublish
  <2>1. UNCHANGED log \/ \E t \in Topics : \E row \in RawRows : Appends(t, row)
    BY <1>0, <1>3, NextRow DEF EndPublish, Appends
  <2>2. pub' \in [runs : Nat, active : BOOLEAN, line : Nat]
    BY <1>0, <1>3 DEF EndPublish
  <2> QED
    BY <1>0, <1>3, <2>1, <2>2, ProducerVerdicts DEF EndPublish
<1>4. ASSUME NEW t \in Topics, NEW row \in ForeignRows, Foreign(t, row)
      PROVE  VerdictInv'
  <2>1. row \in RawRows /\ Appends(t, row)
    BY <1>4, KafkaAssumption DEF Foreign, Appends
  <2> QED
    BY <1>0, <1>4, <2>1, ProducerVerdicts DEF Foreign
<1> QED
  BY <1>1, <1>2, <1>3, <1>4

\* The consumer is at a record of topic t, and its verdict will be right.
LEMMA PendingVerdict ==
    ASSUME KafkaInv, VerdictInv, NEW t \in Topics, Pending(t)
    PROVE  LET o == done[t] + 1 IN
           /\ done[t] \in Nat /\ o \in Offsets(t) /\ o <= Len(log[t]) /\ o <= head[t]
           /\ Verdict(log[t], starts[t], t, o, Kinds(t, o))
<1> DEFINE o == done[t] + 1
<1>1. /\ done[t] \in Nat /\ head[t] \in Nat /\ log[t] \in Seq(RawRows)
      /\ state.track \in Trackings /\ starts[t] \in SUBSET Nat
  BY DEF KafkaInv, Positions, VerdictInv, LogType
<1>2. done[t] < head[t] /\ head[t] <= Len(log[t])
  BY DEF Pending, VerdictInv, Reached
<1>3. Len(log[t]) \in Nat
  BY <1>1
<1>4. o \in Offsets(t) /\ o <= Len(log[t]) /\ o <= head[t]
  BY <1>1, <1>2, <1>3 DEF Offsets
<1>5. ASSUME Rejected(t, log[t][o]) = {}
      PROVE  \E b \in starts[t] : Explains(log[t], t, b, o, Kinds(t, o))
  <2>1. PICK b \in starts[t] : b <= done[t] /\ Tracks(t, b)
    BY DEF VerdictInv
  <2>2. b \in Nat
    BY <1>1
  <2>3. Explains(log[t], t, b, o, RowFailures(state.track, log[t][o]))
    BY <1>1, <1>4, <1>5, <2>1, <2>2, ExplainsNext DEF Tracks
  <2> QED
    BY <1>5, <2>3 DEF Kinds
<1> QED
  BY <1>1, <1>4, <1>5 DEF Verdict

LEMMA ConsumerVerdicts ==
    ASSUME KafkaInv, VerdictInv, PollFetches \/ AutoCommit \/ StopConsumer
    PROVE  VerdictInv'
<1>0. /\ log \in [Topics -> Seq(RawRows)]
      /\ \A t \in Topics : /\ Len(log[t]) \in Nat /\ done[t] \in Nat /\ head[t] \in Nat
                           /\ safe[t] \in Nat /\ committed[t] \in Nat
      /\ \A t \in Topics : /\ done[t] <= head[t] /\ head[t] <= Len(log[t])
                           /\ committed[t] <= Len(log[t]) /\ safe[t] <= done[t]
  BY DEF KafkaInv, Positions, VerdictInv, LogType, Reached
<1>1. UNCHANGED <<file, pub, log, foreign, state, done, starts>>
  BY DEF PollFetches, AutoCommit, StopConsumer
<1>2. LogGrows /\ log' \in [Topics -> Seq(RawRows)] /\ LogType'
  BY <1>0, <1>1, SameLog DEF VerdictInv, LogType
<1>3. Reached'
  <2>1. CASE PollFetches
    <3>1. \A t \in Topics : done[t] = head[t] /\ head'[t] >= head[t] /\ head'[t] <= Len(log[t])
      BY <2>1 DEF PollFetches
    <3>2. UNCHANGED committed
      BY <2>1 DEF PollFetches
    <3>3. \A t \in Topics : done[t] <= head'[t]
      BY <3>1
    <3> QED
      BY <1>0, <1>1, <3>1, <3>2, <3>3 DEF Reached
  <2>2. CASE AutoCommit \/ StopConsumer
    <3>1. UNCHANGED head /\ committed' \in {committed, safe}
      BY <2>2 DEF AutoCommit, StopConsumer
    <3>2. \A t \in Topics : safe[t] <= Len(log[t])
      BY <1>0
    <3> QED
      BY <1>0, <1>1, <3>1, <3>2 DEF Reached
  <2> QED
    BY <2>1, <2>2
<1>4. ASSUME NEW r \in routed', r \notin routed
      PROVE  /\ r[1] \in Topics /\ r[2] \in Offsets(r[1])
             /\ Verdict(log[r[1]], starts[r[1]], r[1], r[2], r[3])
  <2>1. PICK t \in Topics : Pending(t) /\ r = <<t, done[t] + 1, Kinds(t, done[t] + 1)>>
    BY <1>4 DEF PollFetches, AutoCommit, StopConsumer
  <2>2. r[1] = t /\ r[2] = done[t] + 1 /\ r[3] = Kinds(t, done[t] + 1)
    BY <2>1
  <2> QED
    BY <2>1, <2>2, PendingVerdict
<1> QED
  BY <1>1, <1>2, <1>3, <1>4, QuietVerdicts

LEMMA StartVerdicts ==
    ASSUME KafkaInv, VerdictInv, StartConsumer
    PROVE  VerdictInv'
<1>1. /\ UNCHANGED <<file, pub, log, foreign, committed, routed>>
      /\ head' = committed /\ done' = committed /\ state' = NewValidator
      /\ starts' = [t \in Topics |-> starts[t] \cup {committed[t]}]
  BY DEF StartConsumer, Start
<1>2. /\ log \in [Topics -> Seq(RawRows)] /\ committed \in [Topics -> Nat]
      /\ starts \in [Topics -> SUBSET Nat]
  BY DEF KafkaInv, Positions, VerdictInv, LogType
<1>3. LogGrows /\ log' \in [Topics -> Seq(RawRows)]
  BY <1>1, <1>2, SameLog
<1>4. Missing \in Entry /\ ~Missing.ok
  BY DEF Missing, Entry
<1>5. LogType'
  <2>1. NewValidator.track \in Trackings
    BY <1>4 DEF NewValidator, Trackings
  <2> QED
    BY <1>1, <1>2, <2>1 DEF VerdictInv, LogType
<1>6. Reached'
  BY <1>1, <1>2 DEF VerdictInv, Reached
<1>7. ASSUME NEW t \in Topics
      PROVE  /\ committed[t] \in starts'[t] /\ committed[t] <= done'[t]
             /\ Tracks(t, committed[t])'
  <2>1. committed[t] \in Nat /\ done'[t] = committed[t] /\ committed'[t] = committed[t]
    BY <1>1, <1>2
  <2>2. \A s \in Symbols : Seen(log'[t], t, committed[t], committed[t], s) = {}
    BY <2>1 DEF Seen
  <2>3. \A s \in Symbols : ~Entries(NewValidator.track, t)[s].ok
    BY <1>4 DEF NewValidator, Entries
  <2>4. Greatest(log'[t], t, committed[t], committed[t], Entries(NewValidator.track, t))
    BY <2>2, <2>3 DEF Greatest
  <2> QED
    BY <1>1, <2>1, <2>4 DEF Tracks
<1>8. TimeTracked'
  BY <1>1, <1>4 DEF NewValidator, TimeTracked
<1>9. ASSUME NEW r \in routed'
      PROVE  /\ r[1] \in Topics /\ r[2] \in Offsets(r[1])'
             /\ Verdict(log'[r[1]], starts'[r[1]], r[1], r[2], r[3])
  <2>1. /\ r[1] \in Topics /\ r[2] \in Offsets(r[1])
        /\ Verdict(log[r[1]], starts[r[1]], r[1], r[2], r[3])
    BY <1>1 DEF VerdictInv
  <2>2. \A t \in Topics : starts[t] \subseteq starts'[t]
    BY <1>1
  <2> QED
    BY <1>3, <2>1, <2>2, RoutedKept DEF Offsets
<1>10. \A t \in Topics : \E b \in starts'[t] : b <= done'[t] /\ Tracks(t, b)'
  <2> SUFFICES ASSUME NEW t \in Topics
               PROVE  \E b \in starts'[t] : b <= done'[t] /\ Tracks(t, b)'
    OBVIOUS
  <2>1. committed'[t] = committed[t]
    BY <1>1
  <2> QED
    BY <1>7, <2>1
<1> QED
  BY <1>5, <1>6, <1>8, <1>9, <1>10 DEF VerdictInv, Offsets

LEMMA RouteVerdicts ==
    ASSUME KafkaInv, VerdictInv, NEW u \in Topics, Route(u)
    PROVE  VerdictInv'
<1> DEFINE o == done[u] + 1
           row == log[u][o]
           tr == state.track
<1>1. /\ UNCHANGED <<file, pub, log, foreign, committed, head, starts>>
      /\ routed' = routed \cup {<<u, o, Kinds(u, o)>>}
      /\ state' = Processed(u, o) /\ Pending(u)
      /\ done' = [done EXCEPT ![u] = o]
  BY DEF Route
<1>2. /\ log \in [Topics -> Seq(RawRows)] /\ done \in [Topics -> Nat]
      /\ starts \in [Topics -> SUBSET Nat] /\ tr \in Trackings
      /\ log[u] \in Seq(RawRows)
  BY DEF KafkaInv, Positions, VerdictInv, LogType
<1>3. /\ done[u] \in Nat /\ o \in Offsets(u) /\ o <= Len(log[u]) /\ o <= head[u]
      /\ Verdict(log[u], starts[u], u, o, Kinds(u, o))
  BY <1>1, PendingVerdict
<1>4. row \in RawRows
  BY <1>2, <1>3 DEF Offsets
<1>5. done'[u] = o /\ \A t \in Topics \ {u} : done'[t] = done[t]
  BY <1>1, <1>2
<1>6. LogGrows /\ log' \in [Topics -> Seq(RawRows)]
  BY <1>1, <1>2, SameLog
<1>7. state'.track = IF Rejected(u, row) = {} THEN After(tr, row) ELSE tr
  BY <1>1 DEF Processed, Process, After
<1>8. Rejected(u, row) = {} => validateEventShape(row) /\ row.type = u
  BY NotRejected
<1>9. state'.track \in Trackings
  BY <1>2, <1>4, <1>7, <1>8, TrackRow
<1>10. LogType'
  BY <1>1, <1>6, <1>9 DEF VerdictInv, LogType
<1>11. Reached'
  BY <1>1, <1>3, <1>5 DEF VerdictInv, Reached
<1> HIDE DEF row, tr, o
<1>12. ASSUME NEW t \in Topics
       PROVE  \E b \in starts'[t] : b <= done'[t] /\ Tracks(t, b)'
  <2>1. PICK b \in starts[t] : b <= done[t] /\ Tracks(t, b)
    BY DEF VerdictInv
  <2>2. b \in Nat /\ done[t] \in Nat /\ log'[t] = log[t]
    BY <1>1, <1>2
  <2>3. Greatest(log[t], t, b, done[t], Entries(tr, t))
    BY <2>1 DEF Tracks, tr
  <2>4. b <= done'[t] /\ Greatest(log[t], t, b, done'[t], Entries(state'.track, t))
    <3>1. CASE t # u
      <4>1. Entries(state'.track, t) = Entries(tr, t)
        <5>1. CASE Rejected(u, row) = {}
          BY <1>2, <1>4, <1>7, <1>8, <3>1, <5>1, TrackRow DEF Entries, Topics
        <5>2. CASE Rejected(u, row) # {}
          BY <1>7, <5>2
        <5> QED
          BY <5>1, <5>2
      <4> QED
        BY <1>5, <2>1, <2>3, <3>1, <4>1
    <3>2. CASE t = u /\ Rejected(u, row) = {}
      <4>1. row = log[u][done[u] + 1] /\ done'[u] = done[u] + 1 /\ done[u] + 1 <= Len(log[u])
        BY <1>3, <1>5 DEF row, o
      <4>2. Greatest(log[u], u, b, done[u] + 1, Entries(After(tr, log[u][done[u] + 1]), u))
        BY <1>2, <2>1, <2>2, <2>3, <3>2, <4>1, GreatestNext
      <4> QED
        BY <1>7, <2>1, <2>2, <3>2, <4>1, <4>2
    <3>3. CASE t = u /\ Rejected(u, row) # {}
      <4>1. row = log[u][done[u] + 1] /\ done'[u] = done[u] + 1
        BY <1>5 DEF row, o
      <4>2. b \in Nat /\ done[u] \in Nat /\ b <= done[u]
        BY <2>1, <2>2, <3>3
      <4>3. Greatest(log[u], u, b, done[u] + 1, Entries(tr, u))
        BY <1>2, <2>3, <3>3, <4>1, <4>2, GreatestSkip
      <4> QED
        BY <1>7, <2>1, <2>2, <3>3, <4>1, <4>3
    <3> QED
      BY <3>1, <3>2, <3>3
  <2>5. Tracks(t, b)'
    BY <2>2, <2>4 DEF Tracks
  <2> QED
    BY <1>1, <2>4, <2>5
<1>13. TimeTracked'
  <2> SUFFICES ASSUME NEW s \in Symbols, state'.track.time[s].ok
               PROVE  \E t \in Topics : \E i \in 1 .. done'[t] :
                          log[t][i].symbol = s /\ log[t][i].time = state'.track.time[s].last
    BY <1>1 DEF TimeTracked
  <2>1. CASE state'.track.time[s] = tr.time[s]
    <3>1. PICK t \in Topics : \E i \in 1 .. done[t] :
                 log[t][i].symbol = s /\ log[t][i].time = tr.time[s].last
      BY <2>1 DEF VerdictInv, TimeTracked, tr
    <3>2. PICK i \in 1 .. done[t] :
                 log[t][i].symbol = s /\ log[t][i].time = tr.time[s].last
      BY <3>1
    <3>3. i \in 1 .. done'[t]
      BY <1>2, <1>5 DEF o
    <3> QED
      BY <2>1, <3>2, <3>3
  <2>2. CASE state'.track.time[s] # tr.time[s]
    <3>1. Rejected(u, row) = {} /\ state'.track = After(tr, row)
      BY <1>7, <2>2
    <3>2. s = row.symbol /\ state'.track.time[s] = Checked(tr.time[s], row.time)
      BY <1>2, <1>4, <1>8, <2>2, <3>1, TrackRow
    <3>3. state'.track.time[s].last = row.time
      BY <2>2, <3>2 DEF Checked, Present
    <3>4. row = log[u][o] /\ o \in 1 .. done'[u]
      BY <1>3, <1>5 DEF row, o
    <3> QED
      BY <3>2, <3>3, <3>4
  <2> QED
    BY <2>1, <2>2
<1>14. ASSUME NEW r \in routed'
       PROVE  /\ r[1] \in Topics /\ r[2] \in Offsets(r[1])'
              /\ Verdict(log'[r[1]], starts'[r[1]], r[1], r[2], r[3])
  <2>1. CASE r \in routed
    BY <1>1, <2>1 DEF VerdictInv, Offsets
  <2>2. CASE r = <<u, o, Kinds(u, o)>>
    BY <1>1, <1>3, <2>2 DEF Offsets
  <2> QED
    BY <1>1, <2>1, <2>2
<1> QED
  BY <1>10, <1>11, <1>12, <1>13, <1>14 DEF VerdictInv, Offsets

LEMMA VerdictStep ==
    ASSUME KafkaInv, VerdictInv, [Next]_vars
    PROVE  VerdictInv'
<1>1. CASE UNCHANGED vars
  BY <1>1, ProducerVerdicts DEF vars, VerdictInv, LogType
<1> QED
  BY <1>1, ProducerSteps, ConsumerVerdicts, StartVerdicts, RouteVerdicts DEF Next

(***************************************************************************)
(* A record is reported for a gap exactly if the greatest id its consumer  *)
(* had read for the symbol in this topic is not its predecessor, whatever  *)
(* the batches, the other topic, restarts and foreign messages do          *)
(* (Process over checkDepthSequence and checkTradeSequence).               *)
(***************************************************************************)
THEOREM VerdictsFollowTopic == Spec => []SequenceVerdicts
<1>1. VerdictInv => SequenceVerdicts
  BY DEF VerdictInv, SequenceVerdicts, Verdict, Explains, Seen, Earlier
<1>2. KafkaInv /\ VerdictInv /\ [Next]_vars => VerdictInv'
  BY VerdictStep
<1> QED
  BY <1>1, <1>2, VerdictInit, KafkaInit, KafkaStep, PTL DEF Spec
-----------------------------------------------------------------------------
(* NoFalseAlarm: the topics of a clean file published once *)

\* q holds the rows of type t among the first n rows of a file, in their
\* order: f tells from which line each of them comes.
Copied(q, t, rows, n, f) ==
    /\ f \in [1 .. Len(q) -> 1 .. n]
    /\ \A i, k \in 1 .. Len(q) : i < k => f[i] < f[k]
    /\ \A i \in 1 .. Len(q) : q[i] = rows[f[i]] /\ q[i].type = t
    /\ \A l \in 1 .. n : rows[l].type = t => \E i \in 1 .. Len(q) : f[i] = l

\* The ids of a symbol follow each other without a gap; a symbol that occurs
\* has a last record.
Sequenced(q) ==
    /\ \A i, k \in 1 .. Len(q) : i < k /\ q[i].symbol = q[k].symbol =>
          /\ IdOf(q[i]) < IdOf(q[k])
          /\ q[i].time <= q[k].time
          /\ (\A m \in (i + 1) .. (k - 1) : q[m].symbol # q[i].symbol)
                => FirstIdOf(q[k]) = IdOf(q[i]) + 1
    /\ \A s \in Symbols :
          \/ \A i \in 1 .. Len(q) : q[i].symbol # s
          \/ \E i \in 1 .. Len(q) : /\ q[i].symbol = s
                                    /\ \A k \in 1 .. Len(q) : q[k].symbol = s => k <= i

Calm == Clean(file) /\ Encodable(file) /\ pub.runs <= 1 /\ foreign = 0

\* The first n lines of the file have been published.
PublishedTo(n) ==
    /\ pub.active => n = pub.line
    /\ pub.runs = 0 => n = 0
    /\ \A t \in Topics : Sequenced(log[t]) /\ \E f : Copied(log[t], t, file, n, f)

CalmInv ==
    /\ pub.active => pub.runs > 0
    /\ Calm => \E n \in 0 .. Len(file) : PublishedTo(n)
    /\ NoFalseAlarm

LEMMA ShapeIds ==
    ASSUME NEW row \in RawRows, validateEventShape(row)
    PROVE  FirstIdOf(row) <= IdOf(row)
BY DEF validateEventShape, RawRows, FirstIdOf, IdOf

\* A row of the other type does not concern topic t.
LEMMA CopiedSkip ==
    ASSUME NEW q \in Seq(RawRows), NEW t \in Topics, NEW rows \in Seq(RawRows), NEW n \in Nat,
           n + 1 <= Len(rows), rows[n + 1].type # t, NEW f, Copied(q, t, rows, n, f)
    PROVE  Copied(q, t, rows, n + 1, f)
<1>1. f \in [1 .. Len(q) -> 1 .. n + 1]
  BY DEF Copied
<1>2. \A l \in 1 .. n + 1 : l \in 1 .. n \/ l = n + 1
  OBVIOUS
<1> QED
  BY <1>1, <1>2 DEF Copied

\* The line after the last one copied goes to the end of its topic.
LEMMA CopiedNext ==
    ASSUME NEW q \in Seq(RawRows), NEW t \in Topics, NEW rows \in Seq(RawRows), NEW n \in Nat,
           n + 1 <= Len(rows), rows[n + 1].type = t, NEW f, Copied(q, t, rows, n, f)
    PROVE  \E g : Copied(Append(q, rows[n + 1]), t, rows, n + 1, g)
<1> DEFINE c == Len(q)
           p == Append(q, rows[n + 1])
           g == [i \in 1 .. c + 1 |-> IF i = c + 1 THEN n + 1 ELSE f[i]]
<1>1. /\ c \in Nat /\ p \in Seq(RawRows) /\ Len(p) = c + 1 /\ p[c + 1] = rows[n + 1]
      /\ \A i \in 1 .. c : p[i] = q[i]
  <2>1. rows[n + 1] \in RawRows
    OBVIOUS
  <2> QED
    BY <2>1
<1>2. /\ \A i \in 1 .. c : f[i] \in 1 .. n /\ q[i] = rows[f[i]] /\ q[i].type = t
      /\ \A i, k \in 1 .. c : i < k => f[i] < f[k]
      /\ \A l \in 1 .. n : rows[l].type = t => \E i \in 1 .. c : f[i] = l
  BY DEF Copied
<1>3. g[c + 1] = n + 1 /\ \A i \in 1 .. c : g[i] = f[i]
  BY <1>1
<1>4. g \in [1 .. c + 1 -> 1 .. n + 1]
  BY <1>1, <1>2
<1> HIDE DEF c, p, g
<1>5. \A i \in 1 .. c + 1 : i \in 1 .. c \/ i = c + 1
  BY <1>1
<1>6. \A i, k \in 1 .. c + 1 : i < k => g[i] < g[k]
  <2> SUFFICES ASSUME NEW i \in 1 .. c + 1, NEW k \in 1 .. c + 1, i < k PROVE g[i] < g[k]
    OBVIOUS
  <2>1. i \in 1 .. c
    BY <1>1
  <2>2. CASE k \in 1 .. c
    BY <1>2, <1>3, <2>1, <2>2
  <2>3. CASE k = c + 1
    BY <1>2, <1>3, <2>1, <2>3
  <2> QED
    BY <1>5, <2>2, <2>3
<1>7. \A i \in 1 .. c + 1 : p[i] = rows[g[i]] /\ p[i].type = t
  BY <1>1, <1>2, <1>3, <1>5
<1>8. \A l \in 1 .. n + 1 : rows[l].type = t => \E i \in 1 .. c + 1 : g[i] = l
  <2> SUFFICES ASSUME NEW l \in 1 .. n + 1, rows[l].type = t
               PROVE  \E i \in 1 .. c + 1 : g[i] = l
    OBVIOUS
  <2>1. CASE l = n + 1
    BY <1>1, <1>3, <2>1
  <2>2. CASE l \in 1 .. n
    <3>1. PICK i \in 1 .. c : f[i] = l
      BY <1>2, <2>2
    <3>2. i \in 1 .. c + 1 /\ g[i] = l
      BY <1>1, <1>3, <3>1
    <3> QED
      BY <3>2
  <2> QED
    BY <2>1, <2>2
<1>9. Copied(p, t, rows, n + 1, g)
  BY <1>1, <1>4, <1>6, <1>7, <1>8 DEF Copied
<1> QED
  BY <1>9 DEF p

\* Why the appended row continues the sequence of its symbol: no row between
\* it and the last one copied has its type and symbol.
LEMMA SequencedNext ==
    ASSUME NEW q \in Seq(RawRows), NEW t \in Topics, NEW rows \in Seq(RawRows), NEW n \in Nat,
           n + 1 <= Len(rows), rows[n + 1].type = t, NEW f, Copied(q, t, rows, n, f),
           Clean(rows), Sequenced(q)
    PROVE  Sequenced(Append(q, rows[n + 1]))
<1> DEFINE c == Len(q)
           row == rows[n + 1]
           p == Append(q, row)
<1>0. row \in RawRows /\ DOMAIN rows = 1 .. Len(rows) /\ Len(rows) \in Nat
  OBVIOUS
<1>1. /\ c \in Nat /\ p \in Seq(RawRows) /\ Len(p) = c + 1 /\ p[c + 1] = row
      /\ \A i \in 1 .. c : p[i] = q[i] /\ q[i] \in RawRows
  BY <1>0
<1>2. /\ \A i \in 1 .. c : f[i] \in 1 .. n /\ q[i] = rows[f[i]] /\ q[i].type = t
      /\ \A i, k \in 1 .. c : i < k => f[i] < f[k]
      /\ \A l \in 1 .. n : rows[l].type = t => \E i \in 1 .. c : f[i] = l
  BY DEF Copied
<1>3. validateEventShape(row) /\ FirstIdOf(row) <= IdOf(row)
  BY <1>0, ShapeIds DEF Clean
<1>4. /\ IdOf(row) \in Int /\ FirstIdOf(row) \in Int /\ row.symbol \in Symbols
      /\ \A i \in 1 .. c : IdOf(q[i]) \in Int
  BY <1>0, <1>1, IdType
<1>5. ASSUME NEW i \in 1 .. c, q[i].symbol = row.symbol
      PROVE  q[i].time <= row.time
  <2>1. f[i] \in 1 .. n /\ q[i] = rows[f[i]]
    BY <1>2
  <2>2. f[i] \in DOMAIN rows /\ n + 1 \in DOMAIN rows /\ f[i] < n + 1
    BY <1>0, <2>1
  <2> QED
    BY <1>5, <2>1, <2>2 DEF Clean
<1>6. ASSUME NEW i \in 1 .. c, q[i].symbol = row.symbol,
             \A m \in (i + 1) .. c : q[m].symbol # row.symbol
      PROVE  FirstIdOf(row) = IdOf(q[i]) + 1
  <2>1. f[i] \in 1 .. n /\ q[i] = rows[f[i]] /\ q[i].type = t
    BY <1>2
  <2>2. f[i] \in DOMAIN rows /\ n + 1 \in DOMAIN rows /\ f[i] < n + 1
    BY <1>0, <2>1
  <2>3. ASSUME NEW k \in (f[i] + 1) .. ((n + 1) - 1), rows[k].symbol = rows[f[i]].symbol,
               rows[k].type = rows[f[i]].type
        PROVE  FALSE
    <3>1. k \in 1 .. n /\ f[i] < k
      BY <2>1
    <3>2. PICK m \in 1 .. c : f[m] = k
      BY <1>2, <2>1, <2>3, <3>1
    <3>3. i < m
      <4>1. m < i => f[m] < f[i]
        BY <1>2
      <4>2. f[m] \in Int /\ f[i] \in Int /\ m # i
        BY <2>1, <3>1, <3>2
      <4> QED
        BY <1>1, <3>1, <3>2, <4>1, <4>2
    <3>4. m \in (i + 1) .. c /\ q[m].symbol = row.symbol
      BY <1>1, <1>2, <1>6, <2>1, <2>3, <3>2, <3>3
    <3> QED
      BY <1>6, <3>4
  <2>4. rows[f[i]].symbol = rows[n + 1].symbol /\ rows[f[i]].type = rows[n + 1].type
    BY <1>6, <2>1
  <2> QED
    BY <2>1, <2>2, <2>3, <2>4 DEF Clean
<1>7. ASSUME NEW i \in 1 .. c, q[i].symbol = row.symbol
      PROVE  IdOf(q[i]) < IdOf(row)
  <2>1. PICK z \in 1 .. c : /\ q[z].symbol = row.symbol
                            /\ \A k \in 1 .. c : q[k].symbol = row.symbol => k <= z
    BY <1>4, <1>7 DEF Sequenced
  <2>2. \A m \in (z + 1) .. c : q[m].symbol # row.symbol
    BY <1>1, <2>1
  <2>3. FirstIdOf(row) = IdOf(q[z]) + 1
    BY <1>6, <2>1, <2>2
  <2>4. IdOf(q[i]) <= IdOf(q[z])
    <3>1. i <= z
      BY <1>7, <2>1
    <3>2. i < z => IdOf(q[i]) < IdOf(q[z])
      BY <1>7, <2>1 DEF Sequenced
    <3> QED
      BY <1>1, <1>4, <3>1, <3>2
  <2>5. FirstIdOf(row) <= IdOf(row)
    BY <1>3
  <2>6. /\ IdOf(q[i]) \in Int /\ IdOf(q[z]) \in Int
        /\ FirstIdOf(row) \in Int /\ IdOf(row) \in Int
    BY <1>4
  <2> DEFINE x == IdOf(q[i])
             y == IdOf(q[z])
             lo == FirstIdOf(row)
             hi == IdOf(row)
  <2>7. x \in Int /\ y \in Int /\ lo \in Int /\ hi \in Int /\ lo = y + 1 /\ x <= y /\ lo <= hi
    BY <2>3, <2>4, <2>5, <2>6, Zenon
  <2> HIDE DEF x, y, lo, hi
  <2>8. x < hi
    BY <2>7
  <2> QED
    BY <2>8, Zenon DEF x, hi
<1> HIDE DEF p, c, row
<1>8. \A i \in 1 .. c + 1 : i \in 1 .. c \/ i = c + 1
  BY <1>1
<1>9. ASSUME NEW i \in 1 .. c + 1, NEW k \in 1 .. c + 1, i < k, p[i].symbol = p[k].symbol
      PROVE  /\ IdOf(p[i]) < IdOf(p[k])
             /\ p[i].time <= p[k].time
             /\ (\A m \in (i + 1) .. (k - 1) : p[m].symbol # p[i].symbol)
                   => FirstIdOf(p[k]) = IdOf(p[i]) + 1
  <2>1. i \in 1 .. c /\ p[i] = q[i]
    BY <1>1, <1>9
  <2>2. CASE k \in 1 .. c
    <3>1. p[k] = q[k] /\ \A m \in (i + 1) .. (k - 1) : p[m] = q[m]
      BY <1>1, <2>1, <2>2
    <3>2. /\ IdOf(q[i]) < IdOf(q[k])
          /\ q[i].time <= q[k].time
          /\ (\A m \in (i + 1) .. (k - 1) : q[m].symbol # q[i].symbol)
                => FirstIdOf(q[k]) = IdOf(q[i]) + 1
      BY <1>9, <2>1, <2>2, <3>1 DEF Sequenced, c
    <3> QED
      BY <2>1, <3>1, <3>2
  <2>3. CASE k = c + 1
    <3>1. p[k] = row /\ q[i].symbol = row.symbol /\ (k - 1) = c
      BY <1>1, <1>9, <2>1, <2>3
    <3>2. (\A m \in (i + 1) .. c : p[m].symbol # p[i].symbol)
             => \A m \in (i + 1) .. c : q[m].symbol # row.symbol
      BY <1>1, <2>1, <3>1
    <3> QED
      BY <1>5, <1>6, <1>7, <2>1, <3>1, <3>2
  <2> QED
    BY <1>8, <2>2, <2>3
<1>10. ASSUME NEW s \in Symbols
       PROVE  \/ \A i \in 1 .. c + 1 : p[i].symbol # s
              \/ \E i \in 1 .. c + 1 : /\ p[i].symbol = s
                                       /\ \A k \in 1 .. c + 1 : p[k].symbol = s => k <= i
  <2>1. CASE row.symbol = s
    <3>1. c + 1 \in 1 .. c + 1 /\ p[c + 1].symbol = s /\ \A k \in 1 .. c + 1 : k <= c + 1
      BY <1>1, <2>1
    <3> QED
      BY <3>1
  <2>2. CASE row.symbol # s
    <3>1. \A i \in 1 .. c + 1 : p[i].symbol = s => i \in 1 .. c /\ q[i].symbol = s
      BY <1>1, <1>8, <2>2
    <3>2. \/ \A i \in 1 .. c : q[i].symbol # s
          \/ \E i \in 1 .. c : q[i].symbol = s /\ \A k \in 1 .. c : q[k].symbol = s => k <= i
      BY DEF Sequenced, c
    <3>3. CASE \A i \in 1 .. c : q[i].symbol # s
      BY <3>1, <3>3
    <3>4. ASSUME NEW i \in 1 .. c, q[i].symbol = s, \A k \in 1 .. c : q[k].symbol = s => k <= i
          PROVE  \E z \in 1 .. c + 1 : /\ p[z].symbol = s
                                       /\ \A k \in 1 .. c + 1 : p[k].symbol = s => k <= z
      <4>1. i \in 1 .. c + 1 /\ p[i].symbol = s
        BY <1>1, <3>4
      <4> QED
        BY <3>1, <3>4, <4>1
    <3> QED
      BY <3>2, <3>3, <3>4
  <2> QED
    BY <2>1, <2>2
<1>11. Sequenced(p)
  BY <1>1, <1>9, <1>10 DEF Sequenced
<1> QED
  BY <1>11 DEF p, row
-----------------------------------------------------------------------------
(* NoFalseAlarm: verdicts and steps *)

\* In a sequenced topic the greatest id tracked is the one before.
LEMMA SequencedVerdict ==
    ASSUME NEW q \in Seq(RawRows), NEW t \in Topics, NEW b \in Nat, NEW n \in Nat, b <= n,
           n + 1 <= Len(q), NEW tr \in Trackings, Greatest(q, t, b, n, Entries(tr, t)),
           Sequenced(q), \A i \in 1 .. Len(q) : validateEventShape(q[i]) /\ q[i].type = t
    PROVE  RowFailures(tr, q[n + 1]) \subseteq {"time"}
<1> DEFINE row == q[n + 1]
           e == Entries(tr, t)[row.symbol]
<1>1. /\ row \in RawRows /\ validateEventShape(row) /\ row.type = t /\ Len(q) \in Nat
      /\ n + 1 \in 1 .. Len(q)
  OBVIOUS
<1>2. /\ row.symbol \in Symbols /\ IdOf(row) \in Int /\ FirstIdOf(row) \in Int
      /\ FirstIdOf(row) <= IdOf(row)
  BY <1>1, IdType, ShapeIds
<1>3. e \in Entry
  BY <1>2 DEF Entries, Trackings, Topics
<1>4. e.ok => FirstIdOf(row) = e.last + 1
  <2> SUFFICES ASSUME e.ok PROVE FirstIdOf(row) = e.last + 1
    OBVIOUS
  <2>1. PICK i \in Seen(q, t, b, n, row.symbol) : IdOf(q[i]) = e.last
    BY <1>2 DEF Greatest
  <2>2. i \in 1 .. Len(q) /\ i < n + 1 /\ q[i].symbol = row.symbol /\ i \in Nat
    BY <1>1 DEF Seen
  <2>3. ASSUME NEW m \in (i + 1) .. n, q[m].symbol = row.symbol
        PROVE  FALSE
    <3>1. m \in 1 .. Len(q) /\ i < m /\ m \in (b + 1) .. n
      BY <1>1, <2>1, <2>2 DEF Seen
    <3>2. m \in Seen(q, t, b, n, row.symbol)
      BY <2>3, <3>1, NotRejected DEF Seen
    <3>3. IdOf(q[m]) <= e.last
      BY <1>2, <3>2 DEF Greatest
    <3>4. IdOf(q[i]) < IdOf(q[m])
      BY <2>2, <2>3, <3>1 DEF Sequenced
    <3>5. IdOf(q[m]) \in Int /\ IdOf(q[i]) \in Int
      <4>1. q[m] \in RawRows /\ q[i] \in RawRows
        BY <2>2, <3>1
      <4> QED
        BY <4>1, IdType
    <3> QED
      BY <2>1, <3>3, <3>4, <3>5
  <2>4. (n + 1) - 1 = n
    OBVIOUS
  <2>5. FirstIdOf(q[n + 1]) = IdOf(q[i]) + 1
    BY <1>1, <2>2, <2>3, <2>4 DEF Sequenced
  <2> QED
    BY <2>1, <2>5
<1>5. InScope(row)
  BY <1>1, KafkaAssumption DEF InScope
<1>6. CASE t = "depth"
  <2>1. e = tr.depth[row.symbol] /\ FirstIdOf(row) = row.first /\ IdOf(row) = row.final
    BY <1>1, <1>6 DEF Entries, FirstIdOf, IdOf
  <2>2. RowFailures(tr, row) = checkTime(tr, row) \cup checkDepthSequence(tr, row)
    BY <1>1, <1>5, <1>6 DEF RowFailures
  <2>3. checkDepthSequence(tr, row) = {}
    BY <1>2, <1>3, <1>4, <2>1, SMTT(30) DEF checkDepthSequence, Entry
  <2> QED
    BY <2>2, <2>3 DEF checkTime
<1>7. CASE t = "trade"
  <2>1. e = tr.trade[row.symbol] /\ FirstIdOf(row) = row.trade /\ IdOf(row) = row.trade
    BY <1>1, <1>7 DEF Entries, FirstIdOf, IdOf
  <2>2. RowFailures(tr, row) = checkTime(tr, row) \cup checkTradeSequence(tr, row)
    BY <1>1, <1>5, <1>7 DEF RowFailures
  <2>3. checkTradeSequence(tr, row) = {}
    BY <1>2, <1>3, <1>4, <2>1 DEF checkTradeSequence, Entry
  <2> QED
    BY <2>2, <2>3 DEF checkTime
<1> QED
  BY <1>6, <1>7 DEF Topics

TwoTypes == \E l, n \in DOMAIN file : RawTopic(file[l]) # RawTopic(file[n])

\* The verdict the consumer is about to give on a record of a clean file.
LEMMA CalmVerdict ==
    ASSUME KafkaInv, VerdictInv, CalmInv, Calm, NEW t \in Topics, Pending(t)
    PROVE  LET kinds == Kinds(t, done[t] + 1) IN
           kinds \subseteq {"time"} /\ (kinds # {} => TwoTypes)
<1> DEFINE n == done[t]
           row == log[t][n + 1]
           tr == state.track
<1>1. /\ n \in Nat /\ n + 1 \in 1 .. Len(log[t]) /\ n + 1 <= Len(log[t])
  BY PendingVerdict DEF Offsets
<1>2. /\ log \in [Topics -> Seq(RawRows)] /\ log[t] \in Seq(RawRows) /\ tr \in Trackings
      /\ file \in Seq(RawRows) /\ done \in [Topics -> Nat] /\ head \in [Topics -> Nat]
      /\ starts[t] \in SUBSET Nat
  BY DEF KafkaInv, Positions, VerdictInv, LogType
<1>3. PICK N \in 0 .. Len(file) : PublishedTo(N)
  BY DEF CalmInv
<1>4. \A u \in Topics : \A i \in 1 .. Len(log[u]) :
          /\ validateEventShape(log[u][i]) /\ log[u][i].type = u
          /\ \E l \in DOMAIN file : file[l] = log[u][i]
  <2> SUFFICES ASSUME NEW u \in Topics, NEW i \in 1 .. Len(log[u])
               PROVE  /\ validateEventShape(log[u][i]) /\ log[u][i].type = u
                      /\ \E l \in DOMAIN file : file[l] = log[u][i]
    OBVIOUS
  <2>1. PICK f : Copied(log[u], u, file, N, f)
    BY <1>3 DEF PublishedTo
  <2>2. f[i] \in 1 .. N /\ log[u][i] = file[f[i]] /\ log[u][i].type = u
    BY <2>1 DEF Copied
  <2>3. f[i] \in DOMAIN file
    BY <1>2, <1>3, <2>2
  <2> QED
    BY <2>2, <2>3 DEF Calm, Clean
<1>5. Rejected(t, row) = {} /\ InScope(row)
  BY <1>1, <1>4, NotRejected, KafkaAssumption DEF InScope
<1>6. Kinds(t, n + 1) = RowFailures(tr, row)
  BY <1>5 DEF Kinds
<1>7. RowFailures(tr, row) \subseteq {"time"}
  <2>1. PICK b \in starts[t] : b <= n /\ Tracks(t, b)
    BY DEF VerdictInv
  <2>2. b \in Nat /\ Greatest(log[t], t, b, n, Entries(tr, t))
    BY <1>2, <2>1 DEF Tracks
  <2>3. Sequenced(log[t]) /\ \A i \in 1 .. Len(log[t]) :
                                validateEventShape(log[t][i]) /\ log[t][i].type = t
    BY <1>3, <1>4 DEF PublishedTo
  <2> QED
    BY <1>1, <1>2, <2>1, <2>2, <2>3, SequencedVerdict
<1>8. ASSUME "time" \in RowFailures(tr, row)
      PROVE  TwoTypes
  <2>0. row \in RawRows /\ row.symbol \in Symbols /\ row.type = t /\ row.time \in Int
    <3>1. row \in RawRows /\ row.type = t
      BY <1>1, <1>2, <1>4
    <3> QED
      BY <3>1, IdType
  <2>1. tr.time[row.symbol].ok /\ row.time < tr.time[row.symbol].last
    BY <1>5, <1>8 DEF RowFailures, InScope, checkTime, checkDepthSequence, checkTradeSequence
  <2>2. PICK u \in Topics : \E i \in 1 .. done[u] :
             log[u][i].symbol = row.symbol /\ log[u][i].time = tr.time[row.symbol].last
    BY <2>0, <2>1 DEF VerdictInv, TimeTracked
  <2>3. PICK i \in 1 .. done[u] :
             log[u][i].symbol = row.symbol /\ log[u][i].time = tr.time[row.symbol].last
    BY <2>2
  <2>4. i \in 1 .. Len(log[u])
    <3>1. done[u] \in Nat /\ head[u] \in Nat /\ Len(log[u]) \in Nat
      BY <1>2
    <3>2. done[u] <= head[u] /\ head[u] <= Len(log[u])
      BY DEF VerdictInv, Reached
    <3> QED
      BY <3>1, <3>2
  <2>5. u # t
    <3> SUFFICES ASSUME u = t PROVE FALSE
      OBVIOUS
    <3>1. i \in 1 .. Len(log[t]) /\ i < n + 1
      BY <1>1, <2>4
    <3>2. log[t][i].time <= row.time
      BY <1>1, <1>3, <2>3, <3>1 DEF PublishedTo, Sequenced
    <3>3. log[t][i].time \in Int
      BY <1>2, <3>1, IdType
    <3> QED
      <4> DEFINE x == log[t][i].time
                 y == row.time
      <4>1. x \in Int /\ y \in Int /\ x <= y
        BY <2>0, <3>2, <3>3, Zenon
      <4>2. y < x
        BY <2>1, <2>3, Zenon
      <4> HIDE DEF x, y
      <4> QED
        BY <4>1, <4>2
  <2>6. PICK l \in DOMAIN file : file[l] = row
    BY <1>1, <1>4
  <2>7. PICK k \in DOMAIN file : file[k] = log[u][i]
    BY <1>4, <2>4
  <2>8. RawTopic(file[l]) # RawTopic(file[k])
    BY <1>4, <2>0, <2>4, <2>5, <2>6, <2>7 DEF RawTopic
  <2> QED
    BY <2>8 DEF TwoTypes
<1> QED
  BY <1>6, <1>7, <1>8

\* The file and the counters never go back: a calm run has been calm.
LEMMA StaysCalm ==
    ASSUME VerdictInv, [Next]_vars
    PROVE  (Calm' => Calm) /\ file' = file
<1>0. pub \in [runs : Nat, active : BOOLEAN, line : Nat] /\ foreign \in Nat
  BY DEF VerdictInv, LogType
<1>1. CASE BeginPublish
  BY <1>0, <1>1 DEF BeginPublish, Calm
<1>2. CASE Publish \/ EndPublish
  BY <1>0, <1>2 DEF Publish, EndPublish, Calm
<1>3. ASSUME NEW t \in Topics, NEW row \in ForeignRows, Foreign(t, row)
      PROVE  (Calm' => Calm) /\ file' = file
  BY <1>0, <1>3 DEF Foreign, Calm
<1>4. CASE UNCHANGED <<file, pub, log, foreign>>
  BY <1>4 DEF Calm
<1> QED
  BY <1>1, <1>2, <1>3, <1>4 DEF Next, vars, PollFetches, AutoCommit, StopConsumer,
     StartConsumer, Route

\* Publishing one more line of a clean file.
LEMMA PublishedNext ==
    ASSUME VerdictInv, Calm, pub.active, PublishedTo(pub.line), pub.line < Len(file),
           Appends(RawTopic(file[pub.line + 1]), Marshal(file[pub.line + 1])), file' = file
    PROVE  \A t \in Topics : /\ Sequenced(log'[t])
                             /\ \E f : Copied(log'[t], t, file, pub.line + 1, f)
<1> DEFINE n == pub.line
           row == file[n + 1]
<1>1. n \in Nat /\ file \in Seq(RawRows) /\ log \in [Topics -> Seq(RawRows)]
  BY DEF VerdictInv, LogType
<1>2. row \in RawRows /\ n + 1 \in DOMAIN file /\ n + 1 <= Len(file)
  BY <1>1
<1>3. validateEventShape(row) /\ Marshal(row) = row /\ row.type \in Topics
  BY <1>2 DEF Calm, Clean, Encodable, validateEventShape, Topics
<1>4. log'[row.type] = Append(log[row.type], row) /\ \A t \in Topics \ {row.type} : log'[t] = log[t]
  BY <1>1, <1>3 DEF Appends, RawTopic
<1> SUFFICES ASSUME NEW t \in Topics
             PROVE  Sequenced(log'[t]) /\ \E f : Copied(log'[t], t, file, n + 1, f)
  OBVIOUS
<1>5. PICK f : Copied(log[t], t, file, n, f)
  BY DEF PublishedTo
<1>6. Sequenced(log[t]) /\ log[t] \in Seq(RawRows) /\ Clean(file)
  BY <1>1 DEF PublishedTo, Calm
<1>7. CASE t = row.type
  <2>1. Sequenced(Append(log[t], file[n + 1]))
    BY <1>1, <1>2, <1>5, <1>6, <1>7, SequencedNext
  <2>2. \E g : Copied(Append(log[t], file[n + 1]), t, file, n + 1, g)
    BY <1>1, <1>2, <1>5, <1>6, <1>7, CopiedNext
  <2> QED
    BY <1>4, <1>7, <2>1, <2>2
<1>8. CASE t # row.type
  <2>1. Copied(log[t], t, file, n + 1, f)
    BY <1>1, <1>2, <1>5, <1>6, <1>8, CopiedSkip
  <2> QED
    BY <1>4, <1>6, <1>8, <2>1
<1> QED
  BY <1>7, <1>8
\* The publisher keeps the topics of a calm run copies of the file.
LEMMA CalmTopics ==
    ASSUME VerdictInv, CalmInv, [Next]_vars, Calm, Calm'
    PROVE  \E n \in 0 .. Len(file) : PublishedTo(n)'
<1>0. /\ pub \in [runs : Nat, active : BOOLEAN, line : Nat] /\ foreign \in Nat
      /\ file \in Seq(RawRows) /\ Len(file) \in Nat /\ file' = file
  BY StaysCalm DEF VerdictInv, LogType
<1>1. PICK n \in 0 .. Len(file) : PublishedTo(n)
  BY DEF CalmInv
<1>2. CASE BeginPublish
  <2>1. pub.runs = 0 /\ pub'.line = 0 /\ pub'.runs # 0 /\ UNCHANGED log
    BY <1>0, <1>2 DEF BeginPublish, Calm
  <2>2. n = 0
    BY <1>1, <2>1 DEF PublishedTo
  <2>3. PublishedTo(n)'
    BY <1>0, <1>1, <2>1, <2>2 DEF PublishedTo
  <2> QED
    BY <2>3
<1>3. ASSUME pub.active, pub.line < Len(file), pub'.active => pub'.line = pub.line + 1,
             pub'.runs = pub.runs,
             Appends(RawTopic(file[pub.line + 1]), Marshal(file[pub.line + 1]))
      PROVE  \E k \in 0 .. Len(file) : PublishedTo(k)'
  <2>1. n = pub.line /\ pub.runs # 0
    BY <1>0, <1>1, <1>3 DEF PublishedTo, CalmInv
  <2>2. \A t \in Topics : /\ Sequenced(log'[t])
                          /\ \E f : Copied(log'[t], t, file, n + 1, f)
    BY <1>0, <1>1, <1>3, <2>1, PublishedNext
  <2>3. n + 1 \in 0 .. Len(file)
    BY <1>0, <1>3, <2>1
  <2>4. PublishedTo(n + 1)'
    BY <1>0, <1>3, <2>1, <2>2 DEF PublishedTo
  <2> QED
    BY <2>3, <2>4
<1>4. CASE Publish
  BY <1>0, <1>3, <1>4 DEF Publish, Appends
<1>5. CASE EndPublish
  <2>1. pub.active /\ pub'.runs = pub.runs /\ ~pub'.active
    BY <1>0, <1>5 DEF EndPublish
  <2>2. CASE UNCHANGED log
    <3>1. PublishedTo(n)'
      BY <1>0, <1>1, <2>1, <2>2 DEF PublishedTo
    <3> QED
      BY <3>1
  <2>3. CASE ~UNCHANGED log
    BY <1>3, <1>5, <2>1, <2>3 DEF EndPublish, Appends
  <2> QED
    BY <2>2, <2>3
<1>6. ASSUME NEW t \in Topics, NEW row \in ForeignRows, Foreign(t, row)
      PROVE  FALSE
  BY <1>0, <1>6 DEF Foreign, Calm
<1>7. CASE UNCHANGED <<file, pub, log, foreign>>
  <2>1. PublishedTo(n)'
    BY <1>1, <1>7 DEF PublishedTo
  <2> QED
    BY <2>1
<1> QED
  BY <1>2, <1>4, <1>5, <1>6, <1>7 DEF Next, vars, PollFetches, AutoCommit, StopConsumer,
     StartConsumer, Route

\* A step routes nothing new, or the record the consumer is at.
LEMMA RoutedStep ==
    ASSUME [Next]_vars, NEW r \in routed', r \notin routed
    PROVE  \E t \in Topics : Pending(t) /\ r = <<t, done[t] + 1, Kinds(t, done[t] + 1)>>
<1>1. CASE UNCHANGED routed
  BY <1>1
<1>2. CASE StopConsumer
  BY <1>2 DEF StopConsumer
<1>3. ASSUME NEW t \in Topics, Route(t)
      PROVE  Pending(t) /\ r = <<t, done[t] + 1, Kinds(t, done[t] + 1)>>
  BY <1>3 DEF Route
<1> QED
  BY <1>1, <1>2, <1>3 DEF Next, vars, consumerVars, BeginPublish, Publish, EndPublish, Foreign,
     PollFetches, AutoCommit, StartConsumer

LEMMA CalmStep ==
    ASSUME KafkaInv, VerdictInv, CalmInv, [Next]_vars
    PROVE  CalmInv'
<1>1. (Calm' => Calm) /\ file' = file
  BY StaysCalm
<1>2. pub'.active => pub'.runs > 0
  <2>1. pub \in [runs : Nat, active : BOOLEAN, line : Nat]
    BY DEF VerdictInv, LogType
  <2>2. CASE BeginPublish
    BY <2>1, <2>2 DEF BeginPublish
  <2>3. CASE Publish \/ EndPublish
    BY <2>1, <2>3 DEF Publish, EndPublish, CalmInv
  <2>4. CASE UNCHANGED pub
    BY <2>4 DEF CalmInv
  <2> QED
    BY <2>2, <2>3, <2>4 DEF Next, vars, Foreign, PollFetches, AutoCommit, StopConsumer,
       StartConsumer, Route
<1>3. Calm' => \E n \in 0 .. Len(file') : PublishedTo(n)'
  BY <1>1, CalmTopics
<1>4. NoFalseAlarm'
  <2> SUFFICES ASSUME Calm', NEW r \in routed'
               PROVE  r[3] \subseteq {"time"} /\ (r[3] # {} => TwoTypes')
    BY DEF NoFalseAlarm, Calm, TwoTypes
  <2>1. TwoTypes' <=> TwoTypes
    BY <1>1 DEF TwoTypes
  <2>2. CASE r \in routed
    BY <1>1, <2>1, <2>2 DEF CalmInv, NoFalseAlarm, Calm, TwoTypes
  <2>3. CASE r \notin routed
    <3>1. PICK t \in Topics : Pending(t) /\ r = <<t, done[t] + 1, Kinds(t, done[t] + 1)>>
      BY <2>3, RoutedStep
    <3>2. r[3] = Kinds(t, done[t] + 1)
      BY <3>1
    <3> QED
      BY <1>1, <2>1, <3>1, <3>2, CalmVerdict
  <2> QED
    BY <2>2, <2>3
<1> QED
  BY <1>2, <1>3, <1>4 DEF CalmInv

LEMMA CalmInit == Init => CalmInv
<1> SUFFICES ASSUME Init PROVE CalmInv
  OBVIOUS
<1>1. file \in Seq(RawRows) /\ 0 \in 0 .. Len(file)
  BY KafkaAssumption DEF Init
<1>2. ASSUME NEW t \in Topics
      PROVE  Sequenced(log[t]) /\ \E f : Copied(log[t], t, file, 0, f)
  <2>1. log[t] = <<>> /\ Len(log[t]) = 0 /\ 1 .. Len(log[t]) = {} /\ 1 .. 0 = {}
    BY DEF Init
  <2>2. [i \in {} |-> 0] \in [{} -> {}]
    OBVIOUS
  <2>3. Copied(log[t], t, file, 0, [i \in {} |-> 0])
    BY <2>1, <2>2 DEF Copied
  <2>4. Sequenced(log[t])
    BY <2>1 DEF Sequenced
  <2> QED
    BY <2>3, <2>4
<1>3. PublishedTo(0)
  BY <1>2 DEF PublishedTo, Init
<1>4. routed = {} /\ ~pub.active
  BY DEF Init
<1> QED
  BY <1>1, <1>3, <1>4 DEF CalmInv, NoFalseAlarm

(***************************************************************************)
(* A clean file published once raises no alarm, through any restarts,      *)
(* redeliveries and batches, but for the time of a record in a file of     *)
(* both types, whose topics share lastTime (validator.go 85).              *)
(***************************************************************************)
THEOREM CleanFileStaysClean == Spec => []NoFalseAlarm
<1>1. KafkaInv /\ VerdictInv /\ [Next]_vars => VerdictInv'
  BY VerdictStep
<1>2. KafkaInv /\ VerdictInv /\ CalmInv /\ [Next]_vars => CalmInv'
  BY CalmStep
<1>3. CalmInv => NoFalseAlarm
  BY DEF CalmInv
<1> QED
  BY <1>1, <1>2, <1>3, CalmInit, VerdictInit, KafkaInit, KafkaStep, PTL DEF Spec
=============================================================================
