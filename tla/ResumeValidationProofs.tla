----------------------- MODULE ResumeValidationProofs -----------------------
(***************************************************************************)
(* A resumed validator agrees with an uninterrupted one, for every file    *)
(* length, checkpoint, symbol set and symbol filter, provided every depth  *)
(* row that becomes an event carries a positive final_update_id (trade ids *)
(* and times are positive by validateEventShape).                          *)
(***************************************************************************)
EXTENDS ResumeValidation, TLAPS

PositiveDepthIds == \A row \in Rows : row.type = "depth" => row.final > 0

\* An absent map key reads as 0: what lets Prime's one-value lookup stand
\* for the two-value lookup of the check functions.
ZeroWhenMissing(t) ==
    \A s \in Symbols : /\ ~t.time[s].ok => t.time[s].last = 0
                       /\ ~t.depth[s].ok => t.depth[s].last = 0
                       /\ ~t.trade[s].ok => t.trade[s].last = 0

\* While the rows are still being primed, the dying attempt is the whole run
\* so far and the retry has recorded nothing.
BeforeCheckpoint ==
    line <= checkpoint =>
        /\ before = whole
        /\ resumed.rows = 0 /\ resumed.events = 0 /\ resumed.failures = {}

ResumeInv ==
    /\ TypeOK
    /\ PrimedStateMatches
    /\ ZeroWhenMissing(whole.track)
    /\ BeforeCheckpoint
    /\ AttemptsPartition

LEMMA NewValidatorType == NewValidator \in Validators /\ ZeroWhenMissing(NewValidator.track)
BY DEF NewValidator, Validators, Trackings, Entry, Missing, ZeroWhenMissing

\* The failure kinds of a row depend on the tracking state only, and are kinds.
LEMMA RowFailuresType ==
    ASSUME NEW t, NEW row PROVE RowFailures(t, row) \subseteq FailureKinds
BY DEF RowFailures, checkTime, checkDepthSequence, checkTradeSequence, FailureKinds

-----------------------------------------------------------------------------
(* Types, for rows of any kind *)

LEMMA TrackType ==
    ASSUME NEW t \in Trackings, NEW row \in RawRows
    PROVE  Track(t, row, Checked) \in Trackings /\ Track(t, row, Raised) \in Trackings
<1>1. ASSUME NEW e \in Entry, NEW x \in Int
      PROVE  Checked(e, x) \in Entry /\ Raised(e, x) \in Entry
  BY DEF Checked, Raised, Present, Entry
<1>2. /\ t.time \in [Symbols -> Entry] /\ t.depth \in [Symbols -> Entry]
      /\ t.trade \in [Symbols -> Entry]
      /\ row.symbol \in Symbols /\ row.time \in Int /\ row.final \in Int /\ row.trade \in Int
  BY DEF Trackings, RawRows
<1>3. /\ Checked(t.time[row.symbol], row.time) \in Entry
      /\ Raised(t.time[row.symbol], row.time) \in Entry
      /\ Checked(t.depth[row.symbol], row.final) \in Entry
      /\ Raised(t.depth[row.symbol], row.final) \in Entry
      /\ Checked(t.trade[row.symbol], row.trade) \in Entry
      /\ Raised(t.trade[row.symbol], row.trade) \in Entry
  BY <1>1, <1>2
<1> QED
  BY <1>2, <1>3 DEF Track, Trackings

\* A validator, and a failure names one of the first n rows.
Read(v, n) == v \in Validators /\ \A f \in v.failures : f[1] \in 1 .. n

LEMMA ReadStep ==
    ASSUME NEW n \in Nat, NEW v, Read(v, n), NEW row \in RawRows
    PROVE  Read(v, n + 1) /\ Read(Process(v, n + 1, row), n + 1) /\ Read(Prime(v, row), n + 1)
<1>1. v \in Validators /\ v.track \in Trackings
  BY DEF Read, Validators
<1>2. RowFailures(v.track, row) \subseteq FailureKinds
  BY RowFailuresType
<1>3. /\ Track(v.track, row, Checked) \in Trackings
      /\ Track(v.track, row, Raised) \in Trackings
  BY <1>1, TrackType
<1>4. {n + 1} \X RowFailures(v.track, row) \in SUBSET (Int \X FailureKinds)
  BY <1>2
<1>5. Process(v, n + 1, row) \in Validators
  BY <1>1, <1>3, <1>4 DEF Process, Validators
<1>6. Prime(v, row) \in Validators /\ Prime(v, row).failures = v.failures
  BY <1>1, <1>3 DEF Prime, Validators
<1>7. Process(v, n + 1, row).failures = v.failures \cup ({n + 1} \X RowFailures(v.track, row))
  BY DEF Process
<1>8. \A f \in v.failures : f[1] \in 1 .. n + 1
  BY DEF Read
<1>9. \A f \in {n + 1} \X RowFailures(v.track, row) : f[1] \in 1 .. n + 1
  OBVIOUS
<1> QED
  BY <1>1, <1>5, <1>6, <1>7, <1>8, <1>9 DEF Read

LEMMA TypeInit == Init => TypeOK
<1>1. NewValidator.failures = {}
  BY DEF NewValidator
<1> QED
  BY <1>1, NewValidatorType, MaxLinesAssumption DEF Init, TypeOK

LEMMA TypeStep == ASSUME TypeOK, [Next]_vars PROVE TypeOK'
<1>1. CASE UNCHANGED vars
  BY <1>1 DEF vars, TypeOK
<1>2. ASSUME NEW row \in Rows, NextRow(row) PROVE TypeOK'
  <2>1. /\ row \in RawRows /\ line \in Nat /\ line < MaxLines
        /\ line' = line + 1 /\ checkpoint' = checkpoint
    BY <1>2, RowsAssumption, MaxLinesAssumption DEF NextRow, TypeOK
  <2>2. Read(whole, line) /\ Read(before, line) /\ Read(resumed, line)
    BY DEF TypeOK, Read
  <2>3. /\ Read(Process(whole, line + 1, row), line + 1)
        /\ Read(Process(before, line + 1, row), line + 1)
        /\ Read(Process(resumed, line + 1, row), line + 1)
        /\ Read(Prime(resumed, row), line + 1)
        /\ Read(before, line + 1)
    BY <2>1, <2>2, ReadStep
  <2>4. Read(whole', line') /\ Read(before', line') /\ Read(resumed', line')
    BY <1>2, <2>1, <2>3 DEF NextRow, PrimeRow, ProcessRow
  <2>5. line' \in 0 .. MaxLines /\ checkpoint' \in 0 .. MaxLines
    BY <2>1, MaxLinesAssumption DEF TypeOK
  <2> QED
    BY <2>4, <2>5 DEF TypeOK, Read
<1> QED
  BY <1>1, <1>2 DEF Next

\* Process and Prime keep the validators in their types, and every failure
\* names a row already read: whatever the rows are, ids of zero and below
\* included, and for files of any length.
THEOREM ValidatorsTyped == Spec => []TypeOK
<1>1. TypeOK /\ [Next]_vars => TypeOK'
  BY TypeStep
<1> QED
  BY <1>1, TypeInit, PTL DEF Spec

-----------------------------------------------------------------------------
(* Resuming *)

\* For a positive value Prime's update and the check functions' agree.
LEMMA AbsorbAgree ==
    ASSUME NEW e \in Entry, NEW x \in Int, x > 0, ~e.ok => e.last = 0
    PROVE  /\ Checked(e, x) = Raised(e, x)
           /\ Checked(e, x) \in Entry
           /\ ~Checked(e, x).ok => Checked(e, x).last = 0
BY DEF Checked, Raised, Present, Entry

\* A row of an accepted file is tracked alike by Process and by Prime.
LEMMA TrackAgree ==
    ASSUME NEW t \in Trackings, ZeroWhenMissing(t), NEW row \in RawRows,
           row.type = "depth" => row.final > 0
    PROVE  /\ Track(t, row, Checked) = Track(t, row, Raised)
           /\ Track(t, row, Checked) \in Trackings
           /\ ZeroWhenMissing(Track(t, row, Checked))
<1>1. CASE ~InScope(row)
  BY <1>1 DEF Track
<1>2. CASE InScope(row)
  <2>1. /\ row.symbol \in Symbols /\ row.time \in Int /\ row.time > 0
        /\ row.final \in Int /\ row.trade \in Int
        /\ row.type \in {"depth", "trade"}
        /\ row.type = "depth" => row.final > 0
        /\ row.type = "trade" => row.trade > 0
    BY <1>2 DEF InScope, validateEventShape, RawRows
  <2>2. /\ t.time \in [Symbols -> Entry] /\ t.depth \in [Symbols -> Entry]
        /\ t.trade \in [Symbols -> Entry]
    BY DEF Trackings
  <2>3. /\ Checked(t.time[row.symbol], row.time)
             = Raised(t.time[row.symbol], row.time)
        /\ Checked(t.time[row.symbol], row.time) \in Entry
        /\ ~Checked(t.time[row.symbol], row.time).ok
             => Checked(t.time[row.symbol], row.time).last = 0
    BY <2>1, <2>2, AbsorbAgree DEF ZeroWhenMissing
  <2>4. CASE row.type = "depth"
    <3>1. /\ Checked(t.depth[row.symbol], row.final)
               = Raised(t.depth[row.symbol], row.final)
          /\ Checked(t.depth[row.symbol], row.final) \in Entry
          /\ ~Checked(t.depth[row.symbol], row.final).ok
               => Checked(t.depth[row.symbol], row.final).last = 0
      BY <2>1, <2>2, <2>4, AbsorbAgree DEF ZeroWhenMissing
    <3> QED
      BY <1>2, <2>1, <2>2, <2>3, <2>4, <3>1 DEF Track, ZeroWhenMissing, Trackings
  <2>5. CASE row.type = "trade"
    <3>1. /\ Checked(t.trade[row.symbol], row.trade)
               = Raised(t.trade[row.symbol], row.trade)
          /\ Checked(t.trade[row.symbol], row.trade) \in Entry
          /\ ~Checked(t.trade[row.symbol], row.trade).ok
               => Checked(t.trade[row.symbol], row.trade).last = 0
      BY <2>1, <2>2, <2>5, AbsorbAgree DEF ZeroWhenMissing
    <3> QED
      BY <1>2, <2>1, <2>2, <2>3, <2>5, <3>1 DEF Track, ZeroWhenMissing, Trackings
  <2> QED
    BY <2>1, <2>4, <2>5
<1> QED
  BY <1>1, <1>2

LEMMA ProcessType ==
    ASSUME NEW v \in Validators, ZeroWhenMissing(v.track), NEW row \in RawRows,
           row.type = "depth" => row.final > 0, NEW n \in Int
    PROVE  /\ Process(v, n, row) \in Validators
           /\ Prime(v, row) \in Validators
           /\ Process(v, n, row).track = Track(v.track, row, Checked)
           /\ Prime(v, row).track = Process(v, n, row).track
           /\ ZeroWhenMissing(Process(v, n, row).track)
<1>1. v.track \in Trackings
  BY DEF Validators
<1>2. {n} \X RowFailures(v.track, row) \in SUBSET (Int \X FailureKinds)
  BY RowFailuresType
<1>3. /\ Track(v.track, row, Checked) = Track(v.track, row, Raised)
      /\ Track(v.track, row, Checked) \in Trackings
      /\ ZeroWhenMissing(Track(v.track, row, Checked))
  BY <1>1, TrackAgree
<1>4. /\ Process(v, n, row).track = Track(v.track, row, Checked)
      /\ Prime(v, row).track = Track(v.track, row, Raised)
  BY DEF Process, Prime, Validators
<1>5. Process(v, n, row) \in Validators
  BY <1>2, <1>3 DEF Process, Validators
<1>6. Prime(v, row) \in Validators
  BY <1>3 DEF Prime, Validators
<1> QED
  BY <1>3, <1>4, <1>5, <1>6

(***************************************************************************)
(* The retry of an interrupted replay judges every row as an uninterrupted *)
(* run would, and the two attempts split its report at the checkpoint.     *)
(***************************************************************************)
THEOREM ResumeAgrees ==
    ASSUME PositiveDepthIds
    PROVE  Spec => [](TypeOK /\ PrimedStateMatches /\ AttemptsPartition)
<1>1. Init => ResumeInv
  <2> SUFFICES ASSUME Init PROVE ResumeInv
    OBVIOUS
  <2>1. TypeOK
    BY TypeInit
  <2>2. NewValidator.failures = {} /\ NewValidator.rows = 0 /\ NewValidator.events = 0
    BY DEF NewValidator
  <2> QED
    BY <2>1, <2>2, NewValidatorType
    DEF Init, ResumeInv, PrimedStateMatches, BeforeCheckpoint, AttemptsPartition
<1>2. ResumeInv /\ [Next]_vars => ResumeInv'
  <2> SUFFICES ASSUME ResumeInv, [Next]_vars PROVE ResumeInv'
    OBVIOUS
  <2>1. CASE UNCHANGED vars
    BY <2>1 DEF vars, ResumeInv, TypeOK, PrimedStateMatches, BeforeCheckpoint,
                AttemptsPartition, ZeroWhenMissing
  <2>2. CASE Next
    <3>1. PICK row \in Rows : NextRow(row)
      BY <2>2 DEF Next
    <3>2. row \in RawRows /\ (row.type = "depth" => row.final > 0)
      BY <3>1, RowsAssumption DEF PositiveDepthIds
    <3>3. /\ whole \in Validators /\ before \in Validators /\ resumed \in Validators
          /\ line \in Int /\ line + 1 \in Int /\ checkpoint \in Int
          /\ resumed.track = whole.track
          /\ ZeroWhenMissing(whole.track) /\ ZeroWhenMissing(resumed.track)
      BY MaxLinesAssumption DEF ResumeInv, TypeOK, PrimedStateMatches
    <3>4. /\ whole' \in Validators /\ ZeroWhenMissing(whole'.track)
          /\ whole'.track = Track(whole.track, row, Checked)
      BY <3>1, <3>2, <3>3, ProcessType DEF NextRow
    <3>5. TypeOK'
      BY TypeStep DEF ResumeInv
    <3>6. /\ \A f \in whole'.failures : f[1] \in Int /\ f[1] <= line'
          /\ line' = line + 1
      BY <3>1, <3>3, <3>5 DEF NextRow, TypeOK
    <3>7. CASE line + 1 <= checkpoint
      <4>1. /\ before' = Process(before, line + 1, row) /\ before = whole
            /\ resumed' = Prime(resumed, row)
            /\ whole' = Process(whole, line + 1, row)
            /\ resumed.rows = 0 /\ resumed.events = 0 /\ resumed.failures = {}
        BY <3>1, <3>3, <3>7 DEF NextRow, PrimeRow, ProcessRow, ResumeInv, BeforeCheckpoint
      <4>2. /\ resumed' \in Validators /\ resumed'.track = whole'.track
        BY <3>2, <3>3, <3>4, <4>1, ProcessType
      <4>3. /\ resumed'.rows = 0 /\ resumed'.events = 0 /\ resumed'.failures = {}
        BY <3>3, <4>1 DEF Prime, Validators
      <4>4. before' = whole'
        BY <4>1
      <4>5. AttemptsPartition'
        <5>1. whole'.rows \in Int /\ whole'.events \in Int
          BY <3>4 DEF Validators
        <5>2. line' = line + 1 /\ checkpoint' = checkpoint
          BY <3>1 DEF NextRow
        <5> QED
          <6>1. \A f \in before'.failures : f[1] <= checkpoint'
            BY <3>3, <3>6, <3>7, <4>4, <5>2
          <6> QED
            BY <4>3, <4>4, <5>1, <6>1 DEF AttemptsPartition
      <4> QED
        BY <3>4, <3>5, <3>6, <4>2, <4>3, <4>4, <4>5
        DEF ResumeInv, PrimedStateMatches, BeforeCheckpoint
    <3>8. CASE line + 1 > checkpoint
      <4>1. /\ before' = before
            /\ resumed' = Process(resumed, line + 1, row)
            /\ whole' = Process(whole, line + 1, row)
            /\ line' = line + 1 /\ checkpoint' = checkpoint
        BY <3>1, <3>3, <3>8 DEF NextRow, PrimeRow, ProcessRow
      <4>2. /\ resumed' \in Validators /\ resumed'.track = whole'.track
        BY <3>2, <3>3, <3>4, <4>1, ProcessType
      <4>3. BeforeCheckpoint'
        BY <3>3, <3>8, <4>1 DEF BeforeCheckpoint
      <4>4. AttemptsPartition'
        <5>1. RowFailures(resumed.track, row) = RowFailures(whole.track, row)
          BY <3>3
        <5>2. /\ whole'.failures = whole.failures \cup ({line + 1} \X RowFailures(whole.track, row))
              /\ resumed'.failures = resumed.failures \cup ({line + 1} \X RowFailures(whole.track, row))
          BY <4>1, <5>1 DEF Process
        <5>3. \A f \in resumed'.failures : f[1] > checkpoint
          BY <3>8, <5>2 DEF ResumeInv, AttemptsPartition
        <5>4. /\ whole'.rows = before'.rows + resumed'.rows
              /\ whole'.events = before'.events + resumed'.events
          BY <3>3, <4>1 DEF Process, ResumeInv, AttemptsPartition, Validators
        <5>5. whole'.failures = before'.failures \cup resumed'.failures
          BY <4>1, <5>2 DEF ResumeInv, AttemptsPartition
        <5> QED
          BY <4>1, <5>3, <5>4, <5>5 DEF ResumeInv, AttemptsPartition
      <4> QED
        BY <3>3, <3>4, <3>5, <3>6, <4>1, <4>2, <4>3, <4>4
        DEF ResumeInv, PrimedStateMatches
    <3> QED
      BY <3>3, <3>7, <3>8
  <2> QED
    BY <2>1, <2>2
<1>3. ResumeInv => TypeOK /\ PrimedStateMatches /\ AttemptsPartition
  BY DEF ResumeInv
<1> QED
  BY <1>1, <1>2, <1>3, PTL DEF Spec

\* What processFile of the interrupted attempt and of its retry report is
\* what one uninterrupted run reports, split at the checkpoint.
THEOREM ReportSplitsAtCheckpoint ==
    ASSUME PositiveDepthIds
    PROVE  Spec => []AttemptsPartition
<1>1. Spec => [](TypeOK /\ PrimedStateMatches /\ AttemptsPartition)
  BY ResumeAgrees
<1> QED
  BY <1>1, PTL
=============================================================================
