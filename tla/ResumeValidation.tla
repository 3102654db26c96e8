-------------------------- MODULE ResumeValidation --------------------------
(***************************************************************************)
(* What a retried replay job sees of the file.  processFile builds a fresh *)
(* validator on every attempt, primes it with the rows up to the           *)
(* checkpoint and processes the rest.  Three validators read the same file *)
(* in lockstep, one row at a time:                                         *)
(*                                                                         *)
(*   whole    never interrupted: processes every row                       *)
(*   before   the attempt that wrote the checkpoint: processes the rows up *)
(*            to the checkpoint and then dies                              *)
(*   resumed  the retry: primes the rows up to the checkpoint, processes   *)
(*            the rest                                                     *)
(***************************************************************************)
EXTENDS Validate

CONSTANTS
    Rows,      \* the raw rows a file may hold
    MaxLines   \* bound: the longest file

ASSUME RowsAssumption == Rows \subseteq RawRows
ASSUME MaxLinesAssumption == MaxLines \in Nat

VARIABLES whole, before, resumed, line, checkpoint
vars == <<whole, before, resumed, line, checkpoint>>

Init ==
    /\ whole = NewValidator /\ before = NewValidator /\ resumed = NewValidator
    /\ line = 0
    /\ checkpoint \in 0 .. MaxLines

\* One turn of the loop of processFile for a row up to the checkpoint ...
PrimeRow(row) ==
    /\ line + 1 <= checkpoint
    /\ before' = Process(before, line + 1, row)
    /\ resumed' = Prime(resumed, row)

\* Mutant: the line counter is advanced before the row is judged.
ProcessRowCountedFirst(row) ==
    /\ line + 1 > checkpoint
    /\ resumed' = Process(resumed, line + 2, row)
    /\ UNCHANGED before

\* ... and for a row after it.
ProcessRow(row) ==
    /\ line + 1 > checkpoint
    /\ resumed' = Process(resumed, line + 1, row)
    /\ UNCHANGED before

NextRow(row) ==
    /\ line < MaxLines
    /\ PrimeRow(row) \/ ProcessRow(row)
    /\ whole' = Process(whole, line + 1, row)
    /\ line' = line + 1
    /\ UNCHANGED checkpoint

Next == \E row \in Rows : NextRow(row)
Spec == Init /\ [][Next]_vars

-----------------------------------------------------------------------------
\* Validators, and a failure names a row that has been read: the line of a
\* Record is the number of the row it came from (parser.Stream.Next).
TypeOK ==
    /\ \A v \in {whole, before, resumed} :
          v \in Validators /\ \A f \in v.failures : f[1] \in 1 .. line
    /\ line \in 0 .. MaxLines /\ checkpoint \in 0 .. MaxLines

(***************************************************************************)
(* Priming rebuilds exactly the per-symbol state an uninterrupted run has  *)
(* at the same row, so the first row after the checkpoint is judged        *)
(* against the right predecessor (handler.go 276-280, Prime vs Process).   *)
(***************************************************************************)
PrimedStateMatches == resumed.track = whole.track

(***************************************************************************)
(* The interrupted attempt and the retry together report what one          *)
(* uninterrupted run reports: every failure once, on the side of the       *)
(* checkpoint its row is on, and every row and event counted once.         *)
(***************************************************************************)
AttemptsPartition ==
    /\ whole.failures = before.failures \cup resumed.failures
    /\ \A f \in before.failures : f[1] <= checkpoint
    /\ \A f \in resumed.failures : f[1] > checkpoint
    /\ whole.rows = before.rows + resumed.rows
    /\ whole.events = before.events + resumed.events
=============================================================================
