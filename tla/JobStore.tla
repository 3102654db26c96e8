------------------------------ MODULE JobStore ------------------------------
(***************************************************************************)
(* The replay-job part of the metadata repository (store.Repository as     *)
(* PostgresRepository implements it): one row per job, the replay_metrics  *)
(* and validation_errors rows written on completion, and the scan          *)
(* statistics of the event file.  Every operator is the effect of one      *)
(* repository call, which Postgres applies atomically: one statement, or   *)
(* the one transaction of CompleteReplayJob.                               *)
(*                                                                         *)
(* A submission that inserts a row draws a fresh uuid, so a job id is the  *)
(* submission that inserted it.  All jobs replay one registered file,      *)
(* whose records are numbered FirstLine .. LastLine: a JSONL file starts   *)
(* at line 1, a CSV file at line 2, after its header.                      *)
(***************************************************************************)
EXTENDS Environment

CONSTANTS
    Key,          \* Key[j]: the idempotency key submission j carries
    NoKey,        \* the empty idempotency key (NULL in the row)
    FirstLine, LastLine,  \* line numbers of the file's records
    BadLines      \* the lines whose record fails validation

ASSUME FileAssumption ==
    /\ FirstLine \in 1 .. 2 /\ LastLine \in Nat /\ LastLine + 1 >= FirstLine
    /\ BadLines \subseteq FirstLine .. LastLine

VARIABLES
    job,       \* replay_jobs: status, checkpoint_line and manifest of each row
    metrics,   \* replay_metrics: how many rows a job has
    errs,      \* validation_errors: how many rows a job has for a line
    scanned    \* event_files: whether sha256, rows and bytes were recorded

storeVars == <<job, metrics, errs, scanned>>

Lines == FirstLine .. LastLine

\* metric.Rows at end of file: the number of the last record, 0 without one.
FileRows == IF LastLine < FirstLine THEN 0 ELSE LastLine

Statuses == {"queued", "running", "completed", "failed", "canceled", "dlq"}

Manifests == [written : BOOLEAN, resume : 0 .. LastLine, errors : SUBSET BadLines]
NoManifest == [written |-> FALSE, resume |-> 0, errors |-> {}]

JobRows == [status : Statuses \cup {"absent"}, checkpoint : 0 .. LastLine,
            manifest : Manifests]
NoRow == [status |-> "absent", checkpoint |-> 0, manifest |-> NoManifest]

StoreInit ==
    /\ job = [j \in Jobs |-> NoRow]
    /\ metrics = [j \in Jobs |-> 0]
    /\ errs = [j \in Jobs |-> [l \in BadLines |-> 0]]
    /\ scanned = FALSE

StoreTypeOK ==
    /\ job \in [Jobs -> JobRows]
    /\ metrics \in [Jobs -> Nat]
    /\ errs \in [Jobs -> [BadLines -> Nat]]
    /\ scanned \in BOOLEAN

Exists(j) == job[j].status # "absent"

\* GetReplayJobByIdempotencyKey: the rows with a non-empty key k.
WithKey(k) == {j \in Jobs : Exists(j) /\ Key[j] = k /\ k # NoKey}

\* The INSERT of CreateReplayJob, once the unique index lets it through.
InsertReplayJob(j) ==
    /\ job' = [job EXCEPT ![j] = [NoRow EXCEPT !.status = "queued"]]
    /\ UNCHANGED <<metrics, errs, scanned>>

UpdateReplayJobStatus(j, status) ==
    /\ job' = [job EXCEPT ![j].status = status]
    /\ UNCHANGED <<metrics, errs, scanned>>

\* Mutant: the checkpoint is overwritten instead of kept at its greatest.
OverwriteReplayCheckpoint(j, line) ==
    /\ job' = [job EXCEPT ![j].checkpoint = line]
    /\ UNCHANGED <<metrics, errs, scanned>>

\* SET checkpoint_line = GREATEST(checkpoint_line, $2)
UpdateReplayCheckpoint(j, line) ==
    /\ job' = [job EXCEPT ![j].checkpoint = IF line > @ THEN line ELSE @]
    /\ UNCHANGED <<metrics, errs, scanned>>

UpdateEventFileStats ==
    /\ scanned' = TRUE
    /\ UNCHANGED <<job, metrics, errs>>

\* Mutant: the resume line is the checkpoint as it is now.
ManifestResumesNow(j, resume, errors) ==
    /\ job' = [job EXCEPT ![j].manifest =
                  [written |-> TRUE, resume |-> job[j].checkpoint, errors |-> errors]]
    /\ UNCHANGED <<metrics, errs, scanned>>

UpdateReplayManifest(j, resume, errors) ==
    /\ job' = [job EXCEPT ![j].manifest =
                  [written |-> TRUE, resume |-> resume, errors |-> errors]]
    /\ UNCHANGED <<metrics, errs, scanned>>

(***************************************************************************)
(* CompleteReplayJob up to its Commit: the status, one metric row and one  *)
(* row per failure in one transaction.  The UPDATE has no condition on the *)
(* status it replaces.                                                     *)
(***************************************************************************)
CompleteReplayJob(j, errors) ==
    /\ job' = [job EXCEPT ![j].status = "completed"]
    /\ metrics' = [metrics EXCEPT ![j] = @ + 1]
    /\ errs' = [errs EXCEPT ![j] =
                  [l \in BadLines |-> IF l \in errors THEN @[l] + 1 ELSE @[l]]]
    /\ UNCHANGED scanned

\* Mutant: a status the schema does not know.
CancelMisspelled(j) == UpdateReplayJobStatus(j, "cancelled")

\* CancelReplayJob: unconditional, whatever status the row has.
CancelReplayJob(j) == UpdateReplayJobStatus(j, "canceled")
=============================================================================
