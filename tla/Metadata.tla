------------------------------ MODULE Metadata ------------------------------
(***************************************************************************)
(* The metadata control plane without a queue: the handlers of the API and *)
(* the calls of the workers, made on the Postgres repository and, in       *)
(* lockstep, on the memory repository the unit tests use, while a reader   *)
(* builds a quality report from Postgres one call at a time.               *)
(*                                                                         *)
(* The workers' calls come in any order, as those of several workers with  *)
(* statements that land late do.  A client's POST /replay-jobs is one step *)
(* on the memory repository; on Postgres a client whose key lookup finds   *)
(* nothing waits for its INSERT while the others go on.                    *)
(***************************************************************************)
EXTENDS Integers, Sequences, FiniteSets, FiniteSetsExt

CONSTANTS
    Clients,     \* concurrent POST /replay-jobs
    Keys, NoKey, \* idempotency keys, and the empty one
    Failures,    \* lists of validation failures an attempt may end with
    LastLine,    \* records of a file
    DayLength,
    MaxDatasets, MaxFiles, MaxCalls  \* bounds: records registered, calls on jobs

ASSUME MetadataAssumption ==
    /\ NoKey \notin Keys
    /\ LastLine \in Nat
    /\ \A errors \in Failures :   \* records are numbered from 1
          errors \in Seq([line : Nat \ {0}, symbol : STRING, type : STRING])

VARIABLES
    pg, mem,    \* the two repositories
    pending,    \* pending[c]: the request whose INSERT is to come, or none
    answer,     \* what the last call was answered with by the two
    now,        \* the clock: how many calls were made on jobs, up to MaxCalls
    report,     \* the report the reader is building
    canceled    \* history: what the two say differently because of cancels

vars == <<pg, mem, pending, answer, now, report, canceled>>

P == INSTANCE PostgresRepository
M == INSTANCE MemoryRepository
R == INSTANCE Reports

NoRequest == [dataset |-> 0, file |-> 0, key |-> NoKey, waiting |-> FALSE]
NoReport == [pc |-> "idle", job |-> 0, status |-> "", metrics |-> 0, errors |-> {}, due |-> {}]
NoAnswer == [pg |-> <<0, 0>>, mem |-> <<0, 0>>, stray |-> FALSE]

Init ==
    /\ pg = P!q!EmptyDb
    /\ mem = M!EmptyMem
    /\ pending = [c \in Clients |-> NoRequest]
    /\ answer = NoAnswer
    /\ now = 0
    /\ report = NoReport
    /\ canceled = <<>>

\* A client may name a record that is not there.
Datasets == 0 .. Len(pg.datasets)
Files == 0 .. Len(pg.files)
Jobs == DOMAIN pg.jobs

Call == now < MaxCalls /\ now' = now + 1

writeStoreError(err) ==
    CASE err = "not_found" -> 404
      [] err = "exists" -> 409
      [] OTHER -> 500

\* The answer of a handler that answers code on success.
Reply(r, code) == <<IF r.err = "nil" THEN code ELSE writeStoreError(r.err), r.id>>

\* Both repositories take what p and m return, and answer.
Both(p, m, code) ==
    /\ pg' = p.db
    /\ mem' = m.db
    /\ answer' = [pg |-> Reply(p, code), mem |-> Reply(m, code), stray |-> FALSE]

-----------------------------------------------------------------------------
(* Handlers of the API *)

createDataset ==
    /\ Len(pg.datasets) < MaxDatasets
    /\ Both(P!CreateDataset(pg, "d"), M!CreateDataset(mem, "d"), 201)
    /\ UNCHANGED <<pending, now, report, canceled>>

createEventFile(d) ==
    /\ Len(pg.files) < MaxFiles
    /\ Both(P!CreateEventFile(pg, d, 0), M!CreateEventFile(mem, d, 0), 201)
    /\ UNCHANGED <<pending, now, report, canceled>>

\* createReplayJob answers a duplicate key with 200 and the job.
Submitted(r) ==
    IF r.err = "exists" THEN <<200, r.id>> ELSE Reply(r, 201)

\* The two statements of Postgres' CreateReplayJob, or only the first one.
Answer(p, m, d, f) ==
    /\ pg' = p.db
    /\ mem' = m.db
    /\ answer' = [pg |-> Submitted(p), mem |-> Submitted(m),
                  stray |-> d = 0 \/ f = 0]
    /\ canceled' = IF Len(p.db.jobs) > Len(canceled)
                   THEN Append(canceled, [times |-> 0, cleared |-> FALSE]) ELSE canceled

createReplayJob(c, d, f, key) ==
    LET found == P!GetReplayJobByIdempotencyKey(pg, key) IN
    /\ ~pending[c].waiting
    /\ Call
    /\ IF key # NoKey /\ found.err = "nil"
       THEN /\ Answer([found EXCEPT !.err = "exists"],
                      M!CreateReplayJob(mem, d, f, key), d, f)
            /\ UNCHANGED pending
       ELSE /\ pending' = [pending EXCEPT ![c] =
                  [dataset |-> d, file |-> f, key |-> key, waiting |-> TRUE]]
            /\ UNCHANGED <<pg, mem, answer, canceled>>
    /\ UNCHANGED report

insertReplayJob(c) ==
    LET r == pending[c] IN
    /\ r.waiting
    /\ Answer(P!InsertReplayJob(pg, r.dataset, r.file, r.key),
              M!CreateReplayJob(mem, r.dataset, r.file, r.key), r.dataset, r.file)
    /\ pending' = [pending EXCEPT ![c] = NoRequest]
    /\ UNCHANGED <<now, report>>

cancelReplayJob(j) ==
    /\ Call
    /\ Both(P!CancelReplayJob(pg, j, now), M!CancelReplayJob(mem, j, now), 200)
    /\ canceled' = [canceled EXCEPT ![j] = [times |-> @.times + 1, cleared |-> TRUE]]
    /\ UNCHANGED <<pending, report>>

-----------------------------------------------------------------------------
(* Calls of the workers *)

\* ProcessTask marks a job running; failJob marks it failed or dlq.
UpdateReplayJobStatus(j, status) ==
    LET lastError == IF status = "running" THEN "" ELSE "cause" IN
    /\ Call
    /\ Both(P!UpdateReplayJobStatus(pg, j, status, lastError, now),
            M!UpdateReplayJobStatus(mem, j, status, lastError, now), 0)
    /\ canceled' = [canceled EXCEPT ![j] = [times |-> @.times, cleared |-> FALSE]]
    /\ UNCHANGED <<pending, report>>

UpdateReplayCheckpoint(j, line) ==
    /\ Call
    /\ Both(P!UpdateReplayCheckpoint(pg, j, line), M!UpdateReplayCheckpoint(mem, j, line), 0)
    /\ UNCHANGED <<pending, report, canceled>>

\* run records the scan and the manifest between the checkpoint and the end.
UpdateEventFileStats(f) ==
    /\ Call
    /\ Both(P!UpdateEventFileStats(pg, f, LastLine), M!UpdateEventFileStats(mem, f, LastLine), 0)
    /\ UNCHANGED <<pending, report, canceled>>

UpdateReplayManifest(j, errors) ==
    /\ Call
    /\ Both(P!UpdateReplayManifest(pg, j, Len(errors)),
            M!UpdateReplayManifest(mem, j, Len(errors)), 0)
    /\ UNCHANGED <<pending, report, canceled>>

CompleteReplayJob(j, errors) ==
    /\ Call
    /\ Both(P!CompleteReplayJob(pg, j, errors, now), M!CompleteReplayJob(mem, j, errors, now), 0)
    /\ UNCHANGED <<pending, report, canceled>>

-----------------------------------------------------------------------------
(* BuildReplayQualityReport, a call at a time.  A job's dataset and file    *)
(* are there for good, so the two Get calls between change nothing.         *)

ReadJob(j) ==
    /\ report.pc = "idle"
    /\ report' = [NoReport EXCEPT !.pc = "metrics", !.job = j,
                                  !.status = P!ListReplayJobs(pg)[j].status,
                                  !.due = P!ListValidationErrors(pg, j)]
    /\ UNCHANGED <<pg, mem, pending, answer, now, canceled>>

ReadMetrics ==
    /\ report.pc = "metrics"
    /\ report' = [report EXCEPT !.pc = "errors",
                                !.metrics = Cardinality(P!ListReplayMetrics(pg, report.job))]
    /\ UNCHANGED <<pg, mem, pending, answer, now, canceled>>

\* Mutant: the job is read again, after the metrics.
ReadErrorsAndJob ==
    /\ report.pc = "errors"
    /\ report' = [report EXCEPT !.pc = "done",
                                !.status = P!ListReplayJobs(pg)[report.job].status,
                                !.errors = P!ListValidationErrors(pg, report.job)]
    /\ UNCHANGED <<pg, mem, pending, answer, now, canceled>>

ReadErrors ==
    /\ report.pc = "errors"
    /\ report' = [report EXCEPT !.pc = "done",
                                !.errors = P!ListValidationErrors(pg, report.job)]
    /\ UNCHANGED <<pg, mem, pending, answer, now, canceled>>

-----------------------------------------------------------------------------
Next ==
    \/ createDataset
    \/ \E d \in Datasets : createEventFile(d)
    \/ \E c \in Clients, d \in Datasets, f \in Files, key \in Keys \cup {NoKey} :
          createReplayJob(c, d, f, key)
    \/ \E c \in Clients : insertReplayJob(c)
    \/ \E j \in Jobs : cancelReplayJob(j)
    \/ \E j \in Jobs, status \in {"running", "failed", "dlq"} :
          UpdateReplayJobStatus(j, status)
    \/ \E j \in Jobs, line \in 1 .. LastLine : UpdateReplayCheckpoint(j, line)
    \/ \E j \in Jobs : UpdateEventFileStats(pg.jobs[j].file)
    \/ \E j \in Jobs, errors \in Failures :
          UpdateReplayManifest(j, errors) \/ CompleteReplayJob(j, errors)
    \/ \E j \in Jobs : ReadJob(j)
    \/ ReadMetrics \/ ReadErrors

Spec == Init /\ [][Next]_vars

-----------------------------------------------------------------------------
\* What a repository answers to the reads the reports are built from.
View(jobs, files, metrics, errors) ==
    [jobs |-> [j \in DOMAIN jobs |-> [dataset |-> jobs[j].dataset, file |-> jobs[j].file]],
     files |-> files, metrics |-> metrics, errors |-> errors]

PgView ==
    View(P!ListReplayJobs(pg),
         [d \in DOMAIN P!ListDatasets(pg) |-> P!ListEventFiles(pg, d)],
         [j \in Jobs |-> P!ListReplayMetrics(pg, j)],
         [j \in Jobs |-> P!ListValidationErrors(pg, j)])

MemView ==
    View(M!ListReplayJobs(mem),
         [d \in DOMAIN M!ListDatasets(mem) |-> M!ListEventFiles(mem, d)],
         [j \in DOMAIN mem.jobs |-> M!ListReplayMetrics(mem, j)],
         [j \in DOMAIN mem.jobs |-> M!ListValidationErrors(mem, j)])

\* A job of the memory repository with what a cancellation did only there
\* undone: the attempt it counted and the error it cleared.
WithoutCancels(j, row) ==
    [row EXCEPT !.attempts = @ - canceled[j].times,
                !.lastError = IF canceled[j].cleared THEN pg.jobs[j].lastError ELSE @]

(***************************************************************************)
(* The unit tests run on the memory repository and the deployment on       *)
(* Postgres: after any calls the two hold the same datasets, files and     *)
(* jobs, give the same jobs for a key, and the lineage and the error       *)
(* summary built from them are the same, but for the attempts a canceled   *)
(* job counts and the error it loses in memory (memory.go 298-300).        *)
(***************************************************************************)
RepositoriesAgree ==
    /\ PgView.files = MemView.files
    /\ pg.files = mem.files
    /\ DOMAIN M!ListReplayJobs(mem) = Jobs
    /\ \A j \in Jobs :
          WithoutCancels(j, M!ListReplayJobs(mem)[j]) = P!ListReplayJobs(pg)[j]
    /\ \A key \in Keys : P!GetReplayJobByIdempotencyKey(pg, key).id
                            = M!GetReplayJobByIdempotencyKey(mem, key).id
    /\ \A d \in DOMAIN pg.datasets :
          R!BuildDatasetLineage(PgView, d) = R!BuildDatasetLineage(MemView, d)
    /\ R!BuildValidationErrorSummary(PgView) = R!BuildValidationErrorSummary(MemView)

(***************************************************************************)
(* Every request is answered alike by the two, also when another client    *)
(* takes the key between the lookup and the INSERT of Postgres; but a      *)
(* duplicate key with an unknown dataset or file is 200 in Postgres, which *)
(* looks up the key first, and 404 in memory, which looks it up last.      *)
(***************************************************************************)
AnswersAgree ==
    IF answer.stray
    THEN answer.mem = <<404, 0>> /\ answer.pg[1] \in {200, 404}
    ELSE answer.pg = answer.mem

(***************************************************************************)
(* A quality report is read by several calls while workers write: when its *)
(* job is completed it has the metrics and every error that were recorded  *)
(* with the completion (BuildReplayQualityReport reads the job first and   *)
(* CompleteReplayJob commits all of it at once).                           *)
(***************************************************************************)
ReportSound ==
    report.pc = "done" =>
        /\ report.due \subseteq report.errors
        /\ report.status = "completed" => report.metrics > 0

(***************************************************************************)
(* The error summary counts every row of validation_errors once, under its *)
(* type, symbol, day and file, with the extreme lines and times of its     *)
(* group, however the errors are spread over jobs and also when two of one *)
(* line have the same type (BuildValidationErrorSummary and                *)
(* summarizeValidationErrors).                                             *)
(***************************************************************************)
SummaryExact ==
    LET sums == R!BuildValidationErrorSummary(PgView)
        KeyOf(e) == <<e.type, e.symbol, R!Day(e.at), pg.jobs[e.job].file>>
        Group(k) == {i \in DOMAIN pg.errors : KeyOf(pg.errors[i]) = k}
    IN  /\ DOMAIN sums = {KeyOf(pg.errors[i]) : i \in DOMAIN pg.errors}
        /\ \A k \in DOMAIN sums :
              sums[k] = [count     |-> Cardinality(Group(k)),
                         firstLine |-> Min({pg.errors[i].line : i \in Group(k)}),
                         lastLine  |-> Max({pg.errors[i].line : i \in Group(k)}),
                         firstSeen |-> Min({pg.errors[i].at : i \in Group(k)}),
                         lastSeen  |-> Max({pg.errors[i].at : i \in Group(k)})]
=============================================================================
