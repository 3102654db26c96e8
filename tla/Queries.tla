------------------------------ MODULE Queries -------------------------------
(***************************************************************************)
(* The statements of db/queries/metadata.sql as internal/store/db runs     *)
(* them, on a database value.  Rows are in insertion order, which is the   *)
(* order of created_at; an id is the position of its row (the uuid drawn   *)
(* for the n-th row of a table is n), and 0 is an id nobody drew.  Columns *)
(* that are stored and handed back as they came are left out.              *)
(*                                                                         *)
(* A statement that writes returns the database, the error (nil, no_rows,  *)
(* or the SQLSTATE of a violated foreign key or unique index) and the id   *)
(* of the row it RETURNs.                                                  *)
(***************************************************************************)
EXTENDS Integers, Sequences

CONSTANT NoKey     \* NULL in idempotency_key

EmptyDb == [datasets |-> <<>>, files |-> <<>>, jobs |-> <<>>,
            metrics |-> <<>>, errors |-> <<>>]

Done(db, id) == [db |-> db, err |-> "nil", id |-> id]
Err(db, err) == [db |-> db, err |-> err, id |-> 0]

\* A row of replay_jobs as its column defaults make it; manifest is '{}'.
NewJob(d, f, key) ==
    [dataset |-> d, file |-> f, key |-> key, status |-> "queued", attempts |-> 0,
     lastError |-> "", checkpoint |-> 0, startedAt |-> 0, completedAt |-> 0,
     canceledAt |-> 0, manifest |-> <<>>]

CreateDataset(db, name) ==
    Done([db EXCEPT !.datasets = Append(@, name)], Len(db.datasets) + 1)

CreateEventFile(db, d, rows) ==
    IF d \notin DOMAIN db.datasets THEN Err(db, "23503")
    ELSE Done([db EXCEPT !.files = Append(@, [dataset |-> d, rows |-> rows])],
              Len(db.files) + 1)

\* The unique index is checked by the INSERT, foreign keys at its end.
CreateReplayJob(db, d, f, key) ==
    IF key # NoKey /\ \E j \in DOMAIN db.jobs : db.jobs[j].key = key
    THEN Err(db, "23505")
    ELSE IF d \notin DOMAIN db.datasets \/ f \notin DOMAIN db.files
    THEN Err(db, "23503")
    ELSE Done([db EXCEPT !.jobs = Append(@, NewJob(d, f, key))], Len(db.jobs) + 1)

CreateReplayMetric(db, j, at) == [db EXCEPT !.metrics = Append(@, [job |-> j, at |-> at])]

\* The INSERT, once for each of the errors.  Two of them may agree in every
\* column but their uuid, which at and n stand for.
CreateValidationError(db, j, errors, at) ==
    [db EXCEPT !.errors =
        @ \o [i \in DOMAIN errors |->
                 [job |-> j, n |-> i, line |-> errors[i].line, symbol |-> errors[i].symbol,
                  type |-> errors[i].type, at |-> at]]]

GetDataset(db, id) == IF id \in DOMAIN db.datasets THEN Done(db, id) ELSE Err(db, "no_rows")
GetEventFile(db, id) == IF id \in DOMAIN db.files THEN Done(db, id) ELSE Err(db, "no_rows")
GetReplayJob(db, id) == IF id \in DOMAIN db.jobs THEN Done(db, id) ELSE Err(db, "no_rows")

\* A comparison with NULL selects nothing.
GetReplayJobByIdempotencyKey(db, key) ==
    LET rows == {j \in DOMAIN db.jobs : key # NoKey /\ db.jobs[j].key = key}
    IN  IF rows = {} THEN Err(db, "no_rows") ELSE Done(db, CHOOSE j \in rows : TRUE)

ListDatasets(db) == db.datasets
ListEventFiles(db, d) == {f \in DOMAIN db.files : db.files[f].dataset = d}
ListReplayJobs(db) == db.jobs
\* ORDER BY created_at or line leaves the order of equal rows open: the rows
\* as a set, told apart by the time of their completion and their place in it.
ListReplayMetrics(db, j) ==
    {r \in {db.metrics[i] : i \in DOMAIN db.metrics} : r.job = j}
ListValidationErrors(db, j) ==
    {r \in {db.errors[i] : i \in DOMAIN db.errors} : r.job = j}

\* UPDATE event_files SET ... WHERE id = $1 RETURNING ...
UpdateEventFileStats(db, id, rows) ==
    IF id \notin DOMAIN db.files THEN Err(db, "no_rows")
    ELSE Done([db EXCEPT !.files[id].rows = rows], id)

UpdateReplayJobStatus(db, id, status, lastError, at) ==
    LET job == db.jobs[id] IN
    IF id \notin DOMAIN db.jobs THEN Err(db, "no_rows")
    ELSE Done([db EXCEPT !.jobs[id] =
                 [job EXCEPT !.status = status, !.lastError = lastError,
                             !.attempts = job.attempts + 1,
                             !.startedAt = IF status = "running" THEN at ELSE job.startedAt,
                             !.completedAt = IF status \in {"completed", "failed", "dlq"}
                                             THEN at ELSE job.completedAt,
                             !.canceledAt = IF status = "canceled" THEN at
                                            ELSE job.canceledAt]], id)

\* The :execrows statements return how many rows they changed as the id.
UpdateReplayCheckpoint(db, id, line) ==
    IF id \notin DOMAIN db.jobs THEN Done(db, 0)
    ELSE Done([db EXCEPT !.jobs[id].checkpoint = IF line > @ THEN line ELSE @], 1)

UpdateReplayManifest(db, id, manifest) ==
    IF id \notin DOMAIN db.jobs THEN Err(db, "no_rows")
    ELSE Done([db EXCEPT !.jobs[id].manifest = manifest], id)

CompleteReplayJobStatus(db, id, at) ==
    IF id \notin DOMAIN db.jobs THEN Done(db, 0)
    ELSE Done([db EXCEPT !.jobs[id].status = "completed", !.jobs[id].completedAt = at], 1)

CancelReplayJob(db, id, at) ==
    IF id \notin DOMAIN db.jobs THEN Err(db, "no_rows")
    ELSE Done([db EXCEPT !.jobs[id].status = "canceled", !.jobs[id].canceledAt = at], id)
=============================================================================
