-------------------------- MODULE MemoryRepository --------------------------
(***************************************************************************)
(* store.MemoryRepository: every method holds the lock for its whole body, *)
(* so each is one step.  Maps keyed by a uuid are sequences, as in Queries *)
(* (the n-th uuid drawn for a map is n); idempotencyMap is a function on   *)
(* the keys in use.                                                        *)
(***************************************************************************)
EXTENDS Integers, Sequences

CONSTANT NoKey

EmptyMem == [datasets |-> <<>>, files |-> <<>>, jobs |-> <<>>,
             idempotency |-> <<>>, metrics |-> <<>>, errors |-> <<>>]

Done(mem, id) == [db |-> mem, err |-> "nil", id |-> id]
Err(mem, err) == [db |-> mem, err |-> err, id |-> 0]

CreateDataset(mem, name) ==
    Done([mem EXCEPT !.datasets = Append(@, name)], Len(mem.datasets) + 1)
GetDataset(mem, id) == IF id \in DOMAIN mem.datasets THEN Done(mem, id) ELSE Err(mem, "not_found")
ListDatasets(mem) == mem.datasets

CreateEventFile(mem, d, rows) ==
    IF d \notin DOMAIN mem.datasets THEN Err(mem, "not_found")
    ELSE Done([mem EXCEPT !.files = Append(@, [dataset |-> d, rows |-> rows])],
              Len(mem.files) + 1)
GetEventFile(mem, id) == IF id \in DOMAIN mem.files THEN Done(mem, id) ELSE Err(mem, "not_found")
ListEventFiles(mem, d) ==
    IF d \notin DOMAIN mem.datasets THEN {0}
    ELSE {f \in DOMAIN mem.files : mem.files[f].dataset = d}

\* A negative row count leaves the stored one alone.
UpdateEventFileStats(mem, id, rows) ==
    IF id \notin DOMAIN mem.files THEN Err(mem, "not_found")
    ELSE Done(IF rows >= 0 THEN [mem EXCEPT !.files[id].rows = rows] ELSE mem, id)

\* The zero ReplayJob with the fields of the request and status queued.
NewJob(d, f, key) ==
    [dataset |-> d, file |-> f, key |-> key, status |-> "queued", attempts |-> 0,
     lastError |-> "", checkpoint |-> 0, startedAt |-> 0, completedAt |-> 0,
     canceledAt |-> 0, manifest |-> 0]

\* The dataset and the file are looked up before the key.
CreateReplayJob(mem, d, f, key) ==
    LET id == Len(mem.jobs) + 1 IN
    IF d \notin DOMAIN mem.datasets \/ f \notin DOMAIN mem.files THEN Err(mem, "not_found")
    ELSE IF key # NoKey /\ key \in DOMAIN mem.idempotency
    THEN [db |-> mem, err |-> "exists", id |-> mem.idempotency[key]]
    ELSE Done([mem EXCEPT
                 !.jobs = Append(@, NewJob(d, f, key)),
                 !.metrics = Append(@, {}),
                 !.errors = Append(@, {}),
                 !.idempotency = IF key = NoKey THEN @
                                 ELSE [k \in DOMAIN @ \cup {key} |->
                                         IF k = key THEN id ELSE @[k]]], id)

GetReplayJob(mem, id) == IF id \in DOMAIN mem.jobs THEN Done(mem, id) ELSE Err(mem, "not_found")
GetReplayJobByIdempotencyKey(mem, key) ==
    IF key \in DOMAIN mem.idempotency THEN Done(mem, mem.idempotency[key])
    ELSE Err(mem, "not_found")
ListReplayJobs(mem) == mem.jobs

UpdateReplayJobStatus(mem, id, status, lastError, at) ==
    LET job == mem.jobs[id] IN
    IF id \notin DOMAIN mem.jobs THEN Err(mem, "not_found")
    ELSE Done([mem EXCEPT !.jobs[id] =
                 [job EXCEPT !.status = status, !.lastError = lastError,
                             !.attempts = job.attempts + 1,
                             !.startedAt = IF status = "running" THEN at ELSE job.startedAt,
                             !.completedAt = IF status \in {"completed", "failed", "dlq"}
                                             THEN at ELSE job.completedAt,
                             !.canceledAt = IF status = "canceled" THEN at
                                            ELSE job.canceledAt]], id)

\* Mutant: the checkpoint is overwritten.
OverwriteReplayCheckpoint(mem, id, line) ==
    IF id \notin DOMAIN mem.jobs THEN Err(mem, "not_found")
    ELSE Done([mem EXCEPT !.jobs[id].checkpoint = line], id)

UpdateReplayCheckpoint(mem, id, line) ==
    IF id \notin DOMAIN mem.jobs THEN Err(mem, "not_found")
    ELSE Done(IF line > mem.jobs[id].checkpoint
              THEN [mem EXCEPT !.jobs[id].checkpoint = line] ELSE mem, id)

UpdateReplayManifest(mem, id, manifest) ==
    IF id \notin DOMAIN mem.jobs THEN Err(mem, "not_found")
    ELSE Done([mem EXCEPT !.jobs[id].manifest = manifest], id)

\* The metrics and errors of a job are sets, as Postgres lists them; every
\* error has a uuid of its own, which at and n stand for.
ErrorRowsOf(id, errors, at) ==
    {[job |-> id, n |-> i, line |-> errors[i].line, symbol |-> errors[i].symbol,
      type |-> errors[i].type, at |-> at] : i \in DOMAIN errors}

CompleteReplayJob(mem, id, errors, at) ==
    LET job == mem.jobs[id] IN
    IF id \notin DOMAIN mem.jobs THEN Err(mem, "not_found")
    ELSE Done([mem EXCEPT
                 !.jobs[id] = [job EXCEPT !.status = "completed", !.completedAt = at],
                 !.metrics[id] = @ \cup {[job |-> id, at |-> at]},
                 !.errors[id] = @ \cup ErrorRowsOf(id, errors, at)], id)

ListReplayMetrics(mem, j) == IF j \in DOMAIN mem.metrics THEN mem.metrics[j] ELSE {}
ListValidationErrors(mem, j) == IF j \in DOMAIN mem.errors THEN mem.errors[j] ELSE {}

\* Through UpdateReplayJobStatus, which counts an attempt and sets the error.
CancelReplayJob(mem, id, at) == UpdateReplayJobStatus(mem, id, "canceled", "", at)
=============================================================================
