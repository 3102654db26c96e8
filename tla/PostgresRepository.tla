------------------------- MODULE PostgresRepository -------------------------
(***************************************************************************)
(* store.PostgresRepository over the statements of Queries.  Every method  *)
(* returns the database, a store error (nil, not_found, exists) and the id *)
(* of the record it returns; `at` is time.Now().                           *)
(***************************************************************************)
EXTENDS Integers, Sequences

CONSTANT NoKey

q == INSTANCE Queries

mapPostgresError(err) ==
    CASE err \in {"no_rows", "23503"} -> "not_found"
      [] err = "23505" -> "exists"
      [] OTHER -> err

Mapped(r) == [r EXCEPT !.err = mapPostgresError(@)]

\* A result of :execrows: no row changed means the job is not there.
Affected(r, id) == IF r.id = 0 THEN q!Err(r.db, "not_found") ELSE [r EXCEPT !.id = id]

CreateDataset(db, name) == Mapped(q!CreateDataset(db, name))
GetDataset(db, id) == Mapped(q!GetDataset(db, id))
ListDatasets(db) == q!ListDatasets(db)
CreateEventFile(db, d, rows) == Mapped(q!CreateEventFile(db, d, rows))
GetEventFile(db, id) == Mapped(q!GetEventFile(db, id))

\* The files of a dataset that is there; {0} stands for ErrNotFound.
ListEventFiles(db, d) ==
    IF GetDataset(db, d).err # "nil" THEN {0} ELSE q!ListEventFiles(db, d)

UpdateEventFileStats(db, id, rows) == Mapped(q!UpdateEventFileStats(db, id, rows))

GetReplayJobByIdempotencyKey(db, key) == Mapped(q!GetReplayJobByIdempotencyKey(db, key))

\* Mutant: a unique violation is reported without the row that holds the key.
InsertNoReread(db, d, f, key) == Mapped(q!CreateReplayJob(db, d, f, key))

(***************************************************************************)
(* CreateReplayJob is two statements: the lookup of the key, and, when it  *)
(* finds nothing, the INSERT, whose unique violation is answered with the  *)
(* row that holds the key by then.                                         *)
(***************************************************************************)
InsertReplayJob(db, d, f, key) ==
    LET r == q!CreateReplayJob(db, d, f, key) IN
    IF r.err = "23505" /\ key # NoKey
    THEN [GetReplayJobByIdempotencyKey(db, key) EXCEPT
             !.err = IF @ = "nil" THEN "exists" ELSE @]
    ELSE Mapped(r)

\* replayManifestFromJSON: what does not hold a manifest reads as the zero one.
replayManifestFromJSON(data) == IF data = <<>> THEN 0 ELSE data[1]

\* convertReplayJob: the stored columns, with the manifest decoded.
convertReplayJob(row) == [row EXCEPT !.manifest = replayManifestFromJSON(@)]

GetReplayJob(db, id) == Mapped(q!GetReplayJob(db, id))
ListReplayJobs(db) ==
    LET rows == q!ListReplayJobs(db)
    IN  [j \in DOMAIN rows |-> convertReplayJob(rows[j])]

UpdateReplayJobStatus(db, id, status, lastError, at) ==
    Mapped(q!UpdateReplayJobStatus(db, id, status, lastError, at))

UpdateReplayCheckpoint(db, id, line) ==
    Affected(q!UpdateReplayCheckpoint(db, id, line), id)

UpdateReplayManifest(db, id, manifest) ==
    Mapped(q!UpdateReplayManifest(db, id, <<manifest>>))

\* One transaction: what the reader of another connection sees is its end.
CompleteReplayJob(db, id, errors, at) ==
    LET r == Affected(q!CompleteReplayJobStatus(db, id, at), id)
        measured == q!CreateReplayMetric(r.db, id, at)
    IN  IF r.err # "nil" THEN r
        ELSE GetReplayJob(q!CreateValidationError(measured, id, errors, at), id)

ListReplayMetrics(db, j) == q!ListReplayMetrics(db, j)
ListValidationErrors(db, j) == q!ListValidationErrors(db, j)
CancelReplayJob(db, id, at) == Mapped(q!CancelReplayJob(db, id, at))
=============================================================================
