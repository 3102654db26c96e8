--------------------------- MODULE MetadataProofs ---------------------------
(***************************************************************************)
(* The Postgres repository and the one the unit tests use agree, and a     *)
(* quality report is sound, for any clients, keys, failures and bounds.    *)
(***************************************************************************)
EXTENDS Metadata, TLAPS, FiniteSetTheorems

-----------------------------------------------------------------------------
(* Rows and databases *)

FailureRows == [line : Nat \ {0}, symbol : STRING, type : STRING]
FileRows == [dataset : Nat, rows : Nat]
MetricRows == [job : Nat, at : Nat]
ErrorRows == [job : Nat, n : Nat, line : Nat \ {0}, symbol : STRING, type : STRING, at : Nat]

Outcomes == {"running", "failed", "dlq"}
LastErrors == {"", "cause"}
Statuses == {"queued", "running", "completed", "failed", "dlq", "canceled"}

JobRows(Manifests) ==
    [dataset : Nat, file : Nat, key : Keys \cup {NoKey}, status : Statuses, attempts : Int,
     lastError : LastErrors, checkpoint : Nat, startedAt : Nat, completedAt : Nat,
     canceledAt : Nat, manifest : Manifests]

PgJobs == JobRows(Seq(Nat))
MemJobs == JobRows(Nat)
Cancels == [times : Int, cleared : BOOLEAN]

\* The values of pg, and those of mem.
Dbs == [datasets : Seq({"d"}), files : Seq(FileRows), jobs : Seq(PgJobs),
        metrics : Seq(MetricRows), errors : Seq(ErrorRows)]

KeyMaps == UNION {[K -> Nat] : K \in SUBSET Keys}
Mems == [datasets : Seq({"d"}), files : Seq(FileRows), jobs : Seq(MemJobs),
         idempotency : KeyMaps, metrics : Seq(SUBSET MetricRows),
         errors : Seq(SUBSET ErrorRows)]

\* A row as UpdateReplayJobStatus leaves it, in both repositories.
Marked(row, status, lastError, at) ==
    [row EXCEPT !.status = status, !.lastError = lastError, !.attempts = row.attempts + 1,
                !.startedAt = IF status = "running" THEN at ELSE row.startedAt,
                !.completedAt = IF status \in {"completed", "failed", "dlq"} THEN at
                                ELSE row.completedAt,
                !.canceledAt = IF status = "canceled" THEN at ELSE row.canceledAt]
Canceled(row, at) == [row EXCEPT !.status = "canceled", !.canceledAt = at]
Completed(row, at) == [row EXCEPT !.status = "completed", !.completedAt = at]
Reached(row, line) ==
    [row EXCEPT !.checkpoint = IF line > row.checkpoint THEN line ELSE row.checkpoint]
Described(row, manifest) == [row EXCEPT !.manifest = manifest]

ErrorsOf(j, errors, at) ==
    [i \in DOMAIN errors |->
        [job |-> j, n |-> i, line |-> errors[i].line, symbol |-> errors[i].symbol,
         type |-> errors[i].type, at |-> at]]

\* The outcome of a call that is not refused.
Ok(db, id) == [db |-> db, err |-> "nil", id |-> id]

\* A repository with the row of job j, or of file f, replaced.
PutJob(db, j, row) == [db EXCEPT !.jobs = [db.jobs EXCEPT ![j] = row]]
PutFile(db, f, row) == [db EXCEPT !.files = [db.files EXCEPT ![f] = row]]

-----------------------------------------------------------------------------
(* What the calls on jobs do to Postgres *)

LEMMA PgUpdateStatus ==
    ASSUME NEW p \in Dbs, NEW j \in DOMAIN p.jobs, NEW status, NEW lastError, NEW at
    PROVE  P!UpdateReplayJobStatus(p, j, status, lastError, at) =
           Ok(PutJob(p, j, Marked(p.jobs[j], status, lastError, at)), j)
<1>1. P!q!UpdateReplayJobStatus(p, j, status, lastError, at) =
        Ok(PutJob(p, j, Marked(p.jobs[j], status, lastError, at)), j)
  BY DEF P!q!UpdateReplayJobStatus, P!q!Done, Ok, PutJob, Marked, Dbs
<1> QED
  BY <1>1 DEF P!UpdateReplayJobStatus, P!Mapped, P!mapPostgresError, Ok

LEMMA PgCancel ==
    ASSUME NEW p \in Dbs, NEW j \in DOMAIN p.jobs, NEW at
    PROVE  P!CancelReplayJob(p, j, at) = Ok(PutJob(p, j, Canceled(p.jobs[j], at)), j)
<1>1. P!q!CancelReplayJob(p, j, at) = Ok(PutJob(p, j, Canceled(p.jobs[j], at)), j)
  BY DEF P!q!CancelReplayJob, P!q!Done, Ok, PutJob, Canceled, Dbs
<1> QED
  BY <1>1 DEF P!CancelReplayJob, P!Mapped, P!mapPostgresError, Ok

LEMMA PgCheckpoint ==
    ASSUME NEW p \in Dbs, NEW j \in DOMAIN p.jobs, NEW line
    PROVE  P!UpdateReplayCheckpoint(p, j, line) = Ok(PutJob(p, j, Reached(p.jobs[j], line)), j)
<1>1. P!q!UpdateReplayCheckpoint(p, j, line) = Ok(PutJob(p, j, Reached(p.jobs[j], line)), 1)
  BY DEF P!q!UpdateReplayCheckpoint, P!q!Done, Ok, PutJob, Reached, Dbs
<1> QED
  BY <1>1 DEF P!UpdateReplayCheckpoint, P!Affected, Ok

LEMMA PgManifest ==
    ASSUME NEW p \in Dbs, NEW j \in DOMAIN p.jobs, NEW manifest
    PROVE  P!UpdateReplayManifest(p, j, manifest) =
           Ok(PutJob(p, j, Described(p.jobs[j], <<manifest>>)), j)
<1>1. P!q!UpdateReplayManifest(p, j, <<manifest>>) =
        Ok(PutJob(p, j, Described(p.jobs[j], <<manifest>>)), j)
  BY DEF P!q!UpdateReplayManifest, P!q!Done, Ok, PutJob, Described, Dbs
<1> QED
  BY <1>1 DEF P!UpdateReplayManifest, P!Mapped, P!mapPostgresError, Ok

\* The transaction: the status, one metric, and the errors.
LEMMA PgComplete ==
    ASSUME NEW p \in Dbs, NEW j \in DOMAIN p.jobs, NEW errors, NEW at
    PROVE  P!CompleteReplayJob(p, j, errors, at) =
           Ok([PutJob(p, j, Completed(p.jobs[j], at)) EXCEPT
                  !.metrics = Append(p.metrics, [job |-> j, at |-> at]),
                  !.errors = p.errors \o ErrorsOf(j, errors, at)], j)
<1> DEFINE row == Completed(p.jobs[j], at)
           marked == PutJob(p, j, row)
           measured == [marked EXCEPT !.metrics = Append(p.metrics, [job |-> j, at |-> at])]
           ended == [measured EXCEPT !.errors = p.errors \o ErrorsOf(j, errors, at)]
<1>1. P!q!CompleteReplayJobStatus(p, j, at) = Ok(marked, 1)
  BY DEF P!q!CompleteReplayJobStatus, P!q!Done, Ok, PutJob, Completed, Dbs
<1>2. P!Affected(P!q!CompleteReplayJobStatus(p, j, at), j) = Ok(marked, j)
  BY <1>1 DEF P!Affected, Ok
<1>3. /\ marked.metrics = p.metrics
      /\ marked.errors = p.errors
      /\ DOMAIN marked.jobs = DOMAIN p.jobs
  BY DEF PutJob, Dbs
<1>4. P!q!CreateReplayMetric(marked, j, at) = measured
  BY <1>3 DEF P!q!CreateReplayMetric
<1>5. measured.errors = p.errors /\ DOMAIN measured.jobs = DOMAIN p.jobs
  BY <1>3 DEF PutJob, Dbs
<1>6. P!q!CreateValidationError(measured, j, errors, at) = ended
  BY <1>5 DEF P!q!CreateValidationError, ErrorsOf
<1>7. DOMAIN ended.jobs = DOMAIN p.jobs
  BY <1>3, <1>5 DEF PutJob, Dbs
<1>8. P!GetReplayJob(ended, j) = Ok(ended, j)
  <2> HIDE DEF ended
  <2>1. P!q!GetReplayJob(ended, j) = Ok(ended, j)
    BY <1>7 DEF P!q!GetReplayJob, P!q!Done, Ok
  <2> QED
    BY <2>1 DEF P!GetReplayJob, P!Mapped, P!mapPostgresError, Ok
<1>9. Ok(marked, j).err = "nil" /\ Ok(marked, j).db = marked
  BY DEF Ok
<1> HIDE DEF marked, measured, ended
<1>10. P!CompleteReplayJob(p, j, errors, at) = Ok(ended, j)
  BY <1>2, <1>4, <1>6, <1>8, <1>9 DEF P!CompleteReplayJob
<1> QED
  BY <1>10 DEF ended, measured, marked

-----------------------------------------------------------------------------
(* What they do to the memory repository *)

LEMMA MemUpdateStatus ==
    ASSUME NEW m \in Mems, NEW j \in DOMAIN m.jobs, NEW status, NEW lastError, NEW at
    PROVE  M!UpdateReplayJobStatus(m, j, status, lastError, at) =
           Ok(PutJob(m, j, Marked(m.jobs[j], status, lastError, at)), j)
  BY DEF M!UpdateReplayJobStatus, M!Done, Ok, PutJob, Marked, Mems

LEMMA MemCancel ==
    ASSUME NEW m \in Mems, NEW j \in DOMAIN m.jobs, NEW at
    PROVE  M!CancelReplayJob(m, j, at) =
           Ok(PutJob(m, j, Marked(m.jobs[j], "canceled", "", at)), j)
  BY MemUpdateStatus DEF M!CancelReplayJob

LEMMA MemCheckpoint ==
    ASSUME NEW m \in Mems, NEW j \in DOMAIN m.jobs, NEW line
    PROVE  M!UpdateReplayCheckpoint(m, j, line) = Ok(PutJob(m, j, Reached(m.jobs[j], line)), j)
<1>1. m.jobs \in Seq(MemJobs) /\ m.jobs[j] \in MemJobs
  BY DEF Mems
<1>2. CASE line > m.jobs[j].checkpoint
  BY <1>2 DEF M!UpdateReplayCheckpoint, M!Done, Ok, PutJob, Reached, Mems
<1>3. CASE ~(line > m.jobs[j].checkpoint)
  <2>1. Reached(m.jobs[j], line) = m.jobs[j]
    BY <1>1, <1>3 DEF Reached, MemJobs, JobRows
  <2>2. [m.jobs EXCEPT ![j] = m.jobs[j]] = m.jobs
    BY <1>1
  <2>3. PutJob(m, j, m.jobs[j]) = m
    BY <2>2 DEF PutJob, Mems
  <2> QED
    BY <1>3, <2>1, <2>3 DEF M!UpdateReplayCheckpoint, M!Done, Ok
<1> QED
  BY <1>2, <1>3

LEMMA MemManifest ==
    ASSUME NEW m \in Mems, NEW j \in DOMAIN m.jobs, NEW manifest
    PROVE  M!UpdateReplayManifest(m, j, manifest) =
           Ok(PutJob(m, j, Described(m.jobs[j], manifest)), j)
  BY DEF M!UpdateReplayManifest, M!Done, Ok, PutJob, Described, Mems

LEMMA MemComplete ==
    ASSUME NEW m \in Mems, NEW j \in DOMAIN m.jobs, NEW errors, NEW at
    PROVE  M!CompleteReplayJob(m, j, errors, at) =
           Ok([PutJob(m, j, Completed(m.jobs[j], at)) EXCEPT
                  !.metrics = [m.metrics EXCEPT ![j] = @ \cup {[job |-> j, at |-> at]}],
                  !.errors = [m.errors EXCEPT ![j] = @ \cup Range(ErrorsOf(j, errors, at))]], j)
<1>1. M!ErrorRowsOf(j, errors, at) = Range(ErrorsOf(j, errors, at))
  BY DEF Range, M!ErrorRowsOf, ErrorsOf
<1> QED
  BY <1>1 DEF M!CompleteReplayJob, M!Done, Ok, PutJob, Completed, Mems

-----------------------------------------------------------------------------
(* What the two repositories share, as relations on their values *)

\* The rows of a table that belong to job j.
RowsOf(rows, j) == {r \in {rows[i] : i \in DOMAIN rows} : r.job = j}

\* A job of Postgres, the same job in memory and what cancels did to it there.
RowsAgree(r, s, k) ==
    /\ s.dataset = r.dataset /\ s.file = r.file /\ s.key = r.key
    /\ s.status = r.status /\ s.checkpoint = r.checkpoint
    /\ s.startedAt = r.startedAt /\ s.completedAt = r.completedAt
    /\ s.canceledAt = r.canceledAt
    /\ s.manifest = P!replayManifestFromJSON(r.manifest)
    /\ s.attempts - k.times = r.attempts
    /\ k.cleared \/ s.lastError = r.lastError

JobsAgree(p, m, c) ==
    /\ Len(m.jobs) = Len(p.jobs) /\ Len(c) = Len(p.jobs)
    /\ \A j \in 1 .. Len(p.jobs) : RowsAgree(p.jobs[j], m.jobs[j], c[j])

\* idempotencyMap is the inverse of the key column: the index of Postgres.
KeysAgree(p, m) ==
    /\ \A k \in DOMAIN m.idempotency :
          m.idempotency[k] \in 1 .. Len(p.jobs) /\ p.jobs[m.idempotency[k]].key = k
    /\ \A j \in 1 .. Len(p.jobs) : p.jobs[j].key # NoKey =>
          p.jobs[j].key \in DOMAIN m.idempotency /\ m.idempotency[p.jobs[j].key] = j

TablesAgree(p, m) ==
    /\ Len(m.metrics) = Len(p.jobs) /\ Len(m.errors) = Len(p.jobs)
    /\ \A j \in 1 .. Len(p.jobs) : /\ m.metrics[j] = RowsOf(p.metrics, j)
                                   /\ m.errors[j] = RowsOf(p.errors, j)
    /\ \A i \in 1 .. Len(p.metrics) : p.metrics[i].job \in 1 .. Len(p.jobs)
    /\ \A i \in 1 .. Len(p.errors) : p.errors[i].job \in 1 .. Len(p.jobs)

\* A completed job was completed together with a metric.
Measured(p) ==
    \A j \in 1 .. Len(p.jobs) :
        p.jobs[j].status = "completed" => RowsOf(p.metrics, j) # {}

Agree(p, m, c) ==
    /\ p \in Dbs /\ m \in Mems /\ c \in Seq(Cancels)
    /\ m.datasets = p.datasets /\ m.files = p.files
    /\ JobsAgree(p, m, c)
    /\ KeysAgree(p, m)
    /\ TablesAgree(p, m)
    /\ Measured(p)

\* No dataset, file, job or row of a job is ever removed.
Grown(p, n) ==
    /\ Len(p.datasets) <= Len(n.datasets) /\ Len(p.files) <= Len(n.files)
    /\ Len(p.jobs) <= Len(n.jobs)
    /\ \A j \in 1 .. Len(p.jobs) : /\ RowsOf(p.metrics, j) \subseteq RowsOf(n.metrics, j)
                                   /\ RowsOf(p.errors, j) \subseteq RowsOf(n.errors, j)

-----------------------------------------------------------------------------
(* A step on a job that both repositories take keeps them in agreement *)

LEMMA SeqPut ==
    ASSUME NEW S, NEW t \in Seq(S), NEW j \in 1 .. Len(t), NEW v \in S
    PROVE  /\ [t EXCEPT ![j] = v] \in Seq(S)
           /\ Len([t EXCEPT ![j] = v]) = Len(t)
           /\ \A i \in 1 .. Len(t) : [t EXCEPT ![j] = v][i] = IF i = j THEN v ELSE t[i]
  OBVIOUS

LEMMA PutJobTyped ==
    ASSUME NEW p \in Dbs, NEW m \in Mems, NEW j \in 1 .. Len(p.jobs), Len(m.jobs) = Len(p.jobs),
           NEW r \in PgJobs, NEW s \in MemJobs
    PROVE  /\ PutJob(p, j, r) \in Dbs
           /\ Len(PutJob(p, j, r).jobs) = Len(p.jobs)
           /\ \A i \in 1 .. Len(p.jobs) :
                 PutJob(p, j, r).jobs[i] = IF i = j THEN r ELSE p.jobs[i]
           /\ PutJob(p, j, r).datasets = p.datasets /\ PutJob(p, j, r).files = p.files
           /\ PutJob(p, j, r).metrics = p.metrics /\ PutJob(p, j, r).errors = p.errors
           /\ PutJob(m, j, s) \in Mems
           /\ Len(PutJob(m, j, s).jobs) = Len(m.jobs)
           /\ \A i \in 1 .. Len(m.jobs) :
                 PutJob(m, j, s).jobs[i] = IF i = j THEN s ELSE m.jobs[i]
           /\ PutJob(m, j, s).datasets = m.datasets /\ PutJob(m, j, s).files = m.files
           /\ PutJob(m, j, s).metrics = m.metrics /\ PutJob(m, j, s).errors = m.errors
           /\ PutJob(m, j, s).idempotency = m.idempotency
<1>1. p.jobs \in Seq(PgJobs) /\ m.jobs \in Seq(MemJobs) /\ j \in 1 .. Len(m.jobs)
  BY DEF Dbs, Mems
<1> DEFINE pj == [p.jobs EXCEPT ![j] = r]
           mj == [m.jobs EXCEPT ![j] = s]
<1>2. /\ pj \in Seq(PgJobs) /\ Len(pj) = Len(p.jobs)
      /\ \A i \in 1 .. Len(p.jobs) : pj[i] = IF i = j THEN r ELSE p.jobs[i]
  BY <1>1, SeqPut
<1>3. /\ mj \in Seq(MemJobs) /\ Len(mj) = Len(m.jobs)
      /\ \A i \in 1 .. Len(m.jobs) : mj[i] = IF i = j THEN s ELSE m.jobs[i]
  BY <1>1, SeqPut
<1>4. PutJob(p, j, r) = [p EXCEPT !.jobs = pj] /\ PutJob(m, j, s) = [m EXCEPT !.jobs = mj]
  BY DEF PutJob
<1> HIDE DEF pj, mj
<1>5. /\ PutJob(p, j, r) \in Dbs /\ PutJob(p, j, r).jobs = pj
      /\ PutJob(p, j, r).datasets = p.datasets /\ PutJob(p, j, r).files = p.files
      /\ PutJob(p, j, r).metrics = p.metrics /\ PutJob(p, j, r).errors = p.errors
  BY <1>2, <1>4 DEF Dbs
<1>6. /\ PutJob(m, j, s) \in Mems /\ PutJob(m, j, s).jobs = mj
      /\ PutJob(m, j, s).datasets = m.datasets /\ PutJob(m, j, s).files = m.files
      /\ PutJob(m, j, s).metrics = m.metrics /\ PutJob(m, j, s).errors = m.errors
      /\ PutJob(m, j, s).idempotency = m.idempotency
  BY <1>3, <1>4 DEF Mems
<1> QED
  BY <1>2, <1>3, <1>5, <1>6

LEMMA AgreeFacts ==
    ASSUME NEW p, NEW m, NEW c, Agree(p, m, c), NEW j \in 1 .. Len(p.jobs)
    PROVE  /\ p \in Dbs /\ m \in Mems /\ c \in Seq(Cancels)
           /\ m.datasets = p.datasets /\ m.files = p.files
           /\ JobsAgree(p, m, c) /\ KeysAgree(p, m) /\ TablesAgree(p, m) /\ Measured(p)
           /\ Len(m.jobs) = Len(p.jobs) /\ Len(c) = Len(p.jobs)
           /\ Len(m.metrics) = Len(p.jobs) /\ Len(m.errors) = Len(p.jobs)
           /\ Len(p.jobs) \in Nat /\ j \in Nat
  BY DEF Agree, JobsAgree, TablesAgree, Dbs

LEMMA SameKeys ==
    ASSUME NEW p, NEW m, NEW p2, NEW m2, KeysAgree(p, m),
           Len(p2.jobs) = Len(p.jobs), m2.idempotency = m.idempotency,
           \A i \in 1 .. Len(p.jobs) : p2.jobs[i].key = p.jobs[i].key
    PROVE  KeysAgree(p2, m2)
  BY DEF KeysAgree

LEMMA PutJobAgrees ==
    ASSUME NEW p, NEW m, NEW c, Agree(p, m, c), NEW j \in 1 .. Len(p.jobs),
           NEW r \in PgJobs, NEW s \in MemJobs, NEW k \in Cancels, RowsAgree(r, s, k),
           r.key = p.jobs[j].key,
           r.status = "completed" => p.jobs[j].status = "completed"
    PROVE  /\ Agree(PutJob(p, j, r), PutJob(m, j, s), [c EXCEPT ![j] = k])
           /\ Grown(p, PutJob(p, j, r))
<1> DEFINE p2 == PutJob(p, j, r)
           m2 == PutJob(m, j, s)
           c2 == [c EXCEPT ![j] = k]
<1>1. /\ p \in Dbs /\ m \in Mems /\ c \in Seq(Cancels)
      /\ m.datasets = p.datasets /\ m.files = p.files
      /\ JobsAgree(p, m, c) /\ KeysAgree(p, m) /\ TablesAgree(p, m) /\ Measured(p)
      /\ Len(m.jobs) = Len(p.jobs)
      /\ Len(c) = Len(p.jobs)
  BY DEF Agree, JobsAgree
<1>2. /\ p2 \in Dbs /\ Len(p2.jobs) = Len(p.jobs)
      /\ \A i \in 1 .. Len(p.jobs) : p2.jobs[i] = IF i = j THEN r ELSE p.jobs[i]
      /\ p2.datasets = p.datasets /\ p2.files = p.files
      /\ p2.metrics = p.metrics /\ p2.errors = p.errors
  BY <1>1, PutJobTyped
<1>3. /\ m2 \in Mems /\ Len(m2.jobs) = Len(p.jobs)
      /\ \A i \in 1 .. Len(p.jobs) : m2.jobs[i] = IF i = j THEN s ELSE m.jobs[i]
      /\ m2.datasets = m.datasets /\ m2.files = m.files
      /\ m2.metrics = m.metrics /\ m2.errors = m.errors
      /\ m2.idempotency = m.idempotency
  BY <1>1, PutJobTyped
<1>4. /\ c2 \in Seq(Cancels) /\ Len(c2) = Len(c)
      /\ \A i \in 1 .. Len(c) : c2[i] = IF i = j THEN k ELSE c[i]
  BY <1>1
<1> HIDE DEF p2, m2, c2
<1>5. JobsAgree(p2, m2, c2)
  BY <1>1, <1>2, <1>3, <1>4 DEF JobsAgree
<1>6. KeysAgree(p2, m2)
  <2>1. \A i \in 1 .. Len(p.jobs) : p2.jobs[i].key = p.jobs[i].key
    BY <1>2
  <2> QED
    BY <1>1, <1>2, <1>3, <2>1, SameKeys
<1>7. TablesAgree(p2, m2)
  BY <1>1, <1>2, <1>3 DEF TablesAgree
<1>8. Measured(p2)
  BY <1>1, <1>2 DEF Measured
<1>9. Grown(p, p2)
  <2>1. Len(p.jobs) \in Nat /\ Len(p.datasets) \in Nat /\ Len(p.files) \in Nat
    BY <1>1 DEF Dbs
  <2> QED
    BY <1>2, <2>1 DEF Grown
<1> QED
  BY <1>1, <1>2, <1>3, <1>4, <1>5, <1>6, <1>7, <1>8, <1>9 DEF Agree, p2, m2, c2

LEMMA RowsOfAppend ==
    ASSUME NEW S, NEW rows \in Seq(S), NEW r \in S, NEW j
    PROVE  RowsOf(Append(rows, r), j) =
           RowsOf(rows, j) \cup (IF r.job = j THEN {r} ELSE {})
<1> DEFINE t == Append(rows, r)
<1>1. /\ DOMAIN t = 1 .. Len(rows) + 1 /\ DOMAIN rows = 1 .. Len(rows) /\ Len(rows) \in Nat
      /\ \A i \in 1 .. Len(rows) : t[i] = rows[i]
      /\ t[Len(rows) + 1] = r
  OBVIOUS
<1> HIDE DEF t
<1>2. {t[i] : i \in DOMAIN t} = {rows[i] : i \in DOMAIN rows} \cup {r}
  <2>1. ASSUME NEW i \in DOMAIN t PROVE t[i] \in {rows[x] : x \in DOMAIN rows} \cup {r}
    BY <1>1
  <2>2. ASSUME NEW i \in DOMAIN rows PROVE rows[i] \in {t[x] : x \in DOMAIN t}
    BY <1>1
  <2>3. r \in {t[x] : x \in DOMAIN t}
    BY <1>1
  <2> QED
    BY <2>1, <2>2, <2>3
<1>3. RowsOf(t, j) = RowsOf(rows, j) \cup (IF r.job = j THEN {r} ELSE {})
  BY <1>2 DEF RowsOf
<1> QED
  BY <1>3 DEF t

LEMMA RowsOfConcat ==
    ASSUME NEW S, NEW rows \in Seq(S), NEW more \in Seq(S), NEW j
    PROVE  RowsOf(rows \o more, j) = RowsOf(rows, j) \cup RowsOf(more, j)
<1> DEFINE t == rows \o more
<1>1. /\ DOMAIN t = 1 .. Len(rows) + Len(more) /\ Len(rows) \in Nat /\ Len(more) \in Nat
      /\ DOMAIN rows = 1 .. Len(rows) /\ DOMAIN more = 1 .. Len(more)
      /\ \A i \in 1 .. Len(rows) : t[i] = rows[i]
      /\ \A i \in 1 .. Len(more) : t[Len(rows) + i] = more[i]
  OBVIOUS
<1> HIDE DEF t
<1>2. {t[i] : i \in DOMAIN t} = {rows[i] : i \in DOMAIN rows} \cup {more[i] : i \in DOMAIN more}
  <2>1. ASSUME NEW i \in DOMAIN t
        PROVE  t[i] \in {rows[x] : x \in DOMAIN rows} \cup {more[x] : x \in DOMAIN more}
    <3>1. CASE i <= Len(rows)
      BY <1>1, <3>1
    <3>2. CASE ~(i <= Len(rows))
      <4>1. i - Len(rows) \in DOMAIN more /\ i = Len(rows) + (i - Len(rows))
        BY <1>1, <3>2
      <4>2. t[i] = more[i - Len(rows)]
        BY <1>1, <4>1
      <4> QED
        BY <4>1, <4>2
    <3> QED
      BY <3>1, <3>2
  <2>2. ASSUME NEW i \in DOMAIN rows PROVE rows[i] \in {t[x] : x \in DOMAIN t}
    BY <1>1
  <2>3. ASSUME NEW i \in DOMAIN more PROVE more[i] \in {t[x] : x \in DOMAIN t}
    <3>1. Len(rows) + i \in DOMAIN t /\ t[Len(rows) + i] = more[i]
      BY <1>1
    <3> QED
      BY <3>1
  <2> QED
    BY <2>1, <2>2, <2>3
<1>3. RowsOf(t, j) = RowsOf(rows, j) \cup RowsOf(more, j)
  BY <1>2 DEF RowsOf
<1> QED
  BY <1>3 DEF t

LEMMA ErrorsOfTyped ==
    ASSUME NEW j \in Nat, NEW errors \in Seq(FailureRows), NEW at \in Nat
    PROVE  /\ ErrorsOf(j, errors, at) \in Seq(ErrorRows)
           /\ \A i \in 1 .. Len(ErrorsOf(j, errors, at)) : ErrorsOf(j, errors, at)[i].job = j
           /\ RowsOf(ErrorsOf(j, errors, at), j) = Range(ErrorsOf(j, errors, at))
           /\ \A i : i # j => RowsOf(ErrorsOf(j, errors, at), i) = {}
<1> DEFINE e == ErrorsOf(j, errors, at)
<1>1. DOMAIN errors = 1 .. Len(errors) /\ Len(errors) \in Nat
  OBVIOUS
<1>2. ASSUME NEW i \in 1 .. Len(errors) PROVE errors[i] \in FailureRows
  OBVIOUS
<1>3. ASSUME NEW i \in 1 .. Len(errors)
      PROVE  [job |-> j, n |-> i, line |-> errors[i].line, symbol |-> errors[i].symbol,
              type |-> errors[i].type, at |-> at] \in ErrorRows
  BY <1>2 DEF FailureRows, ErrorRows
<1>4. e = [i \in 1 .. Len(errors) |->
             [job |-> j, n |-> i, line |-> errors[i].line, symbol |-> errors[i].symbol,
              type |-> errors[i].type, at |-> at]]
  BY <1>1 DEF ErrorsOf
<1>5. e \in Seq(ErrorRows) /\ Len(e) = Len(errors) /\ DOMAIN e = 1 .. Len(errors)
  BY <1>1, <1>3, <1>4
<1>6. \A i \in DOMAIN e : e[i].job = j
  BY <1>4, <1>5
<1> HIDE DEF e
<1>7. RowsOf(e, j) = Range(e) /\ \A i : i # j => RowsOf(e, i) = {}
  BY <1>6 DEF RowsOf, Range
<1> QED
  BY <1>5, <1>6, <1>7 DEF e

LEMMA CompletedRows ==
    ASSUME NEW r \in PgJobs, NEW s \in MemJobs, NEW k \in Cancels, RowsAgree(r, s, k),
           NEW at \in Nat
    PROVE  /\ Completed(r, at) \in PgJobs /\ Completed(s, at) \in MemJobs
           /\ RowsAgree(Completed(r, at), Completed(s, at), k)
           /\ Completed(r, at).key = r.key
<1>1. Completed(r, at) \in PgJobs /\ Completed(s, at) \in MemJobs
  <2>1. ASSUME NEW S, NEW x \in JobRows(S) PROVE Completed(x, at) \in JobRows(S)
    BY DEF Completed, JobRows, Statuses
  <2> QED
    BY <2>1 DEF PgJobs, MemJobs
<1> QED
  BY <1>1 DEF Completed, PgJobs, MemJobs, JobRows, RowsAgree

\* From p and m to p2 and m2, job j is replaced by r and s, the metric row is
\* recorded for it, and the errors E.
Recorded(p, m, j, r, s, row, E, p2, m2) ==
    /\ p2.datasets = p.datasets /\ p2.files = p.files
    /\ m2.datasets = m.datasets /\ m2.files = m.files /\ m2.idempotency = m.idempotency
    /\ Len(p2.jobs) = Len(p.jobs) /\ Len(m2.jobs) = Len(p.jobs)
    /\ \A i \in 1 .. Len(p.jobs) : p2.jobs[i] = IF i = j THEN r ELSE p.jobs[i]
    /\ \A i \in 1 .. Len(p.jobs) : m2.jobs[i] = IF i = j THEN s ELSE m.jobs[i]
    /\ p2.metrics = Append(p.metrics, row) /\ p2.errors = p.errors \o E
    /\ Len(m2.metrics) = Len(p.jobs) /\ Len(m2.errors) = Len(p.jobs)
    /\ \A i \in 1 .. Len(p.jobs) :
          m2.metrics[i] = IF i = j THEN m.metrics[j] \cup {row} ELSE m.metrics[i]
    /\ \A i \in 1 .. Len(p.jobs) :
          m2.errors[i] = IF i = j THEN m.errors[j] \cup Range(E) ELSE m.errors[i]

AllOf(E, j) ==
    /\ \A i \in 1 .. Len(E) : E[i].job = j
    /\ RowsOf(E, j) = Range(E)
    /\ \A i : i # j => RowsOf(E, i) = {}

LEMMA RecordAgrees ==
    ASSUME NEW p, NEW m, NEW c, Agree(p, m, c), NEW j \in 1 .. Len(p.jobs),
           NEW r \in PgJobs, NEW s \in MemJobs, RowsAgree(r, s, c[j]), r.key = p.jobs[j].key,
           NEW row \in MetricRows, row.job = j, NEW E \in Seq(ErrorRows), AllOf(E, j),
           NEW p2 \in Dbs, NEW m2 \in Mems, Recorded(p, m, j, r, s, row, E, p2, m2)
    PROVE  Agree(p2, m2, c) /\ Grown(p, p2)
<1> USE DEF Recorded, AllOf
<1> DEFINE pm == Append(p.metrics, row)
           pe == p.errors \o E
<1>1. /\ p \in Dbs /\ m \in Mems /\ c \in Seq(Cancels)
      /\ m.datasets = p.datasets /\ m.files = p.files
      /\ JobsAgree(p, m, c) /\ KeysAgree(p, m) /\ TablesAgree(p, m) /\ Measured(p)
      /\ Len(m.jobs) = Len(p.jobs) /\ Len(c) = Len(p.jobs)
      /\ Len(p.jobs) \in Nat
  BY DEF Agree, JobsAgree, TablesAgree, Dbs
<1>2. p.metrics \in Seq(MetricRows) /\ p.errors \in Seq(ErrorRows)
  BY <1>1 DEF Dbs
<1>3. /\ \A i : RowsOf(pm, i) = RowsOf(p.metrics, i) \cup (IF j = i THEN {row} ELSE {})
      /\ \A i : RowsOf(pe, i) = RowsOf(p.errors, i) \cup RowsOf(E, i)
  BY <1>2, RowsOfAppend, RowsOfConcat
<1>4. p2.metrics = pm /\ p2.errors = pe
  OBVIOUS
<1> HIDE DEF pm, pe
<1>5. JobsAgree(p2, m2, c)
  BY <1>1 DEF JobsAgree
<1>6. KeysAgree(p2, m2)
  <2>1. \A i \in 1 .. Len(p.jobs) : p2.jobs[i].key = p.jobs[i].key
    OBVIOUS
  <2> QED
    BY <1>1, <2>1, SameKeys
<1>7. TablesAgree(p2, m2)
  <2>1. ASSUME NEW i \in 1 .. Len(p.jobs)
        PROVE  m2.metrics[i] = RowsOf(pm, i) /\ m2.errors[i] = RowsOf(pe, i)
    <3>1. m.metrics[i] = RowsOf(p.metrics, i) /\ m.errors[i] = RowsOf(p.errors, i)
      BY <1>1 DEF TablesAgree
    <3>2. CASE i = j
      <4>1. m2.metrics[i] = m.metrics[j] \cup {row} /\ m2.errors[i] = m.errors[j] \cup Range(E)
        BY <3>2
      <4>2. RowsOf(pm, i) = RowsOf(p.metrics, i) \cup {row}
        BY <3>2, <1>3
      <4>3. RowsOf(pe, i) = RowsOf(p.errors, i) \cup Range(E)
        BY <3>2, <1>3
      <4> QED
        BY <3>1, <3>2, <4>1, <4>2, <4>3
    <3>3. CASE i # j
      <4>1. m2.metrics[i] = m.metrics[i] /\ m2.errors[i] = m.errors[i]
        BY <3>3
      <4>2. RowsOf(pm, i) = RowsOf(p.metrics, i) \cup {}
        BY <3>3, <1>3
      <4>3. RowsOf(pe, i) = RowsOf(p.errors, i) \cup {}
        <5>1. RowsOf(E, i) = {}
          BY <3>3, Zenon
        <5> QED
          BY <5>1, <1>3
      <4> QED
        BY <3>1, <4>1, <4>2, <4>3
    <3> QED
      BY <3>2, <3>3
  <2>2. ASSUME NEW i \in 1 .. Len(pm) PROVE pm[i].job \in 1 .. Len(p.jobs)
    <3>1. pm[i] = IF i <= Len(p.metrics) THEN p.metrics[i] ELSE row
      BY <1>2 DEF pm
    <3>2. CASE i <= Len(p.metrics)
      <4>1. i \in 1 .. Len(p.metrics)
        BY <1>2, <3>2
      <4> QED
        BY <1>1, <3>1, <4>1, <3>2 DEF TablesAgree
    <3>3. CASE ~(i <= Len(p.metrics))
      BY <3>1, <3>3
    <3> QED
      BY <3>2, <3>3
  <2>3. ASSUME NEW i \in 1 .. Len(pe) PROVE pe[i].job \in 1 .. Len(p.jobs)
    <3>1. p.errors \in Seq(ErrorRows) /\ Len(p.errors) \in Nat /\ Len(E) \in Nat
      BY <1>2
    <3>2. CASE i <= Len(p.errors)
      <4>1. i \in 1 .. Len(p.errors) /\ pe[i] = p.errors[i]
        BY <3>1, <3>2 DEF pe
      <4> QED
        BY <1>1, <4>1 DEF TablesAgree
    <3>3. CASE ~(i <= Len(p.errors))
      <4>1. i - Len(p.errors) \in 1 .. Len(E) /\ pe[i] = E[i - Len(p.errors)]
        BY <3>1, <3>3 DEF pe
      <4> HIDE DEF Recorded
      <4>2. E[i - Len(p.errors)].job = j
        BY <4>1
      <4> QED
        BY <4>1, <4>2
    <3> QED
      BY <3>2, <3>3
  <2> QED
    BY <1>4, <2>1, <2>2, <2>3 DEF TablesAgree
<1>8. Measured(p2)
  <2>1. ASSUME NEW i \in 1 .. Len(p.jobs), p2.jobs[i].status = "completed"
        PROVE  RowsOf(p2.metrics, i) # {}
    <3>1. CASE i = j
      BY <3>1, <1>3, <1>4
    <3>2. CASE i # j
      <4>1. p.jobs[i].status = "completed"
        BY <2>1, <3>2
      <4>2. RowsOf(p.metrics, i) # {}
        BY <1>1, <4>1 DEF Measured
      <4> QED
        BY <4>2, <1>3, <1>4
    <3> QED
      BY <3>1, <3>2
  <2> QED
    BY <2>1 DEF Measured
<1>9. Grown(p, p2)
  <2>1. Len(p.datasets) \in Nat /\ Len(p.files) \in Nat
    BY <1>1 DEF Dbs
  <2> QED
    BY <1>1, <1>3, <1>4, <2>1 DEF Grown
<1> QED
  BY <1>1, <1>5, <1>6, <1>7, <1>8, <1>9 DEF Agree

\* CompleteReplayJob: the job, a metric of it and its errors.
LEMMA CompleteAgrees ==
    ASSUME NEW p, NEW m, NEW c, Agree(p, m, c), NEW j \in 1 .. Len(p.jobs),
           NEW errors \in Seq(FailureRows), NEW at \in Nat
    PROVE  LET p2 == [PutJob(p, j, Completed(p.jobs[j], at)) EXCEPT
                         !.metrics = Append(p.metrics, [job |-> j, at |-> at]),
                         !.errors = p.errors \o ErrorsOf(j, errors, at)]
               m2 == [PutJob(m, j, Completed(m.jobs[j], at)) EXCEPT
                         !.metrics = [m.metrics EXCEPT ![j] = @ \cup {[job |-> j, at |-> at]}],
                         !.errors = [m.errors EXCEPT
                                        ![j] = @ \cup Range(ErrorsOf(j, errors, at))]]
           IN  Agree(p2, m2, c) /\ Grown(p, p2)
<1> DEFINE r == Completed(p.jobs[j], at)
           s == Completed(m.jobs[j], at)
           row == [job |-> j, at |-> at]
           E == ErrorsOf(j, errors, at)
           p1 == PutJob(p, j, r)
           m1 == PutJob(m, j, s)
<1>1. /\ p \in Dbs /\ m \in Mems /\ c \in Seq(Cancels)
      /\ m.datasets = p.datasets /\ m.files = p.files
      /\ JobsAgree(p, m, c) /\ KeysAgree(p, m) /\ TablesAgree(p, m) /\ Measured(p)
      /\ Len(m.jobs) = Len(p.jobs) /\ Len(c) = Len(p.jobs)
      /\ Len(m.metrics) = Len(p.jobs) /\ Len(m.errors) = Len(p.jobs)
      /\ Len(p.jobs) \in Nat /\ j \in Nat
  BY AgreeFacts
<1>2. /\ p.jobs[j] \in PgJobs /\ m.jobs[j] \in MemJobs /\ c[j] \in Cancels
      /\ RowsAgree(p.jobs[j], m.jobs[j], c[j])
  BY <1>1 DEF JobsAgree, Dbs, Mems
<1>3. /\ r \in PgJobs /\ s \in MemJobs /\ RowsAgree(r, s, c[j]) /\ r.key = p.jobs[j].key
  BY <1>1, <1>2, CompletedRows
<1>4. row \in MetricRows /\ row.job = j
  BY <1>1 DEF MetricRows
<1>5. /\ E \in Seq(ErrorRows)
      /\ \A i \in 1 .. Len(E) : E[i].job = j
      /\ RowsOf(E, j) = Range(E)
      /\ \A i : i # j => RowsOf(E, i) = {}
  BY <1>1, ErrorsOfTyped
<1>6. /\ p1 \in Dbs /\ Len(p1.jobs) = Len(p.jobs)
      /\ \A i \in 1 .. Len(p.jobs) : p1.jobs[i] = IF i = j THEN r ELSE p.jobs[i]
      /\ p1.datasets = p.datasets /\ p1.files = p.files
      /\ m1 \in Mems /\ Len(m1.jobs) = Len(p.jobs)
      /\ \A i \in 1 .. Len(p.jobs) : m1.jobs[i] = IF i = j THEN s ELSE m.jobs[i]
      /\ m1.datasets = m.datasets /\ m1.files = m.files
      /\ m1.idempotency = m.idempotency
  <2> HIDE DEF r, s
  <2> QED
    BY <1>1, <1>3, PutJobTyped
<1> DEFINE pm == Append(p.metrics, row)
           pe == p.errors \o E
           mm == [m.metrics EXCEPT ![j] = @ \cup {row}]
           me == [m.errors EXCEPT ![j] = @ \cup Range(E)]
<1>7. /\ pm \in Seq(MetricRows) /\ pe \in Seq(ErrorRows)
      /\ \A i : RowsOf(pm, i) = RowsOf(p.metrics, i) \cup (IF j = i THEN {row} ELSE {})
      /\ \A i : RowsOf(pe, i) = RowsOf(p.errors, i) \cup RowsOf(E, i)
  <2>1. p.metrics \in Seq(MetricRows) /\ p.errors \in Seq(ErrorRows)
    BY <1>1 DEF Dbs
  <2> HIDE DEF row, E
  <2> QED
    BY <2>1, <1>4, <1>5, RowsOfAppend, RowsOfConcat
<1>8. Range(E) \subseteq ErrorRows
  <2> HIDE DEF E
  <2> QED
    BY <1>5 DEF Range
<1>9. /\ mm \in Seq(SUBSET MetricRows) /\ Len(mm) = Len(p.jobs)
      /\ \A i \in 1 .. Len(p.jobs) :
            mm[i] = IF i = j THEN m.metrics[j] \cup {row} ELSE m.metrics[i]
      /\ me \in Seq(SUBSET ErrorRows) /\ Len(me) = Len(p.jobs)
      /\ \A i \in 1 .. Len(p.jobs) :
            me[i] = IF i = j THEN m.errors[j] \cup Range(E) ELSE m.errors[i]
  <2>1. /\ m.metrics \in Seq(SUBSET MetricRows) /\ m.errors \in Seq(SUBSET ErrorRows)
        /\ j \in 1 .. Len(m.metrics) /\ j \in 1 .. Len(m.errors)
    BY <1>1 DEF Mems
  <2>2. /\ m.metrics[j] \cup {row} \in SUBSET MetricRows
        /\ m.errors[j] \cup Range(E) \in SUBSET ErrorRows
    <3> HIDE DEF row, E
    <3> QED
      BY <2>1, <1>4, <1>8
  <2> HIDE DEF row, E
  <2> QED
    BY <1>1, <2>1, <2>2, SeqPut
<1> DEFINE p2 == [p1 EXCEPT !.metrics = pm, !.errors = pe]
           m2 == [m1 EXCEPT !.metrics = mm, !.errors = me]
<1>10. SUFFICES Agree(p2, m2, c) /\ Grown(p, p2)
  OBVIOUS
<1> HIDE DEF p1, m1, pm, pe, mm, me, r, s
<1>11. /\ p2 \in Dbs /\ p2.jobs = p1.jobs /\ p2.metrics = pm /\ p2.errors = pe
       /\ p2.datasets = p.datasets /\ p2.files = p.files
  BY <1>6, <1>7 DEF Dbs
<1>12. /\ m2 \in Mems /\ m2.jobs = m1.jobs /\ m2.metrics = mm /\ m2.errors = me
       /\ m2.datasets = m.datasets /\ m2.files = m.files /\ m2.idempotency = m.idempotency
  BY <1>6, <1>9 DEF Mems
<1> HIDE DEF p2, m2
<1>13. p2.metrics = Append(p.metrics, row) /\ p2.errors = p.errors \o E
  BY <1>11 DEF pm, pe
<1>14. /\ Len(p2.jobs) = Len(p.jobs) /\ Len(m2.jobs) = Len(p.jobs)
       /\ Len(m2.metrics) = Len(p.jobs) /\ Len(m2.errors) = Len(p.jobs)
       /\ \A i \in 1 .. Len(p.jobs) : p2.jobs[i] = IF i = j THEN r ELSE p.jobs[i]
       /\ \A i \in 1 .. Len(p.jobs) : m2.jobs[i] = IF i = j THEN s ELSE m.jobs[i]
       /\ \A i \in 1 .. Len(p.jobs) :
             m2.metrics[i] = IF i = j THEN m.metrics[j] \cup {row} ELSE m.metrics[i]
       /\ \A i \in 1 .. Len(p.jobs) :
             m2.errors[i] = IF i = j THEN m.errors[j] \cup Range(E) ELSE m.errors[i]
  BY <1>6, <1>9, <1>11, <1>12
<1> HIDE DEF row, E
<1>15. Recorded(p, m, j, r, s, row, E, p2, m2)
  BY <1>11, <1>12, <1>13, <1>14 DEF Recorded
<1>16. E \in Seq(ErrorRows) /\ AllOf(E, j)
  BY <1>5 DEF AllOf
<1> QED
  BY <1>3, <1>4, <1>11, <1>12, <1>15, <1>16, RecordAgrees, Zenon

-----------------------------------------------------------------------------
(* Registering datasets and files, and recording a scan *)

Refused(db, err, id) == [db |-> db, err |-> err, id |-> id]

LEMMA MappedOk ==
    ASSUME NEW db, NEW id PROVE P!Mapped(Ok(db, id)) = Ok(db, id)
  BY DEF P!Mapped, P!mapPostgresError, Ok

LEMMA MappedRefused ==
    ASSUME NEW db, NEW id
    PROVE  /\ P!Mapped(Refused(db, "no_rows", id)) = Refused(db, "not_found", id)
           /\ P!Mapped(Refused(db, "23503", id)) = Refused(db, "not_found", id)
  BY DEF P!Mapped, P!mapPostgresError, Refused

LEMMA CreateDatasetBoth ==
    ASSUME NEW p \in Dbs, NEW m \in Mems
    PROVE  /\ P!CreateDataset(p, "d") =
                 Ok([p EXCEPT !.datasets = Append(p.datasets, "d")], Len(p.datasets) + 1)
           /\ M!CreateDataset(m, "d") =
                 Ok([m EXCEPT !.datasets = Append(m.datasets, "d")], Len(m.datasets) + 1)
<1>1. P!q!CreateDataset(p, "d") =
        Ok([p EXCEPT !.datasets = Append(p.datasets, "d")], Len(p.datasets) + 1)
  BY DEF P!q!CreateDataset, P!q!Done, Ok
<1>2. M!CreateDataset(m, "d") =
        Ok([m EXCEPT !.datasets = Append(m.datasets, "d")], Len(m.datasets) + 1)
  BY DEF M!CreateDataset, M!Done, Ok
<1> QED
  BY <1>1, <1>2, MappedOk DEF P!CreateDataset

LEMMA CreateEventFileBoth ==
    ASSUME NEW p \in Dbs, NEW m \in Mems, m.datasets = p.datasets, NEW d
    PROVE  /\ P!CreateEventFile(p, d, 0) =
                 IF d \in DOMAIN p.datasets
                 THEN Ok([p EXCEPT !.files = Append(p.files, [dataset |-> d, rows |-> 0])],
                         Len(p.files) + 1)
                 ELSE Refused(p, "not_found", 0)
           /\ M!CreateEventFile(m, d, 0) =
                 IF d \in DOMAIN p.datasets
                 THEN Ok([m EXCEPT !.files = Append(m.files, [dataset |-> d, rows |-> 0])],
                         Len(m.files) + 1)
                 ELSE Refused(m, "not_found", 0)
<1>1. M!CreateEventFile(m, d, 0) =
        IF d \in DOMAIN p.datasets
        THEN Ok([m EXCEPT !.files = Append(m.files, [dataset |-> d, rows |-> 0])],
                Len(m.files) + 1)
        ELSE Refused(m, "not_found", 0)
  BY DEF M!CreateEventFile, M!Done, M!Err, Ok, Refused
<1>2. CASE d \in DOMAIN p.datasets
  <2>1. P!q!CreateEventFile(p, d, 0) =
          Ok([p EXCEPT !.files = Append(p.files, [dataset |-> d, rows |-> 0])], Len(p.files) + 1)
    BY <1>2 DEF P!q!CreateEventFile, P!q!Done, Ok
  <2> QED
    BY <1>1, <1>2, <2>1, SMTT(30) DEF P!CreateEventFile, P!Mapped, P!mapPostgresError, Ok
<1>3. CASE d \notin DOMAIN p.datasets
  <2>1. P!q!CreateEventFile(p, d, 0) = Refused(p, "23503", 0)
    BY <1>3 DEF P!q!CreateEventFile, P!q!Err, Refused
  <2> QED
    BY <1>1, <1>3, <2>1 DEF P!CreateEventFile, P!Mapped, P!mapPostgresError, Refused
<1> QED
  BY <1>2, <1>3

LEMMA UpdateEventFileStatsBoth ==
    ASSUME NEW p \in Dbs, NEW m \in Mems, m.files = p.files, NEW f, NEW rows \in Nat
    PROVE  /\ P!UpdateEventFileStats(p, f, rows) =
                 IF f \in DOMAIN p.files
                 THEN Ok(PutFile(p, f, [p.files[f] EXCEPT !.rows = rows]), f)
                 ELSE Refused(p, "not_found", 0)
           /\ M!UpdateEventFileStats(m, f, rows) =
                 IF f \in DOMAIN p.files
                 THEN Ok(PutFile(m, f, [p.files[f] EXCEPT !.rows = rows]), f)
                 ELSE Refused(m, "not_found", 0)
<1>1. CASE f \in DOMAIN p.files
  <2>1. P!q!UpdateEventFileStats(p, f, rows) =
          Ok(PutFile(p, f, [p.files[f] EXCEPT !.rows = rows]), f)
    BY <1>1 DEF P!q!UpdateEventFileStats, P!q!Done, Ok, PutFile, Dbs
  <2>2. M!UpdateEventFileStats(m, f, rows) =
          Ok(PutFile(m, f, [p.files[f] EXCEPT !.rows = rows]), f)
    BY <1>1 DEF M!UpdateEventFileStats, M!Done, Ok, PutFile, Mems
  <2> QED
    BY <1>1, <2>1, <2>2 DEF P!UpdateEventFileStats, P!Mapped, P!mapPostgresError, Ok
<1>2. CASE f \notin DOMAIN p.files
  <2>1. P!q!UpdateEventFileStats(p, f, rows) = Refused(p, "no_rows", 0)
    BY <1>2 DEF P!q!UpdateEventFileStats, P!q!Err, Refused
  <2>2. M!UpdateEventFileStats(m, f, rows) = Refused(m, "not_found", 0)
    BY <1>2 DEF M!UpdateEventFileStats, M!Err, Refused
  <2> QED
    BY <1>2, <2>1, <2>2 DEF P!UpdateEventFileStats, P!Mapped, P!mapPostgresError, Refused
<1> QED
  BY <1>1, <1>2

\* A change of the registers alone, alike in both.
Registered(db, ds, fs) == [db EXCEPT !.datasets = ds, !.files = fs]

LEMMA RegisterAgrees ==
    ASSUME NEW p, NEW m, NEW c, Agree(p, m, c), NEW ds \in Seq({"d"}), NEW fs \in Seq(FileRows),
           Len(p.datasets) <= Len(ds), Len(p.files) <= Len(fs)
    PROVE  /\ Agree(Registered(p, ds, fs), Registered(m, ds, fs), c)
           /\ Grown(p, Registered(p, ds, fs))
<1> DEFINE p2 == Registered(p, ds, fs)
           m2 == Registered(m, ds, fs)
<1>1. p \in Dbs /\ m \in Mems /\ c \in Seq(Cancels)
  BY DEF Agree
<1>2. /\ p2 \in Dbs /\ p2.jobs = p.jobs /\ p2.metrics = p.metrics /\ p2.errors = p.errors
      /\ p2.datasets = ds /\ p2.files = fs
  BY <1>1 DEF Dbs, Registered
<1>3. /\ m2 \in Mems /\ m2.jobs = m.jobs /\ m2.metrics = m.metrics /\ m2.errors = m.errors
      /\ m2.idempotency = m.idempotency /\ m2.datasets = ds /\ m2.files = fs
  BY <1>1 DEF Mems, Registered
<1> HIDE DEF p2, m2
<1>4. JobsAgree(p, m, c) /\ KeysAgree(p, m) /\ TablesAgree(p, m) /\ Measured(p)
  BY DEF Agree
<1>5. JobsAgree(p2, m2, c) /\ KeysAgree(p2, m2) /\ TablesAgree(p2, m2) /\ Measured(p2)
  BY <1>2, <1>3, <1>4 DEF JobsAgree, KeysAgree, TablesAgree, Measured
<1>6. Grown(p, p2)
  BY <1>1, <1>2 DEF Grown, Dbs
<1> QED
  BY <1>1, <1>2, <1>3, <1>5, <1>6 DEF Agree, p2, m2

-----------------------------------------------------------------------------
(* Submitting a job: the lookup of the key, and the INSERT *)

LEMMA KeyLookup ==
    ASSUME NEW p \in Dbs, NEW m \in Mems, KeysAgree(p, m), NEW key \in Keys \cup {NoKey}
    PROVE  /\ P!GetReplayJobByIdempotencyKey(p, key) =
                 IF key \in DOMAIN m.idempotency THEN Ok(p, m.idempotency[key])
                 ELSE Refused(p, "not_found", 0)
           /\ key \in DOMAIN m.idempotency <=>
                 key # NoKey /\ \E j \in DOMAIN p.jobs : p.jobs[j].key = key
<1> DEFINE rows == {j \in DOMAIN p.jobs : key # NoKey /\ p.jobs[j].key = key}
<1>1. DOMAIN p.jobs = 1 .. Len(p.jobs)
  BY DEF Dbs
<1>2. DOMAIN m.idempotency \subseteq Keys
  BY DEF Mems, KeyMaps
<1>3. CASE key \in DOMAIN m.idempotency
  <2>1. key # NoKey
    BY <1>2, <1>3, MetadataAssumption
  <2>2. m.idempotency[key] \in rows
    BY <1>1, <1>3, <2>1 DEF KeysAgree
  <2>3. ASSUME NEW j \in rows PROVE j = m.idempotency[key]
    BY <1>1, <2>1 DEF KeysAgree
  <2> HIDE DEF rows
  <2>4. (CHOOSE j \in rows : TRUE) = m.idempotency[key]
    BY <2>2, <2>3
  <2>5. rows # {}
    BY <2>2
  <2>6. P!q!GetReplayJobByIdempotencyKey(p, key) = Ok(p, m.idempotency[key])
    BY <2>4, <2>5 DEF P!q!GetReplayJobByIdempotencyKey, P!q!Done, Ok, rows
  <2> QED
    BY <1>3, <2>2, <2>6, MappedOk DEF P!GetReplayJobByIdempotencyKey, rows
<1>4. CASE key \notin DOMAIN m.idempotency
  <2>1. ASSUME key # NoKey, NEW j \in DOMAIN p.jobs, p.jobs[j].key = key PROVE FALSE
    BY <1>1, <1>4, <2>1 DEF KeysAgree
  <2>2. rows = {}
    BY <2>1
  <2>3. P!q!GetReplayJobByIdempotencyKey(p, key) = Refused(p, "no_rows", 0)
    BY <2>2 DEF P!q!GetReplayJobByIdempotencyKey, P!q!Err, Refused
  <2> QED
    BY <1>4, <2>1, <2>3, MappedRefused DEF P!GetReplayJobByIdempotencyKey
<1> QED
  BY <1>3, <1>4

\* Each repository with a new job, numbered n.
PgAdded(p, row) == [p EXCEPT !.jobs = Append(p.jobs, row)]
MemAdded(m, row, key, n) ==
    [m EXCEPT !.jobs = Append(m.jobs, row),
              !.metrics = Append(m.metrics, {}),
              !.errors = Append(m.errors, {}),
              !.idempotency = IF key = NoKey THEN m.idempotency
                              ELSE [k \in DOMAIN m.idempotency \cup {key} |->
                                      IF k = key THEN n ELSE m.idempotency[k]]]

LEMMA InsertBoth ==
    ASSUME NEW p, NEW m, NEW c, Agree(p, m, c), NEW d, NEW f, NEW key \in Keys \cup {NoKey}
    PROVE  LET known == d \in DOMAIN p.datasets /\ f \in DOMAIN p.files
               taken == key \in DOMAIN m.idempotency
           IN  /\ P!InsertReplayJob(p, d, f, key) =
                     IF taken THEN Refused(p, "exists", m.idempotency[key])
                     ELSE IF ~known THEN Refused(p, "not_found", 0)
                     ELSE Ok(PgAdded(p, P!q!NewJob(d, f, key)), Len(p.jobs) + 1)
               /\ M!CreateReplayJob(m, d, f, key) =
                     IF ~known THEN Refused(m, "not_found", 0)
                     ELSE IF taken THEN Refused(m, "exists", m.idempotency[key])
                     ELSE Ok(MemAdded(m, M!NewJob(d, f, key), key, Len(p.jobs) + 1),
                             Len(p.jobs) + 1)
<1>1. /\ p \in Dbs /\ m \in Mems /\ KeysAgree(p, m)
      /\ m.datasets = p.datasets /\ m.files = p.files /\ Len(m.jobs) = Len(p.jobs)
  BY DEF Agree, JobsAgree
<1> DEFINE known == d \in DOMAIN p.datasets /\ f \in DOMAIN p.files
           taken == key \in DOMAIN m.idempotency
           added == PgAdded(p, P!q!NewJob(d, f, key))
           extended == MemAdded(m, M!NewJob(d, f, key), key, Len(p.jobs) + 1)
<1>2. /\ P!GetReplayJobByIdempotencyKey(p, key) =
            IF taken THEN Ok(p, m.idempotency[key]) ELSE Refused(p, "not_found", 0)
      /\ taken <=> key # NoKey /\ \E j \in DOMAIN p.jobs : p.jobs[j].key = key
  BY <1>1, KeyLookup
<1>3. P!q!CreateReplayJob(p, d, f, key) =
        IF taken THEN Refused(p, "23505", 0)
        ELSE IF ~known THEN Refused(p, "23503", 0)
        ELSE Ok(added, Len(p.jobs) + 1)
  BY <1>2 DEF P!q!CreateReplayJob, P!q!Err, P!q!Done, Refused, Ok, PgAdded
<1>4. M!CreateReplayJob(m, d, f, key) =
        IF ~known THEN Refused(m, "not_found", 0)
        ELSE IF taken THEN Refused(m, "exists", m.idempotency[key])
        ELSE Ok(extended, Len(p.jobs) + 1)
  <2>1. taken => key # NoKey
    BY <1>2
  <2> QED
    BY <1>1, <2>1 DEF M!CreateReplayJob, M!Err, M!Done, Refused, Ok, MemAdded
<1> HIDE DEF added, extended, known
<1>5. P!InsertReplayJob(p, d, f, key) =
        IF taken THEN Refused(p, "exists", m.idempotency[key])
        ELSE IF ~known THEN Refused(p, "not_found", 0)
        ELSE Ok(added, Len(p.jobs) + 1)
  <2>1. CASE taken
    <3>1. P!q!CreateReplayJob(p, d, f, key).err = "23505" /\ key # NoKey
      BY <1>2, <1>3, <2>1 DEF Refused
    <3>2. P!GetReplayJobByIdempotencyKey(p, key) = Ok(p, m.idempotency[key])
      BY <1>2, <2>1
    <3> QED
      BY <2>1, <3>1, <3>2 DEF P!InsertReplayJob, Ok, Refused
  <2>2. CASE ~taken /\ ~known
    <3>1. P!q!CreateReplayJob(p, d, f, key) = Refused(p, "23503", 0)
      BY <1>3, <2>2
    <3>2. P!q!CreateReplayJob(p, d, f, key).err # "23505"
      BY <3>1 DEF Refused
    <3> QED
      BY <2>2, <3>1, <3>2, MappedRefused DEF P!InsertReplayJob
  <2>3. CASE ~taken /\ known
    <3>1. P!q!CreateReplayJob(p, d, f, key) = Ok(added, Len(p.jobs) + 1)
      BY <1>3, <2>3
    <3>2. P!q!CreateReplayJob(p, d, f, key).err # "23505"
      BY <3>1 DEF Ok
    <3> QED
      BY <2>3, <3>1, <3>2, MappedOk DEF P!InsertReplayJob
  <2> QED
    BY <2>1, <2>2, <2>3
<1> QED
  BY <1>4, <1>5 DEF added, extended, known

LEMMA SeqAppend ==
    ASSUME NEW S, NEW t \in Seq(S), NEW v \in S
    PROVE  /\ Append(t, v) \in Seq(S) /\ Len(Append(t, v)) = Len(t) + 1
           /\ \A i \in 1 .. Len(t) + 1 : Append(t, v)[i] = IF i = Len(t) + 1 THEN v ELSE t[i]
  OBVIOUS

LEMMA NewJobRows ==
    ASSUME NEW d \in Nat, NEW f \in Nat, NEW key \in Keys \cup {NoKey}
    PROVE  /\ P!q!NewJob(d, f, key) \in PgJobs /\ M!NewJob(d, f, key) \in MemJobs
           /\ P!q!NewJob(d, f, key).key = key /\ P!q!NewJob(d, f, key).status = "queued"
           /\ RowsAgree(P!q!NewJob(d, f, key), M!NewJob(d, f, key),
                        [times |-> 0, cleared |-> FALSE])
<1>1. P!q!NewJob(d, f, key) \in PgJobs
  BY DEF P!q!NewJob, PgJobs, JobRows, Statuses, LastErrors
<1>2. M!NewJob(d, f, key) \in MemJobs
  BY DEF M!NewJob, MemJobs, JobRows, Statuses, LastErrors
<1> DEFINE r == P!q!NewJob(d, f, key)
           s == M!NewJob(d, f, key)
           k == [times |-> 0, cleared |-> FALSE]
<1>3. /\ r.dataset = d /\ r.file = f /\ r.key = key /\ r.status = "queued" /\ r.checkpoint = 0
      /\ r.startedAt = 0 /\ r.completedAt = 0 /\ r.canceledAt = 0 /\ r.manifest = <<>>
      /\ r.attempts = 0 /\ r.lastError = ""
  BY DEF P!q!NewJob
<1>4. /\ s.dataset = d /\ s.file = f /\ s.key = key /\ s.status = "queued" /\ s.checkpoint = 0
      /\ s.startedAt = 0 /\ s.completedAt = 0 /\ s.canceledAt = 0 /\ s.manifest = 0
      /\ s.attempts = 0 /\ s.lastError = ""
  BY DEF M!NewJob
<1>5. k.times = 0
  OBVIOUS
<1> HIDE DEF r, s, k
<1>6. s.manifest = P!replayManifestFromJSON(r.manifest)
  BY <1>3, <1>4 DEF P!replayManifestFromJSON
<1>7. s.attempts - k.times = r.attempts
  <2>1. s.attempts = 0 /\ r.attempts = 0
    BY <1>3, <1>4
  <2>2. 0 - 0 = 0
    OBVIOUS
  <2> QED
    BY <1>5, <2>1, <2>2, Zenon
<1>8. RowsAgree(r, s, k)
  BY <1>6, <1>3, <1>4, <1>7 DEF RowsAgree
<1> QED
  BY <1>1, <1>2, <1>3, <1>8 DEF r, s, k

\* A job with id n, one more than there were, under a key that was free.
LEMMA AppendAgrees ==
    ASSUME NEW p, NEW m, NEW c, Agree(p, m, c), NEW r \in PgJobs, NEW s \in MemJobs,
           NEW k \in Cancels, RowsAgree(r, s, k), r.status # "completed",
           r.key \notin DOMAIN m.idempotency
    PROVE  /\ Agree(PgAdded(p, r), MemAdded(m, s, r.key, Len(p.jobs) + 1), Append(c, k))
           /\ Grown(p, PgAdded(p, r))
<1> DEFINE keymap == IF r.key = NoKey THEN m.idempotency
                     ELSE [x \in DOMAIN m.idempotency \cup {r.key} |->
                             IF x = r.key THEN Len(p.jobs) + 1 ELSE m.idempotency[x]]
           p2 == PgAdded(p, r)
           m2 == MemAdded(m, s, r.key, Len(p.jobs) + 1)
           c2 == Append(c, k)
           n == Len(p.jobs) + 1
<1> SUFFICES Agree(p2, m2, c2) /\ Grown(p, p2)
  OBVIOUS
<1> HIDE DEF keymap, p2, m2, c2
<1>1. /\ p \in Dbs /\ m \in Mems /\ c \in Seq(Cancels)
      /\ m.datasets = p.datasets /\ m.files = p.files
      /\ JobsAgree(p, m, c) /\ KeysAgree(p, m) /\ TablesAgree(p, m) /\ Measured(p)
      /\ Len(m.jobs) = Len(p.jobs) /\ Len(c) = Len(p.jobs)
      /\ Len(m.metrics) = Len(p.jobs) /\ Len(m.errors) = Len(p.jobs)
      /\ Len(p.jobs) \in Nat
  BY DEF Agree, JobsAgree, TablesAgree, Dbs
<1>2. /\ p.jobs \in Seq(PgJobs) /\ m.jobs \in Seq(MemJobs)
      /\ m.metrics \in Seq(SUBSET MetricRows) /\ m.errors \in Seq(SUBSET ErrorRows)
      /\ m.idempotency \in KeyMaps
  BY <1>1 DEF Dbs, Mems
<1>3. r.key \in Keys \cup {NoKey}
  BY DEF PgJobs, JobRows
<1>4. keymap \in KeyMaps
  <2>1. PICK K \in SUBSET Keys : m.idempotency \in [K -> Nat]
    BY <1>2 DEF KeyMaps
  <2>2. CASE r.key = NoKey
    BY <1>2, <2>2 DEF keymap
  <2>3. CASE r.key # NoKey
    <3>1. keymap \in [K \cup {r.key} -> Nat]
      BY <1>1, <2>1, <2>3 DEF keymap
    <3>2. K \cup {r.key} \in SUBSET Keys
      BY <1>3, <2>1, <2>3
    <3> QED
      BY <3>1, <3>2 DEF KeyMaps
  <2> QED
    BY <2>2, <2>3
<1>5. /\ p2 \in Dbs /\ p2.jobs = Append(p.jobs, r) /\ p2.metrics = p.metrics
      /\ p2.errors = p.errors /\ p2.datasets = p.datasets /\ p2.files = p.files
  <2>1. Append(p.jobs, r) \in Seq(PgJobs)
    BY <1>2, SeqAppend
  <2> QED
    BY <1>1, <2>1 DEF p2, PgAdded, Dbs
<1>6. /\ m2 \in Mems /\ m2.jobs = Append(m.jobs, s) /\ m2.metrics = Append(m.metrics, {})
      /\ m2.errors = Append(m.errors, {}) /\ m2.idempotency = keymap
      /\ m2.datasets = m.datasets /\ m2.files = m.files
  <2>1. /\ Append(m.jobs, s) \in Seq(MemJobs)
        /\ Append(m.metrics, {}) \in Seq(SUBSET MetricRows)
        /\ Append(m.errors, {}) \in Seq(SUBSET ErrorRows)
    BY <1>2, SeqAppend
  <2>2. m2 = [m EXCEPT !.jobs = Append(m.jobs, s), !.metrics = Append(m.metrics, {}),
                       !.errors = Append(m.errors, {}), !.idempotency = keymap]
    BY DEF m2, keymap, MemAdded
  <2> QED
    BY <1>1, <1>4, <2>1, <2>2 DEF Mems
<1>7. /\ Len(p2.jobs) = n
      /\ \A i \in 1 .. n : p2.jobs[i] = IF i = n THEN r ELSE p.jobs[i]
      /\ Len(m2.jobs) = n
      /\ \A i \in 1 .. n : m2.jobs[i] = IF i = n THEN s ELSE m.jobs[i]
      /\ c2 \in Seq(Cancels) /\ Len(c2) = n
      /\ \A i \in 1 .. n : c2[i] = IF i = n THEN k ELSE c[i]
      /\ Len(m2.metrics) = n /\ Len(m2.errors) = n
      /\ \A i \in 1 .. n : m2.metrics[i] = IF i = n THEN {} ELSE m.metrics[i]
      /\ \A i \in 1 .. n : m2.errors[i] = IF i = n THEN {} ELSE m.errors[i]
  <2>1. /\ Len(p2.jobs) = n
        /\ \A i \in 1 .. n : p2.jobs[i] = IF i = n THEN r ELSE p.jobs[i]
    BY <1>2, <1>5, SeqAppend
  <2>2. /\ Len(m2.jobs) = n
        /\ \A i \in 1 .. n : m2.jobs[i] = IF i = n THEN s ELSE m.jobs[i]
    BY <1>1, <1>2, <1>6, SeqAppend
  <2>3. /\ c2 \in Seq(Cancels) /\ Len(c2) = n
        /\ \A i \in 1 .. n : c2[i] = IF i = n THEN k ELSE c[i]
    BY <1>1, SeqAppend DEF c2
  <2>4. /\ Len(m2.metrics) = n
        /\ \A i \in 1 .. n : m2.metrics[i] = IF i = n THEN {} ELSE m.metrics[i]
    <3>1. {} \in SUBSET MetricRows
      OBVIOUS
    <3> QED
      BY <1>1, <1>2, <1>6, <3>1, SeqAppend
  <2>5. /\ Len(m2.errors) = n
        /\ \A i \in 1 .. n : m2.errors[i] = IF i = n THEN {} ELSE m.errors[i]
    <3>1. {} \in SUBSET ErrorRows
      OBVIOUS
    <3> QED
      BY <1>1, <1>2, <1>6, <3>1, SeqAppend
  <2> QED
    BY <2>1, <2>2, <2>3, <2>4, <2>5
<1>8. /\ \A i \in 1 .. n : i # n => i \in 1 .. Len(p.jobs)
      /\ \A i \in 1 .. Len(p.jobs) : i \in 1 .. n /\ i # n
      /\ n \in 1 .. n /\ n \in Nat
  BY <1>1
<1> HIDE DEF n
<1>9. JobsAgree(p2, m2, c2)
  <2>1. ASSUME NEW i \in 1 .. n PROVE RowsAgree(p2.jobs[i], m2.jobs[i], c2[i])
    <3>1. CASE i = n
      BY <1>7, <3>1
    <3>2. CASE i # n
      BY <1>1, <1>7, <1>8, <3>2 DEF JobsAgree
    <3> QED
      BY <3>1, <3>2
  <2> QED
    BY <1>7, <2>1 DEF JobsAgree
<1>10. KeysAgree(p2, m2)
  <2>1. ASSUME NEW x \in DOMAIN keymap
        PROVE  keymap[x] \in 1 .. n /\ p2.jobs[keymap[x]].key = x
    <3>1. CASE r.key # NoKey /\ x = r.key
      <4>1. keymap[x] = n
        BY <3>1 DEF keymap, n
      <4> QED
        BY <4>1, <3>1, <1>7, <1>8
    <3>2. CASE ~(r.key # NoKey /\ x = r.key)
      <4>1. x \in DOMAIN m.idempotency /\ keymap[x] = m.idempotency[x]
        BY <3>2 DEF keymap
      <4>2. m.idempotency[x] \in 1 .. Len(p.jobs) /\ p.jobs[m.idempotency[x]].key = x
        BY <1>1, <4>1 DEF KeysAgree
      <4> QED
        BY <4>1, <4>2, <1>7, <1>8
    <3> QED
      BY <3>1, <3>2
  <2>2. ASSUME NEW i \in 1 .. n, p2.jobs[i].key # NoKey
        PROVE  p2.jobs[i].key \in DOMAIN keymap /\ keymap[p2.jobs[i].key] = i
    <3>1. CASE i = n
      BY <2>2, <3>1, <1>7 DEF keymap, n
    <3>2. CASE i # n
      <4>1. i \in 1 .. Len(p.jobs) /\ p2.jobs[i] = p.jobs[i]
        BY <3>2, <1>7, <1>8
      <4>2. /\ p.jobs[i].key \in DOMAIN m.idempotency
            /\ m.idempotency[p.jobs[i].key] = i
        BY <1>1, <2>2, <4>1 DEF KeysAgree
      <4>3. p.jobs[i].key # r.key
        BY <4>2
      <4> QED
        BY <4>1, <4>2, <4>3 DEF keymap
    <3> QED
      BY <3>1, <3>2
  <2> QED
    BY <1>6, <1>7, <2>1, <2>2 DEF KeysAgree
<1>11. \A i \in 1 .. Len(p.metrics) : p.metrics[i].job \in 1 .. Len(p.jobs)
  BY <1>1 DEF TablesAgree
<1>12. \A i \in 1 .. Len(p.errors) : p.errors[i].job \in 1 .. Len(p.jobs)
  BY <1>1 DEF TablesAgree
<1>13. RowsOf(p.metrics, n) = {} /\ RowsOf(p.errors, n) = {}
  <2>1. DOMAIN p.metrics = 1 .. Len(p.metrics) /\ DOMAIN p.errors = 1 .. Len(p.errors)
    BY <1>1 DEF Dbs
  <2> QED
    BY <1>8, <1>11, <1>12, <2>1 DEF RowsOf
<1>14. TablesAgree(p2, m2)
  <2>1. ASSUME NEW i \in 1 .. n
        PROVE  m2.metrics[i] = RowsOf(p.metrics, i) /\ m2.errors[i] = RowsOf(p.errors, i)
    <3>1. CASE i = n
      BY <1>7, <1>13, <3>1
    <3>2. CASE i # n
      BY <1>1, <1>7, <1>8, <3>2 DEF TablesAgree
    <3> QED
      BY <3>1, <3>2
  <2> QED
    BY <1>5, <1>7, <1>8, <1>11, <1>12, <2>1 DEF TablesAgree
<1>15. Measured(p2)
  <2>1. ASSUME NEW i \in 1 .. n, p2.jobs[i].status = "completed" PROVE RowsOf(p.metrics, i) # {}
    <3>1. i # n
      BY <1>7, <2>1
    <3> QED
      BY <1>1, <1>7, <1>8, <2>1, <3>1 DEF Measured
  <2> QED
    BY <1>5, <1>7, <2>1 DEF Measured
<1>16. Grown(p, p2)
  <2>1. /\ Len(p.jobs) <= Len(p2.jobs)
        /\ Len(p.datasets) <= Len(p.datasets) /\ Len(p.files) <= Len(p.files)
    BY <1>1, <1>7 DEF n, Dbs
  <2> QED
    BY <1>5, <2>1 DEF Grown
<1> QED
  BY <1>1, <1>5, <1>6, <1>7, <1>9, <1>10, <1>14, <1>15, <1>16 DEF Agree

-----------------------------------------------------------------------------
(* The rows of a job after each of the calls *)

LEMMA Counted ==
    ASSUME NEW a \in Int PROVE a + 1 \in Int
  OBVIOUS

LEMMA CountedBoth ==
    ASSUME NEW a \in Int, NEW b \in Int, NEW t \in Int, a - t = b
    PROVE  (a + 1) - t = b + 1
  OBVIOUS

LEMMA MarkedRows ==
    ASSUME NEW r \in PgJobs, NEW s \in MemJobs, NEW k \in Cancels, RowsAgree(r, s, k),
           NEW status \in Outcomes, NEW lastError \in LastErrors,
           NEW at \in Nat, NEW k2 \in Cancels, k2.times = k.times
    PROVE  LET r2 == Marked(r, status, lastError, at)
               s2 == Marked(s, status, lastError, at)
           IN  /\ r2 \in PgJobs /\ s2 \in MemJobs /\ RowsAgree(r2, s2, k2)
               /\ r2.key = r.key /\ r2.status # "completed"
<1> DEFINE r2 == Marked(r, status, lastError, at)
           s2 == Marked(s, status, lastError, at)
<1>1. r2 \in PgJobs /\ s2 \in MemJobs
  <2>1. ASSUME NEW S, NEW x \in JobRows(S)
        PROVE  Marked(x, status, lastError, at) \in JobRows(S)
    <3>1. /\ status \in Statuses /\ x.attempts \in Int /\ x.startedAt \in Nat
          /\ x.completedAt \in Nat /\ x.canceledAt \in Nat
      BY DEF JobRows, Statuses, Outcomes
    <3>2. x.attempts + 1 \in Int
      BY <3>1, Counted, Zenon
    <3>3. /\ (IF status = "running" THEN at ELSE x.startedAt) \in Nat
          /\ (IF status \in {"completed", "failed", "dlq"} THEN at ELSE x.completedAt) \in Nat
          /\ (IF status = "canceled" THEN at ELSE x.canceledAt) \in Nat
      BY <3>1
    <3> HIDE DEF r2, s2
    <3> QED
      BY <3>1, <3>2, <3>3 DEF Marked, JobRows
  <2> QED
    BY <2>1 DEF PgJobs, MemJobs
<1>2. /\ r2.dataset = r.dataset /\ r2.file = r.file /\ r2.key = r.key /\ r2.status = status
      /\ r2.checkpoint = r.checkpoint /\ r2.manifest = r.manifest
      /\ r2.attempts = r.attempts + 1 /\ r2.lastError = lastError
      /\ r2.startedAt = (IF status = "running" THEN at ELSE r.startedAt)
      /\ r2.completedAt = (IF status \in {"completed", "failed", "dlq"} THEN at ELSE r.completedAt)
      /\ r2.canceledAt = (IF status = "canceled" THEN at ELSE r.canceledAt)
  BY DEF Marked, PgJobs, JobRows
<1>3. /\ s2.dataset = s.dataset /\ s2.file = s.file /\ s2.key = s.key /\ s2.status = status
      /\ s2.checkpoint = s.checkpoint /\ s2.manifest = s.manifest
      /\ s2.attempts = s.attempts + 1 /\ s2.lastError = lastError
      /\ s2.startedAt = (IF status = "running" THEN at ELSE s.startedAt)
      /\ s2.completedAt = (IF status \in {"completed", "failed", "dlq"} THEN at ELSE s.completedAt)
      /\ s2.canceledAt = (IF status = "canceled" THEN at ELSE s.canceledAt)
  BY DEF Marked, MemJobs, JobRows
<1>4. s2.attempts - k2.times = r2.attempts
  <2>1. s.attempts \in Int /\ r.attempts \in Int /\ k.times \in Int /\ s.attempts - k.times = r.attempts
    BY DEF RowsAgree, PgJobs, MemJobs, JobRows, Cancels
  <2> HIDE DEF r2, s2
  <2>2. (s.attempts + 1) - k.times = r.attempts + 1
    <3> DEFINE a == s.attempts
               b == r.attempts
               t == k.times
    <3>1. a \in Int /\ b \in Int /\ t \in Int /\ a - t = b
      BY <2>1
    <3> HIDE DEF a, b, t
    <3>2. (a + 1) - t = b + 1
      BY <3>1, CountedBoth, Zenon
    <3> QED
      BY <3>2 DEF a, b, t
  <2>3. s2.attempts = s.attempts + 1 /\ r2.attempts = r.attempts + 1 /\ k2.times = k.times
    BY <1>2, <1>3
  <2> QED
    BY <2>2, <2>3, Zenon
<1> HIDE DEF r2, s2
<1>5. RowsAgree(r2, s2, k2)
  BY <1>2, <1>3, <1>4 DEF RowsAgree
<1> QED
  BY <1>1, <1>2, <1>5 DEF r2, s2, Outcomes

LEMMA CanceledRows ==
    ASSUME NEW r \in PgJobs, NEW s \in MemJobs, NEW k \in Cancels, RowsAgree(r, s, k),
           NEW at \in Nat
    PROVE  LET r2 == Canceled(r, at)
               s2 == Marked(s, "canceled", "", at)
               k2 == [times |-> k.times + 1, cleared |-> TRUE]
           IN  /\ r2 \in PgJobs /\ s2 \in MemJobs /\ k2 \in Cancels /\ RowsAgree(r2, s2, k2)
               /\ r2.key = r.key /\ r2.status # "completed"
<1> DEFINE r2 == Canceled(r, at)
           s2 == Marked(s, "canceled", "", at)
           k2 == [times |-> k.times + 1, cleared |-> TRUE]
<1>1. r2 \in PgJobs /\ s2 \in MemJobs
  <2>1. ASSUME NEW S, NEW x \in JobRows(S)
        PROVE  Marked(x, "canceled", "", at) \in JobRows(S) /\ Canceled(x, at) \in JobRows(S)
    <3>1. x.attempts + 1 \in Int
      <4>1. x.attempts \in Int
        BY DEF JobRows
      <4> QED
        BY <4>1, Counted, Zenon
    <3>2. Canceled(x, at) \in JobRows(S)
      BY DEF Canceled, JobRows, Statuses
    <3> QED
      BY <3>1, <3>2 DEF Marked, JobRows, Statuses, LastErrors
  <2> QED
    BY <2>1 DEF PgJobs, MemJobs
<1>2. /\ r2.dataset = r.dataset /\ r2.file = r.file /\ r2.key = r.key /\ r2.status = "canceled"
      /\ r2.checkpoint = r.checkpoint /\ r2.manifest = r.manifest
      /\ r2.attempts = r.attempts /\ r2.startedAt = r.startedAt
      /\ r2.completedAt = r.completedAt /\ r2.canceledAt = at
  BY DEF Canceled, PgJobs, JobRows
<1>3. /\ s2.dataset = s.dataset /\ s2.file = s.file /\ s2.key = s.key /\ s2.status = "canceled"
      /\ s2.checkpoint = s.checkpoint /\ s2.manifest = s.manifest
      /\ s2.attempts = s.attempts + 1 /\ s2.startedAt = s.startedAt
      /\ s2.completedAt = s.completedAt /\ s2.canceledAt = at
  BY DEF Marked, MemJobs, JobRows
<1>4. k2 \in Cancels /\ k2.times = k.times + 1 /\ k2.cleared
  BY DEF Cancels
<1>5. s2.attempts - k2.times = r2.attempts
  <2>1. s.attempts \in Int /\ r.attempts \in Int /\ k.times \in Int /\ s.attempts - k.times = r.attempts
    BY DEF RowsAgree, PgJobs, MemJobs, JobRows, Cancels
  <2> HIDE DEF r2, s2, k2
  <2>2. (s.attempts + 1) - (k.times + 1) = r.attempts
    <3> DEFINE a == s.attempts
               b == r.attempts
               t == k.times
    <3>1. a \in Int /\ b \in Int /\ t \in Int /\ a - t = b
      BY <2>1
    <3> HIDE DEF a, b, t
    <3>2. (a + 1) - (t + 1) = b
      BY <3>1
    <3> QED
      BY <3>2 DEF a, b, t
  <2>3. s2.attempts = s.attempts + 1 /\ r2.attempts = r.attempts /\ k2.times = k.times + 1
    BY <1>2, <1>3, <1>4
  <2> QED
    BY <2>2, <2>3, Zenon
<1> HIDE DEF r2, s2, k2
<1>6. RowsAgree(r2, s2, k2)
  BY <1>2, <1>3, <1>4, <1>5 DEF RowsAgree
<1> QED
  BY <1>1, <1>2, <1>4, <1>6 DEF r2, s2, k2

LEMMA ReachedRows ==
    ASSUME NEW r \in PgJobs, NEW s \in MemJobs, NEW k \in Cancels, RowsAgree(r, s, k),
           NEW line \in Nat
    PROVE  LET r2 == Reached(r, line)
               s2 == Reached(s, line)
           IN  /\ r2 \in PgJobs /\ s2 \in MemJobs /\ RowsAgree(r2, s2, k)
               /\ r2.key = r.key /\ r2.status = r.status
<1> DEFINE r2 == Reached(r, line)
           s2 == Reached(s, line)
<1>1. r2 \in PgJobs /\ s2 \in MemJobs
  <2>1. ASSUME NEW S, NEW x \in JobRows(S) PROVE Reached(x, line) \in JobRows(S)
    BY DEF Reached, JobRows
  <2> QED
    BY <2>1 DEF PgJobs, MemJobs
<1>2. /\ r2.dataset = r.dataset /\ r2.file = r.file /\ r2.key = r.key /\ r2.status = r.status
      /\ r2.manifest = r.manifest /\ r2.attempts = r.attempts /\ r2.lastError = r.lastError
      /\ r2.startedAt = r.startedAt /\ r2.completedAt = r.completedAt
      /\ r2.canceledAt = r.canceledAt
      /\ r2.checkpoint = IF line > r.checkpoint THEN line ELSE r.checkpoint
  BY DEF Reached, PgJobs, JobRows
<1>3. /\ s2.dataset = s.dataset /\ s2.file = s.file /\ s2.key = s.key /\ s2.status = s.status
      /\ s2.manifest = s.manifest /\ s2.attempts = s.attempts /\ s2.lastError = s.lastError
      /\ s2.startedAt = s.startedAt /\ s2.completedAt = s.completedAt
      /\ s2.canceledAt = s.canceledAt
      /\ s2.checkpoint = IF line > s.checkpoint THEN line ELSE s.checkpoint
  BY DEF Reached, MemJobs, JobRows
<1> HIDE DEF r2, s2
<1>4. RowsAgree(r2, s2, k)
  BY <1>2, <1>3 DEF RowsAgree
<1> QED
  BY <1>1, <1>2, <1>4 DEF r2, s2

LEMMA DescribedRows ==
    ASSUME NEW r \in PgJobs, NEW s \in MemJobs, NEW k \in Cancels, RowsAgree(r, s, k),
           NEW n \in Nat
    PROVE  LET r2 == Described(r, <<n>>)
               s2 == Described(s, n)
           IN  /\ r2 \in PgJobs /\ s2 \in MemJobs /\ RowsAgree(r2, s2, k)
               /\ r2.key = r.key /\ r2.status = r.status
<1> DEFINE r2 == Described(r, <<n>>)
           s2 == Described(s, n)
<1>1. r2 \in PgJobs /\ s2 \in MemJobs
  <2>1. ASSUME NEW S, NEW v \in S, NEW x \in JobRows(S) PROVE Described(x, v) \in JobRows(S)
    BY DEF Described, JobRows
  <2>2. <<n>> \in Seq(Nat)
    OBVIOUS
  <2> QED
    BY <2>1, <2>2 DEF PgJobs, MemJobs
<1>2. /\ r2.dataset = r.dataset /\ r2.file = r.file /\ r2.key = r.key /\ r2.status = r.status
      /\ r2.checkpoint = r.checkpoint /\ r2.attempts = r.attempts
      /\ r2.lastError = r.lastError /\ r2.startedAt = r.startedAt
      /\ r2.completedAt = r.completedAt /\ r2.canceledAt = r.canceledAt
      /\ r2.manifest = <<n>>
  BY DEF Described, PgJobs, JobRows
<1>3. /\ s2.dataset = s.dataset /\ s2.file = s.file /\ s2.key = s.key /\ s2.status = s.status
      /\ s2.checkpoint = s.checkpoint /\ s2.attempts = s.attempts
      /\ s2.lastError = s.lastError /\ s2.startedAt = s.startedAt
      /\ s2.completedAt = s.completedAt /\ s2.canceledAt = s.canceledAt
      /\ s2.manifest = n
  BY DEF Described, MemJobs, JobRows
<1> HIDE DEF r2, s2
<1>4. s2.manifest = P!replayManifestFromJSON(r2.manifest)
  BY <1>2, <1>3 DEF P!replayManifestFromJSON
<1>5. RowsAgree(r2, s2, k)
  BY <1>2, <1>3, <1>4 DEF RowsAgree
<1> QED
  BY <1>1, <1>2, <1>5 DEF r2, s2

-----------------------------------------------------------------------------
(* The inductive invariant *)

Requests == [dataset : Nat, file : Nat, key : Keys \cup {NoKey}, waiting : BOOLEAN]

\* A request names records that are there, or none: records are never removed.
PendingOk(p, requests) ==
    /\ requests \in [Clients -> Requests]
    /\ \A c \in Clients : /\ requests[c].dataset \in 0 .. Len(p.datasets)
                          /\ requests[c].file \in 0 .. Len(p.files)

ReportStates ==
    [pc : {"idle", "metrics", "errors", "done"}, job : Nat, status : Statuses \cup {""},
     metrics : Nat, errors : SUBSET ErrorRows, due : SUBSET ErrorRows]

\* What the reader has seen so far is still there, and what it will see is no less.
ReportOk(p, r) ==
    /\ r \in ReportStates
    /\ r.pc # "idle" => /\ r.job \in 1 .. Len(p.jobs)
                        /\ r.due \subseteq RowsOf(p.errors, r.job)
                        /\ r.status = "completed" => RowsOf(p.metrics, r.job) # {}
    /\ r.pc \in {"errors", "done"} /\ r.status = "completed" => r.metrics > 0
    /\ r.pc = "done" => r.due \subseteq r.errors

MetadataInv ==
    /\ Agree(pg, mem, canceled)
    /\ now \in Nat
    /\ PendingOk(pg, pending)
    /\ AnswersAgree
    /\ ReportOk(pg, report)

LEMMA RowsFinite ==
    ASSUME NEW S, NEW rows \in Seq(S), NEW j
    PROVE  /\ Cardinality(RowsOf(rows, j)) \in Nat
           /\ RowsOf(rows, j) # {} => Cardinality(RowsOf(rows, j)) > 0
<1>1. DOMAIN rows = 1 .. Len(rows) /\ Len(rows) \in Nat
  OBVIOUS
<1>2. IsFiniteSet(1 .. Len(rows))
  BY <1>1, FS_Interval
<1>3. IsFiniteSet({rows[i] : i \in DOMAIN rows})
  <2> DEFINE T == {rows[i] : i \in DOMAIN rows}
  <2>1. rows \in Surjection(1 .. Len(rows), T)
    BY <1>1 DEF Surjection
  <2> HIDE DEF T
  <2>2. IsFiniteSet(T)
    BY <1>2, <2>1, FS_Surjection, Zenon
  <2> QED
    BY <2>2 DEF T
<1>4. IsFiniteSet(RowsOf(rows, j))
  <2>1. RowsOf(rows, j) \subseteq {rows[i] : i \in DOMAIN rows}
    BY DEF RowsOf
  <2> QED
    BY <1>3, <2>1, FS_Subset
<1>5. Cardinality(RowsOf(rows, j)) \in Nat
  BY <1>4, FS_CardinalityType
<1>6. Cardinality(RowsOf(rows, j)) = 0 <=> RowsOf(rows, j) = {}
  BY <1>4, FS_EmptySet
<1> QED
  BY <1>5, <1>6

LEMMA PendingGrows ==
    ASSUME NEW p \in Dbs, NEW n \in Dbs, NEW requests, Grown(p, n), PendingOk(p, requests)
    PROVE  PendingOk(n, requests)
<1>1. /\ Len(p.datasets) \in Nat /\ Len(n.datasets) \in Nat
      /\ Len(p.files) \in Nat /\ Len(n.files) \in Nat
      /\ Len(p.datasets) <= Len(n.datasets) /\ Len(p.files) <= Len(n.files)
  BY DEF Dbs, Grown
<1> QED
  BY <1>1 DEF PendingOk

LEMMA ReportGrows ==
    ASSUME NEW p \in Dbs, NEW n \in Dbs, NEW r, Grown(p, n), ReportOk(p, r)
    PROVE  ReportOk(n, r)
<1>1. /\ Len(p.jobs) \in Nat /\ Len(n.jobs) \in Nat /\ Len(p.jobs) <= Len(n.jobs)
      /\ \A j \in 1 .. Len(p.jobs) : /\ RowsOf(p.metrics, j) \subseteq RowsOf(n.metrics, j)
                                     /\ RowsOf(p.errors, j) \subseteq RowsOf(n.errors, j)
  BY DEF Dbs, Grown
<1>2. CASE r.pc = "idle"
  BY <1>2 DEF ReportOk
<1>3. CASE r.pc # "idle"
  <2>1. /\ r.job \in 1 .. Len(p.jobs) /\ r.due \subseteq RowsOf(p.errors, r.job)
        /\ r.status = "completed" => RowsOf(p.metrics, r.job) # {}
    BY <1>3 DEF ReportOk
  <2>2. /\ r.job \in 1 .. Len(n.jobs) /\ r.due \subseteq RowsOf(n.errors, r.job)
        /\ r.status = "completed" => RowsOf(n.metrics, r.job) # {}
    BY <1>1, <2>1
  <2> QED
    BY <2>2 DEF ReportOk
<1> QED
  BY <1>2, <1>3

\* A call that both repositories take, leaving the reader alone.
LEMMA CallKeeps ==
    ASSUME MetadataInv, Agree(pg', mem', canceled'), Grown(pg, pg'), now' \in Nat,
           UNCHANGED <<pending, report>>, AnswersAgree'
    PROVE  MetadataInv'
<1>1. pg \in Dbs /\ pg' \in Dbs
  BY DEF MetadataInv, Agree
<1>2. PendingOk(pg', pending) /\ ReportOk(pg', report)
  BY <1>1, PendingGrows, ReportGrows DEF MetadataInv
<1> QED
  BY <1>2 DEF MetadataInv

\* Both repositories accept, or both find nothing.
LEMMA BothAlike ==
    ASSUME NEW p, NEW m, NEW id, NEW code
    PROVE  /\ Both(Ok(p, id), Ok(m, id), code) => pg' = p /\ mem' = m /\ AnswersAgree'
           /\ Both(Refused(p, "not_found", 0), Refused(m, "not_found", 0), code) =>
                 pg' = p /\ mem' = m /\ AnswersAgree'
<1>1. /\ Ok(p, id).db = p /\ Ok(p, id).err = "nil" /\ Ok(p, id).id = id
      /\ Ok(m, id).db = m /\ Ok(m, id).err = "nil" /\ Ok(m, id).id = id
  BY DEF Ok
<1>2. /\ Refused(p, "not_found", 0).db = p /\ Refused(m, "not_found", 0).db = m
      /\ Refused(p, "not_found", 0).err = "not_found" /\ Refused(p, "not_found", 0).id = 0
      /\ Refused(m, "not_found", 0).err = "not_found" /\ Refused(m, "not_found", 0).id = 0
  BY DEF Refused
<1> QED
  BY <1>1, <1>2 DEF Both, Reply, AnswersAgree

\* A call on job j that replaces its row in both repositories.
LEMMA JobCall ==
    ASSUME MetadataInv, NEW j \in 1 .. Len(pg.jobs), NEW r \in PgJobs, NEW s \in MemJobs,
           NEW k \in Cancels, NEW code, RowsAgree(r, s, k), r.key = pg.jobs[j].key,
           r.status = "completed" => pg.jobs[j].status = "completed",
           Both(Ok(PutJob(pg, j, r), j), Ok(PutJob(mem, j, s), j), code),
           canceled' = [canceled EXCEPT ![j] = k], now' \in Nat, UNCHANGED <<pending, report>>
    PROVE  MetadataInv'
<1>1. Agree(pg, mem, canceled)
  BY DEF MetadataInv
<1>2. /\ Agree(PutJob(pg, j, r), PutJob(mem, j, s), [canceled EXCEPT ![j] = k])
      /\ Grown(pg, PutJob(pg, j, r))
  BY <1>1, PutJobAgrees
<1>3. pg' = PutJob(pg, j, r) /\ mem' = PutJob(mem, j, s) /\ AnswersAgree'
  BY BothAlike
<1> QED
  BY <1>2, <1>3, CallKeeps

\* What the calls on a job need to know of its rows.
LEMMA JobFacts ==
    ASSUME MetadataInv, NEW j \in Jobs
    PROVE  /\ pg \in Dbs /\ mem \in Mems /\ now \in Nat
           /\ j \in 1 .. Len(pg.jobs) /\ j \in DOMAIN pg.jobs /\ j \in DOMAIN mem.jobs
           /\ j \in DOMAIN canceled
           /\ pg.jobs[j] \in PgJobs /\ mem.jobs[j] \in MemJobs /\ canceled[j] \in Cancels
           /\ RowsAgree(pg.jobs[j], mem.jobs[j], canceled[j])
<1>1. /\ pg \in Dbs /\ mem \in Mems /\ canceled \in Seq(Cancels) /\ now \in Nat
      /\ JobsAgree(pg, mem, canceled)
  BY DEF MetadataInv, Agree
<1>2. pg.jobs \in Seq(PgJobs) /\ mem.jobs \in Seq(MemJobs)
  BY <1>1 DEF Dbs, Mems
<1>3. j \in 1 .. Len(pg.jobs) /\ j \in DOMAIN mem.jobs /\ j \in DOMAIN canceled
  BY <1>1, <1>2 DEF Jobs, JobsAgree
<1> QED
  BY <1>1, <1>2, <1>3 DEF Jobs, JobsAgree

LEMMA CancelStep ==
    ASSUME MetadataInv, NEW j \in Jobs, cancelReplayJob(j)
    PROVE  MetadataInv'
<1> DEFINE r == Canceled(pg.jobs[j], now)
           s == Marked(mem.jobs[j], "canceled", "", now)
           k == [times |-> canceled[j].times + 1, cleared |-> TRUE]
<1>1. /\ r \in PgJobs /\ s \in MemJobs /\ k \in Cancels /\ RowsAgree(r, s, k)
      /\ r.key = pg.jobs[j].key /\ r.status # "completed"
  BY JobFacts, CanceledRows
<1>2. Both(Ok(PutJob(pg, j, r), j), Ok(PutJob(mem, j, s), j), 200)
  BY JobFacts, PgCancel, MemCancel DEF cancelReplayJob
<1>3. canceled' = [canceled EXCEPT ![j] = k] /\ now' \in Nat /\ UNCHANGED <<pending, report>>
  BY JobFacts DEF cancelReplayJob, Call
<1> HIDE DEF r, s, k
<1> QED
  BY <1>1, <1>2, <1>3, JobFacts, JobCall

LEMMA StatusStep ==
    ASSUME MetadataInv, NEW j \in Jobs, NEW status \in {"running", "failed", "dlq"},
           UpdateReplayJobStatus(j, status)
    PROVE  MetadataInv'
<1> DEFINE lastError == IF status = "running" THEN "" ELSE "cause"
           r == Marked(pg.jobs[j], status, lastError, now)
           s == Marked(mem.jobs[j], status, lastError, now)
           k == [times |-> canceled[j].times, cleared |-> FALSE]
<1>1. lastError \in LastErrors /\ status \in Outcomes
  BY DEF LastErrors, Outcomes
<1>2. /\ Both(P!UpdateReplayJobStatus(pg, j, status, lastError, now),
              M!UpdateReplayJobStatus(mem, j, status, lastError, now), 0)
  BY DEF UpdateReplayJobStatus
<1>3. canceled' = [canceled EXCEPT ![j] = k] /\ now' \in Nat /\ UNCHANGED <<pending, report>>
  <2>1. now \in Nat
    BY JobFacts
  <2>2. now' = now + 1 /\ UNCHANGED <<pending, report>>
    BY DEF UpdateReplayJobStatus, Call
  <2>3. canceled' = [canceled EXCEPT ![j] = k]
    BY Zenon DEF UpdateReplayJobStatus
  <2> HIDE DEF k
  <2> QED
    BY <2>1, <2>2, <2>3
<1> HIDE DEF lastError
<1>4. /\ r \in PgJobs /\ s \in MemJobs /\ k \in Cancels /\ RowsAgree(r, s, k)
      /\ r.key = pg.jobs[j].key /\ r.status # "completed"
  <2>1. /\ pg.jobs[j] \in PgJobs /\ mem.jobs[j] \in MemJobs /\ canceled[j] \in Cancels
        /\ RowsAgree(pg.jobs[j], mem.jobs[j], canceled[j]) /\ now \in Nat
    BY JobFacts
  <2>2. k \in Cancels /\ k.times = canceled[j].times
    BY <2>1 DEF Cancels
  <2> HIDE DEF k
  <2> QED
    BY <1>1, <2>1, <2>2, MarkedRows
<1>5. Both(Ok(PutJob(pg, j, r), j), Ok(PutJob(mem, j, s), j), 0)
  BY <1>2, JobFacts, PgUpdateStatus, MemUpdateStatus
<1> HIDE DEF r, s, k
<1> QED
  BY <1>2, <1>3, <1>4, <1>5, JobFacts, JobCall

LEMMA CheckpointStep ==
    ASSUME MetadataInv, NEW j \in Jobs, NEW line \in 1 .. LastLine,
           UpdateReplayCheckpoint(j, line)
    PROVE  MetadataInv'
<1> DEFINE r == Reached(pg.jobs[j], line)
           s == Reached(mem.jobs[j], line)
<1>1. line \in Nat
  BY MetadataAssumption
<1>2. /\ r \in PgJobs /\ s \in MemJobs /\ RowsAgree(r, s, canceled[j])
      /\ r.key = pg.jobs[j].key /\ r.status = pg.jobs[j].status
  BY <1>1, JobFacts, ReachedRows
<1>3. Both(Ok(PutJob(pg, j, r), j), Ok(PutJob(mem, j, s), j), 0)
  BY JobFacts, PgCheckpoint, MemCheckpoint DEF UpdateReplayCheckpoint
<1>4. canceled' = canceled /\ now' \in Nat /\ UNCHANGED <<pending, report>>
  BY JobFacts DEF UpdateReplayCheckpoint, Call
<1>5. canceled = [canceled EXCEPT ![j] = canceled[j]]
  BY DEF MetadataInv, Agree
<1> HIDE DEF r, s
<1> QED
  BY <1>2, <1>3, <1>4, <1>5, JobFacts, JobCall

LEMMA ManifestStep ==
    ASSUME MetadataInv, NEW j \in Jobs, NEW errors \in Failures,
           UpdateReplayManifest(j, errors)
    PROVE  MetadataInv'
<1> DEFINE n == Len(errors)
           r == Described(pg.jobs[j], <<n>>)
           s == Described(mem.jobs[j], n)
<1>1. n \in Nat
  BY MetadataAssumption
<1>2. Both(P!UpdateReplayManifest(pg, j, n), M!UpdateReplayManifest(mem, j, n), 0)
  BY DEF UpdateReplayManifest
<1> HIDE DEF n
<1>3. /\ r \in PgJobs /\ s \in MemJobs /\ RowsAgree(r, s, canceled[j])
      /\ r.key = pg.jobs[j].key /\ r.status = pg.jobs[j].status
  BY <1>1, JobFacts, DescribedRows
<1>4. Both(Ok(PutJob(pg, j, r), j), Ok(PutJob(mem, j, s), j), 0)
  BY <1>2, JobFacts, PgManifest, MemManifest
<1>5. canceled' = canceled /\ now' \in Nat /\ UNCHANGED <<pending, report>>
  BY JobFacts DEF UpdateReplayManifest, Call
<1>6. canceled = [canceled EXCEPT ![j] = canceled[j]]
  BY DEF MetadataInv, Agree
<1> HIDE DEF r, s
<1> QED
  BY <1>3, <1>4, <1>5, <1>6, JobFacts, JobCall

LEMMA CompleteStep ==
    ASSUME MetadataInv, NEW j \in Jobs, NEW errors \in Failures, CompleteReplayJob(j, errors)
    PROVE  MetadataInv'
<1> DEFINE p2 == [PutJob(pg, j, Completed(pg.jobs[j], now)) EXCEPT
                     !.metrics = Append(pg.metrics, [job |-> j, at |-> now]),
                     !.errors = pg.errors \o ErrorsOf(j, errors, now)]
           m2 == [PutJob(mem, j, Completed(mem.jobs[j], now)) EXCEPT
                     !.metrics = [mem.metrics EXCEPT ![j] = @ \cup {[job |-> j, at |-> now]}],
                     !.errors = [mem.errors EXCEPT ![j] = @ \cup Range(ErrorsOf(j, errors, now))]]
<1>1. errors \in Seq(FailureRows)
  BY MetadataAssumption DEF FailureRows
<1>2. Agree(pg, mem, canceled)
  BY DEF MetadataInv
<1>3. Agree(p2, m2, canceled) /\ Grown(pg, p2)
  BY <1>1, <1>2, JobFacts, CompleteAgrees
<1>4. /\ P!CompleteReplayJob(pg, j, errors, now) = Ok(p2, j)
      /\ M!CompleteReplayJob(mem, j, errors, now) = Ok(m2, j)
  <2>1. pg \in Dbs /\ mem \in Mems /\ j \in DOMAIN pg.jobs /\ j \in DOMAIN mem.jobs
    BY JobFacts
  <2>2. P!CompleteReplayJob(pg, j, errors, now) = Ok(p2, j)
    BY <2>1, PgComplete, Zenon
  <2>3. M!CompleteReplayJob(mem, j, errors, now) = Ok(m2, j)
    BY <2>1, MemComplete, Zenon
  <2> QED
    BY <2>2, <2>3
<1> HIDE DEF p2, m2
<1>5. pg' = p2 /\ mem' = m2 /\ AnswersAgree'
  BY <1>4, BothAlike DEF CompleteReplayJob
<1>6. canceled' = canceled /\ now' \in Nat /\ UNCHANGED <<pending, report>>
  BY JobFacts DEF CompleteReplayJob, Call
<1> QED
  BY <1>3, <1>5, <1>6, CallKeeps

-----------------------------------------------------------------------------
(* The steps on datasets and files *)

LEMMA DatasetStep ==
    ASSUME MetadataInv, createDataset
    PROVE  MetadataInv'
<1> DEFINE ds == Append(pg.datasets, "d")
           p2 == [pg EXCEPT !.datasets = ds]
           m2 == [mem EXCEPT !.datasets = ds]
<1>1. /\ Agree(pg, mem, canceled) /\ now \in Nat /\ pg \in Dbs /\ mem \in Mems
      /\ mem.datasets = pg.datasets /\ mem.files = pg.files
  BY DEF MetadataInv, Agree
<1>2. pg.datasets \in Seq({"d"}) /\ pg.files \in Seq(FileRows)
  BY <1>1 DEF Dbs
<1>3. /\ ds \in Seq({"d"}) /\ Len(pg.datasets) <= Len(ds) /\ Len(pg.files) <= Len(pg.files)
  BY <1>2
<1>4. /\ P!CreateDataset(pg, "d") = Ok(p2, Len(pg.datasets) + 1)
      /\ M!CreateDataset(mem, "d") = Ok(m2, Len(pg.datasets) + 1)
  BY <1>1, CreateDatasetBoth
<1> HIDE DEF ds
<1>5. /\ p2 = Registered(pg, ds, pg.files)
      /\ m2 = Registered(mem, ds, pg.files)
  BY <1>1 DEF Dbs, Mems, Registered
<1> HIDE DEF p2, m2
<1>6. Agree(p2, m2, canceled) /\ Grown(pg, p2)
  BY <1>1, <1>2, <1>3, <1>5, RegisterAgrees
<1>7. pg' = p2 /\ mem' = m2 /\ AnswersAgree'
  BY <1>4, BothAlike DEF createDataset
<1>8. UNCHANGED <<pending, now, report, canceled>>
  BY DEF createDataset
<1> QED
  BY <1>1, <1>6, <1>7, <1>8, CallKeeps

LEMMA NoChange ==
    ASSUME NEW p, NEW m, NEW c, Agree(p, m, c)
    PROVE  Grown(p, p)
<1>1. Len(p.datasets) \in Nat /\ Len(p.files) \in Nat /\ Len(p.jobs) \in Nat
  BY DEF Agree, Dbs
<1> QED
  BY <1>1 DEF Grown

LEMMA FileStep ==
    ASSUME MetadataInv, NEW d \in Datasets, createEventFile(d)
    PROVE  MetadataInv'
<1>1. /\ Agree(pg, mem, canceled) /\ now \in Nat /\ pg \in Dbs /\ mem \in Mems
      /\ mem.datasets = pg.datasets /\ mem.files = pg.files
  BY DEF MetadataInv, Agree
<1>2. UNCHANGED <<pending, now, report, canceled>>
  BY DEF createEventFile
<1>3. CASE d \in DOMAIN pg.datasets
  <2> DEFINE row == [dataset |-> d, rows |-> 0]
             fs == Append(pg.files, row)
             p2 == [pg EXCEPT !.files = fs]
             m2 == [mem EXCEPT !.files = fs]
  <2>1. pg.datasets \in Seq({"d"}) /\ pg.files \in Seq(FileRows)
    BY <1>1 DEF Dbs
  <2>2. row \in FileRows
    BY <1>3, <2>1 DEF FileRows
  <2>3. /\ P!CreateEventFile(pg, d, 0) = Ok(p2, Len(pg.files) + 1)
        /\ M!CreateEventFile(mem, d, 0) = Ok(m2, Len(pg.files) + 1)
    BY <1>1, <1>3, CreateEventFileBoth
  <2> HIDE DEF row
  <2>4. /\ fs \in Seq(FileRows) /\ Len(pg.files) <= Len(fs)
        /\ Len(pg.datasets) <= Len(pg.datasets)
    BY <2>1, <2>2
  <2> HIDE DEF fs
  <2>5. /\ p2 = Registered(pg, pg.datasets, fs)
        /\ m2 = Registered(mem, pg.datasets, fs)
    BY <1>1 DEF Dbs, Mems, Registered
  <2> HIDE DEF p2, m2
  <2>6. Agree(p2, m2, canceled) /\ Grown(pg, p2)
    BY <1>1, <2>1, <2>4, <2>5, RegisterAgrees
  <2>7. pg' = p2 /\ mem' = m2 /\ AnswersAgree'
    BY <2>3, BothAlike DEF createEventFile
  <2> QED
    BY <1>1, <1>2, <2>6, <2>7, CallKeeps
<1>4. CASE d \notin DOMAIN pg.datasets
  <2>1. /\ P!CreateEventFile(pg, d, 0) = Refused(pg, "not_found", 0)
        /\ M!CreateEventFile(mem, d, 0) = Refused(mem, "not_found", 0)
    BY <1>1, <1>4, CreateEventFileBoth
  <2>2. pg' = pg /\ mem' = mem /\ AnswersAgree'
    BY <2>1, BothAlike DEF createEventFile
  <2> QED
    BY <1>1, <1>2, <2>2, NoChange, CallKeeps
<1> QED
  BY <1>3, <1>4

LEMMA StatsStep ==
    ASSUME MetadataInv, NEW f, UpdateEventFileStats(f)
    PROVE  MetadataInv'
<1>1. /\ Agree(pg, mem, canceled) /\ now \in Nat /\ pg \in Dbs /\ mem \in Mems
      /\ mem.datasets = pg.datasets /\ mem.files = pg.files /\ LastLine \in Nat
  BY MetadataAssumption DEF MetadataInv, Agree
<1>2. UNCHANGED <<pending, report, canceled>> /\ now' \in Nat
  BY <1>1 DEF UpdateEventFileStats, Call
<1>3. CASE f \in DOMAIN pg.files
  <2> DEFINE row == [pg.files[f] EXCEPT !.rows = LastLine]
             fs == [pg.files EXCEPT ![f] = row]
             p2 == PutFile(pg, f, row)
             m2 == PutFile(mem, f, row)
  <2>1. /\ pg.datasets \in Seq({"d"}) /\ pg.files \in Seq(FileRows) /\ f \in 1 .. Len(pg.files)
        /\ pg.files[f] \in FileRows
    BY <1>1, <1>3 DEF Dbs
  <2>2. row \in FileRows
    BY <1>1, <2>1 DEF FileRows
  <2>3. /\ P!UpdateEventFileStats(pg, f, LastLine) = Ok(p2, f)
        /\ M!UpdateEventFileStats(mem, f, LastLine) = Ok(m2, f)
    BY <1>1, <1>3, UpdateEventFileStatsBoth
  <2> HIDE DEF row
  <2>4. fs \in Seq(FileRows) /\ Len(fs) = Len(pg.files)
    BY <2>1, <2>2, SeqPut
  <2>5. p2 = [pg EXCEPT !.files = fs] /\ m2 = [mem EXCEPT !.files = fs]
    BY <1>1 DEF PutFile
  <2> HIDE DEF fs, p2, m2
  <2>6. /\ p2 = Registered(pg, pg.datasets, fs)
        /\ m2 = Registered(mem, pg.datasets, fs)
    BY <1>1, <2>5 DEF Dbs, Mems, Registered
  <2>7. Len(pg.datasets) <= Len(pg.datasets) /\ Len(pg.files) <= Len(fs)
    BY <2>1, <2>4
  <2>8. Agree(p2, m2, canceled) /\ Grown(pg, p2)
    BY <1>1, <2>1, <2>4, <2>6, <2>7, RegisterAgrees
  <2>9. pg' = p2 /\ mem' = m2 /\ AnswersAgree'
    BY <2>3, BothAlike DEF UpdateEventFileStats
  <2> QED
    BY <1>2, <2>8, <2>9, CallKeeps
<1>4. CASE f \notin DOMAIN pg.files
  <2>1. /\ P!UpdateEventFileStats(pg, f, LastLine) = Refused(pg, "not_found", 0)
        /\ M!UpdateEventFileStats(mem, f, LastLine) = Refused(mem, "not_found", 0)
    BY <1>1, <1>4 DEF P!UpdateEventFileStats, P!q!UpdateEventFileStats, P!q!Err, P!Mapped,
                      P!mapPostgresError, M!UpdateEventFileStats, M!Err, Refused
  <2>2. pg' = pg /\ mem' = mem /\ AnswersAgree'
    BY <2>1, BothAlike DEF UpdateEventFileStats
  <2> QED
    BY <1>1, <1>2, <2>2, NoChange, CallKeeps
<1> QED
  BY <1>3, <1>4

-----------------------------------------------------------------------------
(* The steps of a submission *)

\* A key that is taken, answered with its job by both.
LEMMA AnswerTaken ==
    ASSUME NEW id, NEW d, NEW f, d # 0, f # 0, Len(canceled) = Len(pg.jobs),
           Len(pg.jobs) \in Nat,
           Answer(Refused(pg, "exists", id), Refused(mem, "exists", id), d, f)
    PROVE  UNCHANGED <<pg, mem, canceled>> /\ AnswersAgree'
<1>1. /\ Refused(pg, "exists", id).db = pg /\ Refused(pg, "exists", id).err = "exists"
      /\ Refused(pg, "exists", id).id = id
      /\ Refused(mem, "exists", id).db = mem /\ Refused(mem, "exists", id).err = "exists"
      /\ Refused(mem, "exists", id).id = id
  BY DEF Refused
<1>2. pg' = pg /\ mem' = mem
  BY <1>1 DEF Answer
<1>3. canceled' = canceled
  BY <1>1 DEF Answer
<1>4. answer' = [pg |-> <<200, id>>, mem |-> <<200, id>>, stray |-> FALSE]
  BY <1>1 DEF Answer, Submitted
<1> QED
  BY <1>2, <1>3, <1>4 DEF AnswersAgree

\* A request that names a record that is not there: the lookup of the key
\* comes first in Postgres and last in memory.
LEMMA AnswerStray ==
    ASSUME NEW id, NEW err, NEW d, NEW f, d = 0 \/ f = 0, Len(canceled) = Len(pg.jobs),
           Len(pg.jobs) \in Nat, err \in {"exists", "not_found"},
           Answer(Refused(pg, err, id), Refused(mem, "not_found", 0), d, f)
    PROVE  UNCHANGED <<pg, mem, canceled>> /\ AnswersAgree'
<1>1. /\ Refused(pg, err, id).db = pg /\ Refused(pg, err, id).err = err
      /\ Refused(pg, err, id).id = id
      /\ Refused(mem, "not_found", 0).db = mem /\ Refused(mem, "not_found", 0).err = "not_found"
      /\ Refused(mem, "not_found", 0).id = 0
  BY DEF Refused
<1>2. pg' = pg /\ mem' = mem
  BY <1>1 DEF Answer
<1>3. canceled' = canceled
  BY <1>1 DEF Answer
<1>4. Submitted(Refused(mem, "not_found", 0)) = <<404, 0>>
  BY <1>1 DEF Submitted, Reply, writeStoreError
<1>5. Submitted(Refused(pg, err, id))[1] \in {200, 404}
  BY <1>1 DEF Submitted, Reply, writeStoreError
<1>6. answer'.stray /\ answer'.mem = <<404, 0>> /\ answer'.pg[1] \in {200, 404}
  BY <1>4, <1>5 DEF Answer
<1> QED
  BY <1>2, <1>3, <1>6 DEF AnswersAgree

LEMMA AnswerNew ==
    ASSUME NEW p, NEW m, NEW n, NEW d, NEW f, d # 0, f # 0, Len(canceled) \in Nat,
           Len(p.jobs) = Len(canceled) + 1, Answer(Ok(p, n), Ok(m, n), d, f)
    PROVE  /\ pg' = p /\ mem' = m /\ AnswersAgree'
           /\ canceled' = Append(canceled, [times |-> 0, cleared |-> FALSE])
<1>1. /\ Ok(p, n).db = p /\ Ok(p, n).err = "nil" /\ Ok(p, n).id = n
      /\ Ok(m, n).db = m /\ Ok(m, n).err = "nil" /\ Ok(m, n).id = n
  BY DEF Ok
<1>2. pg' = p /\ mem' = m
  BY <1>1 DEF Answer
<1>3. canceled' = Append(canceled, [times |-> 0, cleared |-> FALSE])
  BY <1>1 DEF Answer
<1>4. answer' = [pg |-> <<201, n>>, mem |-> <<201, n>>, stray |-> FALSE]
  BY <1>1 DEF Answer, Submitted, Reply
<1> QED
  BY <1>2, <1>3, <1>4 DEF AnswersAgree

\* Facts about a request for a dataset d and a file f.
LEMMA RequestFacts ==
    ASSUME MetadataInv, NEW d \in 0 .. Len(pg.datasets), NEW f \in 0 .. Len(pg.files)
    PROVE  /\ Agree(pg, mem, canceled) /\ pg \in Dbs /\ mem \in Mems /\ KeysAgree(pg, mem)
           /\ now \in Nat /\ d \in Nat /\ f \in Nat
           /\ Len(canceled) = Len(pg.jobs) /\ Len(pg.jobs) \in Nat
           /\ d \in DOMAIN pg.datasets <=> d # 0
           /\ f \in DOMAIN pg.files <=> f # 0
<1>1. /\ Agree(pg, mem, canceled) /\ pg \in Dbs /\ mem \in Mems /\ KeysAgree(pg, mem)
      /\ now \in Nat /\ Len(canceled) = Len(pg.jobs)
  BY DEF MetadataInv, Agree, JobsAgree
<1>2. /\ pg.datasets \in Seq({"d"}) /\ pg.files \in Seq(FileRows) /\ Len(pg.jobs) \in Nat
  BY <1>1 DEF Dbs
<1> QED
  BY <1>1, <1>2

\* The two answers of the INSERT, and of the lookup that finds the key.
LEMMA InsertKeeps ==
    ASSUME MetadataInv, NEW d \in 0 .. Len(pg.datasets), NEW f \in 0 .. Len(pg.files),
           NEW key \in Keys \cup {NoKey},
           Answer(P!InsertReplayJob(pg, d, f, key), M!CreateReplayJob(mem, d, f, key), d, f)
    PROVE  Agree(pg', mem', canceled') /\ Grown(pg, pg') /\ AnswersAgree'
<1> DEFINE known == d \in DOMAIN pg.datasets /\ f \in DOMAIN pg.files
           taken == key \in DOMAIN mem.idempotency
           r == P!q!NewJob(d, f, key)
           s == M!NewJob(d, f, key)
           k == [times |-> 0, cleared |-> FALSE]
           p2 == PgAdded(pg, r)
           m2 == MemAdded(mem, s, key, Len(pg.jobs) + 1)
<1>1. /\ Agree(pg, mem, canceled) /\ pg \in Dbs /\ mem \in Mems /\ d \in Nat /\ f \in Nat
      /\ Len(canceled) = Len(pg.jobs) /\ Len(pg.jobs) \in Nat
      /\ known <=> d # 0 /\ f # 0
  BY RequestFacts
<1>2. /\ P!InsertReplayJob(pg, d, f, key) =
            IF taken THEN Refused(pg, "exists", mem.idempotency[key])
            ELSE IF ~known THEN Refused(pg, "not_found", 0)
            ELSE Ok(p2, Len(pg.jobs) + 1)
      /\ M!CreateReplayJob(mem, d, f, key) =
            IF ~known THEN Refused(mem, "not_found", 0)
            ELSE IF taken THEN Refused(mem, "exists", mem.idempotency[key])
            ELSE Ok(m2, Len(pg.jobs) + 1)
  BY <1>1, InsertBoth
<1>3. CASE known /\ ~taken
  <2>1. /\ r \in PgJobs /\ s \in MemJobs /\ r.key = key /\ r.status = "queued"
        /\ RowsAgree(r, s, k)
    BY <1>1, NewJobRows
  <2>2. k \in Cancels
    BY DEF Cancels
  <2>3. Len(p2.jobs) = Len(pg.jobs) + 1
    <3>1. pg.jobs \in Seq(PgJobs)
      BY <1>1 DEF Dbs
    <3>2. p2.jobs = Append(pg.jobs, r)
      BY <1>1 DEF Dbs, PgAdded
    <3> HIDE DEF r, p2
    <3> QED
      BY <2>1, <3>1, <3>2
  <2> HIDE DEF r, s, k
  <2>4. r.status # "completed" /\ r.key \notin DOMAIN mem.idempotency
    BY <1>3, <2>1
  <2>5. Agree(p2, m2, Append(canceled, k)) /\ Grown(pg, p2)
    BY <1>1, <2>1, <2>2, <2>4, AppendAgrees
  <2>6. /\ P!InsertReplayJob(pg, d, f, key) = Ok(p2, Len(pg.jobs) + 1)
        /\ M!CreateReplayJob(mem, d, f, key) = Ok(m2, Len(pg.jobs) + 1)
    BY <1>2, <1>3, Zenon
  <2> HIDE DEF p2, m2, known
  <2>7. /\ pg' = p2 /\ mem' = m2 /\ AnswersAgree'
        /\ canceled' = Append(canceled, [times |-> 0, cleared |-> FALSE])
    <3>1. Answer(Ok(p2, Len(pg.jobs) + 1), Ok(m2, Len(pg.jobs) + 1), d, f)
      BY <2>6
    <3>2. d # 0 /\ f # 0 /\ Len(canceled) \in Nat /\ Len(p2.jobs) = Len(canceled) + 1
      BY <1>1, <1>3, <2>3
    <3> QED
      BY <3>1, <3>2, AnswerNew, Zenon
  <2> QED
    BY <2>5, <2>7 DEF k
<1> HIDE DEF p2, m2, known
<1>4. CASE known /\ taken
  <2>1. /\ P!InsertReplayJob(pg, d, f, key) = Refused(pg, "exists", mem.idempotency[key])
        /\ M!CreateReplayJob(mem, d, f, key) = Refused(mem, "exists", mem.idempotency[key])
    BY <1>2, <1>4
  <2>2. UNCHANGED <<pg, mem, canceled>> /\ AnswersAgree'
    BY <1>1, <1>4, <2>1, AnswerTaken
  <2> QED
    BY <1>1, <2>2, NoChange
<1>5. CASE ~known
  <2>1. M!CreateReplayJob(mem, d, f, key) = Refused(mem, "not_found", 0)
    BY <1>2, <1>5
  <2>2. PICK err \in {"exists", "not_found"}, id \in {mem.idempotency[key], 0} :
           P!InsertReplayJob(pg, d, f, key) = Refused(pg, err, id)
    BY <1>2, <1>5
  <2>3. UNCHANGED <<pg, mem, canceled>> /\ AnswersAgree'
    BY <1>1, <1>5, <2>1, <2>2, AnswerStray
  <2> QED
    BY <1>1, <2>3, NoChange
<1> QED
  BY <1>3, <1>4, <1>5

\* The lookup that finds the key answers as the INSERT would.
LEMMA SubmitStep ==
    ASSUME MetadataInv, NEW c \in Clients, NEW d \in Datasets, NEW f \in Files,
           NEW key \in Keys \cup {NoKey}, createReplayJob(c, d, f, key)
    PROVE  MetadataInv'
<1> DEFINE found == P!GetReplayJobByIdempotencyKey(pg, key)
           taken == key \in DOMAIN mem.idempotency
<1>1. d \in 0 .. Len(pg.datasets) /\ f \in 0 .. Len(pg.files)
  BY DEF Datasets, Files
<1>2. /\ Agree(pg, mem, canceled) /\ pg \in Dbs /\ mem \in Mems /\ KeysAgree(pg, mem)
      /\ now \in Nat /\ d \in Nat /\ f \in Nat
  BY <1>1, RequestFacts
<1>3. /\ found = IF taken THEN Ok(pg, mem.idempotency[key]) ELSE Refused(pg, "not_found", 0)
      /\ taken => key # NoKey
  BY <1>2, KeyLookup
<1>4. now' \in Nat /\ UNCHANGED report
  BY <1>2 DEF createReplayJob, Call
<1>5. CASE taken
  <2>1. found = Ok(pg, mem.idempotency[key]) /\ key # NoKey
    BY <1>3, <1>5
  <2>2. found.err = "nil" /\ [found EXCEPT !.err = "exists"] = Refused(pg, "exists", mem.idempotency[key])
    BY <2>1 DEF Ok, Refused
  <2>3. /\ Answer([found EXCEPT !.err = "exists"], M!CreateReplayJob(mem, d, f, key), d, f)
        /\ UNCHANGED pending
    BY <2>1, <2>2 DEF createReplayJob
  <2>4. P!InsertReplayJob(pg, d, f, key) = Refused(pg, "exists", mem.idempotency[key])
    BY <1>2, <1>5, InsertBoth
  <2> HIDE DEF found
  <2>5. Answer(P!InsertReplayJob(pg, d, f, key), M!CreateReplayJob(mem, d, f, key), d, f)
    BY <2>2, <2>3, <2>4
  <2>6. Agree(pg', mem', canceled') /\ Grown(pg, pg') /\ AnswersAgree'
    BY <1>1, <2>5, InsertKeeps
  <2> QED
    BY <1>4, <2>3, <2>6, CallKeeps
<1>6. CASE ~taken
  <2>1. found = Refused(pg, "not_found", 0)
    BY <1>3, <1>6
  <2>2. found.err # "nil"
    BY <2>1 DEF Refused
  <2> DEFINE request == [dataset |-> d, file |-> f, key |-> key, waiting |-> TRUE]
  <2>3. /\ pending' = [pending EXCEPT ![c] = request]
        /\ UNCHANGED <<pg, mem, answer, canceled>>
    BY <2>2 DEF createReplayJob
  <2>4. request \in Requests /\ request.dataset = d /\ request.file = f
    BY <1>2 DEF Requests
  <2> HIDE DEF request, found
  <2>5. PendingOk(pg, pending')
    <3>1. PendingOk(pg, pending)
      BY DEF MetadataInv
    <3> QED
      BY <1>1, <2>3, <2>4, <3>1 DEF PendingOk
  <2> QED
    BY <1>4, <2>3, <2>5 DEF MetadataInv, AnswersAgree
<1> QED
  BY <1>5, <1>6

LEMMA InsertStep ==
    ASSUME MetadataInv, NEW c \in Clients, insertReplayJob(c)
    PROVE  MetadataInv'
<1> DEFINE r == pending[c]
<1>1. /\ pending \in [Clients -> Requests] /\ r \in Requests
      /\ r.dataset \in 0 .. Len(pg.datasets) /\ r.file \in 0 .. Len(pg.files)
  BY DEF MetadataInv, PendingOk
<1>2. r.key \in Keys \cup {NoKey}
  BY <1>1 DEF Requests
<1>3. /\ Answer(P!InsertReplayJob(pg, r.dataset, r.file, r.key),
                M!CreateReplayJob(mem, r.dataset, r.file, r.key), r.dataset, r.file)
      /\ pending' = [pending EXCEPT ![c] = NoRequest] /\ UNCHANGED <<now, report>>
  BY DEF insertReplayJob
<1>4. Agree(pg', mem', canceled') /\ Grown(pg, pg') /\ AnswersAgree'
  BY <1>1, <1>2, <1>3, InsertKeeps
<1>5. pg \in Dbs /\ pg' \in Dbs /\ now \in Nat /\ PendingOk(pg, pending) /\ ReportOk(pg, report)
  BY <1>4 DEF MetadataInv, Agree
<1>6. PendingOk(pg', pending) /\ ReportOk(pg', report)
  BY <1>4, <1>5, PendingGrows, ReportGrows
<1>7. NoRequest \in Requests /\ NoRequest.dataset = 0 /\ NoRequest.file = 0
  BY DEF NoRequest, Requests
<1>8. Len(pg'.datasets) \in Nat /\ Len(pg'.files) \in Nat
  BY <1>5 DEF Dbs
<1>9. PendingOk(pg', pending')
  BY <1>3, <1>6, <1>7, <1>8 DEF PendingOk
<1> QED
  BY <1>3, <1>4, <1>5, <1>6, <1>9 DEF MetadataInv

-----------------------------------------------------------------------------
(* The steps of the reader *)

LEMMA ReadsAreRows ==
    ASSUME NEW p, NEW j
    PROVE  /\ P!ListReplayMetrics(p, j) = RowsOf(p.metrics, j)
           /\ P!ListValidationErrors(p, j) = RowsOf(p.errors, j)
  BY DEF P!ListReplayMetrics, P!ListValidationErrors, P!q!ListReplayMetrics,
         P!q!ListValidationErrors, RowsOf

LEMMA ErrorRowsOf ==
    ASSUME NEW p \in Dbs, NEW j
    PROVE  RowsOf(p.errors, j) \in SUBSET ErrorRows
  BY DEF Dbs, RowsOf

LEMMA ReaderKeeps ==
    ASSUME MetadataInv, UNCHANGED <<pg, mem, pending, answer, now, canceled>>,
           ReportOk(pg, report')
    PROVE  MetadataInv'
  BY DEF MetadataInv, AnswersAgree

LEMMA ReadJobStep ==
    ASSUME MetadataInv, NEW j \in Jobs, ReadJob(j)
    PROVE  MetadataInv'
<1> DEFINE due == RowsOf(pg.errors, j)
           status == pg.jobs[j].status
<1>1. /\ pg \in Dbs /\ j \in 1 .. Len(pg.jobs) /\ pg.jobs[j] \in PgJobs /\ Measured(pg)
      /\ j \in DOMAIN pg.jobs /\ j \in Nat
  BY JobFacts DEF MetadataInv, Agree
<1>2. status \in Statuses
  BY <1>1 DEF PgJobs, JobRows
<1>3. due \in SUBSET ErrorRows
  BY <1>1, ErrorRowsOf
<1>4. P!ListReplayJobs(pg)[j].status = status
  BY <1>1 DEF P!ListReplayJobs, P!q!ListReplayJobs, P!convertReplayJob, PgJobs, JobRows
<1>5. P!ListValidationErrors(pg, j) = due
  BY ReadsAreRows
<1>6. status = "completed" => RowsOf(pg.metrics, j) # {}
  BY <1>1 DEF Measured
<1> HIDE DEF due, status
<1>7. report' = [pc |-> "metrics", job |-> j, status |-> status, metrics |-> 0,
                 errors |-> {}, due |-> due]
  BY <1>4, <1>5 DEF ReadJob, NoReport
<1>8. /\ report' \in ReportStates /\ report'.pc = "metrics" /\ report'.job = j
      /\ report'.status = status /\ report'.due = due
  BY <1>1, <1>2, <1>3, <1>7 DEF ReportStates
<1>9. ReportOk(pg, report')
  BY <1>1, <1>6, <1>8 DEF ReportOk, due
<1>10. UNCHANGED <<pg, mem, pending, answer, now, canceled>>
  BY DEF ReadJob
<1> QED
  BY <1>9, <1>10, ReaderKeeps

LEMMA ReadMetricsStep ==
    ASSUME MetadataInv, ReadMetrics
    PROVE  MetadataInv'
<1> DEFINE rows == RowsOf(pg.metrics, report.job)
           n == Cardinality(rows)
<1>1. pg \in Dbs /\ ReportOk(pg, report) /\ report.pc = "metrics"
  BY DEF MetadataInv, Agree, ReadMetrics
<1>2. pg.metrics \in Seq(MetricRows) /\ report \in ReportStates
  BY <1>1 DEF Dbs, ReportOk
<1>3. n \in Nat /\ (rows # {} => n > 0)
  BY <1>2, RowsFinite
<1>4. P!ListReplayMetrics(pg, report.job) = rows
  BY ReadsAreRows
<1>5. report' = [report EXCEPT !.pc = "errors", !.metrics = n]
  BY <1>4 DEF ReadMetrics
<1>6. /\ report.job \in 1 .. Len(pg.jobs) /\ report.due \subseteq RowsOf(pg.errors, report.job)
      /\ report.status = "completed" => rows # {}
  BY <1>1 DEF ReportOk
<1> HIDE DEF rows, n
<1>7. /\ report' \in ReportStates /\ report'.pc = "errors" /\ report'.job = report.job
      /\ report'.status = report.status /\ report'.due = report.due /\ report'.metrics = n
  BY <1>2, <1>3, <1>5 DEF ReportStates
<1>8. ReportOk(pg, report')
  BY <1>3, <1>6, <1>7 DEF ReportOk, rows
<1>9. UNCHANGED <<pg, mem, pending, answer, now, canceled>>
  BY DEF ReadMetrics
<1> QED
  BY <1>8, <1>9, ReaderKeeps

LEMMA ReadErrorsStep ==
    ASSUME MetadataInv, ReadErrors
    PROVE  MetadataInv'
<1> DEFINE rows == RowsOf(pg.errors, report.job)
<1>1. pg \in Dbs /\ ReportOk(pg, report) /\ report.pc = "errors" /\ report \in ReportStates
  BY DEF MetadataInv, Agree, ReadErrors, ReportOk
<1>2. rows \in SUBSET ErrorRows
  BY <1>1, ErrorRowsOf
<1>3. P!ListValidationErrors(pg, report.job) = rows
  BY ReadsAreRows
<1>4. report' = [report EXCEPT !.pc = "done", !.errors = rows]
  BY <1>3 DEF ReadErrors
<1>5. /\ report.job \in 1 .. Len(pg.jobs) /\ report.due \subseteq rows
      /\ report.status = "completed" => RowsOf(pg.metrics, report.job) # {}
      /\ report.status = "completed" => report.metrics > 0
  BY <1>1 DEF ReportOk
<1> HIDE DEF rows
<1>6. /\ report' \in ReportStates /\ report'.pc = "done" /\ report'.job = report.job
      /\ report'.status = report.status /\ report'.due = report.due
      /\ report'.metrics = report.metrics /\ report'.errors = rows
  BY <1>1, <1>2, <1>4 DEF ReportStates
<1>7. ReportOk(pg, report')
  BY <1>5, <1>6 DEF ReportOk, rows
<1>8. UNCHANGED <<pg, mem, pending, answer, now, canceled>>
  BY DEF ReadErrors
<1> QED
  BY <1>7, <1>8, ReaderKeeps

-----------------------------------------------------------------------------
(* The invariant holds, and what follows from it *)

LEMMA InitInv == Init => MetadataInv
<1> SUFFICES ASSUME Init PROVE MetadataInv
  OBVIOUS
<1>1. /\ pg \in Dbs /\ pg.datasets = <<>> /\ pg.files = <<>> /\ pg.jobs = <<>>
      /\ pg.metrics = <<>> /\ pg.errors = <<>>
  BY DEF Init, P!q!EmptyDb, Dbs
<1>2. <<>> \in KeyMaps
  <2>1. <<>> \in [{} -> Nat]
    OBVIOUS
  <2> QED
    BY <2>1 DEF KeyMaps
<1>3. /\ mem \in Mems /\ mem.datasets = <<>> /\ mem.files = <<>> /\ mem.jobs = <<>>
      /\ mem.metrics = <<>> /\ mem.errors = <<>> /\ mem.idempotency = <<>>
  BY <1>2 DEF Init, M!EmptyMem, Mems
<1>4. canceled = <<>> /\ canceled \in Seq(Cancels) /\ now = 0
  BY DEF Init
<1>5. Agree(pg, mem, canceled)
  <2>1. Len(<<>>) = 0 /\ 1 .. 0 = {}
    OBVIOUS
  <2>2. JobsAgree(pg, mem, canceled)
    BY <1>1, <1>3, <1>4, <2>1 DEF JobsAgree
  <2>3. DOMAIN mem.idempotency = {}
    BY <1>3
  <2>4. KeysAgree(pg, mem)
    BY <1>1, <2>1, <2>3 DEF KeysAgree
  <2>5. TablesAgree(pg, mem)
    BY <1>1, <1>3, <2>1 DEF TablesAgree
  <2>6. Measured(pg)
    BY <1>1, <2>1 DEF Measured
  <2> QED
    BY <1>1, <1>3, <1>4, <2>2, <2>4, <2>5, <2>6 DEF Agree
<1>6. PendingOk(pg, pending)
  <2>1. NoRequest \in Requests /\ NoRequest.dataset = 0 /\ NoRequest.file = 0
    BY DEF NoRequest, Requests
  <2>2. pending = [c \in Clients |-> NoRequest]
    BY DEF Init
  <2>3. Len(pg.datasets) = 0 /\ Len(pg.files) = 0
    BY <1>1
  <2> HIDE DEF NoRequest
  <2> QED
    BY <2>1, <2>2, <2>3 DEF PendingOk
<1>7. AnswersAgree
  BY DEF Init, NoAnswer, AnswersAgree
<1>8. ReportOk(pg, report)
  <2>1. report \in ReportStates /\ report.pc = "idle"
    BY DEF Init, NoReport, ReportStates
  <2> QED
    BY <2>1 DEF ReportOk
<1> QED
  BY <1>4, <1>5, <1>6, <1>7, <1>8 DEF MetadataInv

LEMMA NextInv == MetadataInv /\ [Next]_vars => MetadataInv'
<1> SUFFICES ASSUME MetadataInv, [Next]_vars PROVE MetadataInv'
  OBVIOUS
<1>1. CASE createDataset
  BY <1>1, DatasetStep
<1>2. CASE \E d \in Datasets : createEventFile(d)
  BY <1>2, FileStep
<1>3. CASE \E c \in Clients, d \in Datasets, f \in Files, key \in Keys \cup {NoKey} :
             createReplayJob(c, d, f, key)
  BY <1>3, SubmitStep
<1>4. CASE \E c \in Clients : insertReplayJob(c)
  BY <1>4, InsertStep
<1>5. CASE \E j \in Jobs : cancelReplayJob(j)
  BY <1>5, CancelStep
<1>6. CASE \E j \in Jobs, status \in {"running", "failed", "dlq"} :
             UpdateReplayJobStatus(j, status)
  BY <1>6, StatusStep
<1>7. CASE \E j \in Jobs, line \in 1 .. LastLine : UpdateReplayCheckpoint(j, line)
  BY <1>7, CheckpointStep
<1>8. CASE \E j \in Jobs : UpdateEventFileStats(pg.jobs[j].file)
  BY <1>8, StatsStep
<1>9. CASE \E j \in Jobs, errors \in Failures :
             UpdateReplayManifest(j, errors) \/ CompleteReplayJob(j, errors)
  BY <1>9, ManifestStep, CompleteStep
<1>10. CASE \E j \in Jobs : ReadJob(j)
  BY <1>10, ReadJobStep
<1>11. CASE ReadMetrics
  BY <1>11, ReadMetricsStep
<1>12. CASE ReadErrors
  BY <1>12, ReadErrorsStep
<1>13. CASE UNCHANGED vars
  BY <1>13 DEF vars, MetadataInv, AnswersAgree
<1> QED
  BY <1>1, <1>2, <1>3, <1>4, <1>5, <1>6, <1>7, <1>8, <1>9, <1>10, <1>11, <1>12, <1>13 DEF Next

LEMMA InvHolds == Spec => []MetadataInv
  BY InitInv, NextInv, PTL DEF Spec

LEMMA OneField ==
    ASSUME NEW s \in MemJobs, NEW e \in LastErrors
    PROVE  [s EXCEPT !.lastError = e] =
             [dataset |-> s.dataset, file |-> s.file, key |-> s.key, status |-> s.status,
              attempts |-> s.attempts, lastError |-> e, checkpoint |-> s.checkpoint,
              startedAt |-> s.startedAt, completedAt |-> s.completedAt,
              canceledAt |-> s.canceledAt, manifest |-> s.manifest]
  BY DEF MemJobs, JobRows

LEMMA TwoFields ==
    ASSUME NEW s \in MemJobs, NEW a \in Int, NEW e \in LastErrors
    PROVE  [s EXCEPT !.attempts = a, !.lastError = e] =
             [dataset |-> s.dataset, file |-> s.file, key |-> s.key, status |-> s.status,
              attempts |-> a, lastError |-> e, checkpoint |-> s.checkpoint,
              startedAt |-> s.startedAt, completedAt |-> s.completedAt,
              canceledAt |-> s.canceledAt, manifest |-> s.manifest]
<1> DEFINE u == [s EXCEPT !.attempts = a]
<1>1. u \in MemJobs
  BY DEF MemJobs, JobRows
<1>2. /\ u.dataset = s.dataset /\ u.file = s.file /\ u.key = s.key /\ u.status = s.status
      /\ u.attempts = a /\ u.checkpoint = s.checkpoint /\ u.startedAt = s.startedAt
      /\ u.completedAt = s.completedAt /\ u.canceledAt = s.canceledAt
      /\ u.manifest = s.manifest
  BY DEF MemJobs, JobRows
<1>3. [s EXCEPT !.attempts = a, !.lastError = e] = [u EXCEPT !.lastError = e]
  OBVIOUS
<1> HIDE DEF u
<1>4. [u EXCEPT !.lastError = e] =
        [dataset |-> u.dataset, file |-> u.file, key |-> u.key, status |-> u.status,
         attempts |-> u.attempts, lastError |-> e, checkpoint |-> u.checkpoint,
         startedAt |-> u.startedAt, completedAt |-> u.completedAt,
         canceledAt |-> u.canceledAt, manifest |-> u.manifest]
  BY <1>1, OneField, Zenon
<1> QED
  BY <1>2, <1>3, <1>4, Zenon

LEMMA ManifestField ==
    ASSUME NEW r \in PgJobs, NEW x
    PROVE  [r EXCEPT !.manifest = x] =
             [dataset |-> r.dataset, file |-> r.file, key |-> r.key, status |-> r.status,
              attempts |-> r.attempts, lastError |-> r.lastError, checkpoint |-> r.checkpoint,
              startedAt |-> r.startedAt, completedAt |-> r.completedAt,
              canceledAt |-> r.canceledAt, manifest |-> x]
  BY SMTT(30) DEF PgJobs, JobRows

\* Row by row: what a reader of the two repositories sees of a job.
LEMMA SameJobs ==
    ASSUME MetadataInv, NEW j \in Jobs
    PROVE  WithoutCancels(j, M!ListReplayJobs(mem)[j]) = P!ListReplayJobs(pg)[j]
<1> DEFINE r == pg.jobs[j]
           s == mem.jobs[j]
           k == canceled[j]
<1>1. r \in PgJobs /\ s \in MemJobs /\ k \in Cancels /\ RowsAgree(r, s, k) /\ j \in DOMAIN pg.jobs
  BY JobFacts
<1>2. P!ListReplayJobs(pg)[j] = [r EXCEPT !.manifest = P!replayManifestFromJSON(r.manifest)]
  BY <1>1 DEF P!ListReplayJobs, P!q!ListReplayJobs, P!convertReplayJob
<1>3. WithoutCancels(j, M!ListReplayJobs(mem)[j]) =
        [s EXCEPT !.attempts = s.attempts - k.times,
                  !.lastError = IF k.cleared THEN r.lastError ELSE s.lastError]
  BY DEF WithoutCancels, M!ListReplayJobs
<1>4. /\ s.dataset = r.dataset /\ s.file = r.file /\ s.key = r.key /\ s.status = r.status
      /\ s.checkpoint = r.checkpoint /\ s.startedAt = r.startedAt
      /\ s.completedAt = r.completedAt /\ s.canceledAt = r.canceledAt
  BY <1>1 DEF RowsAgree
<1>5. s.manifest = P!replayManifestFromJSON(r.manifest)
  BY <1>1 DEF RowsAgree
<1>6. s.attempts - k.times = r.attempts
  BY <1>1 DEF RowsAgree
<1>7. (IF k.cleared THEN r.lastError ELSE s.lastError) = r.lastError
  BY <1>1 DEF RowsAgree
<1> HIDE DEF r, s, k
<1> DEFINE both == [dataset |-> r.dataset, file |-> r.file, key |-> r.key, status |-> r.status,
                    attempts |-> r.attempts, lastError |-> r.lastError,
                    checkpoint |-> r.checkpoint, startedAt |-> r.startedAt,
                    completedAt |-> r.completedAt, canceledAt |-> r.canceledAt,
                    manifest |-> s.manifest]
<1>8. [r EXCEPT !.manifest = s.manifest] = both
  BY <1>1, ManifestField, Zenon DEF both
<1>9. [s EXCEPT !.attempts = r.attempts, !.lastError = r.lastError] = both
  <2>1. s \in MemJobs /\ r.attempts \in Int /\ r.lastError \in LastErrors
    BY <1>1 DEF PgJobs, JobRows
  <2>2. [s EXCEPT !.attempts = r.attempts, !.lastError = r.lastError] =
          [dataset |-> s.dataset, file |-> s.file, key |-> s.key, status |-> s.status,
           attempts |-> r.attempts, lastError |-> r.lastError,
           checkpoint |-> s.checkpoint, startedAt |-> s.startedAt,
           completedAt |-> s.completedAt, canceledAt |-> s.canceledAt,
           manifest |-> s.manifest]
    BY <2>1, TwoFields, Zenon
  <2> QED
    BY <2>2, <1>4, Zenon DEF both
<1> HIDE DEF both
<1>10. P!ListReplayJobs(pg)[j] = both
  BY <1>2, <1>5, <1>8, Zenon
<1>11. WithoutCancels(j, M!ListReplayJobs(mem)[j]) = both
  BY <1>3, <1>6, <1>7, <1>9, Zenon
<1> QED
  BY <1>10, <1>11, Zenon

LEMMA SameViews ==
    ASSUME MetadataInv
    PROVE  PgView = MemView /\ DOMAIN M!ListReplayJobs(mem) = Jobs
<1>1. /\ pg \in Dbs /\ mem \in Mems /\ mem.datasets = pg.datasets /\ mem.files = pg.files
      /\ JobsAgree(pg, mem, canceled) /\ TablesAgree(pg, mem)
  BY DEF MetadataInv, Agree
<1>2. /\ DOMAIN pg.jobs = 1 .. Len(pg.jobs) /\ DOMAIN mem.jobs = 1 .. Len(pg.jobs)
      /\ DOMAIN mem.metrics = 1 .. Len(pg.jobs) /\ DOMAIN mem.errors = 1 .. Len(pg.jobs)
  BY <1>1 DEF Dbs, Mems, JobsAgree, TablesAgree
<1> DEFINE J == 1 .. Len(pg.jobs)
           pj == P!ListReplayJobs(pg)
           mj == M!ListReplayJobs(mem)
<1>3. DOMAIN pj = J /\ DOMAIN mj = J
  BY <1>2 DEF P!ListReplayJobs, P!q!ListReplayJobs, M!ListReplayJobs
<1>4. ASSUME NEW j \in J PROVE pj[j].dataset = mj[j].dataset /\ pj[j].file = mj[j].file
  <2>1. pg.jobs[j] \in PgJobs /\ RowsAgree(pg.jobs[j], mem.jobs[j], canceled[j]) /\ j \in DOMAIN pg.jobs
    BY <1>1, <1>2 DEF JobsAgree, Dbs
  <2>2. pj[j].dataset = pg.jobs[j].dataset /\ pj[j].file = pg.jobs[j].file
    BY <2>1 DEF P!ListReplayJobs, P!q!ListReplayJobs, P!convertReplayJob, PgJobs, JobRows
  <2>3. mj[j] = mem.jobs[j]
    BY DEF M!ListReplayJobs
  <2> QED
    BY <2>1, <2>2, <2>3 DEF RowsAgree
<1> HIDE DEF pj, mj
<1>5. [j \in DOMAIN pj |-> [dataset |-> pj[j].dataset, file |-> pj[j].file]] =
      [j \in DOMAIN mj |-> [dataset |-> mj[j].dataset, file |-> mj[j].file]]
  BY <1>3, <1>4
<1>6. [d \in DOMAIN P!ListDatasets(pg) |-> P!ListEventFiles(pg, d)] =
      [d \in DOMAIN M!ListDatasets(mem) |-> M!ListEventFiles(mem, d)]
  <2>1. P!ListDatasets(pg) = pg.datasets /\ M!ListDatasets(mem) = pg.datasets
    BY <1>1 DEF P!ListDatasets, P!q!ListDatasets, M!ListDatasets
  <2>2. ASSUME NEW d \in DOMAIN pg.datasets
        PROVE  P!ListEventFiles(pg, d) = M!ListEventFiles(mem, d)
    <3>1. P!GetDataset(pg, d) = Ok(pg, d)
      <4>1. P!q!GetDataset(pg, d) = Ok(pg, d)
        BY DEF P!q!GetDataset, P!q!Done, Ok
      <4> QED
        BY <4>1, MappedOk DEF P!GetDataset
    <3>2. P!GetDataset(pg, d).err = "nil"
      BY <3>1 DEF Ok
    <3> QED
      BY <1>1, <3>2 DEF P!ListEventFiles, P!q!ListEventFiles, M!ListEventFiles
  <2> QED
    BY <2>1, <2>2
<1>7. ASSUME NEW j \in J
      PROVE  /\ P!ListReplayMetrics(pg, j) = M!ListReplayMetrics(mem, j)
             /\ P!ListValidationErrors(pg, j) = M!ListValidationErrors(mem, j)
  <2>1. mem.metrics[j] = RowsOf(pg.metrics, j) /\ mem.errors[j] = RowsOf(pg.errors, j)
    BY <1>1 DEF TablesAgree
  <2> QED
    BY <1>2, <2>1, ReadsAreRows DEF M!ListReplayMetrics, M!ListValidationErrors
<1>8. /\ [j \in Jobs |-> P!ListReplayMetrics(pg, j)] =
            [j \in DOMAIN mem.jobs |-> M!ListReplayMetrics(mem, j)]
      /\ [j \in Jobs |-> P!ListValidationErrors(pg, j)] =
            [j \in DOMAIN mem.jobs |-> M!ListValidationErrors(mem, j)]
  BY <1>2, <1>7 DEF Jobs
<1>9. PgView = MemView
  BY <1>5, <1>6, <1>8 DEF PgView, MemView, View, pj, mj
<1> QED
  BY <1>2, <1>3, <1>9 DEF Jobs, mj

LEMMA InvAgrees == MetadataInv => RepositoriesAgree
<1> SUFFICES ASSUME MetadataInv PROVE RepositoriesAgree
  OBVIOUS
<1>1. /\ pg \in Dbs /\ mem \in Mems /\ mem.files = pg.files /\ KeysAgree(pg, mem)
  BY DEF MetadataInv, Agree
<1>2. PgView = MemView /\ DOMAIN M!ListReplayJobs(mem) = Jobs
  BY SameViews
<1>3. ASSUME NEW key \in Keys
      PROVE  P!GetReplayJobByIdempotencyKey(pg, key).id = M!GetReplayJobByIdempotencyKey(mem, key).id
  <2>1. P!GetReplayJobByIdempotencyKey(pg, key) =
          IF key \in DOMAIN mem.idempotency THEN Ok(pg, mem.idempotency[key])
          ELSE Refused(pg, "not_found", 0)
    BY <1>1, KeyLookup
  <2> QED
    BY <2>1 DEF M!GetReplayJobByIdempotencyKey, M!Done, M!Err, Ok, Refused
<1> QED
  BY <1>1, <1>2, <1>3, SameJobs DEF RepositoriesAgree

LEMMA InvReport == MetadataInv => ReportSound
  BY DEF MetadataInv, ReportOk, ReportSound

(***************************************************************************)
(* Whatever the clients submit and cancel and the workers record, in any   *)
(* order, the memory repository the unit tests run on holds what Postgres  *)
(* holds: the datasets, files and jobs, the job of a key, the lineage and  *)
(* the error summary (memory.go against postgres.go).                      *)
(***************************************************************************)
THEOREM RepositoriesStayAlike == Spec => []RepositoriesAgree
  BY InvHolds, InvAgrees, PTL

(***************************************************************************)
(* Both repositories answer every request with the same status and id,     *)
(* also when another client takes the key between the lookup and the       *)
(* INSERT of Postgres' CreateReplayJob; only the order of the lookups      *)
(* differs for a request that names an unknown dataset or file.            *)
(***************************************************************************)
THEOREM AnswersStayAlike == Spec => []AnswersAgree
<1>1. MetadataInv => AnswersAgree
  BY DEF MetadataInv
<1> QED
  BY <1>1, InvHolds, PTL

(***************************************************************************)
(* A quality report built by separate reads while workers write shows, for *)
(* a completed job, a metric and every error recorded before it was read   *)
(* (BuildReplayQualityReport; CompleteReplayJob is one transaction).       *)
(***************************************************************************)
THEOREM ReportsAreSound == Spec => []ReportSound
  BY InvHolds, InvReport, PTL
=============================================================================
