# market-replay: verification project

TLA+ models of market-replay (its control plane, repositories, reports, Kafka data
plane and file tools), the TLC configurations
that check them on small instances, and proofs checked by TLAPS. Paths below are
relative to the root of the repository.

## 1. The system

Historical market data (depth updates and trades, JSONL or CSV) is registered as
event files. A *replay job* reads one file, validates every row, and records a
metric, the validation errors and a manifest. Jobs are submitted over HTTP, kept
in Postgres, dispatched through a Redis queue (Asynq) and executed by workers
that may die at any point and resume from a checkpoint. A second, independent
data plane publishes rows to Kafka and validates them from there. Two commands
expand a fixture to a larger workload and replay a file at the recorded pace.

| Component | State | Operations | Interacts with | Hard behaviour | What makes it correct |
| --- | --- | --- | --- | --- | --- |
| Streaming validator, `internal/validate` | last time, depth id and trade id per symbol; counters; failures | `Process`, `Prime`, `Result` | parser; handler; Kafka validator | state rebuilt on resume; zero values of map keys | a resumed run judges rows as an uninterrupted one |
| Row parser, `internal/parser` | line counter | `Next`, `ParseJSONLine`, `parseCSV`, `validateEventShape` | files; validator | two formats with different precedence of fields | bad rows are reported, not fatal |
| Repositories, `internal/store` (Postgres and memory) | datasets, event files, replay jobs, metrics, validation errors | one method per statement; `CompleteReplayJob` is a transaction | API, enqueuer, worker, dashboard | unconditional updates from several writers; two implementations | key unique, checkpoint grows, both answer alike |
| Enqueuer, `internal/queue` | none | `SubmitReplay`, `EnqueueReplayJob` | API, repository, Redis | insert and enqueue are two steps; races on a key | one job and one task per key |
| Asynq (library) | tasks: state, retry count, lease | enqueue, deliver, retry, archive, recover | Redis, worker | at-least-once delivery | used within its guarantees |
| Handler, `internal/worker/handler.go` | position in a file, validator, resume line | `ProcessTask`, `run`, `processFile`, `failJob` | Asynq, repository, validator | crash, timeout, cancellation and failing call at every step | every row read, every error once, terminal is terminal |
| Worker server, `internal/worker/server.go` | none | routing, retry delay | Asynq | shift overflow in the delay | bounded delay |
| API, `internal/api` | none | submit, cancel, register, read | repository, enqueuer | process dies mid-request | answer agrees with the store |
| Reports, `internal/store/reports.go` | none | lineage, quality report, error summary | repository | several reads, no transaction | report agrees with what was committed |
| Kafka pipeline, `internal/kafkastream`, `cmd/kafka-replay` | topics, offsets, validator | publish, `Poll`, `Run`, `Process`, `routeError` | broker, validator | redelivery, restart with empty state, two topics | no record lost, no false verdict |
| Pacing, `internal/replay` | previous event time | `Stream`, `sleepForEvent` | parser, validator | rows filtered, malformed, out of order | never ahead of the recording |
| Generator, `internal/workload` | row counter, spans | `GenerateFile`, normalisers | files | the seam between two cycles | valid source, valid output |
| Benchmarks, dashboard, observability, commands | - | - | - | - | not modelled, see 8 |

## 2. Modules

| Module | Models | Notes |
| --- | --- | --- |
| `Validate` | `internal/validate/validator.go`, the row checks of `internal/parser/jsonl.go` | operators on one validator value |
| `Parser` | `ParseJSONLine`, `parseCSV` | a line with present and absent fields becomes a row of `Validate` |
| `ResumeValidation` | the loop of `processFile` seen by the validator | three validators in lockstep on one file |
| `Environment` | submissions, fault budget | shared by the control-plane modules |
| `JobStore` | what the workers' correctness needs of the Postgres repository | one operator per repository call |
| `TaskQueue` | Asynq as `internal/queue` and `internal/worker` use it | external |
| `ReplaySubmit` | `createReplayJob`, `SubmitReplay`, `CreateReplayJob`, `cancelReplayJob` | one step per repository or queue call |
| `ReplayWorker` | `ProcessTask`, `run`, `processFile`, `failJob`, and Asynq around them | one step per call or row |
| `ReplaySystem` | the composition, its fairness, its properties, the refinement | extends `ReplaySubmit` and `ReplayWorker` |
| `ReplayOnce` | what a job is promised, without attempts, queue or handlers | abstract specification |
| `Queries` | `internal/store/db` (generated from `db/queries/metadata.sql`), the schema | one operator per statement on a database value |
| `PostgresRepository` | `internal/store/postgres.go` in full | on top of `Queries` |
| `MemoryRepository` | `internal/store/memory.go` in full | the same interface |
| `Reports` | `internal/store/reports.go` | operators on what a repository answers |
| `Metadata` | the API without a queue, the workers' calls and a report reader, on both repositories in lockstep | composes the four above |
| `KafkaPipeline` | `internal/kafkastream`, the produce and validate commands | broker and client external |
| `Workload` | `internal/workload`, `internal/replay` | composes `Parser` and `Validate` |
| `MC*` | instances for TLC | |
| `*Proofs` | theorems | |

### State and code: the control plane

* `job[j]` is the row of `replay_jobs`: `status`, `checkpoint_line`, `manifest`
  (whether it is written, its `resume_from_line`, the errors it counts). `metrics`,
  `errs` count rows of `replay_metrics` and `validation_errors`; `scanned` is the
  file statistics of `event_files`. `attempts`, `last_error` and timestamps are in
  `Metadata` only.
* `task[j]` is the Asynq task of job *j*. A task id is derived from the job's key or
  id and at most one row has a key, so a task is identified with its job.
* `req[c]` is a submission: the call it stands before, then the HTTP answer. A job
  id is the submission whose INSERT made it (a fresh uuid in the code).
* `h[w]` is a handler: the call it stands before, what it has read (`resume`, `line`),
  the failures of this attempt, and what it will return to Asynq.
* `late` holds the writes of abandoned handlers. A process that died or stalled, or a
  context that ended, may leave a statement that Postgres applies later, or never.
* `seen` is a history variable: the lines some attempt has processed.
* `faults` counts what has happened of each kind, bounded by `MaxFaults`.

A handler step is atomic up to one repository call or one row, so everything else
interleaves between any two calls. `CallFails` is a call that returns an error with
or without its effect; where the handler goes from there (drop, retry, `failJob`)
follows the error paths of `ProcessTask`, `run` and `failJob`. `ContextEnds` is the
task timeout: Asynq settles the task itself and no later call of the handler gets
through, `failJob`'s write included, because it uses the same context; that is also
what stops a worker that stalls past its lease, whose only trace in the model is the
statement it had in flight (the calls it may still make until its context ends are not
modelled). `Crash` leaves the task active until `Recover`. `Shutdown` requeues
without counting.

All jobs of an instance replay one file, whose records are `FirstLine..LastLine`
(1 for JSONL, 2 for CSV, where line 1 is the header). A record's content is reduced
in `ReplaySystem` to whether it is reported (`BadLines`); what the content does to the
validator is `ResumeValidation`'s subject. There a Go map entry is `[ok, last]`, and an
absent key has `last = 0`, which is what `Prime` reads.

### State and code: repositories and reports

`pg` is a database value of `Queries`, `mem` one of `MemoryRepository`; an id is the
position of its row, so the two draw the same ids. Each call is made on both in one
step, except that a client of Postgres whose key lookup found nothing waits in
`pending` for its INSERT while others go on; the memory repository, which holds its
lock for the whole call, takes the call at the INSERT. `answer` holds the status codes
of the two, `report` the quality report a reader builds with one call per step, `now`
the clock that stamps rows (`DayLength` ticks are a day of the summary). `canceled`
records what a cancellation does in memory only. The metrics and errors of a job are
sets of rows, since neither listing orders equal rows. A row is stamped with the time of
its completion and, for an error, with its place `n` among the failures of that completion;
the two stand for the uuid. They keep apart the two failures of type `ordering` that the
validator reports for a row whose time and id both go back.

### State and code: Kafka

`log[t]` is a raw topic. A consumer has four positions per topic: `committed` at the
broker, `safe` (what earlier polls returned, which autocommit may store), `head` (the end
of the latest poll) and `done` (what has been routed). `PollFetches` returns any
number of new records of either topic (none as long as it waits), one topic after the other, as
`Fetches.EachRecord` walks them. `Route` is `Process` with the `Produce` of the verdict;
`StopConsumer` covers a kill, an error of `Poll` and an error of `Produce`, whose message
may or may not have reached the broker, with or without the commit of a client that is
closed. A consumer starts with an empty validator. `Marshal` is what a row
becomes between publisher and consumer: an update id of zero is dropped, and a price level with an
empty price or quantity (`priced`), which the parser lets through, is refused in the object form
it is written in; either makes the message undecodable. A topic is one log: records are
keyed by symbol, so the partitions of a topic only separate symbols.

### State and code: workload

`Init` picks a source file, a target and a speed; `WriteRow` appends the next normalised
line until the target, then `ReplayRow` parses, validates and paces the output row by row.
The target is a number of rows where the code counts bytes: both stop after the row that
reaches it. `CleanSource` says that the source file passes validation, `Expandable` that it is
what the normalisers are written for, and that the validator's symbol filter does not skip
it: a file the filter skips counts as clean whatever the order of its rows, its span may
then be negative, and nothing is promised of its expansion.

## 3. Runs that pass

| Run | Instance | Properties | Shows |
| --- | --- | --- | --- |
| `resume` | 2 symbols, ids and times 1..2, undecodable and ill-shaped rows, files of up to 4 rows, every checkpoint | `PrimedStateMatches`, `AttemptsPartition` | priming equals processing; two attempts report what one run reports |
| `submit` | 3 submissions (two share a key), 1 worker, one error of each kind on the way in, a cancellation | `OneJobPerKey`, `SameKeySameJob`, `TaskHasRow` | the lookup/insert race is closed by the unique index and the re-read |
| `crash` | 2 jobs, 2 workers, a crash, a shutdown, a cancellation, fair | `TerminalSticks`, `ManifestAgrees`, `ErrorsAfterResume`, `SettledTogether`, `CanceledStaysCanceled`, `EveryTaskSettles` | redelivery never reruns a finished job, a report says where it begins, and no enqueued job is left running or queued |
| `late` | 1 job, CSV file of 4 records, checkpoint every 2, 2 retries, a crash, 2 timeouts, 2 failing calls, a cancellation, late writes | `NoLineSkipped`, `CompletionEvidence`, `NoDuplicateErrors`, `CheckpointMonotone`, `ReplaysOnce` | resume is safe against writes out of order; the control plane implements `ReplayOnce` |
| `stores` | 2 clients (symmetric), 1 key, 2 datasets, 1 file, 4 calls on jobs, 2 outcomes of a replay, one with two equal failures of one line | `RepositoriesAgree`, `AnswersAgree`, `ReportSound`, `SummaryExact` | the two repositories and the reports built from them |
| `kafka` | 4 files of 2 or 3 rows of one symbol (clean, with gaps, with a zero id, with a level without price), a foreign record, up to 3 publications, foreign records and stops | `NothingLost`, `SequenceVerdicts`, `NoFalseAlarm` | at-least-once routing; what a restart can change in a verdict |
| `workload` | every source of up to 3 lines over 17 kinds of lines, JSONL and CSV, 6 rows, 3 speeds, a symbol filter | `ExpandedStaysClean`, `PacedByRecording` | the seams between cycles; the pace |

`TypeOK` is checked in the runs `resume` and `submit`; in `resume` it includes that every failure
names a row already read.

**What the properties say.** `ErrorsAfterResume`: a completed job has on record the errors of
exactly the rows after its manifest's `resume_from_line`, so the failures a lost attempt held
in memory are the only ones missing and the manifest tells where they end
(`docs/OPERATIONS.md:110,112`). `SettledTogether`: Asynq has finished a task only if its job is
completed, canceled or `dlq`, and archived it only if the job is failed, canceled or `dlq`.
`RepositoriesAgree`: after any calls, all reads
of the two repositories, the lineage and the error summary are the same, except for the
attempt a cancellation counts and the error it clears in memory. `AnswersAgree`: so are the
HTTP answers, except that a duplicate key with an unknown dataset or file is 200 on
Postgres and 404 in memory. `ReportSound`: a report of a completed job has its metric and
every error recorded before the report began, because the job is read first and the
completion is one transaction. `SummaryExact`: the summary equals its definition as counts
and extremes over the rows of `validation_errors`, each counted once. `SequenceVerdicts`: a record is reported for a gap exactly if the
greatest id its consumer saw before it in this topic is not its predecessor, so batching,
the other topic and misplaced records never matter. `NoFalseAlarm`: a clean file
whose rows survive `Marshal` (`Encodable`), published once, is at most reported for a time, and only if
it has both types. Without `Encodable` it is false: a file that `validate` finds clean is then routed
to the errors topic.
`ReplaysOnce` is the refinement, see section 5.

**Bounds.** `MaxLines = 4` leaves two rows on each side of a checkpoint, which is what
a predecessor relation needs, and both symbols. In `late`, four records with a
checkpoint every two lines give a checkpoint inside the file, one at a line that is not
the last, and a last record after it; three deliveries allow an attempt that is
abandoned, one that overtakes it and one that sees both; two failing calls reach a
failed completion whose `failJob` fails as well. In `stores`, four calls on jobs reach two
jobs on one file that complete on the same day (a merge of summaries), a job completed
twice on two days (a day is two calls), a canceled job that is picked up again, and a
race of two clients. In `kafka`, three troubles are a publication with two restarts,
two publications with a restart, or one of each kind. In `workload`, six rows are at least two
cycles of every source. Fault budgets (`MaxFaults`, `MaxTrouble`) bound the number of faults,
never where they occur.

`TerminalSticks`, `ManifestAgrees`, `ErrorsAfterResume` and `SettledTogether` are checked without failing calls and without
late writes: when the read that ends `CompleteReplayJob` fails after the commit, the
handler itself turns the completed job into a failed one and replays it, and a late
status write of an abandoned attempt has no condition on the status. This is the
code's behaviour (the modules contain these steps) and nothing in the repository
promises otherwise; what does hold then is `ReplaysOnce`.

**Deadlock** is checked in the runs over `ReplaySystem`; `Rest` lets a system with
nothing left to do stutter, so a deadlock would be a handler or submission that
cannot go on. The other runs end with their file or their bounds.

**Fairness.** Weak fairness of the steps of a submission, of a handler slot (its next
step or taking a pending task) and of the recoverer: the code gives each its own
goroutine and the Asynq server polls and recovers periodically. Faults, cancellations
and late writes are not fair. `EveryTaskSettles` needs a delivery that survives, so
its instance has fewer crashes than deliveries; with as many, the run
`crash_on_last_attempt` shows what happens.

## 4. Runs that show a disagreement

| Run | Statement | What the code does |
| --- | --- | --- |
| `nonpositive_ids` | `docs/ARCHITECTURE.md:108`: update ids "must be positive integers" | the parser accepts others, and then `Prime` and `Process` differ on a first id of zero or below (`validator.go:108`) |
| `crash_on_last_attempt` | `handler.go:51`, `docs/FAILURE_MODES.md:9`: the job ends failed or `dlq` | only the handler writes that status; a crash during the last attempt leaves the job running and the task archived |
| `enqueue_fails` | `docs/FAILURE_MODES.md:12`: "API should reject or defer" | the row stays, and a retried request is answered 201 with a job nobody will run |
| `cancel_while_running` | `handler_test.go:241-243`: no metric "for canceled job" | a cancellation after the last poll is overwritten by the completion |
| `expand_jsonl_trades` | `docs/BENCHMARK.md:115`: "valid source fixtures remain valid after expansion" | the JSONL normaliser is for depth updates only: a fixture of trades is repeated with the same ids |

Two more are visible in the modules without a run of their own: any error of the first
`GetReplayJob`, not only a missing row, drops the task (`handler.go:75-77`, logged as
"dropping replay task for missing job"); and a duplicate key is answered 201 when a queue
is configured, 200 when not (`docs/openapi.yaml:86` names 200), because `SubmitReplay`
does not pass `ErrAlreadyExists` on.

## 5. Proofs

All theorems hold for every value of the constants allowed by the named `ASSUME`s:
any set of submissions and keys, any set of workers, any file and set of bad lines,
any positive checkpoint interval, any retry limit, any fault budget, with or without
late writes; for Kafka, any files of typed rows, foreign records and number of stops
(`KafkaAssumption`; the pipeline's validator has no symbol filter, `validator.go:51`); for the
workload, any nonempty sources of typed lines (`SourcesAssumption`), targets, symbols and
filter; for the repositories, any clients, keys, outcomes of a replay and number of
records and calls (`MetadataAssumption`: no key is the absent key, a line is a
positive number, since the parser numbers lines from 1, and a failure has a line, a symbol and
a type).

**`ResumeValidationProofs`**: `ValidatorsTyped` proves `TypeOK` for any rows, with every failure
naming a row already read. Under `PositiveDepthIds`, the rule of `docs/ARCHITECTURE.md:108`,
`ResumeAgrees` proves `PrimedStateMatches` and `ReportSplitsAtCheckpoint` proves `AttemptsPartition`.
The assumption is needed: without it the run `nonpositive_ids` refutes
the first. The invariant `ResumeInv` adds to `TypeOK` that an absent key reads as zero, so that
the two update rules `Checked` and `Raised` agree on positive values, and that up to the
checkpoint `before` equals `whole` and `resumed` has reported nothing.

**`ReplaySystemProofs`** proves, with one inductive invariant `Inv`:

| Theorem | States |
| --- | --- |
| `TypeCorrect` | `TypeOK` |
| `ResumeIsComplete` | `NoLineSkipped` and `CompletionEvidence` |
| `EvidenceComplete` | `CompletionEvidence` |
| `ErrorsOnce` | `NoDuplicateErrors` |
| `RowBeforeTask` | `TaskHasRow` |
| `CheckpointGrows` | `CheckpointMonotone` |
| `IdempotentSubmit`, `OneRowPerKey` | `SameKeySameJob`, `OneJobPerKey`, from their own invariant `KeyInv` |
| `CancelHolds` | `CanceledStaysCanceled` |

`Inv` is the conjunction of `TypeOK` and five parts.

* `QueueInv`: a busy slot's task is active, no two slots hold the same job, and what
  is in `late` is a write of some job.
* `SubmitInv`: a submission that has not inserted has neither row nor task, one about
  to enqueue has its row, and a job with a late write has had a task.
* `ProgressInv`: what a handler or a late write knows from its stage alone. Every line
  up to its resume point and up to its position has been seen; it found errors only
  after its resume point; past the end of the file every line has been seen; past
  each of the final writes, that write is in the store. This is why
  `CompletionEvidence` survives late completions: the evidence was written before
  the statement was issued.
* `LedgerInv`: what the store shows: `NoLineSkipped`, `CompletionEvidence`, no checkpoint
  beyond the file, and an error on record only with a metric.
* `ReportInv`: what makes `NoDuplicateErrors` inductive. Once a completion is abandoned,
  or an error is on record, whoever works on the job has resumed at the end of the
  file, and so has nothing to report; of two abandoned completions of a job at most one
  carries errors. It rests on the order of the code: the final checkpoint is written
  before the completion is issued, and a checkpoint never goes back.

The argument is laid out by what a step does to the state rather than action by
action: the store only grows (`Grows`: rows stay, checkpoints and statistics do not go
back), a handler's own step is an `Advance` that changes one slot, and a handler that
goes away is a release. Every action is shown to be one of these, and the invariant
is shown once for each.

**`ReplayOnceProofs`** proves `ImplementsReplayOnce`, `Spec => ReplaysOnce`. The mapping hides
attempts, queue and handlers: `accepted` is the set of rows, `judged` is `seen`, `progress` the
checkpoints, `reported` the lines with an error on record, `results` the metrics. Most steps
are stutters (`QuietStep`, and `SameProgress` for writes that `ReplayOnce` does not see). An INSERT
is an `Accept` because the unique index holds (`InsertOnce`); a processed record is a `Judge`
because `Inv` says the lines before it were judged (`JudgeOnce`); a checkpoint write, issued now or
landing late, is an `Advance` or a stutter because it covers judged lines (`AdvanceOnce`); a
completion is a `Report` because by `Inv` its errors are new and the checkpoint is at the end
(`ReportOnce`).

**`KafkaPipelineProofs`** proves `AtLeastOnce`, `Spec => []NothingLost`. A commit stores `safe`, so the
inductive invariant `KafkaInv` says that what is safe has been routed: `safe <= done`, and
everything up to `done` and up to `committed` is routed. It holds because a poll waits until the
records of the last one are routed (`PollKept`) and routed records stay routed.

**The verdicts**, in the same module: `VerdictsFollowTopic`, `Spec => []SequenceVerdicts`, and
`CleanFileStaysClean`, `Spec => []NoFalseAlarm`. `VerdictInv` says what the validator knows: for
each topic some start of the present consumer explains the tracked ids (`Tracks`: the entry
of a symbol is the greatest id of the records accepted since that start), every tracked
time is the time of a record routed before, and the verdicts given so far are right for the
log as it is now, which only grows. `CalmInv` adds what a clean and encodable file that is published once leaves in the topics: `Copied`, an
increasing map from the records of a topic to the lines of the file that misses no line
of its type, and `Sequenced`, which says that the ids of a symbol follow each other. With
both, the predecessor of a record is the record its verdict compares it with, wherever
the consumer was restarted.

**`TerminalProofs`** is about what holds as long as the repository answers: under `CallsSucceed`
(no repository call fails, no abandoned statement lands late) it proves

| Theorem | States | Further conditions |
| --- | --- | --- |
| `ManifestIsExact` | `ManifestAgrees` | |
| `ReportStartsAtResume` | `ErrorsAfterResume` | |
| `TerminalIsFinal` | `TerminalSticks` | |
| `QueueMirrorsStore` | `SettledTogether` and `ArchiveMirrored` | `OneSurvives`: fewer crashes and timeouts than deliveries of a task |
| `AcceptedJobsAreScheduled` | `AcceptedIsScheduled` | `OneSurvives`; `SubmitsSucceed`: no enqueue fails and the API does not die |

What a theorem does not exclude keeps its full budget: shutdowns, cancellations and racing
submissions in all of them, crashes, timeouts and Redis errors in the first three. The
conditions are needed: without `CallsSucceed` the first three are false, for the reasons given
in section 3, and the runs `crash_on_last_attempt` and `enqueue_fails` refute the last two claims with
faults of the kinds that are excluded. So those two documented claims hold until a call
fails or the last delivery is lost, whatever else is interleaved.

`Inv` alone says nothing of the status or of what an attempt has found, so four invariants are
added to it, each from the ones before.

* `FoundInv`: what an attempt holds in memory is the bad lines between the line it resumed
  from and the one it stands at, and past the end of the file all after its resume
  line. It holds with failing calls and late statements too.
* `TerminalInv`: an attempt at work has a job without result that is neither completed nor
  dead-lettered; the manifest of a job about to be completed describes that attempt (what it
  found and where it resumed); a job with a metric is completed or canceled. Only the slot that
  moves matters, because `QueueInv` gives every slot a job of its own (`OwnJobSuffices`).
* `OutcomeInv`: what a handler will return to Asynq goes with the status of its job; `failJob` is
  reached only by a noticed cancellation, which Asynq does not retry; and the retries of a task
  plus a delivery that is lost and not yet recovered are at most the crashes and timeouts so far. So
  Asynq never reaches the limit by itself, and archives only what a handler told it to.
* `ScheduledInv`: a row without a task belongs to the submission that is about to enqueue it.
  With the unique index (`KeyInv`), a duplicate is answered with a job whose own submission is
  through or still has to enqueue.

**`WorkloadProofs`** proves `PacedReplay`, `Spec => []PacedByRecording`, and `ExpansionIsClean`,
`Spec => []ExpandedStaysClean`. `PaceInv` describes `previous` and `slept` by the first and the last row
in scope instead of by the rows between them. For the expansion, `ExpandInv` says that
line *k* of the output is line *k* of the source, in its cycle (`Expanded`), and that the validator
stands at the last line it read (`Stands`). The lemmas below it show that a clean source
continues from each of its lines to the next, and from its last line to the first of the
next cycle (`Continues`). What validation says of every prefix of a source of any length
is shown by least counterexample (`Least`, from `WFMin` over the natural numbers).

**`MetadataProofs`** proves `RepositoriesStayAlike`, `AnswersStayAlike` and `ReportsAreSound`, that is
`RepositoriesAgree`, `AnswersAgree` and `ReportSound` as invariants of `Metadata`, from one invariant
`MetadataInv`:

* `JobsAgree`: the two job tables agree row by row, up to what `canceled` records and with the
  manifest decoded from its column.
* `KeysAgree`: `idempotencyMap` is the inverse of the key column. This is what the unique index
  is to Postgres, and it makes both repositories answer a duplicate key with the same job.
* `TablesAgree`: the metrics and errors memory keeps per job are the rows of the Postgres
  tables with that job, and every row belongs to a job.
* `Measured`: a completed job has a metric.
* `PendingOk`: what a waiting client's request names was there when it looked, or was no id at
  all, and records are never removed; so its INSERT fails in one repository exactly if it
  fails in the other.
* `ReportOk`: what a half-built report has read is still there (`Grown`), and its job has its metric
  once it was read as completed.

Each action is shown on both repositories at once (`PutJob`, `PgAdded`, `MemAdded`, `Recorded` name the few
ways in which a call changes a repository), and the views the reports are built from are
shown to be equal (`SameViews`), so the reports need no theory of their own.

**`SummaryProofs`** proves `SummaryIsExact`, `Spec => []SummaryExact`: the summary has a row for exactly
the types, symbols, days and files that occur, with the number of their rows in `validation_errors`
and the first and last line and time. The loops list rows as sets; `StampInv`, every row recorded
before the present time and no two with the same time and place, makes such a set as large as the set of
the rows' places in the table (`RowsAndPlaces`), so that equal failures are not merged. The two loops of the code are folds over sets, and what a fold
computes for every set is an induction over an operator, which the provers do not have. The
proof therefore works with functions and sets in place of operators. The function by which
a fold is defined exists on all parts of a finite set (`FoldExists`), and what holds of the empty set
and is kept by one more element holds of every part (`SubsetInduction`); both are shown by a least
counterexample in the size of the set. `Fits` says that a row of the summary describes a
group of errors without naming an order: its count is the group's size and its extremes are
taken in the group and bound it. `Exact` says that every key has the row of its group and that no
other key has one. Adding an error (`AddIsMerge`), merging the items of a job (`MergeItemsExact`) and going
through the jobs (`BuildExact`) keep `Exact`; a merge counts right because the groups of two jobs are
disjoint, every error row belonging to one job (`TablesAgree`). That records are numbered
from 1 is needed: the merge takes a first line of 0 for "none yet" (`reports.go:182`).

Only model-checked: `EveryTaskSettles`, since liveness under fairness is outside the prover.

## 6. Hazards

`PROJECT.json` lists them with the line where each bites and the properties that
cover it. Without a property: a cancellation noticed at a poll becomes `failed`
or `dlq` (no document says what it should become); the retry delay's shift and the
generator's float64 ids (64-bit arithmetic); a Redis that outlives its database; the answer to a
duplicate key; an update id of zero that `omitempty` drops, and a price level without price or
quantity that is refused, between publisher and consumer (both modelled, and excluded by
`Encodable`); a task given up because the first `GetReplayJob` fails (modelled, but in no run of
`ArchiveMirrored`); a row with both forms of its ids, which the two formats read differently (modelled,
and excluded by `Expandable`).

## 7. Plan

Done: the control plane, the validator, both repositories, the reports, the Kafka pipeline, the
generator and the pacing; the refinement to `ReplayOnce`; a theorem for every safety property of a
passing run. Left:

1. `SameKeySameJob` and `AnswersAgree` joined: the API with a queue on both repositories.
2. An abstract repository that both implementations refine, in place of the comparison.

## 8. Not modelled

Scanning bytes into fields (data); the syntactic checks of the API that answer 400 (no state
changes); the dashboard (renders reads); metrics (nothing reads them back); the
benchmarks and `kafka-replay bench` (wall-clock measurement of sequential loops over code that is
modelled); flag and environment parsing of the commands; the retry delay (a duration, which
orders nothing, computed in 64-bit arithmetic, which TLC does not have); the file-level
`processFile` of `handler.go:301-346`, which only tests call.
