---------------------------- MODULE ReplaySystem ----------------------------
(***************************************************************************)
(* The control plane as deployed: submissions and cancellations through    *)
(* the API, the Asynq queue, the workers and the repository they share.    *)
(***************************************************************************)
EXTENDS ReplaySubmit, ReplayWorker

vars == <<storeVars, task, faults, req, workerVars>>

Init == StoreInit /\ QueueInit /\ FaultsInit /\ SubmitInit /\ WorkerInit

\* Everything has settled: nothing is left to do and no fault is pending.
Quiescent ==
    /\ \A c \in Jobs : req[c].pc \in {"answered", "lost"}
    /\ \A j \in Jobs : task[j].state \notin {"pending", "active"}
    /\ \A w \in Workers : h[w].pc = "idle"

ApiNext ==
    /\ \/ \E c \in Jobs : SubmitStep(c) \/ SubmitFault(c)
       \/ \E j \in Jobs : Cancel(j)
    /\ UNCHANGED workerVars

WorkerNext ==
    /\ \/ \E w \in Workers : HandlerStep(w) \/ WorkerFault(w)
       \/ \E w \in Workers, j \in Jobs : Dequeue(w, j)
       \/ \E j \in Jobs : Recover(j)
       \/ \E m \in late : LateWrite(m)
    /\ UNCHANGED req

\* A settled system idles: it waits for requests that do not come.
Rest == Quiescent /\ UNCHANGED vars

Next == ApiNext \/ WorkerNext \/ Rest
Spec == Init /\ [][Next]_vars

(***************************************************************************)
(* Fairness: the API serves a request it has begun, an Asynq server polls  *)
(* its queue and a handler goroutine keeps running, the recoverer runs     *)
(* periodically.  Faults, cancellations and late statements are not fair.  *)
(***************************************************************************)
Fairness ==
    /\ \A c \in Jobs : WF_vars(SubmitStep(c) /\ UNCHANGED workerVars)
    /\ \A w \in Workers :
          WF_vars((HandlerStep(w) \/ \E j \in Jobs : Dequeue(w, j)) /\ UNCHANGED req)
    /\ \A j \in Jobs : WF_vars(Recover(j) /\ UNCHANGED req)

FairSpec == Spec /\ Fairness

-----------------------------------------------------------------------------
TypeOK == StoreTypeOK /\ QueueTypeOK /\ FaultsTypeOK /\ SubmitTypeOK /\ WorkerTypeOK

\* Slots at work on job j.
On(j) == {w \in Workers : h[w].job = j}

(***************************************************************************)
(* An idempotency key has at most one row, however submissions race        *)
(* between the lookup and the INSERT of CreateReplayJob.                   *)
(***************************************************************************)
OneJobPerKey ==
    \A i, j \in Jobs :
        Exists(i) /\ Exists(j) /\ Key[i] = Key[j] /\ Key[i] # NoKey => i = j

(***************************************************************************)
(* Submissions that carry the same key and are answered with a job are     *)
(* answered with the same job, and that job exists (SubmitReplay 73-94     *)
(* over the lookup/insert race of CreateReplayJob).                        *)
(***************************************************************************)
SameKeySameJob ==
    \A c, d \in Jobs :
        req[c].code = 201 /\ req[d].code = 201
            /\ Key[c] = Key[d] /\ Key[c] # NoKey =>
        req[c].answer = req[d].answer /\ Exists(req[c].answer)

(***************************************************************************)
(* A task in Redis always has its row: the handler's first GetReplayJob    *)
(* never meets ErrNotFound, and a row that never got a task stays queued   *)
(* or canceled (the row is written before the task, SubmitReplay 74-86).   *)
(***************************************************************************)
TaskHasRow ==
    \A j \in Jobs :
        /\ task[j].state # "none" => Exists(j)
        /\ task[j].state = "none" => job[j].status \in {"absent", "queued", "canceled"}

(***************************************************************************)
(* No row of the file is skipped by resuming: every record at or below a   *)
(* job's checkpoint has been processed by some attempt, however attempts   *)
(* were cut short and whichever of their writes landed late.               *)
(***************************************************************************)
NoLineSkipped ==
    \A j \in Jobs : \A l \in Lines : l <= job[j].checkpoint => l \in seen[j]

(***************************************************************************)
(* A job with a recorded result has its evidence: the checkpoint is at the *)
(* end of the file, the manifest is written and the event file's scan      *)
(* statistics are recorded, whatever happened to the attempts.             *)
(***************************************************************************)
CompletionEvidence ==
    \A j \in Jobs :
        metrics[j] > 0 \/ job[j].status = "completed" =>
            /\ job[j].checkpoint = FileRows
            /\ job[j].manifest.written
            /\ scanned

(***************************************************************************)
(* A validation error is recorded at most once, also when a completion     *)
(* lands after its attempt was given up and the job was retried: the final *)
(* checkpoint precedes the completion, so the retry finds nothing to       *)
(* report.                                                                 *)
(***************************************************************************)
NoDuplicateErrors ==
    \A j \in Jobs : \A l \in BadLines : errs[j][l] <= 1

(***************************************************************************)
(* A completed job's manifest counts exactly the validation errors on      *)
(* record and the job has one metric row (no call fails and no statement   *)
(* lands late).                                                            *)
(***************************************************************************)
ManifestAgrees ==
    \A j \in Jobs :
        job[j].status = "completed" =>
            /\ metrics[j] = 1
            /\ {l \in BadLines : errs[j][l] > 0} = job[j].manifest.errors

(***************************************************************************)
(* A completed job has on record the errors of exactly the rows after the  *)
(* line its manifest says it resumed from, whichever attempts were lost    *)
(* before with the failures they held in memory (run 127-165; no call      *)
(* fails and no statement lands late).                                     *)
(***************************************************************************)
ErrorsAfterResume ==
    \A j \in Jobs :
        job[j].status = "completed" =>
            {l \in BadLines : errs[j][l] > 0}
                = {l \in BadLines : l > job[j].manifest.resume}

(***************************************************************************)
(* A completed or dead-lettered job is never replayed again: its status    *)
(* changes only by a cancellation, also when its task is redelivered       *)
(* because the worker died before Asynq saw the result (no call fails and  *)
(* no statement lands late).                                               *)
(***************************************************************************)
TerminalSticks ==
    [][\A j \in Jobs :
          job[j].status \in {"completed", "dlq"} =>
              job'[j].status \in {job[j].status, "canceled"}]_vars

\* A checkpoint never moves backwards, whichever attempt writes it.
CheckpointMonotone ==
    [][\A j \in Jobs : job'[j].checkpoint >= job[j].checkpoint]_vars

\* Job j is canceled and nobody is past the first read of its status.
Stopped(j) ==
    /\ job[j].status = "canceled"
    /\ \A w \in On(j) : h[w].pc \in {"get", "ack"}
    /\ \A m \in late : m.job # j

(***************************************************************************)
(* Canceling a job no handler has begun to run is final: whatever the      *)
(* queue redelivers and whatever fails, no handler ever runs it and its    *)
(* row stays canceled (GetJob's early return, handler.go 79-82).           *)
(***************************************************************************)
CanceledStaysCanceled == [][\A j \in Jobs : Stopped(j) => Stopped(j)']_vars

(***************************************************************************)
(* Asynq is through with a task only when its job has ended, and archives  *)
(* it only when the job is failed, dlq or canceled, as long as the workers *)
(* survive one of its deliveries (failJob mirrors what Asynq will do with  *)
(* the error it returns; no call fails and no statement lands late).       *)
(***************************************************************************)
SettledTogether ==
    \A j \in Jobs :
        /\ task[j].state = "done" => job[j].status \in {"completed", "canceled", "dlq"}
        /\ task[j].state = "archived" => job[j].status \in {"failed", "canceled", "dlq"}

\* What a job's row and task look like when nothing more will happen to them.
Settled(j) ==
    /\ task[j].state \in {"done", "archived"}
    /\ job[j].status \in {"completed", "failed", "canceled", "dlq"}

(***************************************************************************)
(* Every enqueued job settles, as long as the workers survive one of its   *)
(* deliveries (fewer crashes than deliveries, no failing calls).           *)
(***************************************************************************)
EveryTaskSettles ==
    \A j \in Jobs : task[j].state # "none" ~> Settled(j)

-----------------------------------------------------------------------------
(* The attempts, the queue and the handlers, hidden. *)

Once == INSTANCE ReplayOnce WITH
    accepted <- {j \in Jobs : Exists(j)},
    judged   <- seen,
    progress <- [j \in Jobs |-> job[j].checkpoint],
    reported <- [j \in Jobs |-> {l \in BadLines : errs[j][l] > 0}],
    results  <- metrics

(***************************************************************************)
(* The control plane implements ReplayOnce: with every crash, retry,       *)
(* timeout, failing call and late statement, a job reads its file in order *)
(* without leaving a record out, never takes progress back, and reports a  *)
(* validation error once, after the whole file (ProcessTask, run and       *)
(* processFile over SubmitReplay).                                         *)
(***************************************************************************)
ReplaysOnce == Once!Spec

-----------------------------------------------------------------------------
(* What the documentation says of the system and the code does not do.     *)

(***************************************************************************)
(* A task Asynq archived is mirrored in the store: its job is dlq, or was  *)
(* canceled (handler.go:51, queue/replay.go:157, FAILURE_MODES.md).        *)
(***************************************************************************)
ArchiveMirrored ==
    \A j \in Jobs :
        task[j].state = "archived" => job[j].status \in {"failed", "canceled", "dlq"}

(***************************************************************************)
(* A job the API accepted is scheduled: once no submission with its key is *)
(* under way, a queued job has a task in the queue (FAILURE_MODES.md: with *)
(* Redis unavailable the API rejects or defers new jobs).                  *)
(***************************************************************************)
AcceptedIsScheduled ==
    \A c \in Jobs :
        /\ req[c].code = 201
        /\ \A d \in Jobs : Key[d] = Key[c] => req[d].pc \notin SubmitPcs
        /\ job[req[c].answer].status = "queued"
        => task[req[c].answer].state \in {"pending", "active"}

(***************************************************************************)
(* No result is recorded for a canceled job (handler_test.go:241-243).     *)
(***************************************************************************)
NoMetricForCanceled ==
    [][\A j \in Jobs : job[j].status = "canceled" => metrics'[j] = metrics[j]]_vars
=============================================================================
