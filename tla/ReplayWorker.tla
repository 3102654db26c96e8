---------------------------- MODULE ReplayWorker ----------------------------
(***************************************************************************)
(* The worker: ReplayHandler.ProcessTask under an Asynq server, one        *)
(* repository call, one row or one queue operation per step, so that other *)
(* workers, the API and faults interleave between any two of them.         *)
(*                                                                         *)
(* A handler stands before the call its pc names:                          *)
(*   get       GetReplayJob of ProcessTask                                 *)
(*   running   UpdateReplayJobStatus(running)                              *)
(*   latest    GetReplayJob of run                                         *)
(*   open      GetEventFile, ResolveFormat and opening the stream          *)
(*   row       the top of the loop of processFile                          *)
(*   ckpt      UpdateReplayCheckpoint(record.Line)                         *)
(*   poll      GetReplayJob after a checkpoint                             *)
(*   final     UpdateReplayCheckpoint(metric.Rows)                         *)
(*   stats     UpdateEventFileStats                                        *)
(*   manifest  UpdateReplayManifest                                        *)
(*   complete  the transaction of CompleteReplayJob                        *)
(*   reread    the GetReplayJob that ends CompleteReplayJob                *)
(*   fail      UpdateReplayJobStatus of failJob                            *)
(*   ack       ProcessTask has returned; Asynq settles the task            *)
(*                                                                         *)
(* `late` holds the calls whose handler is gone while their statement was  *)
(* on its way to Postgres (a dead process, or a context that ended while   *)
(* the statement waited on the server): each may still be applied at any   *)
(* later time, or never.                                                   *)
(***************************************************************************)
EXTENDS JobStore, TaskQueue

CONSTANTS
    Workers,          \* handler slots of all worker processes
    CheckpointEvery,  \* ReplayHandlerConfig.CheckpointEvery
    LateWrites        \* whether an abandoned statement may still be applied

ASSUME WorkerAssumption ==
    /\ CheckpointEvery \in Nat \ {0}
    /\ LateWrites \in BOOLEAN

VARIABLES
    h,      \* h[w]: the handler in slot w
    late,   \* handler states whose call may still reach the store
    seen    \* history: the lines some attempt of a job has processed

workerVars == <<h, late, seen>>

WritePcs == {"running", "ckpt", "final", "stats", "manifest", "complete", "fail"}
ReadPcs == {"get", "latest", "open", "poll", "reread"}
Pcs == WritePcs \cup ReadPcs \cup {"idle", "row", "ack"}

Handlers ==
    [pc : Pcs, job : Jobs \cup {NoJob}, retried : 0 .. MaxRetry,
     resume : 0 .. LastLine,      \* job.CheckpointLine as run read it
     line : 0 .. LastLine,        \* the line of the last record read
     found : SUBSET BadLines,     \* result.Failures of this attempt, by line
     canceled : BOOLEAN,          \* the error is context.Canceled
     outcome : {"done", "retry", "skip"}]  \* nil, an error, or SkipRetry

Idle == [pc |-> "idle", job |-> NoJob, retried |-> 0, resume |-> 0, line |-> 0,
         found |-> {}, canceled |-> FALSE, outcome |-> "done"]

WorkerInit ==
    /\ h = [w \in Workers |-> Idle]
    /\ late = {}
    /\ seen = [j \in Jobs |-> {}]

WorkerTypeOK ==
    /\ h \in [Workers -> Handlers]
    /\ late \in SUBSET Handlers
    /\ seen \in [Jobs -> SUBSET Lines]

Goto(w, pc) == h' = [h EXCEPT ![w].pc = pc]
Return(w, outcome) == h' = [h EXCEPT ![w].pc = "ack", ![w].outcome = outcome]

\* failJob: the last allowed attempt is mirrored as dlq.
FailStatus(m) == IF m.retried >= MaxRetry THEN "dlq" ELSE "failed"

\* The store effect of the write a handler m stands before.
Write(m) ==
    \/ m.pc = "running"  /\ UpdateReplayJobStatus(m.job, "running")
    \/ m.pc = "ckpt"     /\ UpdateReplayCheckpoint(m.job, m.line)
    \/ m.pc = "final"    /\ UpdateReplayCheckpoint(m.job, FileRows)
    \/ m.pc = "stats"    /\ UpdateEventFileStats
    \/ m.pc = "manifest" /\ UpdateReplayManifest(m.job, m.resume, m.found)
    \/ m.pc = "complete" /\ CompleteReplayJob(m.job, m.found)
    \/ m.pc = "fail"     /\ UpdateReplayJobStatus(m.job, FailStatus(m))

-----------------------------------------------------------------------------
(* ProcessTask *)

\* Asynq hands a pending task to a free slot.
Dequeue(w, j) ==
    /\ h[w].pc = "idle"
    /\ task[j].state = "pending"
    /\ SetTask(j, "active")
    /\ h' = [h EXCEPT ![w] = [Idle EXCEPT !.pc = "get", !.job = j,
                                          !.retried = task[j].retried]]
    /\ UNCHANGED <<storeVars, late, seen, faults>>

\* Mutants of GetJob: a completed or dead-lettered job is run again; a
\* canceled job is run; a running job is taken for another worker's.
GetJobAgain(w) ==
    /\ h[w].pc = "get"
    /\ IF job[h[w].job].status = "canceled"
       THEN Return(w, "done") ELSE Goto(w, "running")
    /\ UNCHANGED <<storeVars, task, late, seen, faults>>

GetJobIgnoresCancel(w) ==
    /\ h[w].pc = "get"
    /\ IF job[h[w].job].status \in {"completed", "dlq"}
       THEN Return(w, "done") ELSE Goto(w, "running")
    /\ UNCHANGED <<storeVars, task, late, seen, faults>>

GetJobSkipsRunning(w) ==
    /\ h[w].pc = "get"
    /\ IF job[h[w].job].status \in {"canceled", "completed", "dlq", "running"}
       THEN Return(w, "done") ELSE Goto(w, "running")
    /\ UNCHANGED <<storeVars, task, late, seen, faults>>

\* GetReplayJob: canceled, completed and dlq jobs are left alone.
GetJob(w) ==
    /\ h[w].pc = "get"
    /\ IF job[h[w].job].status \in {"canceled", "completed", "dlq"}
       THEN Return(w, "done")
       ELSE Goto(w, "running")
    /\ UNCHANGED <<storeVars, task, late, seen, faults>>

MarkRunning(w) ==
    /\ h[w].pc = "running"
    /\ Write(h[w])
    /\ Goto(w, "latest")
    /\ UNCHANGED <<task, late, seen, faults>>

\* Mutant: the attempt starts over whatever the checkpoint says.
GetLatestFromStart(w) ==
    /\ h[w].pc = "latest"
    /\ IF job[h[w].job].status = "canceled"
       THEN Return(w, "done") ELSE Goto(w, "open")
    /\ UNCHANGED <<storeVars, task, late, seen, faults>>

\* run reads the row again: its checkpoint is where this attempt resumes.
GetLatest(w) ==
    /\ h[w].pc = "latest"
    /\ IF job[h[w].job].status = "canceled"
       THEN Return(w, "done")
       ELSE h' = [h EXCEPT ![w].pc = "open",
                           ![w].resume = job[h[w].job].checkpoint]
    /\ UNCHANGED <<storeVars, task, late, seen, faults>>

\* A CSV stream has already counted its header line.
OpenFile(w) ==
    /\ h[w].pc = "open"
    /\ h' = [h EXCEPT ![w].pc = "row", ![w].line = FirstLine - 1]
    /\ UNCHANGED <<storeVars, task, late, seen, faults>>

\* Mutant: the record after the checkpoint may be primed too.
PrimeRecordOneMore(w) ==
    /\ h[w].pc = "row"
    /\ h[w].line < LastLine
    /\ h[w].line <= h[w].resume
    /\ h' = [h EXCEPT ![w].line = @ + 1]
    /\ UNCHANGED <<storeVars, task, late, seen, faults>>

\* A record up to the checkpoint read by run is primed only.
PrimeRecord(w) ==
    /\ h[w].pc = "row"
    /\ h[w].line < LastLine
    /\ h[w].line + 1 <= h[w].resume
    /\ h' = [h EXCEPT ![w].line = @ + 1]
    /\ UNCHANGED <<storeVars, task, late, seen, faults>>

\* A record after it is processed, and checkpointed every CheckpointEvery.
ProcessRecord(w) ==
    LET l == h[w].line + 1 IN
    /\ h[w].pc = "row"
    /\ h[w].line < LastLine
    /\ l > h[w].resume
    /\ h' = [h EXCEPT ![w].line = l,
                      ![w].found = @ \cup ({l} \cap BadLines),
                      ![w].pc = IF l % CheckpointEvery = 0 THEN "ckpt" ELSE "row"]
    /\ seen' = [seen EXCEPT ![h[w].job] = @ \cup {l}]
    /\ UNCHANGED <<storeVars, task, late, faults>>

\* Mutant: the checkpoint at the end of the file is not written.
EndOfFileNoCheckpoint(w) ==
    /\ h[w].pc = "row"
    /\ h[w].line >= LastLine
    /\ Goto(w, "stats")
    /\ UNCHANGED <<storeVars, task, late, seen, faults>>

EndOfFile(w) ==
    /\ h[w].pc = "row"
    /\ h[w].line >= LastLine
    /\ Goto(w, "final")
    /\ UNCHANGED <<storeVars, task, late, seen, faults>>

SaveCheckpoint(w) ==
    /\ h[w].pc = "ckpt"
    /\ Write(h[w])
    /\ Goto(w, "poll")
    /\ UNCHANGED <<task, late, seen, faults>>

\* A canceled job makes processFile return context.Canceled to failJob.
PollCanceled(w) ==
    /\ h[w].pc = "poll"
    /\ IF job[h[w].job].status = "canceled"
       THEN h' = [h EXCEPT ![w].pc = "fail", ![w].canceled = TRUE]
       ELSE Goto(w, "row")
    /\ UNCHANGED <<storeVars, task, late, seen, faults>>

SaveFinalCheckpoint(w) ==
    /\ h[w].pc = "final"
    /\ Write(h[w])
    /\ Goto(w, "stats")
    /\ UNCHANGED <<task, late, seen, faults>>

\* Mutant: the manifest is not written before the completion.
SaveFileStatsOnly(w) ==
    /\ h[w].pc = "stats"
    /\ Write(h[w])
    /\ Goto(w, "complete")
    /\ UNCHANGED <<task, late, seen, faults>>

SaveFileStats(w) ==
    /\ h[w].pc = "stats"
    /\ Write(h[w])
    /\ Goto(w, "manifest")
    /\ UNCHANGED <<task, late, seen, faults>>

SaveManifest(w) ==
    /\ h[w].pc = "manifest"
    /\ Write(h[w])
    /\ Goto(w, "complete")
    /\ UNCHANGED <<task, late, seen, faults>>

Complete(w) ==
    /\ h[w].pc = "complete"
    /\ Write(h[w])
    /\ Goto(w, "reread")
    /\ UNCHANGED <<task, late, seen, faults>>

RereadCompleted(w) ==
    /\ h[w].pc = "reread"
    /\ Return(w, "done")
    /\ UNCHANGED <<storeVars, task, late, seen, faults>>

\* failJob: dlq and cancellation are not retried.
FailJob(w) ==
    /\ h[w].pc = "fail"
    /\ Write(h[w])
    /\ Return(w, IF FailStatus(h[w]) = "dlq" \/ h[w].canceled
                 THEN "skip" ELSE "retry")
    /\ UNCHANGED <<task, late, seen, faults>>

-----------------------------------------------------------------------------
(* Faults of the calls a handler makes *)

(***************************************************************************)
(* A call returns an error; a write may have been applied all the same.    *)
(* ProcessTask drops the task when its first read fails, returns the error *)
(* of the status write as it is, and sends every error of run to failJob,  *)
(* whose own error is returned to Asynq.                                   *)
(***************************************************************************)
CallFails(w) ==
    /\ h[w].pc \in WritePcs \cup ReadPcs \cup {"row"}
    /\ Spend("db")
    /\ UNCHANGED storeVars \/ Write(h[w])
    /\ CASE h[w].pc = "get" -> Return(w, "skip")
         [] h[w].pc \in {"running", "fail"} -> Return(w, "retry")
         [] OTHER -> Goto(w, "fail")
    /\ UNCHANGED <<task, late, seen>>

-----------------------------------------------------------------------------
(* Asynq around the handler, and the faults of a worker process *)

\* The handler in slot w is gone, and what it had under way may still land.
Abandon(w) ==
    /\ h' = [h EXCEPT ![w] = Idle]
    /\ late' = IF LateWrites /\ h[w].pc \in WritePcs
               THEN late \cup {h[w]} ELSE late

\* Asynq settles the task with what ProcessTask returned.
Settle(w) ==
    /\ h[w].pc = "ack"
    /\ CASE h[w].outcome = "done" -> SetTask(h[w].job, "done")
         [] h[w].outcome = "skip" -> SetTask(h[w].job, "archived")
         [] h[w].outcome = "retry" -> RetryOrArchive(h[w].job)
    /\ h' = [h EXCEPT ![w] = Idle]
    /\ UNCHANGED <<storeVars, late, seen, faults>>

(***************************************************************************)
(* The task's timeout ends the context: Asynq settles the task at once and *)
(* frees the slot, and no later call of the handler gets through, failJob's *)
(* status write included.                                                  *)
(***************************************************************************)
ContextEnds(w) ==
    /\ h[w].pc \notin {"idle", "ack"}
    /\ Spend("timeout")
    /\ RetryOrArchive(h[w].job)
    /\ Abandon(w)
    /\ UNCHANGED <<storeVars, seen>>

\* The worker process dies, or loses the task's lease and with it the context;
\* the task stays active until the recoverer finds its lease expired.
Crash(w) ==
    /\ h[w].pc # "idle"
    /\ Spend("crash")
    /\ Abandon(w)
    /\ UNCHANGED <<storeVars, task, seen>>

\* A worker told to stop requeues what it could not finish, uncounted.
Shutdown(w) ==
    /\ h[w].pc \notin {"idle", "ack"}
    /\ Spend("shutdown")
    /\ SetTask(h[w].job, "pending")
    /\ Abandon(w)
    /\ UNCHANGED <<storeVars, seen>>

\* Asynq's recoverer finds an active task whose lease expired.
Recover(j) ==
    /\ task[j].state = "active"
    /\ \A w \in Workers : h[w].job # j
    /\ RetryOrArchive(j)
    /\ UNCHANGED <<storeVars, workerVars, faults>>

\* An abandoned statement is applied after all.
LateWrite(m) ==
    /\ m \in late
    /\ Write(m)
    /\ late' = late \ {m}
    /\ UNCHANGED <<task, h, seen, faults>>

HandlerStep(w) ==
    \/ GetJob(w) \/ MarkRunning(w) \/ GetLatest(w) \/ OpenFile(w)
    \/ PrimeRecord(w) \/ ProcessRecord(w) \/ EndOfFile(w)
    \/ SaveCheckpoint(w) \/ PollCanceled(w) \/ SaveFinalCheckpoint(w)
    \/ SaveFileStats(w) \/ SaveManifest(w) \/ Complete(w) \/ RereadCompleted(w)
    \/ FailJob(w) \/ Settle(w)

WorkerFault(w) == CallFails(w) \/ ContextEnds(w) \/ Crash(w) \/ Shutdown(w)
=============================================================================
