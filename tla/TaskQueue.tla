----------------------------- MODULE TaskQueue ------------------------------
(***************************************************************************)
(* The Asynq queue in Redis, as queue/replay.go and worker/ use it         *)
(* (external: modelled from its use).  One task per job id: SubmitReplay   *)
(* enqueues with TaskID derived from the idempotency key, or from the job  *)
(* id when there is none, and at most one row has a given key.  The retry  *)
(* delay of RetryDelayFunc is time only, so a task waiting for its retry   *)
(* is pending.  A task that is "done" has been deleted from Redis.         *)
(***************************************************************************)
EXTENDS Environment

CONSTANT MaxRetry   \* asynq.MaxRetry of the task (0 when configured negative)

ASSUME MaxRetryAssumption == MaxRetry \in Nat

VARIABLE task   \* task[j]: state and retry count of the task of job j

TaskStates == {"none", "pending", "active", "archived", "done"}
Tasks == [state : TaskStates, retried : 0 .. MaxRetry]

QueueInit == task = [j \in Jobs |-> [state |-> "none", retried |-> 0]]
QueueTypeOK == task \in [Jobs -> Tasks]

SetTask(j, state) == task' = [task EXCEPT ![j].state = state]

\* EnqueueContext: a task id that is already there is left alone.
EnqueueContext(j) ==
    task' = IF task[j].state \in {"none", "done"}
            THEN [task EXCEPT ![j] = [state |-> "pending", retried |-> 0]]
            ELSE task

Exhausted(j) == task[j].retried >= MaxRetry

\* A failed or expired delivery: retried later, or archived after the last.
RetryOrArchive(j) ==
    task' = IF Exhausted(j)
            THEN [task EXCEPT ![j].state = "archived"]
            ELSE [task EXCEPT ![j] = [state |-> "pending", retried |-> @.retried + 1]]
=============================================================================
