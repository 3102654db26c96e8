-------------------------- MODULE ReplayOnceProofs --------------------------
(***************************************************************************)
(* The control plane implements ReplayOnce, for every set of submissions,  *)
(* workers and files and every fault budget.  The steps that touch what    *)
(* ReplayOnce sees are five: a repository call that is under way (Write),  *)
(* an INSERT, a cancellation, the reading of a record, and all others,     *)
(* which are stutters.                                                     *)
(***************************************************************************)
EXTENDS ReplaySystemProofs

USE NoJobAssumption, MaxFaultsAssumption, FileAssumption, MaxRetryAssumption,
    WorkerAssumption

\* The state ReplayOnce sees.
accepted == {j \in Jobs : Exists(j)}
progress == [j \in Jobs |-> job[j].checkpoint]
reported == [j \in Jobs |-> {l \in BadLines : errs[j][l] > 0}]
seenByOnce == <<accepted, seen, progress, reported, metrics>>

\* One step of ReplayOnce, or none.
OnceStep == Once!Next \/ UNCHANGED seenByOnce

-----------------------------------------------------------------------------
(* The five kinds of steps *)

LEMMA QuietStep ==
    ASSUME UNCHANGED <<storeVars, seen>>
    PROVE  OnceStep
BY DEF OnceStep, storeVars, seenByOnce, accepted, progress, reported, Exists

\* A write that neither adds a row nor moves a checkpoint is invisible.
LEMMA SameProgress ==
    ASSUME UNCHANGED <<metrics, errs, seen>>,
           \A j \in Jobs : job'[j].checkpoint = job[j].checkpoint
                           /\ (job'[j].status = "absent" <=> job[j].status = "absent")
    PROVE  OnceStep
<1>1. UNCHANGED accepted
  BY DEF accepted, Exists
<1>2. UNCHANGED <<progress, reported>>
  BY DEF progress, reported
<1> QED BY <1>1, <1>2 DEF OnceStep, seenByOnce

LEMMA CancelOnce ==
    ASSUME StoreTypeOK, NEW j \in Jobs, Exists(j), CancelReplayJob(j), UNCHANGED seen
    PROVE  OnceStep
<1>1. \A i \in Jobs : job'[i].checkpoint = job[i].checkpoint
                      /\ (job'[i].status = "absent" <=> job[i].status = "absent")
  BY DEF StoreTypeOK, CancelReplayJob, UpdateReplayJobStatus, Exists, JobRows
<1> QED BY <1>1, SameProgress DEF CancelReplayJob, UpdateReplayJobStatus

LEMMA InsertOnce ==
    ASSUME StoreTypeOK, NEW c \in Jobs, job[c] = NoRow, WithKey(Key[c]) = {},
           InsertReplayJob(c), UNCHANGED seen
    PROVE  OnceStep
<1>1. /\ job'[c].status = "queued" /\ job'[c].checkpoint = 0
      /\ \A i \in Jobs \ {c} : job'[i] = job[i]
  BY DEF StoreTypeOK, InsertReplayJob, NoRow, JobRows
<1>2. c \notin accepted /\ accepted' = accepted \cup {c}
  BY <1>1 DEF accepted, Exists, NoRow
<1>3. \A i \in accepted : Key[i] = Key[c] => Key[c] = NoKey
  BY DEF accepted, WithKey
<1>4. UNCHANGED progress
  BY <1>1 DEF progress, NoRow
<1>5. UNCHANGED <<reported, metrics>>
  BY DEF reported, InsertReplayJob
<1>6. Once!Accept(c)
  BY <1>2, <1>3, <1>4, <1>5 DEF Once!Accept, accepted, progress, reported
<1> QED BY <1>6 DEF OnceStep, Once!Next

\* A checkpoint write over records that have been judged.
LEMMA AdvanceOnce ==
    ASSUME StoreTypeOK, NEW j \in Jobs, Exists(j), NEW n \in 0 .. LastLine,
           Covered(j, n), UpdateReplayCheckpoint(j, n), UNCHANGED seen
    PROVE  OnceStep
<1>1. job[j] \in JobRows /\ job[j].checkpoint \in 0 .. LastLine
  BY DEF StoreTypeOK, JobRows
<1>2. /\ \A i \in Jobs \ {j} : job'[i] = job[i]
      /\ job'[j].status = job[j].status
      /\ job'[j].checkpoint = IF n > job[j].checkpoint THEN n ELSE job[j].checkpoint
  BY <1>1 DEF StoreTypeOK, UpdateReplayCheckpoint, JobRows
<1>3. UNCHANGED <<metrics, errs>>
  BY DEF UpdateReplayCheckpoint
<1>4. CASE n <= job[j].checkpoint
  BY <1>1, <1>2, <1>3, <1>4, SameProgress
<1>5. CASE n > job[j].checkpoint
  <2>1. UNCHANGED <<accepted, reported>> /\ j \in accepted
    BY <1>2, <1>3 DEF accepted, reported, Exists
  <2>2. progress' = [progress EXCEPT ![j] = n] /\ progress[j] = job[j].checkpoint
    BY <1>2, <1>5 DEF progress
  <2>3. FirstLine .. n \subseteq seen[j]
    BY DEF Covered, Lines
  <2>4. n \in 1 .. LastLine
    BY <1>1, <1>5
  <2>5. Once!Advance(j, n)
    BY <1>3, <1>5, <2>1, <2>2, <2>3 DEF Once!Advance, accepted, progress, reported
  <2> QED BY <2>4, <2>5 DEF OnceStep, Once!Next
<1> QED BY <1>1, <1>4, <1>5

\* A completion: its errors are new, since none is on record twice after it.
LEMMA ReportOnce ==
    ASSUME StoreTypeOK, NEW j \in Jobs, Exists(j), NEW found \in SUBSET BadLines,
           job[j].checkpoint = FileRows, Covered(j, LastLine), NoDuplicateErrors',
           CompleteReplayJob(j, found), UNCHANGED seen
    PROVE  OnceStep
<1>1. /\ \A i \in Jobs : job'[i].checkpoint = job[i].checkpoint
                         /\ (job'[i].status = "absent" <=> job[i].status = "absent")
  BY DEF StoreTypeOK, CompleteReplayJob, JobRows, Exists
<1>2. UNCHANGED <<accepted, progress>> /\ j \in accepted
  BY <1>1 DEF accepted, progress, Exists
<1>3. progress[j] = FileRows /\ FileRows = Once!AtEnd
  BY DEF progress, FileRows, Once!AtEnd
<1>4. /\ \A i \in Jobs \ {j} : errs'[i] = errs[i]
      /\ errs'[j] = [l \in BadLines |-> IF l \in found THEN errs[j][l] + 1 ELSE errs[j][l]]
      /\ errs[j] \in [BadLines -> Nat]
      /\ metrics' = [metrics EXCEPT ![j] = @ + 1]
  BY DEF StoreTypeOK, CompleteReplayJob
<1>5. found \subseteq seen[j]
  BY DEF Covered, Lines
<1>6. found \cap reported[j] = {}
  <2> SUFFICES ASSUME NEW l \in found, errs[j][l] > 0 PROVE FALSE
    BY DEF reported
  <2>1. errs'[j][l] = errs[j][l] + 1 /\ errs[j][l] \in Nat
    BY <1>4
  <2>2. errs'[j][l] <= 1
    BY DEF NoDuplicateErrors
  <2> QED BY <2>1, <2>2
<1>7. reported' = [reported EXCEPT ![j] = @ \cup found]
  <2>1. \A i \in Jobs \ {j} : {l \in BadLines : errs'[i][l] > 0} = {l \in BadLines : errs[i][l] > 0}
    BY <1>4
  <2>2. {l \in BadLines : errs'[j][l] > 0} = {l \in BadLines : errs[j][l] > 0} \cup found
    <3>1. ASSUME NEW l \in BadLines
          PROVE  errs'[j][l] > 0 <=> errs[j][l] > 0 \/ l \in found
      BY <1>4
    <3> QED BY <3>1
  <2> QED BY <2>1, <2>2 DEF reported
<1>8. Once!Report(j, found)
  BY <1>2, <1>3, <1>4, <1>5, <1>6, <1>7 DEF Once!Report, accepted, progress, reported
<1> QED BY <1>8 DEF OnceStep, Once!Next

\* Any repository call under way.
LEMMA WriteOnce ==
    ASSUME StoreTypeOK, LedgerInv, NoDuplicateErrors',
           NEW m \in Handlers, m.job \in Jobs, Exists(m.job), Progress(m), Write(m),
           UNCHANGED seen
    PROVE  OnceStep
<1>0. m.line \in 0 .. LastLine /\ m.found \in SUBSET BadLines
  BY DEF Handlers
<1>1. ASSUME NEW s \in Statuses, UpdateReplayJobStatus(m.job, s)
      PROVE  OnceStep
  <2>1. \A i \in Jobs : job'[i].checkpoint = job[i].checkpoint
                        /\ (job'[i].status = "absent" <=> job[i].status = "absent")
    BY <1>1 DEF StoreTypeOK, UpdateReplayJobStatus, Exists, JobRows, Statuses
  <2> QED BY <1>1, <2>1, SameProgress DEF UpdateReplayJobStatus
<1>2. CASE m.pc = "running" /\ UpdateReplayJobStatus(m.job, "running")
  BY <1>1, <1>2 DEF Statuses
<1>3. CASE m.pc = "fail" /\ UpdateReplayJobStatus(m.job, FailStatus(m))
  BY <1>1, <1>3 DEF Statuses, FailStatus
<1>4. CASE m.pc = "ckpt" /\ UpdateReplayCheckpoint(m.job, m.line)
  BY <1>0, <1>4, AdvanceOnce DEF Progress
<1>5. CASE m.pc = "final" /\ UpdateReplayCheckpoint(m.job, FileRows)
  <2>1. Covered(m.job, FileRows)
    BY <1>5 DEF Progress, Covered, FileRows, Lines
  <2> QED BY <1>5, <2>1, FileRowsType, AdvanceOnce
<1>6. CASE m.pc = "stats" /\ UpdateEventFileStats
  BY <1>6, SameProgress DEF UpdateEventFileStats
<1>7. CASE m.pc = "manifest" /\ UpdateReplayManifest(m.job, m.resume, m.found)
  <2>1. \A i \in Jobs : job'[i].checkpoint = job[i].checkpoint
                        /\ (job'[i].status = "absent" <=> job[i].status = "absent")
    BY <1>7 DEF StoreTypeOK, UpdateReplayManifest, JobRows
  <2> QED BY <1>7, <2>1, SameProgress DEF UpdateReplayManifest
<1>8. CASE m.pc = "complete" /\ CompleteReplayJob(m.job, m.found)
  BY <1>0, <1>8, ReportOnce DEF Progress
<1> QED BY <1>2, <1>3, <1>4, <1>5, <1>6, <1>7, <1>8 DEF Write

\* Reading the next record: all before it have been judged.
LEMMA JudgeOnce ==
    ASSUME Inv, NEW w \in Workers, ProcessRecord(w)
    PROVE  OnceStep
<1> DEFINE j == h[w].job
           l == h[w].line + 1
<1>1. h[w].pc = "row" /\ h[w].line < LastLine /\ seen' = [seen EXCEPT ![j] = @ \cup {l}]
      /\ UNCHANGED storeVars
  BY DEF ProcessRecord
<1>2. h[w] \in Handlers /\ j \in Jobs /\ j # NoJob /\ Progress(h[w])
  BY <1>1, AtWork DEF Inv
<1>3. h[w].line \in 0 .. LastLine /\ l >= FirstLine /\ Covered(j, h[w].line)
  BY <1>1, <1>2 DEF Handlers, Progress
<1>4. Exists(j)
  BY <1>2 DEF Inv, QueueInv, SubmitInv, TaskHasRow
<1>5. l \in FirstLine .. LastLine /\ FirstLine .. (l - 1) \subseteq seen[j]
  BY <1>1, <1>3 DEF Covered, Lines
<1>6. UNCHANGED <<accepted, progress, reported, metrics>> /\ j \in accepted
  BY <1>1, <1>2, <1>4 DEF storeVars, accepted, progress, reported, Exists
<1>7. Once!Judge(j, l)
  BY <1>1, <1>5, <1>6 DEF Once!Judge, accepted, progress, reported
<1> QED BY <1>2, <1>5, <1>7 DEF OnceStep, Once!Next

-----------------------------------------------------------------------------
(* Every step is one of them *)

\* A handler's call finds the row of its job.
LEMMA HandlerWrites ==
    ASSUME Inv, NoDuplicateErrors', NEW w \in Workers, h[w].pc # "idle", Write(h[w]),
           UNCHANGED seen
    PROVE  OnceStep
<1>1. h[w] \in Handlers /\ h[w].job \in Jobs /\ h[w].job # NoJob /\ Progress(h[w])
  BY AtWork DEF Inv
<1>2. Exists(h[w].job)
  BY <1>1 DEF Inv, QueueInv, SubmitInv, TaskHasRow
<1> QED BY <1>1, <1>2, WriteOnce DEF Inv, TypeOK

LEMMA WorkerOnce == ASSUME Inv, NoDuplicateErrors', WorkerNext PROVE OnceStep
<1>1. ASSUME NEW w \in Workers, HandlerStep(w) PROVE OnceStep
  <2>1. CASE GetJob(w) \/ GetLatest(w) \/ OpenFile(w) \/ PrimeRecord(w) \/ EndOfFile(w)
             \/ PollCanceled(w) \/ RereadCompleted(w) \/ Settle(w)
    BY <2>1, QuietStep DEF GetJob, GetLatest, OpenFile, PrimeRecord, EndOfFile, PollCanceled,
       RereadCompleted, Settle
  <2>2. CASE MarkRunning(w) \/ SaveCheckpoint(w) \/ SaveFinalCheckpoint(w) \/ SaveFileStats(w)
             \/ SaveManifest(w) \/ Complete(w) \/ FailJob(w)
    <3>1. h[w].pc # "idle" /\ Write(h[w]) /\ UNCHANGED seen
      BY <2>2 DEF MarkRunning, SaveCheckpoint, SaveFinalCheckpoint, SaveFileStats, SaveManifest,
         Complete, FailJob
    <3> QED BY <3>1, HandlerWrites
  <2>3. CASE ProcessRecord(w)
    BY <2>3, JudgeOnce
  <2> QED BY <1>1, <2>1, <2>2, <2>3 DEF HandlerStep
<1>2. ASSUME NEW w \in Workers, WorkerFault(w) PROVE OnceStep
  <2>1. CASE CallFails(w)
    <3>1. h[w].pc # "idle" /\ UNCHANGED seen /\ (UNCHANGED storeVars \/ Write(h[w]))
      BY <2>1 DEF CallFails, WritePcs, ReadPcs
    <3> QED BY <3>1, HandlerWrites, QuietStep
  <2>2. CASE ContextEnds(w) \/ Crash(w) \/ Shutdown(w)
    BY <2>2, QuietStep DEF ContextEnds, Crash, Shutdown
  <2> QED BY <1>2, <2>1, <2>2 DEF WorkerFault
<1>3. ASSUME NEW w \in Workers, NEW j \in Jobs, Dequeue(w, j) PROVE OnceStep
  BY <1>3, QuietStep DEF Dequeue
<1>4. ASSUME NEW j \in Jobs, Recover(j) PROVE OnceStep
  BY <1>4, QuietStep DEF Recover, workerVars
<1>5. ASSUME NEW m \in late, LateWrite(m) PROVE OnceStep
  <2>1. m \in Handlers /\ m.job \in Jobs
    BY DEF Inv, TypeOK, WorkerTypeOK, Handlers, QueueInv
  <2>2. Exists(m.job) /\ Progress(m)
    BY <2>1 DEF Inv, SubmitInv, TaskHasRow, ProgressInv
  <2>3. Write(m) /\ UNCHANGED seen
    BY <1>5 DEF LateWrite
  <2> QED BY <2>1, <2>2, <2>3, WriteOnce DEF Inv, TypeOK
<1> QED BY <1>1, <1>2, <1>3, <1>4, <1>5 DEF WorkerNext

LEMMA ApiOnce == ASSUME Inv, ApiNext PROVE OnceStep
<1>0. UNCHANGED seen
  BY DEF ApiNext, workerVars
<1>1. ASSUME NEW c \in Jobs, SubmitStep(c) \/ SubmitFault(c) PROVE OnceStep
  <2>1. CASE UNCHANGED storeVars
    BY <1>0, <2>1, QuietStep
  <2>2. CASE req[c].pc = "insert" /\ WithKey(Key[c]) = {} /\ InsertReplayJob(c)
    BY <1>0, <2>2, InsertOnce DEF Inv, TypeOK, SubmitInv
  <2> QED BY <1>1, <2>1, <2>2 DEF SubmitStep, SubmitFault, Submit, LookupKey, Insert,
       RereadExisting, ReturnExisting, Enqueue, EnqueueFails, SubmitCallFails, ApiCrash, At
<1>2. ASSUME NEW j \in Jobs, Cancel(j) PROVE OnceStep
  BY <1>0, <1>2, CancelOnce DEF Cancel, Inv, TypeOK
<1> QED BY <1>1, <1>2 DEF ApiNext

(***************************************************************************)
(* The control plane implements ReplayOnce: whatever crashes, errors,      *)
(* timeouts, redeliveries and late statements happen, each job's records   *)
(* are judged in order and none is left out, progress is never taken back, *)
(* and a validation error enters the record once, after the whole file.    *)
(***************************************************************************)
THEOREM ImplementsReplayOnce == Spec => ReplaysOnce
<1>1. Init => Once!Init
  BY DEF Init, StoreInit, WorkerInit, Once!Init, NoRow, Exists
<1>2. Inv /\ Inv' /\ [Next]_vars => [Once!Next]_(Once!onceVars)
  <2> SUFFICES ASSUME Inv, Inv', [Next]_vars PROVE OnceStep
    BY DEF OnceStep, seenByOnce, Once!onceVars, accepted, progress, reported
  <2>1. NoDuplicateErrors'
    BY DEF Inv, ReportInv
  <2>2. CASE UNCHANGED vars
    BY <2>2, QuietStep DEF vars, workerVars
  <2>3. CASE Rest
    BY <2>3, QuietStep DEF Rest, vars, workerVars
  <2> QED BY <2>1, <2>2, <2>3, WorkerOnce, ApiOnce DEF Next
<1> QED BY <1>1, <1>2, Invariance, PTL DEF Spec, ReplaysOnce, Once!Spec
=============================================================================
