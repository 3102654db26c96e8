--------------------------- MODULE TerminalProofs ---------------------------
(***************************************************************************)
(* What is final in the control plane when every repository call succeeds  *)
(* and no abandoned statement lands late: crashes, timeouts, shutdowns,    *)
(* redeliveries, cancellations and racing submissions all still happen.    *)
(***************************************************************************)
EXTENDS ReplaySystemProofs

\* No repository call fails and nothing lands late.
CallsSucceed == MaxFaults["db"] = 0 /\ ~LateWrites

\* The stages of an attempt that has decided to run its job and has not
\* reported on it.
Working == Reporting \cup {"running", "latest", "fail"}

\* What an attempt holds in memory: the bad lines it has gone through since
\* the checkpoint it resumed from, and at the end all that follow it.
FoundOk(m) ==
    /\ m.pc = "open" => m.found = {}
    /\ m.pc \in {"row", "ckpt", "poll"} =>
          m.found = {l \in BadLines : m.resume < l /\ l <= m.line}
    /\ m.pc \in {"final", "stats", "manifest", "complete"} =>
          m.found = {l \in BadLines : l > m.resume}

FoundInv == \A w \in Workers : FoundOk(h[w])

\* The manifest describes the attempt that wrote it.
Describes(row, m) ==
    row.manifest.errors = m.found /\ row.manifest.resume = m.resume

(***************************************************************************)
(* An attempt at work has a job without a result; the manifest describes   *)
(* the attempt about to complete, so the completion records what it says;  *)
(* and a job with a result is never picked up again.                       *)
(***************************************************************************)
TerminalInv ==
    /\ late = {}
    /\ \A w \in Workers : h[w].pc \in Working =>
          /\ job[h[w].job].status \notin {"completed", "dlq"}
          /\ metrics[h[w].job] = 0
    /\ \A w \in Workers : h[w].pc = "complete" => Describes(job[h[w].job], h[w])
    /\ \A j \in Jobs : metrics[j] > 0 => job[j].status \in {"completed", "canceled"}
    /\ ManifestAgrees
    /\ ErrorsAfterResume

\* What a step does to the status of a finished job.
Sticks ==
    \A j \in Jobs : job[j].status \in {"completed", "dlq"} =>
        job'[j].status \in {job[j].status, "canceled"}

-----------------------------------------------------------------------------
(* What an attempt has found *)

LEMMA FoundElsewhere ==
    ASSUME NEW m, m.pc \in {"idle", "get", "running", "latest", "reread", "fail", "ack"}
    PROVE  FoundOk(m)
BY DEF FoundOk

LEMMA FoundGoto ==
    ASSUME WorkerTypeOK, NEW w \in Workers, NEW pc \in Pcs, Goto(w, pc), FoundOk(h[w]),
           \/ h[w].pc \in {"ckpt", "poll"} /\ pc \in {"poll", "row"}
           \/ h[w].pc \in {"final", "stats", "manifest"} /\ pc \in {"stats", "manifest", "complete"}
    PROVE  FoundOk(h'[w])
BY GotoType DEF FoundOk

LEMMA BadLineBounds ==
    ASSUME NEW l \in BadLines
    PROVE  l \in Nat /\ FirstLine <= l /\ l <= LastLine
<1>1. l \in FirstLine .. LastLine /\ FirstLine \in Nat /\ LastLine \in Nat
  BY FileAssumption
<1> QED
  BY <1>1

LEMMA FoundRecord ==
    ASSUME WorkerTypeOK, NEW w \in Workers, FoundOk(h[w]),
           OpenFile(w) \/ PrimeRecord(w) \/ ProcessRecord(w) \/ EndOfFile(w)
    PROVE  FoundOk(h'[w])
<1> DEFINE found == h[w].found
           line == h[w].line
           resume == h[w].resume
<1>1. h \in [Workers -> Handlers] /\ h[w] \in Handlers
  BY DEF WorkerTypeOK
<1>2. line \in Nat /\ line <= LastLine /\ resume \in Nat /\ FirstLine \in Nat /\ LastLine \in Nat
  BY <1>1, FileAssumption DEF Handlers
<1>3. CASE OpenFile(w)
  <2>1. h[w].pc = "open" /\ h'[w] = [h[w] EXCEPT !.pc = "row", !.line = FirstLine - 1]
    BY <1>1, <1>3 DEF OpenFile
  <2>2. /\ h'[w].pc = "row" /\ h'[w].found = found /\ h'[w].resume = resume
        /\ h'[w].line = FirstLine - 1
    BY <1>1, <2>1 DEF Handlers
  <2>3. found = {}
    BY <2>1 DEF FoundOk
  <2>4. ASSUME NEW l \in BadLines PROVE ~(l <= FirstLine - 1)
    BY FileAssumption, BadLineBounds
  <2> QED
    BY <2>2, <2>3, <2>4 DEF FoundOk
<1>4. CASE PrimeRecord(w)
  <2>1. h[w].pc = "row" /\ h'[w] = [h[w] EXCEPT !.line = line + 1] /\ line + 1 <= resume
    BY <1>1, <1>4 DEF PrimeRecord
  <2>2. /\ h'[w].pc = "row" /\ h'[w].found = found /\ h'[w].resume = resume
        /\ h'[w].line = line + 1
    BY <1>1, <2>1 DEF Handlers
  <2>3. found = {l \in BadLines : resume < l /\ l <= line}
    BY <2>1 DEF FoundOk
  <2> HIDE DEF found, line, resume
  <2>4. ASSUME NEW l \in BadLines
        PROVE  resume < l /\ l <= line <=> resume < l /\ l <= line + 1
    BY <1>2, <2>1, BadLineBounds
  <2> QED
    BY <2>2, <2>3, <2>4 DEF FoundOk
<1>5. CASE ProcessRecord(w)
  <2> DEFINE pc == IF (line + 1) % CheckpointEvery = 0 THEN "ckpt" ELSE "row"
  <2>1. /\ h[w].pc = "row" /\ line + 1 > resume
        /\ h'[w] = [h[w] EXCEPT !.line = line + 1, !.found = found \cup ({line + 1} \cap BadLines),
                                !.pc = pc]
    BY <1>1, <1>5 DEF ProcessRecord
  <2>2. pc \in {"ckpt", "row"}
    OBVIOUS
  <2>3. found = {l \in BadLines : resume < l /\ l <= line}
    BY <2>1 DEF FoundOk
  <2> HIDE DEF found, line, pc
  <2>4. /\ h'[w].pc = pc /\ h'[w].found = found \cup ({line + 1} \cap BadLines)
        /\ h'[w].resume = resume /\ h'[w].line = line + 1
    BY <1>1, <2>1 DEF Handlers
  <2> HIDE DEF resume
  <2>5. ASSUME NEW l \in BadLines
        PROVE  (resume < l /\ l <= line) \/ l = line + 1 <=> resume < l /\ l <= line + 1
    BY <1>2, <2>1, BadLineBounds
  <2>6. found \cup ({line + 1} \cap BadLines)
            = {l \in BadLines : resume < l /\ l <= line + 1}
    BY <2>3, <2>5
  <2> QED
    BY <2>2, <2>4, <2>6 DEF FoundOk
<1>6. CASE EndOfFile(w)
  <2>1. h[w].pc = "row" /\ line >= LastLine /\ Goto(w, "final") /\ "final" \in Pcs
    BY <1>6 DEF EndOfFile, Pcs, WritePcs
  <2>2. h'[w].pc = "final" /\ h'[w].found = found /\ h'[w].resume = resume
    BY <2>1, GotoType
  <2>3. found = {l \in BadLines : resume < l /\ l <= line}
    BY <2>1 DEF FoundOk
  <2> HIDE DEF found, line, resume
  <2>4. ASSUME NEW l \in BadLines PROVE l <= line
    BY <1>2, <2>1, BadLineBounds
  <2> QED
    BY <2>2, <2>3, <2>4 DEF FoundOk
<1> QED
  BY <1>3, <1>4, <1>5, <1>6

LEMMA FoundHandler ==
    ASSUME Inv, FoundInv, NEW w \in Workers, HandlerStep(w), ~Settle(w)
    PROVE  FoundOk(h'[w])
<1>0. /\ WorkerTypeOK /\ h \in [Workers -> Handlers] /\ h[w] \in Handlers /\ FoundOk(h[w])
  BY DEF Inv, TypeOK, WorkerTypeOK, FoundInv
<1>1. ASSUME NEW o \in {"done", "retry", "skip"}, Return(w, o) PROVE FoundOk(h'[w])
  BY <1>0, <1>1, ReturnType, FoundElsewhere
<1>2. ASSUME NEW pc \in {"running", "latest", "reread"}, Goto(w, pc) PROVE FoundOk(h'[w])
  <2>1. pc \in Pcs
    BY DEF Pcs, WritePcs, ReadPcs
  <2>2. h'[w].pc = pc
    BY <1>0, <1>2, <2>1, GotoType
  <2> QED
    BY <2>2, FoundElsewhere
<1>3. CASE GetJob(w) \/ MarkRunning(w) \/ Complete(w) \/ RereadCompleted(w)
  BY <1>1, <1>2, <1>3 DEF GetJob, MarkRunning, Complete, RereadCompleted
<1>4. CASE FailJob(w)
  BY <1>1, <1>4 DEF FailJob
<1>5. CASE GetLatest(w)
  <2>1. CASE job[h[w].job].status = "canceled"
    BY <1>1, <1>5, <2>1 DEF GetLatest
  <2>2. CASE job[h[w].job].status # "canceled"
    <3>1. h[w].pc = "latest"
          /\ h'[w] = [h[w] EXCEPT !.pc = "open", !.resume = job[h[w].job].checkpoint]
      BY <1>0, <1>5, <2>2 DEF GetLatest
    <3>2. h[w].found = {}
      BY <3>1, AtWork DEF Inv, Progress
    <3>3. h'[w].pc = "open" /\ h'[w].found = {}
      BY <1>0, <3>1, <3>2 DEF Handlers
    <3> QED
      BY <3>3 DEF FoundOk
  <2> QED
    BY <2>1, <2>2
<1>6. CASE OpenFile(w) \/ PrimeRecord(w) \/ ProcessRecord(w) \/ EndOfFile(w)
  BY <1>0, <1>6, FoundRecord
<1>7. CASE SaveCheckpoint(w) \/ SaveFinalCheckpoint(w) \/ SaveFileStats(w) \/ SaveManifest(w)
  BY <1>0, <1>7, FoundGoto DEF SaveCheckpoint, SaveFinalCheckpoint, SaveFileStats, SaveManifest,
     Pcs, WritePcs, ReadPcs
<1>8. CASE PollCanceled(w)
  <2>1. CASE job[h[w].job].status = "canceled"
    <3>1. h'[w].pc = "fail"
      BY <1>0, <1>8, <2>1 DEF PollCanceled, Handlers
    <3> QED
      BY <3>1, FoundElsewhere
  <2>2. CASE job[h[w].job].status # "canceled"
    BY <1>0, <1>8, <2>2, FoundGoto DEF PollCanceled, Pcs
  <2> QED
    BY <2>1, <2>2
<1> QED
  BY <1>3, <1>4, <1>5, <1>6, <1>7, <1>8 DEF HandlerStep

LEMMA FoundWorker ==
    ASSUME Inv, FoundInv, WorkerNext
    PROVE  FoundInv'
<1>0. WorkerTypeOK /\ h \in [Workers -> Handlers]
  BY DEF Inv, TypeOK, WorkerTypeOK
<1>1. ASSUME NEW w \in Workers, \A v \in Workers \ {w} : h'[v] = h[v], FoundOk(h'[w])
      PROVE  FoundInv'
  BY <1>1 DEF FoundInv
<1>2. FoundOk(Idle)
  BY FoundElsewhere DEF Idle
<1>3. ASSUME NEW w \in Workers, HandlerStep(w), ~Settle(w) PROVE FoundInv'
  <2>1. \A v \in Workers \ {w} : h'[v] = h[v]
    BY <1>3, HandlerAdvances DEF Inv, Advance, SlotMoves
  <2> QED
    BY <1>1, <1>3, <2>1, FoundHandler
<1>4. ASSUME NEW w \in Workers, Settle(w) \/ ContextEnds(w) \/ Crash(w) \/ Shutdown(w)
      PROVE  FoundInv'
  <2>1. h' = [h EXCEPT ![w] = Idle]
    BY <1>4 DEF Settle, ContextEnds, Crash, Shutdown, Abandon
  <2>2. h'[w] = Idle /\ \A v \in Workers \ {w} : h'[v] = h[v]
    BY <1>0, <2>1
  <2> QED
    BY <1>1, <1>2, <2>2
<1>5. ASSUME NEW w \in Workers, CallFails(w) PROVE FoundInv'
  <2>1. (\E o \in {"done", "retry", "skip"} : Return(w, o)) \/ Goto(w, "fail")
    BY <1>5 DEF CallFails
  <2>2. h'[w].pc \in {"ack", "fail"} /\ \A v \in Workers \ {w} : h'[v] = h[v]
    BY <1>0, <2>1, ReturnType, GotoType DEF Pcs, WritePcs
  <2> QED
    BY <1>1, <2>2, FoundElsewhere
<1>6. ASSUME NEW w \in Workers, NEW j \in Jobs, Dequeue(w, j) PROVE FoundInv'
  <2>1. h'[w].pc = "get" /\ \A v \in Workers \ {w} : h'[v] = h[v]
    BY <1>0, <1>6 DEF Dequeue, Idle
  <2> QED
    BY <1>1, <2>1, FoundElsewhere
<1>7. CASE UNCHANGED h
  BY <1>7 DEF FoundInv
<1> QED
  BY <1>3, <1>4, <1>5, <1>6, <1>7 DEF WorkerNext, WorkerFault, Recover, LateWrite, workerVars

LEMMA FoundHolds == Spec => []FoundInv
<1>1. Init => FoundInv
  BY FoundElsewhere DEF Init, WorkerInit, FoundInv, Idle
<1>2. Inv /\ FoundInv /\ [Next]_vars => FoundInv'
  <2> SUFFICES ASSUME Inv, FoundInv, [Next]_vars PROVE FoundInv'
    OBVIOUS
  <2>1. CASE WorkerNext
    BY <2>1, FoundWorker
  <2>2. CASE UNCHANGED h
    BY <2>2 DEF FoundInv
  <2> QED
    BY <2>1, <2>2 DEF Next, ApiNext, Rest, vars, workerVars
<1> QED
  BY <1>1, <1>2, Invariance, PTL DEF Spec

-----------------------------------------------------------------------------
(* Steps of a handler *)

\* What the step of the handler in slot w leaves of its own job.
OwnJob(w, j) ==
    /\ h'[w].pc \in Working =>
          job'[j].status \notin {"completed", "dlq"} /\ metrics'[j] = 0
    /\ h'[w].pc = "complete" => Describes(job'[j], h'[w])
    /\ metrics'[j] > 0 => job'[j].status \in {"completed", "canceled"}
    /\ job'[j].status = "completed" =>
          /\ metrics'[j] = 1
          /\ {l \in BadLines : errs'[j][l] > 0} = job'[j].manifest.errors
          /\ {l \in BadLines : errs'[j][l] > 0}
                = {l \in BadLines : l > job'[j].manifest.resume}
    /\ job[j].status \in {"completed", "dlq"} => job'[j].status = job[j].status

\* The other slots work on other jobs, whose rows the step leaves alone.
LEMMA OwnJobSuffices ==
    ASSUME Inv, TerminalInv, NEW w \in Workers, Advance(w), OwnJob(w, h[w].job)
    PROVE  TerminalInv' /\ Sticks
<1> DEFINE j == h[w].job
<1>1. /\ j \in Jobs /\ h[w] \in Handlers /\ h'[w].job = j
      /\ \A v \in Workers \ {w} : h'[v] = h[v]
      /\ late' = late
      /\ UNCHANGED storeVars \/ Write(h[w])
  BY DEF Advance, SlotMoves, Inv, TypeOK, WorkerTypeOK
<1>2. \A i \in Jobs \ {j} : job'[i] = job[i] /\ metrics'[i] = metrics[i] /\ errs'[i] = errs[i]
  BY <1>1, WriteFrame DEF storeVars, Inv, TypeOK
<1>3. ASSUME NEW v \in Workers \ {w}, h[v].pc # "idle"
      PROVE  h[v].job \in Jobs \ {j}
  BY <1>1, <1>3, AtWork DEF Inv, QueueInv
<1>4. \A v \in Workers : h'[v].pc \in Working =>
          /\ job'[h'[v].job].status \notin {"completed", "dlq"}
          /\ metrics'[h'[v].job] = 0
  BY <1>1, <1>2, <1>3 DEF TerminalInv, OwnJob, Working, Reporting
<1>5. \A v \in Workers : h'[v].pc = "complete" => Describes(job'[h'[v].job], h'[v])
  BY <1>1, <1>2, <1>3 DEF TerminalInv, OwnJob
<1>6. \A i \in Jobs : metrics'[i] > 0 => job'[i].status \in {"completed", "canceled"}
  BY <1>1, <1>2 DEF TerminalInv, OwnJob
<1>7. ManifestAgrees'
  BY <1>1, <1>2 DEF TerminalInv, OwnJob, ManifestAgrees
<1>8. Sticks
  BY <1>1, <1>2 DEF Sticks, OwnJob
<1>9. ErrorsAfterResume'
  BY <1>1, <1>2 DEF TerminalInv, OwnJob, ErrorsAfterResume
<1> QED
  BY <1>1, <1>4, <1>5, <1>6, <1>7, <1>8, <1>9 DEF TerminalInv

\* Steps that do not touch the store.
LEMMA QuietOwn ==
    ASSUME Inv, TerminalInv, NEW w \in Workers, h[w].job \in Jobs, UNCHANGED storeVars,
           h'[w].pc # "complete",
           h'[w].pc \in Working =>
               \/ h[w].pc \in Working
               \/ job[h[w].job].status \notin {"canceled", "completed", "dlq"}
    PROVE  OwnJob(w, h[w].job)
<1> DEFINE j == h[w].job
<1>1. /\ UNCHANGED <<job, metrics, errs>> /\ metrics[j] \in Nat
  BY DEF storeVars, Inv, TypeOK, StoreTypeOK
<1>2. h'[w].pc \in Working => job[j].status \notin {"completed", "dlq"} /\ metrics[j] = 0
  BY <1>1 DEF TerminalInv
<1> QED
  BY <1>1, <1>2 DEF OwnJob, TerminalInv, ManifestAgrees, ErrorsAfterResume

LEMMA ReadsOwn ==
    ASSUME Inv, TerminalInv, NEW w \in Workers,
           \/ GetJob(w) \/ GetLatest(w) \/ OpenFile(w) \/ PrimeRecord(w) \/ ProcessRecord(w)
           \/ EndOfFile(w) \/ PollCanceled(w) \/ RereadCompleted(w)
    PROVE  OwnJob(w, h[w].job)
<1>0. /\ WorkerTypeOK /\ h \in [Workers -> Handlers] /\ h[w] \in Handlers
      /\ UNCHANGED storeVars /\ h[w].pc # "idle"
  BY DEF Inv, TypeOK, WorkerTypeOK, GetJob, GetLatest, OpenFile, PrimeRecord, ProcessRecord,
         EndOfFile, PollCanceled, RereadCompleted
<1>1. h[w].job \in Jobs
  BY <1>0, AtWork DEF Inv
<1>2. ASSUME NEW o \in {"done", "retry", "skip"}, Return(w, o)
      PROVE  OwnJob(w, h[w].job)
  <2>1. h'[w].pc = "ack"
    BY <1>0, <1>2, ReturnType
  <2> QED
    BY <1>0, <1>1, <2>1, QuietOwn DEF Working, Reporting
<1>3. CASE GetJob(w)
  <2>1. CASE job[h[w].job].status \in {"canceled", "completed", "dlq"}
    BY <1>2, <1>3, <2>1 DEF GetJob
  <2>2. CASE job[h[w].job].status \notin {"canceled", "completed", "dlq"}
    <3>1. h'[w].pc = "running"
      BY <1>0, <1>3, <2>2, GotoType DEF GetJob, Pcs, WritePcs
    <3> QED
      BY <1>0, <1>1, <2>2, <3>1, QuietOwn
  <2> QED
    BY <2>1, <2>2
<1>4. CASE RereadCompleted(w)
  BY <1>2, <1>4 DEF RereadCompleted
<1>5. CASE GetLatest(w) /\ job[h[w].job].status = "canceled"
  BY <1>2, <1>5 DEF GetLatest
<1>6. CASE \/ GetLatest(w) /\ job[h[w].job].status # "canceled"
           \/ OpenFile(w) \/ PrimeRecord(w) \/ ProcessRecord(w)
           \/ EndOfFile(w) \/ PollCanceled(w)
  <2>1. h'[w].pc # "complete" /\ h[w].pc \in Working
    BY <1>0, <1>6 DEF GetLatest, OpenFile, PrimeRecord, ProcessRecord, EndOfFile,
       PollCanceled, Goto, Handlers, Working, Reporting
  <2> QED
    BY <1>0, <1>1, <2>1, QuietOwn
<1> QED
  BY <1>3, <1>4, <1>5, <1>6

\* Writes of an attempt at work, up to the completion.
LEMMA WritesOwn ==
    ASSUME Inv, TerminalInv, NEW w \in Workers,
           \/ MarkRunning(w) \/ SaveCheckpoint(w) \/ SaveFinalCheckpoint(w)
           \/ SaveFileStats(w) \/ SaveManifest(w)
    PROVE  OwnJob(w, h[w].job)
<1> DEFINE j == h[w].job
<1>0. /\ WorkerTypeOK /\ h[w] \in Handlers /\ h[w].pc # "idle" /\ h[w].pc \in Working
      /\ job \in [Jobs -> JobRows]
  BY DEF Inv, TypeOK, WorkerTypeOK, StoreTypeOK, MarkRunning, SaveCheckpoint,
     SaveFinalCheckpoint, SaveFileStats, SaveManifest, Working, Reporting
<1>1. j \in Jobs
  BY <1>0, AtWork DEF Inv
<1>2. job[j].status \notin {"completed", "dlq"} /\ metrics[j] = 0 /\ job[j] \in JobRows
  BY <1>0, <1>1 DEF TerminalInv
<1>3. CASE MarkRunning(w)
  <2>1. h'[w].pc = "latest"
    BY <1>0, <1>3, GotoType DEF MarkRunning, Pcs, ReadPcs
  <2>2. UpdateReplayJobStatus(j, "running")
    BY <1>3 DEF MarkRunning, Write
  <2>3. job'[j].status = "running" /\ metrics'[j] = 0
    BY <1>0, <1>1, <1>2, <2>2 DEF UpdateReplayJobStatus, JobRows
  <2> QED
    BY <1>2, <2>1, <2>3 DEF OwnJob
<1>4. CASE SaveCheckpoint(w) \/ SaveFinalCheckpoint(w) \/ SaveFileStats(w)
  <2>1. \E pc \in Pcs \ {"complete"} : Goto(w, pc)
    BY <1>4 DEF SaveCheckpoint, SaveFinalCheckpoint, SaveFileStats, Pcs, ReadPcs, WritePcs
  <2>3. h'[w].pc # "complete"
    BY <1>0, <2>1, GotoType
  <2>2. job'[j].status = job[j].status /\ metrics'[j] = 0
    BY <1>1, <1>2, <1>0, <1>4 DEF SaveCheckpoint, SaveFinalCheckpoint, SaveFileStats, Write,
       UpdateReplayCheckpoint, UpdateEventFileStats, JobRows
  <2> QED
    BY <1>2, <2>3, <2>2 DEF OwnJob
<1>5. CASE SaveManifest(w)
  <2>1. /\ h'[w].pc = "complete" /\ h'[w].found = h[w].found
        /\ h'[w].resume = h[w].resume
    BY <1>0, <1>5, GotoType DEF SaveManifest, Pcs, WritePcs
  <2>2. UpdateReplayManifest(j, h[w].resume, h[w].found)
    BY <1>5 DEF SaveManifest, Write
  <2>3. /\ job'[j].status = job[j].status /\ metrics'[j] = 0
        /\ job'[j].manifest.errors = h[w].found /\ job'[j].manifest.resume = h[w].resume
    BY <1>0, <1>1, <1>2, <2>2 DEF UpdateReplayManifest, JobRows
  <2> QED
    BY <1>2, <2>1, <2>3 DEF OwnJob, Describes
<1> QED
  BY <1>3, <1>4, <1>5

\* failJob follows a cancellation noticed at a poll.
LEMMA FailOwn ==
    ASSUME Inv, TerminalInv, NEW w \in Workers, FailJob(w)
    PROVE  OwnJob(w, h[w].job)
<1> DEFINE j == h[w].job
<1>0. /\ WorkerTypeOK /\ h[w] \in Handlers /\ h[w].pc = "fail"
      /\ job \in [Jobs -> JobRows]
  BY DEF Inv, TypeOK, WorkerTypeOK, StoreTypeOK, FailJob
<1>1. j \in Jobs
  BY <1>0, AtWork DEF Inv
<1>2. job[j].status \notin {"completed", "dlq"} /\ metrics[j] = 0 /\ job[j] \in JobRows
  BY <1>0, <1>1 DEF TerminalInv, Working
<1>3. h'[w].pc = "ack"
  BY <1>0, ReturnType DEF FailJob
<1>4. job'[j].status \in {"dlq", "failed"} /\ metrics'[j] = 0
  BY <1>0, <1>1, <1>2 DEF FailJob, Write, UpdateReplayJobStatus, FailStatus, JobRows
<1> QED
  BY <1>2, <1>3, <1>4 DEF OwnJob, Working, Reporting

\* The completion records what the manifest written just before it counts.
LEMMA CompleteOwn ==
    ASSUME Inv, FoundInv, TerminalInv, NEW w \in Workers, Complete(w)
    PROVE  OwnJob(w, h[w].job)
<1> DEFINE j == h[w].job
<1>0. /\ WorkerTypeOK /\ h[w] \in Handlers /\ h[w].pc = "complete"
      /\ job \in [Jobs -> JobRows] /\ metrics \in [Jobs -> Nat]
      /\ errs \in [Jobs -> [BadLines -> Nat]]
      /\ CompleteReplayJob(j, h[w].found)
  BY DEF Inv, TypeOK, WorkerTypeOK, StoreTypeOK, Complete, Write
<1>1. j \in Jobs
  BY <1>0, AtWork DEF Inv
<1>2. /\ job[j].status \notin {"completed", "dlq"} /\ metrics[j] = 0
      /\ job[j].manifest.errors = h[w].found /\ job[j].manifest.resume = h[w].resume
      /\ h[w].found = {l \in BadLines : l > h[w].resume}
  BY <1>0, <1>1 DEF TerminalInv, FoundInv, FoundOk, Describes, Working, Reporting
<1>3. h'[w].pc = "reread"
  BY <1>0, GotoType DEF Complete, Pcs, ReadPcs
<1>4. /\ job'[j].status = "completed" /\ job'[j].manifest = job[j].manifest
      /\ metrics'[j] = 1
  BY <1>0, <1>1, <1>2 DEF CompleteReplayJob, JobRows
<1>5. \A l \in BadLines : errs[j][l] = 0
  BY <1>0, <1>1, <1>2 DEF Inv, LedgerInv
<1>6. \A l \in BadLines : errs'[j][l] = IF l \in h[w].found THEN 1 ELSE 0
  BY <1>0, <1>1, <1>5 DEF CompleteReplayJob
<1>7. h[w].found \subseteq BadLines
  BY <1>0 DEF Handlers
<1>8. {l \in BadLines : errs'[j][l] > 0} = job'[j].manifest.errors
  BY <1>2, <1>4, <1>6, <1>7
<1>9. job'[j].manifest.errors = {l \in BadLines : l > job'[j].manifest.resume}
  BY <1>2, <1>4
<1> QED
  BY <1>2, <1>3, <1>4, <1>8, <1>9 DEF OwnJob, Working, Reporting

LEMMA HandlerTerminal ==
    ASSUME Inv, FoundInv, TerminalInv, NEW w \in Workers, HandlerStep(w), ~Settle(w)
    PROVE  TerminalInv' /\ Sticks
<1>1. Advance(w)
  BY HandlerAdvances DEF Inv
<1>2. OwnJob(w, h[w].job)
  BY ReadsOwn, WritesOwn, FailOwn, CompleteOwn DEF HandlerStep
<1> QED
  BY <1>1, <1>2, OwnJobSuffices

-----------------------------------------------------------------------------
(* The other steps *)

\* A step that leaves the store alone and puts no slot to work.
LEMMA QuietTerminal ==
    ASSUME TerminalInv, UNCHANGED storeVars, late' = late,
           \A w \in Workers : h'[w] = h[w] \/ h'[w].pc \in {"idle", "get"}
    PROVE  TerminalInv' /\ Sticks
<1>1. UNCHANGED <<job, metrics, errs>>
  BY DEF storeVars
<1>2. \A w \in Workers : h'[w].pc \in Working => h'[w] = h[w]
  BY DEF Working, Reporting
<1>3. ManifestAgrees' /\ ErrorsAfterResume'
  BY <1>1 DEF TerminalInv, ManifestAgrees, ErrorsAfterResume
<1>4. Sticks
  BY <1>1 DEF Sticks
<1>5. \A w \in Workers : h'[w].pc = "complete" => h'[w] = h[w]
  OBVIOUS
<1> QED
  BY <1>1, <1>2, <1>3, <1>4, <1>5 DEF TerminalInv

LEMMA ReleaseTerminal ==
    ASSUME CallsSucceed, Inv, TerminalInv, NEW w \in Workers,
           Settle(w) \/ ContextEnds(w) \/ Crash(w) \/ Shutdown(w)
    PROVE  TerminalInv' /\ Sticks
<1>1. h' = [h EXCEPT ![w] = Idle] /\ late' = late /\ UNCHANGED storeVars
  BY DEF Settle, ContextEnds, Crash, Shutdown, Abandon, CallsSucceed
<1>2. \A v \in Workers : h'[v] = h[v] \/ h'[v].pc \in {"idle", "get"}
  BY <1>1 DEF Inv, TypeOK, WorkerTypeOK, Idle
<1> QED
  BY <1>1, <1>2, QuietTerminal

LEMMA WorkerTerminal ==
    ASSUME CallsSucceed, Inv, FoundInv, TerminalInv, WorkerNext
    PROVE  TerminalInv' /\ Sticks
<1>1. ASSUME NEW w \in Workers, HandlerStep(w) \/ WorkerFault(w)
      PROVE  TerminalInv' /\ Sticks
  <2>1. ~CallFails(w)
    <3>1. faults["db"] \in Nat /\ MaxFaults["db"] = 0
      BY DEF CallsSucceed, Inv, TypeOK, FaultsTypeOK, FaultKinds
    <3> QED
      BY <3>1 DEF CallFails, Spend
  <2> QED
    BY <1>1, <2>1, HandlerTerminal, ReleaseTerminal DEF WorkerFault
<1>2. ASSUME NEW w \in Workers, NEW j \in Jobs, Dequeue(w, j)
      PROVE  TerminalInv' /\ Sticks
  <2>1. \A v \in Workers : h'[v] = h[v] \/ h'[v].pc \in {"idle", "get"}
    BY <1>2 DEF Dequeue, Inv, TypeOK, WorkerTypeOK, Idle
  <2> QED
    BY <1>2, <2>1, QuietTerminal DEF Dequeue
<1>3. ASSUME NEW j \in Jobs, Recover(j)
      PROVE  TerminalInv' /\ Sticks
  BY <1>3, QuietTerminal DEF Recover, workerVars
<1>4. late = {}
  BY DEF TerminalInv
<1> QED
  BY <1>1, <1>2, <1>3, <1>4 DEF WorkerNext

LEMMA ApiTerminal ==
    ASSUME Inv, TerminalInv, ApiNext
    PROVE  TerminalInv' /\ Sticks
<1>0. /\ StoreTypeOK /\ job \in [Jobs -> JobRows] /\ UNCHANGED <<h, late>>
  BY DEF Inv, TypeOK, StoreTypeOK, ApiNext, workerVars
<1>1. ASSUME NEW c \in Jobs, UNCHANGED <<metrics, errs>>,
             \A i \in Jobs \ {c} : job'[i] = job[i],
             job'[c].status = "canceled" \/ (metrics[c] = 0 /\ job'[c].status = "queued"),
             job'[c].manifest = job[c].manifest,
             job[c].status \in {"completed", "dlq"} => job'[c].status = "canceled"
      PROVE  TerminalInv' /\ Sticks
  <2>1. /\ job'[c].status \notin {"completed", "dlq"}
        /\ \A i \in Jobs : job'[i].manifest = job[i].manifest
    BY <1>1
  <2>2. ManifestAgrees' /\ ErrorsAfterResume'
    BY <1>1, <2>1 DEF TerminalInv, ManifestAgrees, ErrorsAfterResume
  <2>3. Sticks
    BY <1>1 DEF Sticks
  <2>4. \A w \in Workers : h[w].pc \in Working \/ h[w].pc = "complete" => h[w].job \in Jobs
    BY AtWork DEF Inv, Working, Reporting
  <2>5. \A w \in Workers : h'[w].pc \in Working =>
            /\ job'[h'[w].job].status \notin {"completed", "dlq"}
            /\ metrics'[h'[w].job] = 0
    BY <1>0, <1>1, <2>1, <2>4 DEF TerminalInv
  <2>6. \A w \in Workers : h'[w].pc = "complete" => Describes(job'[h'[w].job], h'[w])
    BY <1>0, <2>1, <2>4 DEF TerminalInv, Describes
  <2>7. \A j \in Jobs : metrics'[j] > 0 => job'[j].status \in {"completed", "canceled"}
    BY <1>1 DEF TerminalInv
  <2> QED
    BY <1>0, <2>2, <2>3, <2>5, <2>6, <2>7 DEF TerminalInv
<1>2. ASSUME NEW c \in Jobs, SubmitStep(c) \/ SubmitFault(c)
      PROVE  UNCHANGED storeVars \/ (At(c, "insert") /\ InsertReplayJob(c))
  BY <1>2 DEF SubmitStep, SubmitFault, Submit, LookupKey, Insert, RereadExisting,
     ReturnExisting, Enqueue, EnqueueFails, SubmitCallFails, ApiCrash
<1>3. CASE UNCHANGED storeVars
  BY <1>0, <1>3, QuietTerminal
<1>4. ASSUME NEW c \in Jobs, At(c, "insert"), InsertReplayJob(c)
      PROVE  TerminalInv' /\ Sticks
  <2>1. job[c] = NoRow /\ metrics[c] = 0
    BY <1>4 DEF At, Inv, SubmitInv
  <2>2. /\ UNCHANGED <<metrics, errs>> /\ \A i \in Jobs \ {c} : job'[i] = job[i]
        /\ job'[c].status = "queued" /\ job'[c].manifest = job[c].manifest
    BY <1>0, <1>4, <2>1 DEF InsertReplayJob, NoRow
  <2> QED
    BY <1>1, <2>1, <2>2 DEF NoRow
<1>5. ASSUME NEW j \in Jobs, Cancel(j)
      PROVE  TerminalInv' /\ Sticks
  <2>1. /\ UNCHANGED <<metrics, errs>> /\ \A i \in Jobs \ {j} : job'[i] = job[i]
        /\ job'[j].status = "canceled" /\ job'[j].manifest = job[j].manifest
    BY <1>0, <1>5 DEF Cancel, CancelReplayJob, UpdateReplayJobStatus, JobRows
  <2> QED
    BY <1>1, <2>1
<1> QED
  BY <1>2, <1>3, <1>4, <1>5 DEF ApiNext

-----------------------------------------------------------------------------
(* The theorems *)

LEMMA TerminalStep ==
    ASSUME CallsSucceed, Inv, FoundInv, TerminalInv, [Next]_vars
    PROVE  TerminalInv' /\ Sticks
<1>1. CASE UNCHANGED vars
  BY <1>1, QuietTerminal DEF vars, workerVars
<1> QED
  BY <1>1, ApiTerminal, WorkerTerminal DEF Next, Rest

LEMMA TerminalInit == Init => TerminalInv
BY DEF Init, StoreInit, WorkerInit, TerminalInv, ManifestAgrees, ErrorsAfterResume, NoRow, Idle,
   Working, Reporting

LEMMA TerminalHolds ==
    ASSUME CallsSucceed PROVE Spec => []TerminalInv
<1>1. Inv /\ FoundInv /\ TerminalInv /\ [Next]_vars => TerminalInv'
  BY TerminalStep
<1> QED
  BY <1>1, TerminalInit, Invariance, FoundHolds, PTL DEF Spec

\* A completed job's manifest counts exactly the validation errors on record,
\* and the job has one metric row, whichever attempts crashed, timed out or
\* were redelivered before (SaveManifest then CompleteReplayJob).
THEOREM ManifestIsExact ==
    ASSUME CallsSucceed PROVE Spec => []ManifestAgrees
<1>1. TerminalInv => ManifestAgrees
  BY DEF TerminalInv
<1> QED
  BY <1>1, TerminalHolds, PTL

\* The errors on record of a completed job are those of exactly the rows after
\* the line its manifest says it resumed from: the failures an attempt that was
\* lost held in memory are the only ones missing, and the manifest tells where
\* they end (run reads CheckpointLine before processFile).
THEOREM ReportStartsAtResume ==
    ASSUME CallsSucceed PROVE Spec => []ErrorsAfterResume
<1>1. TerminalInv => ErrorsAfterResume
  BY DEF TerminalInv
<1> QED
  BY <1>1, TerminalHolds, PTL

\* A completed or dead-lettered job is never replayed again: the early return
\* of ProcessTask is enough, because one slot at a time works on a job.
THEOREM TerminalIsFinal ==
    ASSUME CallsSucceed PROVE Spec => TerminalSticks
<1>1. Inv /\ FoundInv /\ TerminalInv /\ [Next]_vars => [Sticks]_vars
  BY TerminalStep
<1> QED
  BY <1>1, TerminalHolds, Invariance, FoundHolds, PTL DEF Spec, TerminalSticks, Sticks

-----------------------------------------------------------------------------
(* What Asynq does with a task, and the status of its job *)

\* The workers survive one delivery of every task.
OneSurvives == MaxFaults["crash"] + MaxFaults["timeout"] <= MaxRetry

\* Deliveries cut short so far.
Losses == faults["crash"] + faults["timeout"]

FaultsBounded ==
    faults["crash"] <= MaxFaults["crash"] /\ faults["timeout"] <= MaxFaults["timeout"]

\* What a handler returns to Asynq goes with the status of its job.
AnswerFits(outcome, status) ==
    \/ outcome = "done" /\ status \in {"completed", "canceled", "dlq"}
    \/ outcome = "skip" /\ status \in {"failed", "canceled", "dlq"}

EndOk(m, status) ==
    /\ m.pc = "fail" => m.canceled
    /\ m.pc = "reread" => status \in {"completed", "canceled"}
    /\ m.pc = "ack" => AnswerFits(m.outcome, status)

\* A retry stands for a delivery cut short; so does an active task nobody holds.
LossOk(t, held, n) ==
    /\ t.retried <= n
    /\ t.state = "active" /\ ~held => t.retried + 1 <= n

Held(j) == \E w \in Workers : h[w].job = j

(***************************************************************************)
(* failJob is reached by a cancellation only, whose error is not retried;  *)
(* so a task is retried only after a lost delivery, and there are too few  *)
(* of these for Asynq to archive it unseen.                                *)
(***************************************************************************)
OutcomeInv ==
    /\ FaultsBounded
    /\ \A w \in Workers : h[w].pc # "idle" => EndOk(h[w], job[h[w].job].status)
    /\ \A j \in Jobs : LossOk(task[j], Held(j), Losses)
    /\ SettledTogether

LEMMA ReturnOutcome ==
    ASSUME WorkerTypeOK, NEW w \in Workers, NEW o \in {"done", "retry", "skip"}, Return(w, o)
    PROVE  h'[w].pc = "ack" /\ h'[w].outcome = o
<1>1. h[w] \in Handlers /\ h \in [Workers -> Handlers]
  BY DEF WorkerTypeOK
<1>2. h'[w] = [h[w] EXCEPT !.pc = "ack", !.outcome = o]
  BY <1>1 DEF Return
<1> QED
  BY <1>1, <1>2 DEF Handlers

LEMMA FaultsKept ==
    ASSUME FaultsTypeOK, FaultsBounded, UNCHANGED faults \/ \E k \in FaultKinds : Spend(k)
    PROVE  FaultsBounded' /\ Losses \in Nat /\ Losses' \in Nat /\ Losses <= Losses'
<1>1. /\ faults["crash"] \in Nat /\ faults["timeout"] \in Nat
      /\ MaxFaults["crash"] \in Nat /\ MaxFaults["timeout"] \in Nat
  BY MaxFaultsAssumption DEF FaultsTypeOK, FaultKinds
<1>2. CASE UNCHANGED faults
  BY <1>1, <1>2 DEF FaultsBounded, Losses
<1>3. ASSUME NEW k \in FaultKinds, Spend(k)
      PROVE  FaultsBounded' /\ Losses \in Nat /\ Losses' \in Nat /\ Losses <= Losses'
  <2>1. /\ faults[k] < MaxFaults[k] /\ faults[k] \in Nat /\ MaxFaults[k] \in Nat
        /\ faults'[k] = faults[k] + 1 /\ \A i \in FaultKinds \ {k} : faults'[i] = faults[i]
    BY <1>3, MaxFaultsAssumption DEF Spend, FaultsTypeOK
  <2>2. /\ faults'["crash"] \in {faults["crash"], faults["crash"] + 1}
        /\ faults'["timeout"] \in {faults["timeout"], faults["timeout"] + 1}
        /\ faults'["crash"] <= MaxFaults["crash"] /\ faults'["timeout"] <= MaxFaults["timeout"]
    BY <1>1, <2>1 DEF FaultKinds, FaultsBounded
  <2> QED
    BY <1>1, <2>2 DEF FaultsBounded, Losses
<1> QED
  BY <1>2, <1>3

LEMMA LossGrows ==
    ASSUME NEW t \in Tasks, NEW held \in BOOLEAN, NEW n \in Nat, NEW k \in Nat, n <= k,
           LossOk(t, held, n)
    PROVE  LossOk(t, held, k)
<1>1. t.retried \in Nat
  BY MaxRetryAssumption DEF Tasks
<1> QED
  BY <1>1 DEF LossOk

\* The other slots work on other jobs.
LEMMA OwnEndSuffices ==
    ASSUME Inv, OutcomeInv, NEW w \in Workers, Advance(w), UNCHANGED faults,
           EndOk(h'[w], job'[h[w].job].status)
    PROVE  OutcomeInv'
<1> DEFINE j == h[w].job
<1>1. /\ j \in Jobs /\ h[w] \in Handlers /\ h'[w].job = j
      /\ \A v \in Workers \ {w} : h'[v] = h[v]
      /\ task' = task /\ h'[w].pc # "idle"
      /\ UNCHANGED storeVars \/ Write(h[w])
  BY DEF Advance, SlotMoves, Inv, TypeOK, WorkerTypeOK
<1>2. \A i \in Jobs \ {j} : job'[i] = job[i]
  BY <1>1, WriteFrame DEF storeVars, Inv, TypeOK
<1>3. ASSUME NEW v \in Workers \ {w}, h[v].pc # "idle"
      PROVE  h[v].job \in Jobs \ {j}
  BY <1>1, <1>3, AtWork DEF Inv, QueueInv
<1>4. ASSUME NEW v \in Workers, h'[v].pc # "idle"
      PROVE  EndOk(h'[v], job'[h'[v].job].status)
  BY <1>1, <1>2, <1>3, <1>4 DEF OutcomeInv
<1>5. \A i \in Jobs : Held(i)' = Held(i)
  BY <1>1 DEF Held
<1>6. \A i \in Jobs : LossOk(task[i], Held(i), Losses)'
  BY <1>1, <1>5 DEF OutcomeInv, Losses, LossOk
<1>7. task[j].state = "active"
  BY <1>1, NoJobAssumption DEF Inv, QueueInv
<1>8. SettledTogether'
  BY <1>1, <1>2, <1>7 DEF OutcomeInv, SettledTogether
<1> QED
  BY <1>4, <1>6, <1>8 DEF OutcomeInv, FaultsBounded

LEMMA HandlerEnds ==
    ASSUME Inv, TerminalInv, OutcomeInv, NEW w \in Workers, HandlerStep(w), ~Settle(w)
    PROVE  EndOk(h'[w], job'[h[w].job].status)
<1> DEFINE j == h[w].job
<1>0. /\ WorkerTypeOK /\ h \in [Workers -> Handlers] /\ h[w] \in Handlers
      /\ job \in [Jobs -> JobRows]
  BY DEF Inv, TypeOK, WorkerTypeOK, StoreTypeOK
<1>1. h[w].pc # "idle"
  BY DEF HandlerStep, GetJob, MarkRunning, GetLatest, OpenFile, PrimeRecord, ProcessRecord,
     EndOfFile, SaveCheckpoint, PollCanceled, SaveFinalCheckpoint, SaveFileStats, SaveManifest,
     Complete, RereadCompleted, FailJob
<1>2. j \in Jobs /\ EndOk(h[w], job[j].status) /\ job[j] \in JobRows
  BY <1>0, <1>1, AtWork DEF Inv, OutcomeInv
<1>3. ASSUME h'[w].pc \notin {"fail", "reread", "ack"} PROVE EndOk(h'[w], job'[j].status)
  BY <1>3 DEF EndOk
<1>4. CASE GetJob(w)
  <2>1. CASE job[j].status \in {"canceled", "completed", "dlq"}
    <3>1. Return(w, "done") /\ job' = job
      BY <1>4, <2>1 DEF GetJob, storeVars
    <3>2. h'[w].pc = "ack" /\ h'[w].outcome = "done"
      BY <1>0, <3>1, ReturnOutcome
    <3> QED
      BY <2>1, <3>1, <3>2 DEF EndOk, AnswerFits
  <2>2. CASE job[j].status \notin {"canceled", "completed", "dlq"}
    <3>1. h'[w].pc = "running"
      BY <1>0, <1>4, <2>2, GotoType DEF GetJob, Pcs, WritePcs
    <3> QED
      BY <1>3, <3>1
  <2> QED
    BY <2>1, <2>2
<1>5. CASE GetLatest(w)
  <2>1. CASE job[j].status = "canceled"
    <3>1. Return(w, "done") /\ job' = job
      BY <1>5, <2>1 DEF GetLatest, storeVars
    <3>2. h'[w].pc = "ack" /\ h'[w].outcome = "done"
      BY <1>0, <3>1, ReturnOutcome
    <3> QED
      BY <2>1, <3>1, <3>2 DEF EndOk, AnswerFits
  <2>2. CASE job[j].status # "canceled"
    <3>1. h'[w].pc = "open"
      BY <1>0, <1>5, <2>2 DEF GetLatest, Handlers
    <3> QED
      BY <1>3, <3>1
  <2> QED
    BY <2>1, <2>2
<1>6. CASE RereadCompleted(w)
  <2>1. Return(w, "done") /\ job' = job /\ h[w].pc = "reread"
    BY <1>6 DEF RereadCompleted, storeVars
  <2>2. h'[w].pc = "ack" /\ h'[w].outcome = "done"
    BY <1>0, <2>1, ReturnOutcome
  <2> QED
    BY <1>2, <2>1, <2>2 DEF EndOk, AnswerFits
<1>7. CASE FailJob(w)
  <2>1. /\ h[w].pc = "fail" /\ UpdateReplayJobStatus(j, FailStatus(h[w]))
        /\ Return(w, IF FailStatus(h[w]) = "dlq" \/ h[w].canceled THEN "skip" ELSE "retry")
    BY <1>7 DEF FailJob, Write
  <2>2. h[w].canceled
    BY <1>2, <2>1 DEF EndOk
  <2>3. h'[w].pc = "ack" /\ h'[w].outcome = "skip"
    BY <1>0, <2>1, <2>2, ReturnOutcome
  <2>4. job'[j].status \in {"dlq", "failed"}
    BY <1>0, <1>2, <2>1 DEF UpdateReplayJobStatus, FailStatus, JobRows
  <2> QED
    BY <2>3, <2>4 DEF EndOk, AnswerFits
<1>8. CASE Complete(w)
  <2>1. Goto(w, "reread") /\ CompleteReplayJob(j, h[w].found)
    BY <1>8 DEF Complete, Write
  <2>2. h'[w].pc = "reread"
    BY <1>0, <2>1, GotoType DEF Pcs, ReadPcs
  <2>3. job'[j].status = "completed"
    BY <1>0, <1>2, <2>1 DEF CompleteReplayJob, JobRows
  <2> QED
    BY <2>2, <2>3 DEF EndOk
<1>9. CASE PollCanceled(w)
  <2>1. CASE job[j].status = "canceled"
    <3>1. h'[w].pc = "fail" /\ h'[w].canceled
      BY <1>0, <1>9, <2>1 DEF PollCanceled, Handlers
    <3> QED
      BY <3>1 DEF EndOk
  <2>2. CASE job[j].status # "canceled"
    <3>1. h'[w].pc = "row"
      BY <1>0, <1>9, <2>2, GotoType DEF PollCanceled, Pcs
    <3> QED
      BY <1>3, <3>1
  <2> QED
    BY <2>1, <2>2
<1>10. CASE \/ MarkRunning(w) \/ EndOfFile(w) \/ SaveCheckpoint(w) \/ SaveFinalCheckpoint(w)
            \/ SaveFileStats(w) \/ SaveManifest(w)
  <2>1. \E pc \in Pcs \ {"fail", "reread", "ack"} : Goto(w, pc)
    BY <1>10 DEF MarkRunning, EndOfFile, SaveCheckpoint, SaveFinalCheckpoint, SaveFileStats,
       SaveManifest, Pcs, ReadPcs, WritePcs
  <2>2. h'[w].pc \notin {"fail", "reread", "ack"}
    BY <1>0, <2>1, GotoType
  <2> QED
    BY <1>3, <2>2
<1>11. CASE OpenFile(w) \/ PrimeRecord(w) \/ ProcessRecord(w)
  <2>1. h'[w].pc \in {"row", "ckpt"}
    BY <1>0, <1>11 DEF OpenFile, PrimeRecord, ProcessRecord, Handlers
  <2> QED
    BY <1>3, <2>1
<1> QED
  BY <1>4, <1>5, <1>6, <1>7, <1>8, <1>9, <1>10, <1>11 DEF HandlerStep

\* The end of a handler, and what Asynq does with its task.
LEMMA ReleaseOutcome ==
    ASSUME Inv, OutcomeInv, NEW w \in Workers, h[w].pc # "idle", h' = [h EXCEPT ![w] = Idle],
           job' = job, UNCHANGED faults \/ \E k \in FaultKinds : Spend(k),
           \A i \in Jobs \ {h[w].job} : task'[i] = task[i],
           LossOk(task'[h[w].job], FALSE, Losses'),
           task'[h[w].job].state = "done" =>
               job[h[w].job].status \in {"completed", "canceled", "dlq"},
           task'[h[w].job].state = "archived" =>
               job[h[w].job].status \in {"failed", "canceled", "dlq"}
    PROVE  OutcomeInv'
<1>1. PICK j \in Jobs : j = h[w].job /\ j # NoJob
  BY AtWork DEF Inv
<1>2. h'[w] = Idle /\ \A v \in Workers \ {w} : h'[v] = h[v]
  BY DEF Inv, TypeOK, WorkerTypeOK
<1>3. FaultsBounded' /\ Losses \in Nat /\ Losses' \in Nat /\ Losses <= Losses'
  BY FaultsKept DEF Inv, TypeOK, OutcomeInv
<1>4. \A v \in Workers : h'[v].pc # "idle" => EndOk(h'[v], job'[h'[v].job].status)
  BY <1>2 DEF OutcomeInv, Idle
<1>5. Held(j)' = FALSE
  <2>1. \A v \in Workers : h'[v].job # j
    BY <1>1, <1>2 DEF Idle, Inv, QueueInv
  <2> QED
    BY <2>1 DEF Held
<1>6. ASSUME NEW i \in Jobs \ {j} PROVE Held(i)' = Held(i)
  <2>1. i # NoJob
    BY NoJobAssumption
  <2> QED
    BY <1>1, <1>2, <2>1 DEF Held, Idle
<1>7. ASSUME NEW i \in Jobs PROVE LossOk(task'[i], Held(i)', Losses')
  <2>1. CASE i = j
    BY <1>1, <1>5, <2>1
  <2>2. CASE i # j
    <3>1. task[i] \in Tasks /\ Held(i) \in BOOLEAN /\ task'[i] = task[i] /\ Held(i)' = Held(i)
      BY <1>1, <1>6, <2>2 DEF Inv, TypeOK, QueueTypeOK, Held
    <3>2. LossOk(task[i], Held(i), Losses)
      BY DEF OutcomeInv
    <3>3. LossOk(task[i], Held(i), Losses')
      BY <1>3, <3>1, <3>2, LossGrows
    <3> QED
      BY <3>1, <3>3
  <2> QED
    BY <2>1, <2>2
<1>8. SettledTogether'
  BY <1>1 DEF OutcomeInv, SettledTogether
<1> QED
  BY <1>3, <1>4, <1>7, <1>8 DEF OutcomeInv

LEMMA SetTaskIs ==
    ASSUME QueueTypeOK, NEW j \in Jobs, NEW st \in TaskStates, SetTask(j, st)
    PROVE  /\ task'[j].state = st /\ task'[j].retried = task[j].retried
           /\ \A i \in Jobs \ {j} : task'[i] = task[i]
BY DEF QueueTypeOK, SetTask, Tasks

\* A task that may be retried once more goes back to the queue.
LEMMA RetryIs ==
    ASSUME QueueTypeOK, NEW j \in Jobs, RetryOrArchive(j), task[j].retried + 1 <= MaxRetry
    PROVE  /\ task'[j].state = "pending" /\ task'[j].retried = task[j].retried + 1
           /\ \A i \in Jobs \ {j} : task'[i] = task[i]
<1>1. task \in [Jobs -> Tasks] /\ task[j].retried \in Nat /\ MaxRetry \in Nat
  BY MaxRetryAssumption DEF QueueTypeOK, Tasks
<1>2. ~Exhausted(j)
  BY <1>1 DEF Exhausted
<1>3. task' = [task EXCEPT ![j] = [state |-> "pending", retried |-> task[j].retried + 1]]
  BY <1>1, <1>2 DEF RetryOrArchive
<1> QED
  BY <1>1, <1>3

\* There is always a delivery left after a loss.
LEMMA LossesFew ==
    ASSUME OneSurvives, FaultsTypeOK, FaultsBounded
    PROVE  /\ Losses \in Nat /\ Losses <= MaxRetry
           /\ Spend("crash") \/ Spend("timeout") =>
                 Losses' = Losses + 1 /\ Losses + 1 <= MaxRetry
<1>1. /\ faults["crash"] \in Nat /\ faults["timeout"] \in Nat /\ MaxRetry \in Nat
      /\ MaxFaults["crash"] \in Nat /\ MaxFaults["timeout"] \in Nat
  BY MaxFaultsAssumption, MaxRetryAssumption DEF FaultsTypeOK, FaultKinds
<1>2. Losses \in Nat /\ Losses <= MaxRetry
  BY <1>1 DEF Losses, FaultsBounded, OneSurvives
<1>3. ASSUME Spend("crash") PROVE Losses' = Losses + 1 /\ Losses + 1 <= MaxRetry
  <2>1. /\ faults'["crash"] = faults["crash"] + 1 /\ faults'["timeout"] = faults["timeout"]
        /\ faults["crash"] < MaxFaults["crash"]
    BY <1>3 DEF Spend, FaultsTypeOK, FaultKinds
  <2> QED
    BY <1>1, <2>1 DEF Losses, FaultsBounded, OneSurvives
<1>4. ASSUME Spend("timeout") PROVE Losses' = Losses + 1 /\ Losses + 1 <= MaxRetry
  <2>1. /\ faults'["timeout"] = faults["timeout"] + 1 /\ faults'["crash"] = faults["crash"]
        /\ faults["timeout"] < MaxFaults["timeout"]
    BY <1>4 DEF Spend, FaultsTypeOK, FaultKinds
  <2> QED
    BY <1>1, <2>1 DEF Losses, FaultsBounded, OneSurvives
<1> QED
  BY <1>2, <1>3, <1>4

LEMMA EndingsOutcome ==
    ASSUME OneSurvives, Inv, OutcomeInv, NEW w \in Workers,
           Settle(w) \/ ContextEnds(w) \/ Crash(w) \/ Shutdown(w)
    PROVE  OutcomeInv'
<1> DEFINE j == h[w].job
<1>0. /\ QueueTypeOK /\ task \in [Jobs -> Tasks] /\ FaultsTypeOK /\ FaultsBounded
  BY DEF Inv, TypeOK, QueueTypeOK, OutcomeInv
<1>1. /\ h[w].pc # "idle" /\ h' = [h EXCEPT ![w] = Idle] /\ job' = job
  BY DEF Settle, ContextEnds, Crash, Shutdown, Abandon, storeVars
<1>2. j \in Jobs /\ task[j].state = "active"
  BY <1>1, AtWork DEF Inv, QueueInv
<1>3. /\ task[j].retried \in Nat /\ task[j].retried <= Losses
      /\ Losses \in Nat /\ Losses <= MaxRetry /\ EndOk(h[w], job[j].status)
  BY <1>0, <1>1, <1>2, LossesFew, MaxRetryAssumption DEF OutcomeInv, LossOk, Tasks
<1>4. ASSUME NEW st \in {"done", "archived", "pending"}, SetTask(j, st), Losses' \in Nat,
             Losses <= Losses'
      PROVE  /\ task'[j].state = st /\ \A i \in Jobs \ {j} : task'[i] = task[i]
             /\ LossOk(task'[j], FALSE, Losses')
  <2>1. /\ task'[j].state = st /\ task'[j].retried = task[j].retried
        /\ \A i \in Jobs \ {j} : task'[i] = task[i]
    BY <1>0, <1>2, <1>4, SetTaskIs DEF TaskStates
  <2> QED
    BY <1>3, <1>4, <2>1 DEF LossOk
<1>5. CASE Settle(w)
  <2>1. h[w].pc = "ack" /\ UNCHANGED faults /\ AnswerFits(h[w].outcome, job[j].status)
    BY <1>3, <1>5 DEF Settle, EndOk
  <2>2. Losses' \in Nat /\ Losses <= Losses'
    BY <1>3, <2>1 DEF Losses
  <2>3. CASE h[w].outcome = "done"
    <3>1. SetTask(j, "done") /\ job[j].status \in {"completed", "canceled", "dlq"}
      BY <1>5, <2>1, <2>3 DEF Settle, AnswerFits
    <3>2. /\ task'[j].state = "done" /\ \A i \in Jobs \ {j} : task'[i] = task[i]
          /\ LossOk(task'[j], FALSE, Losses')
      BY <1>4, <2>2, <3>1
    <3> QED
      BY <1>1, <2>1, <3>1, <3>2, ReleaseOutcome
  <2>4. CASE h[w].outcome = "skip"
    <3>1. SetTask(j, "archived") /\ job[j].status \in {"failed", "canceled", "dlq"}
      BY <1>5, <2>1, <2>4 DEF Settle, AnswerFits
    <3>2. /\ task'[j].state = "archived" /\ \A i \in Jobs \ {j} : task'[i] = task[i]
          /\ LossOk(task'[j], FALSE, Losses')
      BY <1>4, <2>2, <3>1
    <3> QED
      BY <1>1, <2>1, <3>1, <3>2, ReleaseOutcome
  <2> QED
    BY <2>1, <2>3, <2>4 DEF AnswerFits
<1>6. CASE ContextEnds(w)
  <2>1. Spend("timeout") /\ RetryOrArchive(j)
    BY <1>6 DEF ContextEnds
  <2>2. Losses' = Losses + 1 /\ Losses + 1 <= MaxRetry
    BY <1>0, <2>1, LossesFew
  <2>3. task[j].retried + 1 <= MaxRetry
    BY <1>3, <2>2, MaxRetryAssumption
  <2>4. /\ task'[j].state = "pending" /\ task'[j].retried = task[j].retried + 1
        /\ \A i \in Jobs \ {j} : task'[i] = task[i]
    BY <1>0, <1>2, <2>1, <2>3, RetryIs
  <2>5. LossOk(task'[j], FALSE, Losses')
    BY <1>3, <2>2, <2>4 DEF LossOk
  <2> QED
    BY <1>1, <2>1, <2>4, <2>5, ReleaseOutcome DEF FaultKinds
<1>7. CASE Crash(w)
  <2>1. Spend("crash") /\ task' = task
    BY <1>7 DEF Crash
  <2>2. Losses' = Losses + 1
    BY <1>0, <2>1, LossesFew
  <2>3. LossOk(task'[j], FALSE, Losses')
    BY <1>3, <2>1, <2>2 DEF LossOk
  <2> QED
    BY <1>1, <1>2, <2>1, <2>3, ReleaseOutcome DEF FaultKinds
<1>8. CASE Shutdown(w)
  <2>1. Spend("shutdown") /\ SetTask(j, "pending")
    BY <1>8 DEF Shutdown
  <2>2. Losses' \in Nat /\ Losses <= Losses'
    BY <1>0, <2>1, FaultsKept DEF FaultKinds
  <2>3. /\ task'[j].state = "pending" /\ \A i \in Jobs \ {j} : task'[i] = task[i]
        /\ LossOk(task'[j], FALSE, Losses')
    BY <1>4, <2>1, <2>2
  <2> QED
    BY <1>1, <2>1, <2>3, ReleaseOutcome DEF FaultKinds
<1> QED
  BY <1>5, <1>6, <1>7, <1>8

LEMMA RecoverOutcome ==
    ASSUME OneSurvives, Inv, OutcomeInv, NEW j \in Jobs, Recover(j)
    PROVE  OutcomeInv'
<1>0. QueueTypeOK /\ task \in [Jobs -> Tasks] /\ FaultsTypeOK /\ FaultsBounded
  BY DEF Inv, TypeOK, QueueTypeOK, OutcomeInv
<1>1. /\ UNCHANGED <<job, h, faults>> /\ RetryOrArchive(j) /\ task[j].state = "active" /\ ~Held(j)
  BY DEF Recover, storeVars, workerVars, Held
<1>2. /\ task[j].retried + 1 <= Losses /\ task[j].retried \in Nat
      /\ Losses \in Nat /\ Losses <= MaxRetry
  BY <1>0, <1>1, LossesFew, MaxRetryAssumption DEF OutcomeInv, LossOk, Tasks
<1>3. task[j].retried + 1 <= MaxRetry
  BY <1>2, MaxRetryAssumption
<1>4. /\ task'[j].state = "pending" /\ task'[j].retried = task[j].retried + 1
      /\ \A i \in Jobs \ {j} : task'[i] = task[i]
  BY <1>0, <1>1, <1>3, RetryIs
<1>5. Losses' = Losses /\ \A i \in Jobs : Held(i)' = Held(i)
  BY <1>1 DEF Losses, Held
<1>6. \A i \in Jobs : LossOk(task[i], Held(i), Losses)'
  BY <1>2, <1>4, <1>5 DEF OutcomeInv, LossOk
<1>7. SettledTogether'
  BY <1>1, <1>4 DEF OutcomeInv, SettledTogether
<1> QED
  BY <1>1, <1>6, <1>7 DEF OutcomeInv, FaultsBounded

LEMMA DequeueOutcome ==
    ASSUME Inv, OutcomeInv, NEW w \in Workers, NEW j \in Jobs, Dequeue(w, j)
    PROVE  OutcomeInv'
<1>0. QueueTypeOK /\ task \in [Jobs -> Tasks] /\ h \in [Workers -> Handlers]
  BY DEF Inv, TypeOK, QueueTypeOK, WorkerTypeOK
<1>1. /\ h[w].pc = "idle" /\ h[w].job = NoJob /\ UNCHANGED <<job, faults>> /\ SetTask(j, "active")
  BY DEF Dequeue, storeVars, Inv, QueueInv
<1>2. h'[w].pc = "get" /\ h'[w].job = j /\ \A v \in Workers \ {w} : h'[v] = h[v]
  BY <1>0 DEF Dequeue, Idle
<1>3. /\ task'[j].state = "active" /\ task'[j].retried = task[j].retried
      /\ \A i \in Jobs \ {j} : task'[i] = task[i]
  BY <1>0, <1>1, SetTaskIs DEF TaskStates
<1>4. Losses' = Losses /\ Held(j)' /\ \A i \in Jobs \ {j} : Held(i)' = Held(i)
  <2>1. \A i \in Jobs : i # NoJob
    BY NoJobAssumption
  <2>2. Held(j)'
    BY <1>2 DEF Held
  <2>3. \A i \in Jobs \ {j} : Held(i)' = Held(i)
    BY <1>1, <1>2, <2>1 DEF Held
  <2> QED
    BY <1>1, <2>2, <2>3 DEF Losses
<1>5. \A i \in Jobs : LossOk(task[i], Held(i), Losses)'
  BY <1>3, <1>4 DEF OutcomeInv, LossOk
<1>6. SettledTogether'
  BY <1>1, <1>3 DEF OutcomeInv, SettledTogether
<1>7. \A v \in Workers : h'[v].pc # "idle" => EndOk(h'[v], job'[h'[v].job].status)
  BY <1>1, <1>2 DEF OutcomeInv, EndOk
<1> QED
  BY <1>1, <1>5, <1>6, <1>7 DEF OutcomeInv, FaultsBounded

\* A step of the API touches the row and the task of one job, c.
LEMMA ApiFrame ==
    ASSUME Inv, OutcomeInv, UNCHANGED h, UNCHANGED faults \/ \E k \in FaultKinds : Spend(k),
           NEW c \in Jobs, \A i \in Jobs \ {c} : job'[i] = job[i] /\ task'[i] = task[i],
           \/ job'[c] = job[c]
           \/ job'[c].status = "canceled"
           \/ task[c].state = "none" /\ task'[c] = task[c],
           \/ task'[c] = task[c]
           \/ task'[c].state = "pending" /\ task'[c].retried = 0
    PROVE  OutcomeInv'
<1>1. FaultsBounded' /\ Losses \in Nat /\ Losses' \in Nat /\ Losses <= Losses'
  BY FaultsKept DEF Inv, TypeOK, OutcomeInv
<1>2. ASSUME NEW v \in Workers, h'[v].pc # "idle"
      PROVE  EndOk(h'[v], job'[h'[v].job].status)
  <2>1. /\ h'[v] = h[v] /\ h[v].job \in Jobs /\ task[h[v].job].state = "active"
        /\ EndOk(h[v], job[h[v].job].status)
    BY <1>2, AtWork DEF Inv, QueueInv, OutcomeInv
  <2>2. CASE job'[h[v].job] = job[h[v].job]
    BY <2>1, <2>2
  <2>3. CASE job'[h[v].job].status = "canceled"
    BY <2>1, <2>3 DEF EndOk, AnswerFits
  <2> QED
    BY <2>1, <2>2, <2>3
<1>3. ASSUME NEW i \in Jobs PROVE LossOk(task'[i], Held(i)', Losses')
  <2>1. /\ Held(i)' = Held(i) /\ Held(i) \in BOOLEAN /\ task[i] \in Tasks
        /\ LossOk(task[i], Held(i), Losses)
    BY DEF Held, Inv, TypeOK, QueueTypeOK, OutcomeInv
  <2>2. LossOk(task[i], Held(i), Losses')
    BY <1>1, <2>1, LossGrows
  <2>3. CASE task'[i] = task[i]
    BY <2>1, <2>2, <2>3
  <2>4. CASE task'[i].state = "pending" /\ task'[i].retried = 0
    BY <1>1, <2>4 DEF LossOk
  <2> QED
    BY <2>3, <2>4
<1>4. SettledTogether'
  BY DEF OutcomeInv, SettledTogether
<1> QED
  BY <1>1, <1>2, <1>3, <1>4 DEF OutcomeInv

\* What a step of submission c does to the tasks.
LEMMA EnqueueIs ==
    ASSUME QueueTypeOK, NEW c \in Jobs, EnqueueContext(c)
    PROVE  /\ \A i \in Jobs \ {c} : task'[i] = task[i]
           /\ task'[c].state # "none"
           /\ \/ task'[c] = task[c]
              \/ task'[c].state = "pending" /\ task'[c].retried = 0
<1>1. task \in [Jobs -> Tasks]
  BY DEF QueueTypeOK
<1>2. CASE task[c].state \in {"none", "done"}
  <2>1. task' = [task EXCEPT ![c] = [state |-> "pending", retried |-> 0]]
    BY <1>2 DEF EnqueueContext
  <2> QED
    BY <1>1, <2>1
<1>3. CASE task[c].state \notin {"none", "done"}
  BY <1>3 DEF EnqueueContext
<1> QED
  BY <1>2, <1>3

LEMMA ApiOutcome ==
    ASSUME Inv, OutcomeInv, ApiNext
    PROVE  OutcomeInv'
<1>0. /\ QueueTypeOK /\ job \in [Jobs -> JobRows] /\ UNCHANGED h
  BY DEF Inv, TypeOK, StoreTypeOK, ApiNext, workerVars
<1>1. ASSUME NEW c \in Jobs, SubmitStep(c) \/ SubmitFault(c)
      PROVE  OutcomeInv'
  <2>1. UNCHANGED faults \/ \E k \in FaultKinds : Spend(k)
    BY <1>1 DEF SubmitStep, SubmitFault, Submit, LookupKey, Insert, RereadExisting,
       ReturnExisting, Enqueue, EnqueueFails, SubmitCallFails, ApiCrash, FaultKinds
  <2>2. CASE UNCHANGED job /\ (UNCHANGED task \/ EnqueueContext(c))
    <3>1. /\ \A i \in Jobs \ {c} : task'[i] = task[i]
          /\ task'[c] = task[c] \/ (task'[c].state = "pending" /\ task'[c].retried = 0)
      BY <1>0, <2>2, EnqueueIs
    <3> QED
      BY <1>0, <2>1, <2>2, <3>1, ApiFrame
  <2>3. CASE At(c, "insert") /\ InsertReplayJob(c) /\ UNCHANGED task
    <3>1. task[c].state = "none"
      BY <2>3 DEF At, Inv, SubmitInv
    <3>2. \A i \in Jobs \ {c} : job'[i] = job[i]
      BY <1>0, <2>3 DEF InsertReplayJob
    <3> QED
      BY <1>0, <2>1, <2>3, <3>1, <3>2, ApiFrame
  <2>4. \/ UNCHANGED job /\ (UNCHANGED task \/ EnqueueContext(c))
        \/ At(c, "insert") /\ InsertReplayJob(c) /\ UNCHANGED task
    BY <1>1 DEF SubmitStep, SubmitFault, Submit, LookupKey, Insert, RereadExisting,
       ReturnExisting, Enqueue, EnqueueFails, SubmitCallFails, ApiCrash, storeVars
  <2> QED
    BY <2>2, <2>3, <2>4
<1>2. ASSUME NEW j \in Jobs, Cancel(j)
      PROVE  OutcomeInv'
  <2>1. /\ \A i \in Jobs \ {j} : job'[i] = job[i] /\ task'[i] = task[i]
        /\ job'[j].status = "canceled" /\ task'[j] = task[j]
    BY <1>0, <1>2 DEF Cancel, CancelReplayJob, UpdateReplayJobStatus, JobRows
  <2>2. Spend("cancel") /\ "cancel" \in FaultKinds
    BY <1>2 DEF Cancel, FaultKinds
  <2> QED
    BY <1>0, <2>1, <2>2, ApiFrame
<1> QED
  BY <1>1, <1>2 DEF ApiNext

LEMMA OutcomeStep ==
    ASSUME CallsSucceed, OneSurvives, Inv, TerminalInv, OutcomeInv, [Next]_vars
    PROVE  OutcomeInv'
<1>1. CASE UNCHANGED vars
  <2>1. UNCHANGED <<job, task, h, faults>>
    BY <1>1 DEF vars, storeVars, workerVars
  <2> QED
    BY <2>1 DEF OutcomeInv, FaultsBounded, Held, Losses, SettledTogether
<1>2. CASE WorkerNext
  <2>1. ASSUME NEW w \in Workers, HandlerStep(w) \/ WorkerFault(w) PROVE OutcomeInv'
    <3>1. ~CallFails(w)
      <4>1. faults["db"] \in Nat /\ MaxFaults["db"] = 0
        BY DEF CallsSucceed, Inv, TypeOK, FaultsTypeOK, FaultKinds
      <4> QED
        BY <4>1 DEF CallFails, Spend
    <3>2. CASE HandlerStep(w) /\ ~Settle(w)
      <4>1. Advance(w) /\ UNCHANGED faults
        BY <3>2, HandlerAdvances DEF Inv, HandlerStep, GetJob, MarkRunning, GetLatest, OpenFile,
           PrimeRecord, ProcessRecord, EndOfFile, SaveCheckpoint, PollCanceled,
           SaveFinalCheckpoint, SaveFileStats, SaveManifest, Complete, RereadCompleted, FailJob
      <4> QED
        BY <3>2, <4>1, HandlerEnds, OwnEndSuffices
    <3> QED
      BY <2>1, <3>1, <3>2, EndingsOutcome DEF WorkerFault
  <2>2. late = {}
    BY DEF TerminalInv
  <2> QED
    BY <1>2, <2>1, <2>2, DequeueOutcome, RecoverOutcome DEF WorkerNext
<1> QED
  BY <1>1, <1>2, ApiOutcome DEF Next, Rest

LEMMA OutcomeInit == Init => OutcomeInv
<1> SUFFICES ASSUME Init PROVE OutcomeInv
  OBVIOUS
<1>1. /\ faults = [k \in FaultKinds |-> 0] /\ h = [w \in Workers |-> Idle]
      /\ task = [j \in Jobs |-> [state |-> "none", retried |-> 0]]
  BY DEF Init, FaultsInit, WorkerInit, QueueInit
<1>2. FaultsBounded /\ Losses = 0
  BY <1>1, MaxFaultsAssumption DEF FaultsBounded, Losses, FaultKinds
<1>3. \A j \in Jobs : LossOk(task[j], Held(j), Losses)
  BY <1>1, <1>2 DEF LossOk
<1> QED
  BY <1>1, <1>2, <1>3 DEF OutcomeInv, SettledTogether, Idle

LEMMA OutcomeHolds ==
    ASSUME CallsSucceed, OneSurvives PROVE Spec => []OutcomeInv
<1>1. Inv /\ TerminalInv /\ OutcomeInv /\ [Next]_vars => OutcomeInv'
  BY OutcomeStep
<1> QED
  BY <1>1, OutcomeInit, Invariance, TerminalHolds, PTL DEF Spec

\* If the workers survive one delivery of each task, Asynq is through with a
\* task only when its job has ended, and what it archives is failed, dlq or
\* canceled in the store: failJob and the archive agree (failJob 378-405,
\* asynq.MaxRetry in EnqueueReplayJob).
THEOREM QueueMirrorsStore ==
    ASSUME CallsSucceed, OneSurvives PROVE Spec => [](SettledTogether /\ ArchiveMirrored)
<1>1. OutcomeInv => SettledTogether /\ ArchiveMirrored
  BY DEF OutcomeInv, SettledTogether, ArchiveMirrored
<1> QED
  BY <1>1, OutcomeHolds, PTL

-----------------------------------------------------------------------------
(* Accepted jobs are scheduled *)

\* No enqueue fails and the API does not die in a submission.
SubmitsSucceed == MaxFaults["redis"] = 0 /\ MaxFaults["api"] = 0

\* Only a submission about to enqueue has a row and no task.
ScheduledInv ==
    \A j \in Jobs : Exists(j) /\ task[j].state = "none" => req[j].pc = "enqueue"

\* The workers forget no task and leave the rows of jobs without one alone.
LEMMA WorkersKeepTasks ==
    ASSUME Inv, WorkerNext, NEW j \in Jobs
    PROVE  /\ task[j].state # "none" => task'[j].state # "none"
           /\ task[j].state = "none" => job'[j] = job[j]
<1>0. QueueTypeOK /\ StoreTypeOK /\ h \in [Workers -> Handlers]
  BY DEF Inv, TypeOK, WorkerTypeOK
<1>1. ASSUME NEW m \in Handlers, m.job \in Jobs, task[m.job].state # "none",
             UNCHANGED storeVars \/ Write(m), task[j].state = "none"
      PROVE  job'[j] = job[j]
  BY <1>0, <1>1, WriteFrame DEF storeVars
<1>2. ASSUME NEW w \in Workers, Settle(w) \/ ContextEnds(w) \/ Crash(w) \/ Shutdown(w)
      PROVE  job' = job /\ (task[j].state # "none" => task'[j].state # "none")
  <2>1. job' = job /\ h[w].pc # "idle"
    BY <1>2 DEF Settle, ContextEnds, Crash, Shutdown, storeVars
  <2>2. h[w].job \in Jobs /\ task[h[w].job].state # "none" /\ h[w] \in Handlers
    BY <2>1, AtWork DEF Inv, QueueInv
  <2>3. \/ UNCHANGED task \/ RetryOrArchive(h[w].job)
        \/ \E st \in TaskStates \ {"none"} : SetTask(h[w].job, st)
    BY <1>2, <2>2 DEF Settle, ContextEnds, Crash, Shutdown, TaskStates, Handlers
  <2>4. TaskKept(h[w].job)
    BY <1>0, <2>2, <2>3, QueueOps
  <2> QED
    BY <2>1, <2>4 DEF TaskKept
<1>3. ASSUME NEW w \in Workers, HandlerStep(w) \/ CallFails(w), ~Settle(w)
      PROVE  task' = task /\ (task[j].state = "none" => job'[j] = job[j])
  <2>1. Advance(w)
    BY <1>3, HandlerAdvances DEF Inv
  <2>2. /\ h[w].job \in Jobs /\ h[w] \in Handlers /\ task' = task
        /\ UNCHANGED storeVars \/ Write(h[w])
    BY <1>0, <2>1 DEF Advance, SlotMoves
  <2>3. task[h[w].job].state # "none"
    BY <2>2, NoJobAssumption DEF Inv, QueueInv
  <2> QED
    BY <1>1, <2>2, <2>3
<1>4. ASSUME NEW w \in Workers, NEW i \in Jobs, Dequeue(w, i)
      PROVE  job' = job /\ (task[j].state # "none" => task'[j].state # "none")
  BY <1>0, <1>4, SetTaskIs DEF Dequeue, storeVars, TaskStates
<1>5. ASSUME NEW i \in Jobs, Recover(i)
      PROVE  job' = job /\ (task[j].state # "none" => task'[j].state # "none")
  BY <1>0, <1>5, QueueOps DEF Recover, storeVars, TaskKept
<1>6. ASSUME NEW m \in late, LateWrite(m)
      PROVE  task' = task /\ (task[j].state = "none" => job'[j] = job[j])
  <2>1. m \in Handlers /\ m.job \in Jobs /\ task[m.job].state # "none"
    BY <1>6 DEF Inv, TypeOK, WorkerTypeOK, QueueInv, SubmitInv, Handlers
  <2> QED
    BY <1>1, <1>6, <2>1 DEF LateWrite
<1>7. ASSUME NEW w \in Workers, HandlerStep(w) \/ WorkerFault(w)
      PROVE  /\ task[j].state # "none" => task'[j].state # "none"
             /\ task[j].state = "none" => job'[j] = job[j]
  <2>1. CASE Settle(w) \/ ContextEnds(w) \/ Crash(w) \/ Shutdown(w)
    BY <1>2, <2>1
  <2>2. CASE (HandlerStep(w) \/ CallFails(w)) /\ ~Settle(w)
    BY <1>3, <2>2
  <2> QED
    BY <1>7, <2>1, <2>2 DEF WorkerFault
<1>8. CASE \E w \in Workers, i \in Jobs : Dequeue(w, i)
  BY <1>4, <1>8
<1>9. CASE \E i \in Jobs : Recover(i)
  BY <1>5, <1>9
<1>10. CASE \E m \in late : LateWrite(m)
  BY <1>6, <1>10
<1> QED
  BY <1>7, <1>8, <1>9, <1>10 DEF WorkerNext

LEMMA ScheduledStep ==
    ASSUME CallsSucceed, SubmitsSucceed, Inv, ScheduledInv, [Next]_vars
    PROVE  ScheduledInv'
<1>0. /\ QueueTypeOK /\ SubmitTypeOK /\ job \in [Jobs -> JobRows] /\ req \in [Jobs -> Requests]
      /\ faults["db"] \in Nat /\ faults["redis"] \in Nat /\ faults["api"] \in Nat
  BY DEF Inv, TypeOK, StoreTypeOK, SubmitTypeOK, FaultsTypeOK, FaultKinds
<1>1. CASE UNCHANGED vars
  BY <1>1 DEF vars, storeVars, ScheduledInv, Exists
<1>2. CASE WorkerNext
  <2>1. UNCHANGED req
    BY <1>2 DEF WorkerNext
  <2> QED
    BY <1>2, <2>1, WorkersKeepTasks DEF ScheduledInv, Exists
<1>3. ASSUME NEW j \in Jobs, Cancel(j) PROVE ScheduledInv'
  <2>1. /\ \A i \in Jobs \ {j} : job'[i] = job[i]
        /\ UNCHANGED <<task, req>> /\ Exists(j)
    BY <1>0, <1>3 DEF Cancel, CancelReplayJob, UpdateReplayJobStatus
  <2> QED
    BY <2>1 DEF ScheduledInv, Exists
<1>4. ASSUME NEW c \in Jobs, SubmitStep(c) \/ SubmitFault(c) PROVE ScheduledInv'
  <2>1. ~SubmitFault(c)
    BY <1>0 DEF SubmitFault, EnqueueFails, SubmitCallFails, ApiCrash, Spend, CallsSucceed,
       SubmitsSucceed
  <2>2. ASSUME NEW pc \in SubmitPcs, Move(c, pc), UNCHANGED <<job, task>>, req[c].pc # "enqueue"
        PROVE  ScheduledInv'
    BY <1>0, <2>2, MoveType DEF ScheduledInv, Exists
  <2>3. CASE Submit(c) \/ LookupKey(c) \/ RereadExisting(c)
    BY <2>2, <2>3 DEF Submit, LookupKey, RereadExisting, At, SubmitPcs, storeVars
  <2>4. CASE Insert(c)
    <3>1. CASE WithKey(Key[c]) = {}
      <4>1. InsertReplayJob(c) /\ Move(c, "enqueue") /\ UNCHANGED task
        BY <2>4, <3>1 DEF Insert
      <4>2. \A i \in Jobs \ {c} : job'[i] = job[i] /\ req'[i] = req[i]
        BY <1>0, <4>1, MoveType DEF InsertReplayJob, SubmitPcs
      <4>3. req'[c].pc = "enqueue"
        BY <1>0, <4>1, MoveType DEF SubmitPcs
      <4> QED
        BY <4>1, <4>2, <4>3 DEF ScheduledInv, Exists
    <3>2. CASE WithKey(Key[c]) # {}
      BY <2>2, <2>4, <3>2 DEF Insert, At, SubmitPcs, storeVars
    <3> QED
      BY <3>1, <3>2
  <2>5. CASE ReturnExisting(c)
    <3>1. /\ UNCHANGED <<job, task>> /\ req[c].pc = "existing"
          /\ \E j \in Jobs : Answer(c, 201, j)
      BY <2>5 DEF ReturnExisting, At, Accept, WithKey, storeVars
    <3>2. \A i \in Jobs \ {c} : req'[i] = req[i]
      BY <1>0, <3>1, AnswerType
    <3>3. ~Exists(c)
      BY <3>1 DEF Inv, SubmitInv, Exists, NoRow
    <3> QED
      BY <3>1, <3>2, <3>3 DEF ScheduledInv, Exists
  <2>6. CASE Enqueue(c)
    <3>1. UNCHANGED job /\ EnqueueContext(c) /\ Answer(c, 201, c)
      BY <2>6 DEF Enqueue, Accept, storeVars
    <3>2. \A i \in Jobs \ {c} : req'[i] = req[i] /\ task'[i] = task[i]
      BY <1>0, <3>1, AnswerType, EnqueueIs
    <3>3. task'[c].state # "none"
      BY <1>0, <3>1, EnqueueIs
    <3> QED
      BY <3>1, <3>2, <3>3 DEF ScheduledInv, Exists
  <2> QED
    BY <1>4, <2>1, <2>3, <2>4, <2>5, <2>6 DEF SubmitStep
<1> QED
  BY <1>1, <1>2, <1>3, <1>4 DEF Next, ApiNext, Rest

\* A job the API accepted is scheduled, however submissions of one key race and
\* whatever is canceled, as long as nothing that SubmitReplay calls fails and
\* the workers survive a delivery: the answer for a taken key comes from the
\* submission that will enqueue the job (SubmitReplay 73-94).
THEOREM AcceptedJobsAreScheduled ==
    ASSUME CallsSucceed, OneSurvives, SubmitsSucceed
    PROVE  Spec => []AcceptedIsScheduled
<1>1. Init => ScheduledInv
  BY DEF Init, StoreInit, ScheduledInv, Exists, NoRow
<1>2. Inv /\ ScheduledInv /\ [Next]_vars => ScheduledInv'
  BY ScheduledStep
<1>3. Init => KeyInv
  BY DEF Init, StoreInit, SubmitInit, KeyInv, OneJobPerKey, Exists, NoRow
<1>4. Inv /\ KeyInv /\ [Next]_vars => KeyInv'
  BY KeyStep
<1>5. Inv /\ ScheduledInv /\ KeyInv /\ OutcomeInv => AcceptedIsScheduled
  <2> SUFFICES ASSUME Inv, ScheduledInv, KeyInv, OutcomeInv, NEW c \in Jobs, req[c].code = 201,
                      \A d \in Jobs : Key[d] = Key[c] => req[d].pc \notin SubmitPcs,
                      job[req[c].answer].status = "queued"
               PROVE  task[req[c].answer].state \in {"pending", "active"}
    BY DEF AcceptedIsScheduled
  <2>1. PICK j \in Jobs : j = req[c].answer /\ Exists(j) /\ Key[j] = Key[c]
    BY DEF KeyInv
  <2>2. task[j].state # "none"
    BY <2>1 DEF ScheduledInv, SubmitPcs
  <2>3. task[j].state \notin {"done", "archived"}
    BY <2>1 DEF OutcomeInv, SettledTogether
  <2>4. task[j].state \in TaskStates
    BY DEF Inv, TypeOK, QueueTypeOK, Tasks
  <2> QED
    BY <2>1, <2>2, <2>3, <2>4 DEF TaskStates
<1> QED
  BY <1>1, <1>2, <1>3, <1>4, <1>5, Invariance, OutcomeHolds, PTL DEF Spec
=============================================================================
