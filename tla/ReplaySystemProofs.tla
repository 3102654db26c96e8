------------------------- MODULE ReplaySystemProofs -------------------------
(***************************************************************************)
(* Safety of the control plane for every set of submissions and worker     *)
(* slots, every file, checkpoint interval, retry limit and fault budget,   *)
(* late statements included.                                               *)
(***************************************************************************)
EXTENDS ReplaySystem, TLAPS

USE NoJobAssumption, MaxFaultsAssumption, FileAssumption, MaxRetryAssumption,
    WorkerAssumption

-----------------------------------------------------------------------------
(* The inductive invariant *)

\* A slot at work holds an active task, and no two slots hold the same one.
QueueInv ==
    /\ \A w \in Workers : h[w].pc = "idle" <=> h[w].job = NoJob
    /\ \A w \in Workers : h[w].job # NoJob => task[h[w].job].state = "active"
    /\ \A v, w \in Workers : h[v].job = h[w].job /\ h[v].job # NoJob => v = w
    /\ \A m \in late : m.job # NoJob /\ m.pc \in WritePcs

\* A submission that has not inserted its row has none, and no task; a job
\* someone works on, or has worked on, has a task.
SubmitInv ==
    /\ \A c \in Jobs :
          req[c].pc \in {"new", "lookup", "insert", "reread", "existing"} =>
              job[c] = NoRow /\ metrics[c] = 0 /\ task[c].state = "none"
    /\ \A c \in Jobs : req[c].pc = "enqueue" => Exists(c)
    /\ \A m \in late : task[m.job].state # "none"
    /\ TaskHasRow

\* Every record of job j up to line n has been processed by some attempt.
Covered(j, n) == \A l \in Lines : l <= n => l \in seen[j]

\* The stages between reading the checkpoint and reporting the result.
Reporting == {"open", "row", "ckpt", "poll", "final", "stats", "manifest", "complete"}

\* What a handler m knows about the store and the file from its pc alone.
Progress(m) ==
    /\ m.pc \in {"get", "running", "latest"} => m.found = {}
    /\ m.pc \in Reporting => /\ Covered(m.job, m.resume)
                             /\ \A l \in m.found : l > m.resume
    /\ m.pc \in {"row", "ckpt", "poll"} =>
          m.line + 1 >= FirstLine /\ Covered(m.job, m.line)
    /\ m.pc = "ckpt" => m.line <= FileRows
    /\ m.pc \in {"final", "stats", "manifest", "complete"} => Covered(m.job, LastLine)
    /\ m.pc \in {"stats", "manifest", "complete"} => job[m.job].checkpoint = FileRows
    /\ m.pc \in {"manifest", "complete"} => scanned
    /\ m.pc = "complete" => job[m.job].manifest.written

ProgressInv ==
    /\ \A w \in Workers : h[w].job # NoJob => Progress(h[w])
    /\ \A m \in late : Progress(m)

LedgerInv ==
    /\ \A j \in Jobs : job[j].checkpoint <= FileRows
    /\ NoLineSkipped
    /\ CompletionEvidence
    /\ \A j \in Jobs : \A l \in BadLines : errs[j][l] > 0 => metrics[j] > 0

(***************************************************************************)
(* Why no error is reported twice.  A completion under way after its       *)
(* attempt was given up (in late) has the final checkpoint in the store:   *)
(* whoever reads the checkpoint after it resumes at the end of the file    *)
(* and finds nothing; and so does everybody once an error is on record.    *)
(***************************************************************************)
ReportInv ==
    /\ \A m \in late, w \in Workers :
          m.pc = "complete" /\ h[w].job = m.job /\ h[w].pc \in Reporting =>
              h[w].resume = FileRows
    /\ \A m, n \in late :
          m.pc = "complete" /\ n.pc = "complete" /\ m.job = n.job /\ m # n =>
              m.found = {} \/ n.found = {}
    /\ \A j \in Jobs, l \in BadLines : errs[j][l] > 0 =>
          /\ \A w \in Workers :
                h[w].job = j /\ h[w].pc \in Reporting => h[w].resume = FileRows
          /\ \A m \in late : m.job = j /\ m.pc = "complete" => m.found = {}
    /\ NoDuplicateErrors

Inv == TypeOK /\ QueueInv /\ SubmitInv /\ ProgressInv /\ LedgerInv /\ ReportInv

LEMMA FileRowsType == FileRows \in 0 .. LastLine
BY DEF FileRows

-----------------------------------------------------------------------------
(* Type correctness *)

LEMMA CheckpointType ==
    ASSUME StoreTypeOK, NEW j \in Jobs, NEW line \in 0 .. LastLine,
           UpdateReplayCheckpoint(j, line)
    PROVE  StoreTypeOK'
<1> DEFINE old == job[j].checkpoint
           new == IF line > old THEN line ELSE old
<1>1. old \in 0 .. LastLine /\ new \in 0 .. LastLine
  BY DEF StoreTypeOK, JobRows
<1>2. job' = [job EXCEPT ![j].checkpoint = new] /\ UNCHANGED <<metrics, errs, scanned>>
  BY DEF UpdateReplayCheckpoint, StoreTypeOK, JobRows
<1> HIDE DEF old, new
<1> QED
  BY <1>1, <1>2 DEF StoreTypeOK, JobRows

\* What a repository call leaves in the store has the right type.
LEMMA WriteType ==
    ASSUME StoreTypeOK, NEW m \in Handlers, m.job \in Jobs, Write(m)
    PROVE  StoreTypeOK'
<1> USE DEF StoreTypeOK
<1>1. CASE m.pc = "running" /\ UpdateReplayJobStatus(m.job, "running")
  BY <1>1 DEF UpdateReplayJobStatus, JobRows, Statuses
<1>2. CASE m.pc = "ckpt" /\ UpdateReplayCheckpoint(m.job, m.line)
  <2>1. m.line \in 0 .. LastLine
    BY DEF Handlers
  <2> QED
    BY <1>2, <2>1, CheckpointType
<1>3. CASE m.pc = "final" /\ UpdateReplayCheckpoint(m.job, FileRows)
  BY <1>3, FileRowsType, CheckpointType
<1>4. CASE m.pc = "stats" /\ UpdateEventFileStats
  BY <1>4 DEF UpdateEventFileStats
<1>5. CASE m.pc = "manifest" /\ UpdateReplayManifest(m.job, m.resume, m.found)
  <2>1. [written |-> TRUE, resume |-> m.resume, errors |-> m.found] \in Manifests
    BY DEF Handlers, Manifests
  <2> QED
    BY <1>5, <2>1 DEF UpdateReplayManifest, JobRows
<1>6. CASE m.pc = "complete" /\ CompleteReplayJob(m.job, m.found)
  <2>1. [l \in BadLines |-> IF l \in m.found THEN errs[m.job][l] + 1 ELSE errs[m.job][l]]
          \in [BadLines -> Nat]
    OBVIOUS
  <2>2. job' \in [Jobs -> JobRows]
    BY <1>6 DEF CompleteReplayJob, JobRows, Statuses
  <2>3. metrics' \in [Jobs -> Nat] /\ scanned' \in BOOLEAN
    BY <1>6 DEF CompleteReplayJob
  <2>4. errs' \in [Jobs -> [BadLines -> Nat]]
    BY <1>6, <2>1 DEF CompleteReplayJob
  <2> QED
    BY <2>2, <2>3, <2>4
<1>7. CASE m.pc = "fail" /\ UpdateReplayJobStatus(m.job, FailStatus(m))
  <2>1. FailStatus(m) \in Statuses
    BY DEF FailStatus, Statuses
  <2>2. job' = [job EXCEPT ![m.job].status = FailStatus(m)] /\ UNCHANGED <<metrics, errs, scanned>>
    BY <1>7 DEF UpdateReplayJobStatus
  <2> QED
    BY <2>1, <2>2 DEF JobRows
<1> QED
  BY <1>1, <1>2, <1>3, <1>4, <1>5, <1>6, <1>7 DEF Write

-----------------------------------------------------------------------------
(* The shapes of a step *)

\* What a step of a running handler does to the slots.
SlotMoves(w) ==
    /\ h[w].job \in Jobs
    /\ h' \in [Workers -> Handlers]
    /\ \A v \in Workers \ {w} : h'[v] = h[v]
    /\ h'[w].job = h[w].job /\ h'[w].pc # "idle"
    /\ h'[w].pc \in Reporting =>
          \/ /\ h[w].pc \in Reporting \ {"complete"}
             /\ h'[w].resume = h[w].resume
          \/ h[w].pc = "latest" /\ h'[w].resume = job[h[w].job].checkpoint
    /\ UNCHANGED <<late, task>>

\* What the end of a handler does to them.
SlotReleased(w) ==
    /\ h[w].job \in Jobs
    /\ h' = [h EXCEPT ![w] = Idle]
    /\ late' = late \/ (h[w].pc \in WritePcs /\ late' = late \cup {h[w]})
    /\ UNCHANGED <<storeVars, seen>>

LEMMA IdleType == Idle \in Handlers
BY DEF Idle, Handlers, Pcs

\* A handler that keeps everything but its pc.
LEMMA GotoType ==
    ASSUME WorkerTypeOK, NEW w \in Workers, NEW pc \in Pcs, Goto(w, pc)
    PROVE  /\ h' \in [Workers -> Handlers]
           /\ \A v \in Workers \ {w} : h'[v] = h[v]
           /\ h'[w] = [h[w] EXCEPT !.pc = pc]
           /\ h'[w].job = h[w].job /\ h'[w].pc = pc
           /\ h'[w].resume = h[w].resume /\ h'[w].line = h[w].line
           /\ h'[w].found = h[w].found
BY DEF WorkerTypeOK, Goto, Handlers

LEMMA ReturnType ==
    ASSUME WorkerTypeOK, NEW w \in Workers, NEW o \in {"done", "retry", "skip"},
           Return(w, o)
    PROVE  /\ h' \in [Workers -> Handlers]
           /\ \A v \in Workers \ {w} : h'[v] = h[v]
           /\ h'[w].job = h[w].job /\ h'[w].pc = "ack"
<1> DEFINE m == [h[w] EXCEPT !.pc = "ack", !.outcome = o]
<1>1. h[w] \in Handlers /\ "ack" \in Pcs
  BY DEF WorkerTypeOK, Pcs
<1>2. m \in Handlers /\ m.job = h[w].job /\ m.pc = "ack"
  BY <1>1 DEF Handlers
<1>3. h' = [h EXCEPT ![w] = m]
  BY <1>1 DEF Return, WorkerTypeOK
<1> HIDE DEF m
<1> QED
  BY <1>2, <1>3 DEF WorkerTypeOK

-----------------------------------------------------------------------------
(* The store only grows *)

Grows ==
    /\ \A j \in Jobs : /\ job[j].checkpoint <= job'[j].checkpoint
                       /\ job'[j].checkpoint <= FileRows
                       /\ job[j].manifest.written => job'[j].manifest.written
                       /\ seen[j] \subseteq seen'[j]
    /\ scanned => scanned'

\* What a handler knows stays true while the store grows.
LEMMA ProgressKept ==
    ASSUME StoreTypeOK, StoreTypeOK', Grows, NEW m \in Handlers, m.job \in Jobs, Progress(m)
    PROVE  Progress(m)'
<1>1. \A n : Covered(m.job, n) => Covered(m.job, n)'
  BY DEF Covered, Grows
<1>2. job[m.job].checkpoint = FileRows => job'[m.job].checkpoint = FileRows
  <2>1. job'[m.job].checkpoint \in Nat /\ FileRows \in Nat
    BY FileRowsType DEF StoreTypeOK, JobRows
  <2>2. /\ job[m.job].checkpoint <= job'[m.job].checkpoint
        /\ job'[m.job].checkpoint <= FileRows
    BY DEF Grows
  <2> QED
    BY <2>1, <2>2
<1> QED
  BY <1>1, <1>2 DEF Progress, Grows

\* A repository call of a handler keeps the ledger in order.
LEMMA WriteLedger ==
    ASSUME StoreTypeOK, WorkerTypeOK, LedgerInv, NEW m \in Handlers, m.job \in Jobs,
           Progress(m), Write(m), seen' = seen
    PROVE  Grows /\ LedgerInv'
<1> DEFINE j == m.job
<1>1. /\ job \in [Jobs -> JobRows] /\ FileRows \in 0 .. LastLine
      /\ job[j] \in JobRows /\ m.line \in 0 .. LastLine
  BY FileRowsType DEF StoreTypeOK, Handlers
<1>2. ASSUME NEW status \in Statuses \ {"completed"}, UpdateReplayJobStatus(j, status)
      PROVE  Grows /\ LedgerInv'
  <2>1. \A i \in Jobs : /\ job'[i].checkpoint = job[i].checkpoint
                        /\ job'[i].manifest = job[i].manifest
                        /\ job'[i].status = job[i].status \/ job'[i].status # "completed"
    BY <1>1, <1>2 DEF UpdateReplayJobStatus, JobRows
  <2>2. UNCHANGED <<metrics, errs, scanned>>
    BY <1>2 DEF UpdateReplayJobStatus
  <2>3. Grows
    BY <1>1, <2>1, <2>2 DEF Grows, LedgerInv, JobRows
  <2> QED
    BY <2>1, <2>2, <2>3 DEF LedgerInv, NoLineSkipped, CompletionEvidence
<1>3. ASSUME NEW n \in 0 .. FileRows, Covered(j, n), UpdateReplayCheckpoint(j, n)
      PROVE  Grows /\ LedgerInv'
  <2>1. \A i \in Jobs : /\ job'[i].checkpoint \in {job[i].checkpoint, n}
                        /\ job'[i].checkpoint = n \/ i # j => Covered(i, job'[i].checkpoint)
                        /\ job[i].checkpoint <= job'[i].checkpoint
                        /\ job'[i].manifest = job[i].manifest
                        /\ job'[i].status = job[i].status
    BY <1>1, <1>3 DEF UpdateReplayCheckpoint, JobRows, LedgerInv, NoLineSkipped, Covered
  <2>2. UNCHANGED <<metrics, errs, scanned>>
    BY <1>3 DEF UpdateReplayCheckpoint
  <2>3. Grows
    BY <1>1, <2>1, <2>2 DEF Grows, LedgerInv, JobRows
  <2>4. NoLineSkipped'
    BY <1>1, <2>1 DEF LedgerInv, NoLineSkipped, Covered, Lines
  <2>5. CompletionEvidence'
    BY <1>1, <2>1, <2>2 DEF LedgerInv, CompletionEvidence, JobRows
  <2> QED
    BY <2>1, <2>2, <2>3, <2>4, <2>5 DEF LedgerInv, Grows
<1>4. CASE m.pc = "running" /\ UpdateReplayJobStatus(j, "running")
  BY <1>2, <1>4 DEF Statuses
<1>5. CASE m.pc = "fail" /\ UpdateReplayJobStatus(j, FailStatus(m))
  BY <1>2, <1>5 DEF Statuses, FailStatus
<1>6. CASE m.pc = "ckpt" /\ UpdateReplayCheckpoint(j, m.line)
  BY <1>1, <1>3, <1>6 DEF Progress
<1>7. CASE m.pc = "final" /\ UpdateReplayCheckpoint(j, FileRows)
  <2>1. Covered(j, FileRows)
    BY <1>1, <1>7 DEF Progress, Covered, Lines
  <2> QED
    BY <1>1, <1>3, <1>7, <2>1
<1>8. CASE m.pc = "stats" /\ UpdateEventFileStats
  BY <1>1, <1>8 DEF UpdateEventFileStats, Grows, LedgerInv, NoLineSkipped,
                    CompletionEvidence, JobRows
<1>9. CASE m.pc = "manifest" /\ UpdateReplayManifest(j, m.resume, m.found)
  <2>1. \A i \in Jobs : /\ job'[i].checkpoint = job[i].checkpoint
                        /\ job'[i].status = job[i].status
                        /\ job[i].manifest.written => job'[i].manifest.written
    BY <1>1, <1>9 DEF UpdateReplayManifest, JobRows
  <2>2. UNCHANGED <<metrics, errs, scanned>>
    BY <1>9 DEF UpdateReplayManifest
  <2> QED
    BY <1>1, <2>1, <2>2 DEF Grows, LedgerInv, NoLineSkipped, CompletionEvidence, JobRows
<1>10. CASE m.pc = "complete" /\ CompleteReplayJob(j, m.found)
  <2>1. \A i \in Jobs : /\ job'[i].checkpoint = job[i].checkpoint
                        /\ job'[i].manifest = job[i].manifest
                        /\ i # j => job'[i].status = job[i].status
    BY <1>1, <1>10 DEF CompleteReplayJob, JobRows
  <2>2. /\ scanned' = scanned
        /\ metrics'[j] > 0
        /\ \A i \in Jobs : i # j => metrics'[i] = metrics[i] /\ errs'[i] = errs[i]
    BY <1>10 DEF CompleteReplayJob, StoreTypeOK
  <2>3. Grows
    BY <1>1, <2>1, <2>2 DEF Grows, LedgerInv, JobRows
  <2>4. NoLineSkipped'
    BY <2>1 DEF LedgerInv, NoLineSkipped
  <2>5. CompletionEvidence'
    BY <1>10, <2>1, <2>2 DEF LedgerInv, CompletionEvidence, Progress
  <2>6. \A i \in Jobs : \A l \in BadLines : errs'[i][l] > 0 => metrics'[i] > 0
    BY <2>2 DEF LedgerInv
  <2> QED
    BY <2>1, <2>3, <2>4, <2>5, <2>6 DEF LedgerInv
<1> QED
  BY <1>4, <1>5, <1>6, <1>7, <1>8, <1>9, <1>10 DEF Write

LEMMA SameLedger ==
    ASSUME StoreTypeOK, WorkerTypeOK, LedgerInv, UNCHANGED storeVars,
           seen' \in [Jobs -> SUBSET Lines], \A j \in Jobs : seen[j] \subseteq seen'[j]
    PROVE  StoreTypeOK' /\ Grows /\ LedgerInv'
<1>1. StoreTypeOK'
  BY DEF StoreTypeOK, storeVars
<1>2. Grows
  BY DEF Grows, LedgerInv, storeVars, StoreTypeOK, JobRows
<1>3. NoLineSkipped' /\ CompletionEvidence'
  BY DEF LedgerInv, storeVars, NoLineSkipped, CompletionEvidence
<1> QED
  BY <1>1, <1>2, <1>3 DEF LedgerInv, storeVars

-----------------------------------------------------------------------------
(* Steps of a running handler *)

\* What the proof needs of a step of the handler in slot w.
Advance(w) ==
    /\ SlotMoves(w)
    /\ UNCHANGED storeVars \/ Write(h[w])
    /\ WorkerTypeOK'
    /\ StoreTypeOK' /\ Grows /\ LedgerInv'
    /\ Progress(h[w])'

LEMMA AtWork ==
    ASSUME TypeOK, QueueInv, ProgressInv, NEW w \in Workers, h[w].pc # "idle"
    PROVE  h[w] \in Handlers /\ h[w].job \in Jobs /\ h[w].job # NoJob /\ Progress(h[w])
BY DEF TypeOK, WorkerTypeOK, Handlers, QueueInv, ProgressInv

\* Returning from ProcessTask, with or without a call to the store.
LEMMA QuietReturn ==
    ASSUME TypeOK, QueueInv, ProgressInv, LedgerInv, NEW w \in Workers, h[w].pc # "idle",
           NEW o \in {"done", "retry", "skip"}, Return(w, o),
           UNCHANGED storeVars \/ Write(h[w]), UNCHANGED <<task, late, seen>>
    PROVE  Advance(w)
<1>1. h[w] \in Handlers /\ h[w].job \in Jobs /\ Progress(h[w])
  BY AtWork
<1>2. /\ h' \in [Workers -> Handlers] /\ \A v \in Workers \ {w} : h'[v] = h[v]
      /\ h'[w].job = h[w].job /\ h'[w].pc = "ack"
  BY ReturnType DEF TypeOK
<1>3. SlotMoves(w) /\ WorkerTypeOK' /\ Progress(h[w])'
  BY <1>1, <1>2 DEF SlotMoves, Reporting, Progress, WorkerTypeOK, TypeOK
<1>4. StoreTypeOK' /\ Grows /\ LedgerInv'
  <2>1. CASE UNCHANGED storeVars
    BY <2>1, SameLedger DEF TypeOK, WorkerTypeOK
  <2>2. CASE Write(h[w])
    BY <1>1, <2>2, WriteType, WriteLedger DEF TypeOK
  <2> QED
    BY <2>1, <2>2
<1> QED
  BY <1>3, <1>4 DEF Advance

\* Moving on to pc, with or without a call to the store.
LEMMA QuietGoto ==
    ASSUME TypeOK, QueueInv, ProgressInv, LedgerInv, NEW w \in Workers, h[w].pc # "idle",
           NEW pc \in Pcs \ {"idle"}, Goto(w, pc),
           pc \in Reporting => h[w].pc \in Reporting \ {"complete"},
           UNCHANGED storeVars \/ Write(h[w]), UNCHANGED <<task, late, seen>>
    PROVE  /\ Progress(h[w])' => Advance(w)
           /\ Grows
<1>1. h[w] \in Handlers /\ h[w].job \in Jobs /\ Progress(h[w])
  BY AtWork
<1>2. /\ h' \in [Workers -> Handlers] /\ \A v \in Workers \ {w} : h'[v] = h[v]
      /\ h'[w].job = h[w].job /\ h'[w].pc = pc /\ h'[w].resume = h[w].resume
  BY GotoType DEF TypeOK
<1>3. SlotMoves(w) /\ WorkerTypeOK'
  BY <1>1, <1>2 DEF SlotMoves, WorkerTypeOK, TypeOK
<1>4. StoreTypeOK' /\ Grows /\ LedgerInv'
  <2>1. CASE UNCHANGED storeVars
    BY <2>1, SameLedger DEF TypeOK, WorkerTypeOK
  <2>2. CASE Write(h[w])
    BY <1>1, <2>2, WriteType, WriteLedger DEF TypeOK
  <2> QED
    BY <2>1, <2>2
<1> QED
  BY <1>3, <1>4 DEF Advance

\* What is on record once a call has been made.
LEMMA WriteEffect ==
    ASSUME StoreTypeOK, LedgerInv, NEW m \in Handlers, m.job \in Jobs, Write(m)
    PROVE  /\ m.pc = "final" => job'[m.job].checkpoint = FileRows
           /\ m.pc = "stats" => scanned'
           /\ m.pc = "manifest" => job'[m.job].manifest.written
<1>1. job \in [Jobs -> JobRows] /\ job[m.job] \in JobRows
      /\ FileRows \in 0 .. LastLine /\ job[m.job].checkpoint <= FileRows
  BY FileRowsType DEF StoreTypeOK, LedgerInv
<1>2. m.pc = "final" => UpdateReplayCheckpoint(m.job, FileRows)
  BY DEF Write
<1>3. m.pc = "final" => job'[m.job].checkpoint = FileRows
  BY <1>1, <1>2 DEF UpdateReplayCheckpoint, JobRows
<1>4. m.pc = "stats" => scanned'
  BY DEF Write, UpdateEventFileStats
<1>5. m.pc = "manifest" => job'[m.job].manifest.written
  BY <1>1 DEF Write, UpdateReplayManifest, JobRows
<1> QED
  BY <1>3, <1>4, <1>5

LEMMA GotoSteps ==
    ASSUME TypeOK, QueueInv, ProgressInv, LedgerInv, NEW w \in Workers,
           \/ MarkRunning(w) \/ EndOfFile(w) \/ SaveCheckpoint(w)
           \/ SaveFinalCheckpoint(w) \/ SaveFileStats(w) \/ SaveManifest(w) \/ Complete(w)
    PROVE  Advance(w)
<1>0. h[w].pc # "idle"
  BY DEF MarkRunning, EndOfFile, SaveCheckpoint, SaveFinalCheckpoint, SaveFileStats,
         SaveManifest, Complete
<1>1. h[w] \in Handlers /\ h[w].job \in Jobs /\ Progress(h[w])
  BY <1>0, AtWork
<1>2. CASE MarkRunning(w)
  <2>1. Goto(w, "latest") /\ "latest" \in Pcs \ {"idle"} /\ "latest" \notin Reporting
    BY <1>2 DEF MarkRunning, Pcs, ReadPcs, Reporting
  <2>2. h'[w].pc = "latest" /\ h'[w].found = h[w].found
    BY <2>1, GotoType DEF TypeOK
  <2>3. Progress(h[w])'
    BY <1>1, <1>2, <2>2 DEF Progress, Reporting, MarkRunning
  <2> QED
    BY <1>0, <1>2, <2>1, <2>3, QuietGoto DEF MarkRunning
<1>3. CASE EndOfFile(w)
  <2>1. Goto(w, "final") /\ "final" \in Pcs \ {"idle"} /\ h[w].pc \in Reporting \ {"complete"}
    BY <1>3 DEF EndOfFile, Pcs, WritePcs, Reporting
  <2>2. /\ h'[w].pc = "final" /\ h'[w].job = h[w].job /\ h'[w].found = h[w].found
        /\ h'[w].resume = h[w].resume
    BY <2>1, GotoType DEF TypeOK
  <2>3. h[w].line \in 0 .. LastLine /\ h[w].line >= LastLine /\ seen' = seen
    BY <1>1, <1>3 DEF Handlers, EndOfFile
  <2>4. Progress(h[w])'
    BY <1>1, <1>3, <2>1, <2>2, <2>3 DEF Progress, Covered, Reporting, Lines, EndOfFile
  <2> QED
    BY <1>0, <1>3, <2>1, <2>4, QuietGoto DEF EndOfFile
<1>4. CASE SaveCheckpoint(w)
  <2>1. Goto(w, "poll") /\ "poll" \in Pcs \ {"idle"} /\ h[w].pc \in Reporting \ {"complete"}
    BY <1>4 DEF SaveCheckpoint, Pcs, ReadPcs, Reporting
  <2>2. /\ h'[w].pc = "poll" /\ h'[w].job = h[w].job /\ h'[w].found = h[w].found
        /\ h'[w].resume = h[w].resume /\ h'[w].line = h[w].line
    BY <2>1, GotoType DEF TypeOK
  <2>3. Progress(h[w])'
    BY <1>1, <1>4, <2>1, <2>2 DEF Progress, Covered, Reporting, SaveCheckpoint
  <2> QED
    BY <1>0, <1>4, <2>1, <2>3, QuietGoto DEF SaveCheckpoint
<1>5. CASE SaveFinalCheckpoint(w)
  <2>1. Goto(w, "stats") /\ "stats" \in Pcs \ {"idle"} /\ h[w].pc \in Reporting \ {"complete"}
    BY <1>5 DEF SaveFinalCheckpoint, Pcs, WritePcs, Reporting
  <2>2. /\ h'[w].pc = "stats" /\ h'[w].job = h[w].job /\ h'[w].found = h[w].found
        /\ h'[w].resume = h[w].resume
    BY <2>1, GotoType DEF TypeOK
  <2>3. job'[h[w].job].checkpoint = FileRows
    BY <1>1, <1>5, WriteEffect DEF SaveFinalCheckpoint, TypeOK
  <2>4. Progress(h[w])'
    BY <1>1, <1>5, <2>1, <2>2, <2>3 DEF Progress, Covered, Reporting, SaveFinalCheckpoint
  <2> QED
    BY <1>0, <1>5, <2>1, <2>4, QuietGoto DEF SaveFinalCheckpoint
<1>6. CASE SaveFileStats(w)
  <2>1. Goto(w, "manifest") /\ "manifest" \in Pcs \ {"idle"} /\ h[w].pc \in Reporting \ {"complete"}
    BY <1>6 DEF SaveFileStats, Pcs, WritePcs, Reporting
  <2>2. /\ h'[w].pc = "manifest" /\ h'[w].job = h[w].job /\ h'[w].found = h[w].found
        /\ h'[w].resume = h[w].resume
    BY <2>1, GotoType DEF TypeOK
  <2>3. job' = job /\ scanned'
    BY <1>6 DEF SaveFileStats, Write, UpdateEventFileStats
  <2>4. Progress(h[w])'
    BY <1>1, <1>6, <2>1, <2>2, <2>3 DEF Progress, Covered, Reporting, SaveFileStats
  <2> QED
    BY <1>0, <1>6, <2>1, <2>4, QuietGoto DEF SaveFileStats
<1>7. CASE SaveManifest(w)
  <2>1. Goto(w, "complete") /\ "complete" \in Pcs \ {"idle"} /\ h[w].pc \in Reporting \ {"complete"}
    BY <1>7 DEF SaveManifest, Pcs, WritePcs, Reporting
  <2>2. /\ h'[w].pc = "complete" /\ h'[w].job = h[w].job /\ h'[w].found = h[w].found
        /\ h'[w].resume = h[w].resume
    BY <2>1, GotoType DEF TypeOK
  <2>3. job'[h[w].job].manifest.written
    BY <1>1, <1>7, WriteEffect DEF SaveManifest, TypeOK
  <2>4. job'[h[w].job].checkpoint = FileRows /\ scanned'
    <3>1. job[h[w].job].checkpoint = FileRows /\ scanned
      BY <1>1, <1>7 DEF SaveManifest, Progress
    <3>2. UpdateReplayManifest(h[w].job, h[w].resume, h[w].found)
      BY <1>7 DEF SaveManifest, Write
    <3>3. job \in [Jobs -> JobRows]
      BY DEF TypeOK, StoreTypeOK
    <3>4. job'[h[w].job].checkpoint = job[h[w].job].checkpoint /\ scanned' = scanned
      BY <1>1, <3>2, <3>3 DEF UpdateReplayManifest, JobRows
    <3> QED
      BY <3>1, <3>4
  <2>5. Progress(h[w])'
    BY <1>1, <1>7, <2>1, <2>2, <2>3, <2>4 DEF Progress, Covered, Reporting, SaveManifest
  <2> QED
    BY <1>0, <1>7, <2>1, <2>5, QuietGoto DEF SaveManifest
<1>8. CASE Complete(w)
  <2>1. Goto(w, "reread") /\ "reread" \in Pcs \ {"idle"} /\ "reread" \notin Reporting
    BY <1>8 DEF Complete, Pcs, ReadPcs, Reporting
  <2>2. h'[w].pc = "reread"
    BY <2>1, GotoType DEF TypeOK
  <2>3. Progress(h[w])'
    BY <2>2 DEF Progress, Reporting
  <2> QED
    BY <1>0, <1>8, <2>1, <2>3, QuietGoto DEF Complete
<1> QED
  BY <1>2, <1>3, <1>4, <1>5, <1>6, <1>7, <1>8

\* A step of the handler alone that leaves it as m.
LEMMA QuietMove ==
    ASSUME TypeOK, QueueInv, ProgressInv, LedgerInv, NEW w \in Workers, h[w].pc # "idle",
           NEW m \in Handlers, h' = [h EXCEPT ![w] = m],
           m.job = h[w].job, m.pc # "idle",
           m.pc \in Reporting =>
              \/ h[w].pc \in Reporting \ {"complete"} /\ m.resume = h[w].resume
              \/ h[w].pc = "latest" /\ m.resume = job[h[w].job].checkpoint,
           seen' \in [Jobs -> SUBSET Lines], \A j \in Jobs : seen[j] \subseteq seen'[j],
           UNCHANGED <<storeVars, task, late>>
    PROVE  Progress(h[w])' => Advance(w)
<1>1. h[w].job \in Jobs
  BY AtWork
<1>2. /\ h' \in [Workers -> Handlers] /\ h'[w] = m
      /\ \A v \in Workers \ {w} : h'[v] = h[v]
  BY DEF TypeOK, WorkerTypeOK
<1>3. SlotMoves(w) /\ WorkerTypeOK'
  BY <1>1, <1>2 DEF SlotMoves, WorkerTypeOK, TypeOK
<1>4. StoreTypeOK' /\ Grows /\ LedgerInv'
  BY SameLedger DEF TypeOK, WorkerTypeOK
<1> QED
  BY <1>3, <1>4 DEF Advance

LEMMA ReadSteps ==
    ASSUME TypeOK, QueueInv, ProgressInv, LedgerInv, NEW w \in Workers,
           GetJob(w) \/ GetLatest(w) \/ OpenFile(w) \/ PollCanceled(w) \/ RereadCompleted(w)
    PROVE  Advance(w)
<1>0. h[w].pc # "idle"
  BY DEF GetJob, GetLatest, OpenFile, PollCanceled, RereadCompleted
<1>1. h[w] \in Handlers /\ h[w].job \in Jobs /\ Progress(h[w])
  BY <1>0, AtWork
<1>2. /\ h \in [Workers -> Handlers] /\ job \in [Jobs -> JobRows]
      /\ seen \in [Jobs -> SUBSET Lines]
  BY DEF TypeOK, WorkerTypeOK, StoreTypeOK
<1>3. CASE GetJob(w)
  <2>1. CASE Return(w, "done")
    BY <1>0, <1>3, <2>1, QuietReturn DEF GetJob
  <2>2. CASE Goto(w, "running")
    <3>1. "running" \in Pcs \ {"idle"} /\ "running" \notin Reporting
      BY DEF Pcs, WritePcs, Reporting
    <3>2. h'[w].pc = "running" /\ h'[w].found = h[w].found
      BY <2>2, <3>1, GotoType DEF TypeOK
    <3>3. Progress(h[w])'
      BY <1>1, <1>3, <3>2 DEF Progress, Reporting, GetJob
    <3> QED
      BY <1>0, <1>3, <2>2, <3>1, <3>3, QuietGoto DEF GetJob
  <2> QED
    BY <1>3, <2>1, <2>2 DEF GetJob
<1>4. CASE GetLatest(w)
  <2>1. CASE Return(w, "done")
    BY <1>0, <1>4, <2>1, QuietReturn DEF GetLatest
  <2>2. CASE h' = [h EXCEPT ![w].pc = "open", ![w].resume = job[h[w].job].checkpoint]
    <3> DEFINE m == [h[w] EXCEPT !.pc = "open", !.resume = job[h[w].job].checkpoint]
    <3>1. job[h[w].job].checkpoint \in 0 .. LastLine /\ "open" \in Pcs
      BY <1>1, <1>2 DEF JobRows, Pcs, ReadPcs
    <3>2. /\ m \in Handlers /\ m.job = h[w].job /\ m.pc = "open"
          /\ m.resume = job[h[w].job].checkpoint /\ m.found = h[w].found
      BY <1>1, <3>1 DEF Handlers
    <3>3. h' = [h EXCEPT ![w] = m] /\ h'[w] = m
      BY <1>2, <2>2
    <3>4. UNCHANGED <<storeVars, task, late, seen>> /\ h[w].pc = "latest"
      BY <1>4 DEF GetLatest
    <3>5. h[w].found = {}
      BY <1>1, <3>4 DEF Progress
    <3> HIDE DEF m
    <3>6. Progress(h[w])'
      <4>1. Covered(h[w].job, job[h[w].job].checkpoint)
        BY <1>1 DEF LedgerInv, NoLineSkipped, Covered
      <4> QED
        BY <3>2, <3>3, <3>4, <3>5, <4>1 DEF Progress, Covered, Reporting
    <3> QED
      BY <1>0, <1>2, <3>2, <3>3, <3>4, <3>6, QuietMove
  <2> QED
    BY <1>4, <2>1, <2>2 DEF GetLatest
<1>5. CASE OpenFile(w)
  <2> DEFINE m == [h[w] EXCEPT !.pc = "row", !.line = FirstLine - 1]
  <2>1. FirstLine - 1 \in 0 .. LastLine /\ "row" \in Pcs
    BY DEF Pcs
  <2>2. /\ m \in Handlers /\ m.job = h[w].job /\ m.pc = "row" /\ m.line = FirstLine - 1
        /\ m.resume = h[w].resume /\ m.found = h[w].found
    BY <1>1, <2>1 DEF Handlers
  <2>3. h' = [h EXCEPT ![w] = m] /\ h'[w] = m
    BY <1>2, <1>5 DEF OpenFile
  <2>4. UNCHANGED <<storeVars, task, late, seen>> /\ h[w].pc = "open" /\ h[w].pc \in Reporting \ {"complete"}
    BY <1>5 DEF OpenFile, Reporting
  <2> HIDE DEF m
  <2>5. Progress(h[w])'
    BY <1>1, <2>1, <2>2, <2>3, <2>4 DEF Progress, Covered, Reporting, Lines
  <2> QED
    BY <1>0, <1>2, <2>2, <2>3, <2>4, <2>5, QuietMove
<1>6. CASE PollCanceled(w)
  <2>1. CASE h' = [h EXCEPT ![w].pc = "fail", ![w].canceled = TRUE]
    <3> DEFINE m == [h[w] EXCEPT !.pc = "fail", !.canceled = TRUE]
    <3>1. "fail" \in Pcs /\ "fail" \notin Reporting
      BY DEF Pcs, WritePcs, Reporting
    <3>2. m \in Handlers /\ m.job = h[w].job /\ m.pc = "fail"
      BY <1>1, <3>1 DEF Handlers
    <3>3. h' = [h EXCEPT ![w] = m] /\ h'[w] = m
      BY <1>2, <2>1
    <3> HIDE DEF m
    <3>4. Progress(h[w])'
      BY <3>2, <3>3 DEF Progress, Reporting
    <3> QED
      BY <1>0, <1>2, <1>6, <3>1, <3>2, <3>3, <3>4, QuietMove DEF PollCanceled
  <2>2. CASE Goto(w, "row")
    <3>1. "row" \in Pcs \ {"idle"} /\ h[w].pc \in Reporting \ {"complete"}
      BY <1>6 DEF PollCanceled, Pcs, Reporting
    <3>2. /\ h'[w].pc = "row" /\ h'[w].job = h[w].job /\ h'[w].found = h[w].found
          /\ h'[w].resume = h[w].resume /\ h'[w].line = h[w].line
      BY <2>2, <3>1, GotoType DEF TypeOK
    <3>3. Progress(h[w])'
      BY <1>1, <1>6, <3>1, <3>2 DEF Progress, Covered, Reporting, PollCanceled
    <3> QED
      BY <1>0, <1>6, <2>2, <3>1, <3>3, QuietGoto DEF PollCanceled
  <2> QED
    BY <1>6, <2>1, <2>2 DEF PollCanceled
<1>7. CASE RereadCompleted(w)
  BY <1>0, <1>7, QuietReturn DEF RereadCompleted
<1> QED
  BY <1>3, <1>4, <1>5, <1>6, <1>7

LEMMA RecordSteps ==
    ASSUME TypeOK, QueueInv, ProgressInv, LedgerInv, NEW w \in Workers,
           PrimeRecord(w) \/ ProcessRecord(w)
    PROVE  Advance(w)
<1>0. h[w].pc = "row" /\ h[w].pc \in Reporting \ {"complete"} /\ h[w].line < LastLine
  BY DEF PrimeRecord, ProcessRecord, Reporting
<1>1. h[w] \in Handlers /\ h[w].job \in Jobs /\ Progress(h[w])
  BY <1>0, AtWork
<1>2. /\ h \in [Workers -> Handlers] /\ seen \in [Jobs -> SUBSET Lines]
      /\ h[w].line + 1 \in 0 .. LastLine /\ h[w].resume \in 0 .. LastLine
      /\ h[w].line + 1 \in Lines
  BY <1>0, <1>1 DEF TypeOK, WorkerTypeOK, Handlers, Progress, Lines
<1>3. CASE PrimeRecord(w)
  <2> DEFINE m == [h[w] EXCEPT !.line = h[w].line + 1]
  <2>1. /\ m \in Handlers /\ m.job = h[w].job /\ m.pc = "row" /\ m.line = h[w].line + 1
        /\ m.resume = h[w].resume /\ m.found = h[w].found
    BY <1>0, <1>1, <1>2 DEF Handlers
  <2>2. h' = [h EXCEPT ![w] = m] /\ h'[w] = m
    BY <1>2, <1>3 DEF PrimeRecord
  <2>3. UNCHANGED <<storeVars, task, late, seen>> /\ h[w].line + 1 <= h[w].resume
    BY <1>3 DEF PrimeRecord
  <2> HIDE DEF m
  <2>4. Covered(h[w].job, h[w].line + 1)
    BY <1>0, <1>1, <1>2, <2>3 DEF Progress, Covered, Lines
  <2>5. Progress(h[w])'
    BY <1>0, <1>1, <1>2, <2>1, <2>2, <2>3, <2>4 DEF Progress, Covered, Reporting, Lines
  <2> QED
    BY <1>0, <1>2, <2>1, <2>2, <2>3, <2>5, QuietMove
<1>4. CASE ProcessRecord(w)
  <2> DEFINE n == h[w].line + 1
             m == [h[w] EXCEPT !.line = n, !.found = h[w].found \cup ({n} \cap BadLines),
                               !.pc = IF n % CheckpointEvery = 0 THEN "ckpt" ELSE "row"]
  <2>1. "ckpt" \in Pcs /\ "row" \in Pcs /\ h[w].found \cup ({n} \cap BadLines) \in SUBSET BadLines
    BY <1>1 DEF Pcs, WritePcs, Handlers
  <2>2. /\ m \in Handlers /\ m.job = h[w].job /\ m.pc \in {"ckpt", "row"} /\ m.line = n
        /\ m.resume = h[w].resume /\ m.found = h[w].found \cup ({n} \cap BadLines)
    BY <1>0, <1>1, <1>2, <2>1 DEF Handlers
  <2>3. h' = [h EXCEPT ![w] = m] /\ h'[w] = m
    BY <1>2, <1>4 DEF ProcessRecord
  <2>4. /\ UNCHANGED <<storeVars, task, late>> /\ n > h[w].resume
        /\ seen' = [seen EXCEPT ![h[w].job] = @ \cup {n}]
    BY <1>4 DEF ProcessRecord
  <2> HIDE DEF m
  <2>5. /\ seen' \in [Jobs -> SUBSET Lines] /\ \A j \in Jobs : seen[j] \subseteq seen'[j]
        /\ n \in seen'[h[w].job]
    BY <1>1, <1>2, <2>4
  <2>6. \A l \in Lines : l <= n => l \in seen'[h[w].job]
    <3>1. \A l \in Lines : l <= h[w].line => l \in seen[h[w].job]
      BY <1>0, <1>1 DEF Progress, Covered
    <3>2. h[w].line \in Nat /\ \A l \in Lines : l \in Nat
      BY <1>1 DEF Handlers, Lines
    <3>3. \A l \in Lines : l <= n => l <= h[w].line \/ l = n
      BY <3>2
    <3> QED
      BY <1>1, <2>5, <3>1, <3>3
  <2>7. \A l \in Lines : l <= h[w].resume => l \in seen'[h[w].job]
    BY <1>0, <1>1, <2>5 DEF Progress, Covered
  <2>8. n <= FileRows /\ n + 1 >= FirstLine
    BY <1>2 DEF FileRows, Lines
  <2>9. \A l \in m.found : l > m.resume
    BY <1>0, <1>1, <2>2, <2>4 DEF Progress
  <2>10. Progress(h[w])'
    BY <2>2, <2>3, <2>6, <2>7, <2>8, <2>9 DEF Progress, Covered, Reporting
  <2> QED
    BY <1>0, <2>2, <2>3, <2>4, <2>5, <2>10, QuietMove
<1> QED
  BY <1>3, <1>4

LEMMA FailureSteps ==
    ASSUME TypeOK, QueueInv, ProgressInv, LedgerInv, NEW w \in Workers,
           FailJob(w) \/ CallFails(w)
    PROVE  Advance(w)
<1>0. h[w].pc # "idle"
  BY DEF FailJob, CallFails, WritePcs, ReadPcs
<1>1. UNCHANGED <<task, late, seen>> /\ (UNCHANGED storeVars \/ Write(h[w]))
  BY DEF FailJob, CallFails
<1>2. ASSUME NEW o \in {"done", "retry", "skip"}, Return(w, o)
      PROVE  Advance(w)
  BY <1>0, <1>1, <1>2, QuietReturn
<1>3. CASE FailJob(w)
  BY <1>2, <1>3 DEF FailJob
<1>4. CASE CallFails(w)
  <2>1. CASE Goto(w, "fail")
    <3>1. "fail" \in Pcs \ {"idle"} /\ "fail" \notin Reporting
      BY DEF Pcs, WritePcs, Reporting
    <3>2. h'[w].pc = "fail"
      BY <2>1, <3>1, GotoType DEF TypeOK
    <3>3. Progress(h[w])'
      BY <3>2 DEF Progress, Reporting
    <3> QED
      BY <1>0, <1>1, <2>1, <3>1, <3>3, QuietGoto
  <2>2. Return(w, "skip") \/ Return(w, "retry") \/ Goto(w, "fail")
    BY <1>4 DEF CallFails
  <2> QED
    BY <1>2, <2>1, <2>2
<1> QED
  BY <1>3, <1>4

\* Every step of a handler but the settling of its task advances it.
LEMMA HandlerAdvances ==
    ASSUME TypeOK, QueueInv, ProgressInv, LedgerInv, NEW w \in Workers,
           HandlerStep(w) \/ CallFails(w), ~Settle(w)
    PROVE  Advance(w)
BY GotoSteps, ReadSteps, RecordSteps, FailureSteps DEF HandlerStep

-----------------------------------------------------------------------------
(* Preservation of the invariant *)

\* A repository call touches the rows of its own job only.
LEMMA WriteFrame ==
    ASSUME StoreTypeOK, NEW m \in Handlers, m.job \in Jobs, Write(m)
    PROVE  /\ \A i \in Jobs \ {m.job} : /\ job'[i] = job[i] /\ metrics'[i] = metrics[i]
                                        /\ errs'[i] = errs[i]
           /\ Exists(m.job) => job'[m.job].status # "absent"
           /\ m.pc # "complete" => UNCHANGED errs
           /\ \A l \in BadLines : errs'[m.job][l] =
                 IF m.pc = "complete" /\ l \in m.found
                 THEN errs[m.job][l] + 1 ELSE errs[m.job][l]
<1> USE DEF StoreTypeOK
<1>1. CASE m.pc = "running" /\ UpdateReplayJobStatus(m.job, "running")
  BY <1>1 DEF UpdateReplayJobStatus, JobRows
<1>2. CASE m.pc = "ckpt" /\ UpdateReplayCheckpoint(m.job, m.line)
  BY <1>2 DEF UpdateReplayCheckpoint, JobRows, Exists
<1>3. CASE m.pc = "final" /\ UpdateReplayCheckpoint(m.job, FileRows)
  BY <1>3 DEF UpdateReplayCheckpoint, JobRows, Exists
<1>4. CASE m.pc = "stats" /\ UpdateEventFileStats
  BY <1>4 DEF UpdateEventFileStats, Exists
<1>5. CASE m.pc = "manifest" /\ UpdateReplayManifest(m.job, m.resume, m.found)
  BY <1>5 DEF UpdateReplayManifest, JobRows, Exists
<1>6. CASE m.pc = "complete" /\ CompleteReplayJob(m.job, m.found)
  <2>1. /\ \A i \in Jobs \ {m.job} : job'[i] = job[i] /\ metrics'[i] = metrics[i]
        /\ job'[m.job].status = "completed"
    BY <1>6 DEF CompleteReplayJob, JobRows
  <2>2. /\ \A i \in Jobs \ {m.job} : errs'[i] = errs[i]
        /\ \A l \in BadLines : errs'[m.job][l] =
              IF l \in m.found THEN errs[m.job][l] + 1 ELSE errs[m.job][l]
    BY <1>6 DEF CompleteReplayJob
  <2> QED
    BY <1>6, <2>1, <2>2
<1>7. CASE m.pc = "fail" /\ UpdateReplayJobStatus(m.job, FailStatus(m))
  BY <1>7 DEF UpdateReplayJobStatus, JobRows, FailStatus
<1> QED
  BY <1>1, <1>2, <1>3, <1>4, <1>5, <1>6, <1>7 DEF Write

\* An attempt that resumed at the end of the file has nothing to report.
LEMMA NothingNew ==
    ASSUME NEW m \in Handlers, m.pc \in Reporting, Progress(m), m.resume = FileRows
    PROVE  m.found = {}
<1>1. \A l \in m.found : l \in FirstLine .. LastLine /\ l > FileRows
  BY DEF Handlers, Progress
<1> QED
  BY <1>1 DEF FileRows

\* What handlers know survives a step that leaves them alone.
LEMMA OthersKeep ==
    ASSUME TypeOK, StoreTypeOK', Grows, QueueInv, ProgressInv
    PROVE  /\ \A v \in Workers : h[v].job # NoJob /\ h'[v] = h[v] => Progress(h[v])'
           /\ \A m \in late : Progress(m)'
<1>1. ASSUME NEW m \in Handlers, m.job # NoJob, Progress(m)
      PROVE  Progress(m)'
  BY <1>1, ProgressKept DEF TypeOK, Handlers
<1>2. ASSUME NEW v \in Workers, h[v].job # NoJob, h'[v] = h[v]
      PROVE  Progress(h[v])'
  <2>1. h[v] \in Handlers /\ Progress(h[v])
    BY <1>2 DEF TypeOK, WorkerTypeOK, ProgressInv
  <2>2. PICK m \in Handlers : m = h[v]
    BY <2>1
  <2>3. m.job # NoJob /\ Progress(m)
    BY <1>2, <2>1, <2>2 DEF Progress, Covered
  <2>4. Progress(m)'
    BY <1>1, <2>3
  <2> QED
    BY <1>2, <2>2, <2>4 DEF Progress, Covered
<1>3. ASSUME NEW m \in late
      PROVE  Progress(m)'
  <2>1. m \in Handlers /\ m.job # NoJob /\ Progress(m)
    BY <1>3 DEF TypeOK, WorkerTypeOK, QueueInv, ProgressInv
  <2> QED
    BY <1>1, <2>1
<1> QED
  BY <1>2, <1>3

\* The task of a job at work, or with a statement under way, is not "none",
\* so that its submission has inserted its row.
LEMMA WriterHasRow ==
    ASSUME TypeOK, SubmitInv, SubmitTypeOK', StoreTypeOK', UNCHANGED <<req, task>>,
           NEW m \in Handlers, m.job \in Jobs, task[m.job].state # "none",
           UNCHANGED storeVars \/ Write(m), \A n \in late' : n \in late
    PROVE  SubmitInv'
<1>1. /\ \A i \in Jobs \ {m.job} : job'[i] = job[i] /\ metrics'[i] = metrics[i]
      /\ job'[m.job].status # "absent"
  <2>1. Exists(m.job)
    BY DEF SubmitInv, TaskHasRow
  <2>2. CASE UNCHANGED storeVars
    BY <2>1, <2>2 DEF storeVars, Exists
  <2>3. CASE Write(m)
    BY <2>1, <2>3, WriteFrame DEF TypeOK
  <2> QED
    BY <2>2, <2>3
<1>2. \A c \in Jobs : req'[c].pc \in {"new", "lookup", "insert", "reread", "existing"} =>
          job'[c] = NoRow /\ metrics'[c] = 0 /\ task'[c].state = "none"
  BY <1>1 DEF SubmitInv
<1>3. \A c \in Jobs : req'[c].pc = "enqueue" => job'[c].status # "absent"
  BY <1>1 DEF SubmitInv, Exists
<1>4. TaskHasRow'
  BY <1>1 DEF SubmitInv, TaskHasRow, Exists
<1>5. \A n \in late' : task'[n.job].state # "none"
  BY DEF SubmitInv
<1> QED
  BY <1>2, <1>3, <1>4, <1>5 DEF SubmitInv, Exists

LEMMA AdvanceInv ==
    ASSUME Inv, NEW w \in Workers, Advance(w), UNCHANGED req, FaultsTypeOK'
    PROVE  Inv' /\ Grows
<1> USE DEF Inv
<1>1. /\ SlotMoves(w) /\ (UNCHANGED storeVars \/ Write(h[w]))
      /\ WorkerTypeOK' /\ StoreTypeOK' /\ Grows /\ LedgerInv' /\ Progress(h[w])'
  BY DEF Advance
<1>2. /\ late' = late /\ task' = task /\ h[w].job \in Jobs /\ h'[w].job = h[w].job
      /\ h'[w].pc # "idle" /\ \A v \in Workers \ {w} : h'[v] = h[v]
  BY <1>1 DEF SlotMoves
<1>3. h[w] \in Handlers /\ h[w].job # NoJob /\ task[h[w].job].state = "active"
      /\ h[w].pc # "idle" /\ Progress(h[w])
  BY <1>2 DEF TypeOK, WorkerTypeOK, QueueInv, ProgressInv
<1>4. TypeOK'
  BY <1>1, <1>2 DEF TypeOK, QueueTypeOK, SubmitTypeOK
<1>5. QueueInv'
  BY <1>2, <1>3 DEF QueueInv
<1>6. SubmitInv'
  BY <1>1, <1>2, <1>3, <1>4, WriterHasRow DEF TypeOK
<1>7. ProgressInv'
  BY <1>1, <1>2, OthersKeep DEF ProgressInv
<1>8. ReportInv'
  <2>1. ASSUME NEW v \in Workers, NEW j \in Jobs, h'[v].job = j, h'[v].pc \in Reporting,
               \/ \E l \in BadLines : errs[j][l] > 0
               \/ \E m \in late : m.pc = "complete" /\ m.job = j
        PROVE  h'[v].resume = FileRows
    <3>1. job[j].checkpoint = FileRows
      BY <2>1 DEF LedgerInv, CompletionEvidence, ProgressInv, Progress
    <3>2. CASE v # w
      BY <1>2, <2>1, <3>2 DEF ReportInv
    <3>3. CASE v = w
      BY <1>1, <1>2, <2>1, <3>1, <3>3 DEF ReportInv, SlotMoves
    <3> QED
      BY <3>2, <3>3
  <2>2. ASSUME NEW j \in Jobs, NEW l \in BadLines, errs'[j][l] # errs[j][l]
        PROVE  /\ j = h[w].job /\ h[w].pc = "complete" /\ l \in h[w].found
               /\ errs'[j][l] = errs[j][l] + 1
    <3>1. Write(h[w])
      BY <1>1, <2>2 DEF storeVars
    <3> QED
      BY <1>2, <1>3, <2>2, <3>1, WriteFrame DEF TypeOK
  <2>3. ASSUME NEW l \in BadLines, h[w].pc = "complete", l \in h[w].found
        PROVE  /\ ~ \E k \in BadLines : errs[h[w].job][k] > 0
               /\ \A m \in late : ~(m.pc = "complete" /\ m.job = h[w].job)
    BY <1>2, <1>3, <2>3, NothingNew DEF ReportInv, Reporting
  <2>4. ASSUME NEW j \in Jobs, NEW l \in BadLines, errs'[j][l] > 0
        PROVE  /\ \A v \in Workers :
                     h'[v].job = j /\ h'[v].pc \in Reporting => h'[v].resume = FileRows
               /\ \A m \in late' : m.job = j /\ m.pc = "complete" => m.found = {}
               /\ errs'[j][l] <= 1
    <3>1. CASE errs'[j][l] = errs[j][l]
      BY <1>2, <2>1, <2>4, <3>1 DEF ReportInv, NoDuplicateErrors
    <3>2. CASE errs'[j][l] # errs[j][l]
      <4>1. j = h[w].job /\ h[w].pc = "complete" /\ l \in h[w].found
            /\ errs'[j][l] = errs[j][l] + 1
        BY <2>2, <3>2
      <4>2. \A v \in Workers : h'[v].job = j => v = w
        BY <1>2, <1>3, <1>5, <4>1 DEF QueueInv
      <4>3. h'[w].pc \notin Reporting
        BY <1>1, <4>1 DEF SlotMoves
      <4>4. errs[j][l] \in Nat /\ ~(errs[j][l] > 0)
        BY <2>3, <4>1 DEF TypeOK, StoreTypeOK
      <4> QED
        BY <1>2, <2>3, <4>1, <4>2, <4>3, <4>4
    <3> QED
      BY <3>1, <3>2
  <2>5. NoDuplicateErrors'
    <3>1. \A j \in Jobs, l \in BadLines : errs'[j][l] \in Nat
      BY <1>1 DEF StoreTypeOK
    <3> QED
      BY <2>4, <3>1 DEF NoDuplicateErrors
  <2>6. \A m \in late', v \in Workers :
            m.pc = "complete" /\ h'[v].job = m.job /\ h'[v].pc \in Reporting =>
              h'[v].resume = FileRows
    BY <1>2, <2>1 DEF QueueInv, TypeOK, WorkerTypeOK, Handlers
  <2> QED
    BY <1>2, <2>4, <2>5, <2>6 DEF ReportInv
<1> QED
  BY <1>1, <1>4, <1>5, <1>6, <1>7, <1>8

\* A queue operation that neither creates nor forgets a task.
TaskKept(j) ==
    /\ QueueTypeOK'
    /\ \A i \in Jobs \ {j} : task'[i] = task[i]
    /\ \A i \in Jobs : task'[i].state = "none" <=> task[i].state = "none"

LEMMA QueueOps ==
    ASSUME QueueTypeOK, NEW j \in Jobs, task[j].state # "none",
           \/ UNCHANGED task \/ RetryOrArchive(j)
           \/ \E s \in TaskStates \ {"none"} : SetTask(j, s)
    PROVE  TaskKept(j)
<1> USE DEF QueueTypeOK, TaskKept
<1>1. CASE UNCHANGED task
  BY <1>1
<1>2. CASE RetryOrArchive(j)
  <2>1. CASE Exhausted(j)
    BY <1>2, <2>1 DEF RetryOrArchive, Tasks, TaskStates
  <2>2. CASE ~Exhausted(j)
    <3>1. [state |-> "pending", retried |-> task[j].retried + 1] \in Tasks
      BY <2>2 DEF Exhausted, Tasks, TaskStates
    <3> QED
      BY <1>2, <2>2, <3>1 DEF RetryOrArchive
  <2> QED
    BY <2>1, <2>2
<1>3. ASSUME NEW s \in TaskStates \ {"none"}, SetTask(j, s)
      PROVE  TaskKept(j)
  BY <1>3 DEF SetTask, Tasks
<1> QED
  BY <1>1, <1>2, <1>3

LEMMA SpendType ==
    ASSUME FaultsTypeOK, NEW k \in FaultKinds, Spend(k)
    PROVE  FaultsTypeOK'
BY DEF FaultsTypeOK, Spend

LEMMA ReleaseInv ==
    ASSUME Inv, NEW w \in Workers, SlotReleased(w), TaskKept(h[w].job),
           UNCHANGED req, FaultsTypeOK'
    PROVE  Inv' /\ Grows
<1> USE DEF Inv
<1>1. /\ h[w].job \in Jobs /\ h' = [h EXCEPT ![w] = Idle] /\ UNCHANGED <<storeVars, seen>>
      /\ late' = late \/ (h[w].pc \in WritePcs /\ late' = late \cup {h[w]})
  BY DEF SlotReleased
<1>2. /\ h[w] \in Handlers /\ h[w].job # NoJob /\ Progress(h[w])
      /\ h \in [Workers -> Handlers] /\ late \subseteq Handlers
  BY <1>1 DEF TypeOK, WorkerTypeOK, ProgressInv
<1>3. /\ h'[w] = Idle /\ \A v \in Workers \ {w} : h'[v] = h[v]
      /\ Idle.pc = "idle" /\ Idle.job = NoJob
  BY <1>1, <1>2 DEF Idle
<1>4. WorkerTypeOK'
  BY <1>1, <1>2, IdleType DEF TypeOK, WorkerTypeOK
<1>5. StoreTypeOK' /\ Grows /\ LedgerInv'
  BY <1>1, <1>4, SameLedger DEF TypeOK, WorkerTypeOK
<1>6. TypeOK'
  BY <1>4, <1>5 DEF TypeOK, SubmitTypeOK, TaskKept
<1>7. QueueInv'
  <2>1. \A v \in Workers \ {w} : h[v].job \in Jobs \cup {NoJob}
    BY <1>2 DEF Handlers
  <2>2. \A v \in Workers \ {w} : h[v].job # NoJob =>
            h[v].job # h[w].job /\ task'[h[v].job].state = "active"
    BY <1>2, <2>1 DEF QueueInv, TaskKept
  <2> QED
    BY <1>1, <1>2, <1>3, <2>2 DEF QueueInv
<1>8. SubmitInv'
  <2>1. \A m \in late' : task'[m.job].state # "none"
    <3>1. task[h[w].job].state # "none"
      BY <1>1, <1>2 DEF QueueInv
    <3>2. \A m \in late : m.job \in Jobs
      BY <1>2 DEF Handlers, QueueInv
    <3> QED
      BY <1>1, <3>1, <3>2 DEF SubmitInv, TaskKept
  <2>2. TaskHasRow'
    BY <1>1 DEF SubmitInv, TaskHasRow, TaskKept, Exists, storeVars
  <2> QED
    BY <1>1, <2>1, <2>2 DEF SubmitInv, TaskKept, Exists, storeVars
<1>9. ProgressInv'
  <2>1. \A v \in Workers : h'[v].job # NoJob => v # w
    BY <1>3
  <2>2. \A v \in Workers : h'[v].job # NoJob => Progress(h[v])'
    BY <1>3, <1>5, <2>1, OthersKeep
  <2>3. ASSUME NEW m \in late'
        PROVE  Progress(m)'
    <3>1. CASE m \in late
      BY <1>5, <3>1, OthersKeep
    <3>2. CASE m = h[w]
      BY <1>1, <1>2, <3>2 DEF Progress, Covered, storeVars
    <3> QED
      BY <1>1, <3>1, <3>2
  <2> QED
    BY <2>2, <2>3 DEF ProgressInv
<1>10. ReportInv'
  <2>1. \A v \in Workers : h'[v].job \in Jobs => v # w /\ h'[v] = h[v] /\ h[v].job # h[w].job
    BY <1>2, <1>3 DEF QueueInv
  <2>2. h[w].pc = "complete" /\ h[w].resume = FileRows => h[w].found = {}
    BY <1>2, NothingNew DEF Reporting
  <2>3. \A m \in late', v \in Workers :
            m.pc = "complete" /\ h'[v].job = m.job /\ h'[v].pc \in Reporting =>
              h'[v].resume = FileRows
    BY <1>1, <1>4, <1>7, <2>1 DEF ReportInv, WorkerTypeOK, Handlers, QueueInv
  <2>4. \A m \in late : m.pc = "complete" /\ m.job = h[w].job /\ h[w].pc = "complete" =>
            h[w].found = {}
    BY <2>2 DEF ReportInv, Reporting
  <2>5. \A m, n \in late' :
            m.pc = "complete" /\ n.pc = "complete" /\ m.job = n.job /\ m # n =>
              m.found = {} \/ n.found = {}
    BY <1>1, <2>4 DEF ReportInv
  <2>6. ASSUME NEW j \in Jobs, NEW l \in BadLines, errs'[j][l] > 0
        PROVE  /\ \A v \in Workers :
                     h'[v].job = j /\ h'[v].pc \in Reporting => h'[v].resume = FileRows
               /\ \A m \in late' : m.job = j /\ m.pc = "complete" => m.found = {}
    <3>1. errs[j][l] > 0
      BY <1>1, <2>6 DEF storeVars
    <3>2. h[w].job = j /\ h[w].pc = "complete" => h[w].found = {}
      BY <2>2, <3>1 DEF ReportInv, Reporting
    <3> QED
      BY <1>1, <2>1, <3>1, <3>2 DEF ReportInv
  <2>7. NoDuplicateErrors'
    BY <1>1 DEF ReportInv, NoDuplicateErrors, storeVars
  <2> QED
    BY <2>3, <2>5, <2>6, <2>7 DEF ReportInv
<1> QED
  BY <1>5, <1>6, <1>7, <1>8, <1>9, <1>10

\* Settling a task, a timeout, a crash and a shutdown release the slot.
LEMMA ReleaseSteps ==
    ASSUME Inv, NEW w \in Workers,
           Settle(w) \/ ContextEnds(w) \/ Crash(w) \/ Shutdown(w)
    PROVE  SlotReleased(w) /\ TaskKept(h[w].job) /\ FaultsTypeOK'
<1> USE DEF Inv
<1>1. h[w].pc # "idle"
  BY DEF Settle, ContextEnds, Crash, Shutdown
<1>2. h[w] \in Handlers /\ h[w].job \in Jobs /\ task[h[w].job].state # "none"
  BY <1>1, AtWork DEF QueueInv
<1>3. SlotReleased(w)
  <2>1. CASE Settle(w)
    BY <1>2, <2>1 DEF Settle, SlotReleased
  <2>2. ASSUME Abandon(w), UNCHANGED <<storeVars, seen>>
        PROVE  SlotReleased(w)
    <3>1. CASE LateWrites /\ h[w].pc \in WritePcs
      BY <1>2, <2>2, <3>1 DEF Abandon, SlotReleased
    <3>2. CASE ~(LateWrites /\ h[w].pc \in WritePcs)
      BY <1>2, <2>2, <3>2 DEF Abandon, SlotReleased
    <3> QED
      BY <3>1, <3>2
  <2> QED
    BY <2>1, <2>2 DEF ContextEnds, Crash, Shutdown
<1>4. \/ UNCHANGED task \/ RetryOrArchive(h[w].job)
      \/ \E s \in TaskStates \ {"none"} : SetTask(h[w].job, s)
  <2>1. {"done", "archived", "pending"} \subseteq TaskStates \ {"none"}
    BY DEF TaskStates
  <2>2. h[w].outcome \in {"done", "retry", "skip"}
    BY <1>2 DEF Handlers
  <2> QED
    BY <2>1, <2>2 DEF Settle, ContextEnds, Crash, Shutdown
<1>5. TaskKept(h[w].job)
  BY <1>2, <1>4, QueueOps DEF TypeOK
<1>6. FaultsTypeOK'
  <2>1. Settle(w) => FaultsTypeOK'
    BY DEF Settle, TypeOK, FaultsTypeOK
  <2>2. {"timeout", "crash", "shutdown"} \subseteq FaultKinds
    BY DEF FaultKinds
  <2> QED
    BY <2>1, <2>2, SpendType DEF TypeOK, ContextEnds, Crash, Shutdown
<1> QED
  BY <1>3, <1>5, <1>6

LEMMA DequeueInv ==
    ASSUME Inv, NEW w \in Workers, NEW j \in Jobs, Dequeue(w, j), UNCHANGED req
    PROVE  Inv' /\ Grows
<1> USE DEF Inv
<1> DEFINE m == [Idle EXCEPT !.pc = "get", !.job = j, !.retried = task[j].retried]
<1>1. /\ h[w].pc = "idle" /\ task[j].state = "pending" /\ SetTask(j, "active")
      /\ UNCHANGED <<storeVars, late, seen, faults>>
      /\ h \in [Workers -> Handlers] /\ task \in [Jobs -> Tasks]
  BY DEF Dequeue, TypeOK, WorkerTypeOK, QueueTypeOK
<1>2. /\ m \in Handlers /\ m.job = j /\ m.pc = "get" /\ m.found = {}
  <2>1. task[j].retried \in 0 .. MaxRetry /\ "get" \in Pcs
    BY <1>1 DEF Tasks, Pcs, ReadPcs
  <2>2. ASSUME NEW r \in Handlers
        PROVE  LET n == [r EXCEPT !.pc = "get", !.job = j, !.retried = task[j].retried]
               IN  n \in Handlers /\ n.job = j /\ n.pc = "get" /\ n.found = r.found
    BY <2>1 DEF Handlers
  <2>3. Idle.found = {}
    BY DEF Idle
  <2> QED
    BY <2>2, <2>3, IdleType
<1>3. h' = [h EXCEPT ![w] = m]
  BY DEF Dequeue
<1> HIDE DEF m
<1>4. h'[w] = m /\ \A v \in Workers \ {w} : h'[v] = h[v]
  BY <1>1, <1>3
<1>5. TaskKept(j) /\ task'[j].state = "active"
  <2>1. TaskKept(j)
    BY <1>1, QueueOps DEF TypeOK, TaskStates
  <2>2. task'[j].state = "active"
    BY <1>1 DEF SetTask, Tasks
  <2> QED
    BY <2>1, <2>2
<1>6. WorkerTypeOK'
  BY <1>1, <1>2, <1>3 DEF TypeOK, WorkerTypeOK
<1>7. StoreTypeOK' /\ Grows /\ LedgerInv'
  BY <1>1, <1>6, SameLedger DEF TypeOK, WorkerTypeOK
<1>8. TypeOK'
  BY <1>1, <1>5, <1>6, <1>7 DEF TypeOK, SubmitTypeOK, FaultsTypeOK, TaskKept
<1>9. QueueInv'
  <2>1. \A v \in Workers : h[v].job \in Jobs \cup {NoJob}
    BY <1>1 DEF Handlers
  <2>2. \A v \in Workers : h[v].job # NoJob =>
            v # w /\ h[v].job # j /\ task'[h[v].job].state = "active"
    BY <1>1, <1>5, <2>1 DEF QueueInv, TaskKept
  <2> QED
    BY <1>1, <1>2, <1>4, <1>5, <2>2 DEF QueueInv
<1>10. SubmitInv'
  <2>1. \A n \in late : n.job \in Jobs
    BY DEF TypeOK, WorkerTypeOK, Handlers, QueueInv
  <2>2. TaskHasRow'
    BY <1>1, <1>5 DEF SubmitInv, TaskHasRow, TaskKept, Exists, storeVars
  <2> QED
    BY <1>1, <1>5, <2>1, <2>2 DEF SubmitInv, TaskKept, Exists, storeVars
<1>11. ProgressInv'
  <2>1. Progress(h[w])'
    BY <1>2, <1>4 DEF Progress, Reporting
  <2>2. \A v \in Workers : v # w /\ h'[v].job # NoJob => Progress(h[v])'
    BY <1>4, <1>7, OthersKeep
  <2>3. \A n \in late' : Progress(n)'
    BY <1>1, <1>7, OthersKeep
  <2> QED
    BY <2>1, <2>2, <2>3 DEF ProgressInv
<1>12. ReportInv'
  <2>1. h'[w].pc \notin Reporting
    BY <1>2, <1>4 DEF Reporting
  <2> QED
    BY <1>1, <1>4, <2>1 DEF ReportInv, NoDuplicateErrors, storeVars
<1> QED
  BY <1>7, <1>8, <1>9, <1>10, <1>11, <1>12

\* What the handlers know and report, in a step that leaves them all alone.
LEMMA Bystanders ==
    ASSUME Inv, UNCHANGED <<h, late, errs>>, StoreTypeOK', Grows
    PROVE  ProgressInv' /\ ReportInv'
<1>1. ProgressInv'
  BY OthersKeep DEF Inv, ProgressInv
<1>2. ReportInv'
  BY DEF Inv, ReportInv, NoDuplicateErrors
<1> QED
  BY <1>1, <1>2

LEMMA RecoverInv ==
    ASSUME Inv, NEW j \in Jobs, Recover(j), UNCHANGED req
    PROVE  Inv' /\ Grows
<1> USE DEF Inv
<1>1. /\ UNCHANGED <<storeVars, h, late, seen, faults>> /\ \A w \in Workers : h[w].job # j
  BY DEF Recover, workerVars
<1>2. TaskKept(j)
  BY QueueOps DEF TypeOK, Recover
<1>3. StoreTypeOK' /\ Grows /\ LedgerInv'
  BY <1>1, SameLedger DEF TypeOK, WorkerTypeOK
<1>4. TypeOK'
  BY <1>1, <1>2, <1>3 DEF TypeOK, SubmitTypeOK, FaultsTypeOK, WorkerTypeOK, TaskKept
<1>5. QueueInv'
  <2>1. \A v \in Workers : h[v].job \in Jobs \cup {NoJob}
    BY DEF TypeOK, WorkerTypeOK, Handlers
  <2>2. \A v \in Workers : h[v].job # NoJob => task'[h[v].job] = task[h[v].job]
    BY <1>1, <1>2, <2>1 DEF TaskKept
  <2> QED
    BY <1>1, <2>2 DEF QueueInv
<1>6. SubmitInv'
  <2>1. \A n \in late : n.job \in Jobs
    BY DEF TypeOK, WorkerTypeOK, Handlers, QueueInv
  <2>2. TaskHasRow'
    BY <1>1, <1>2 DEF SubmitInv, TaskHasRow, TaskKept, Exists, storeVars
  <2> QED
    BY <1>1, <1>2, <2>1, <2>2 DEF SubmitInv, TaskKept, Exists, storeVars
<1> QED
  BY <1>1, <1>3, <1>4, <1>5, <1>6, Bystanders DEF storeVars

LEMMA LateInv ==
    ASSUME Inv, NEW m \in late, LateWrite(m), UNCHANGED req
    PROVE  Inv' /\ Grows
<1> USE DEF Inv
<1>1. Write(m) /\ late' = late \ {m} /\ UNCHANGED <<task, h, seen, faults>>
  BY DEF LateWrite
<1>2. /\ m \in Handlers /\ m.job \in Jobs /\ Progress(m) /\ task[m.job].state # "none"
      /\ \A n \in late : n.job \in Jobs
  BY DEF TypeOK, WorkerTypeOK, Handlers, QueueInv, ProgressInv, SubmitInv
<1>3. StoreTypeOK' /\ Grows /\ LedgerInv'
  BY <1>1, <1>2, WriteType, WriteLedger DEF TypeOK
<1>4. TypeOK'
  BY <1>1, <1>3 DEF TypeOK, SubmitTypeOK, FaultsTypeOK, WorkerTypeOK, QueueTypeOK
<1>5. QueueInv'
  BY <1>1 DEF QueueInv
<1>6. SubmitInv'
  BY <1>1, <1>2, <1>3, <1>4, WriterHasRow DEF TypeOK
<1>7. ProgressInv'
  BY <1>1, <1>3, OthersKeep DEF ProgressInv
<1>8. ReportInv'
  <2>1. ASSUME NEW j \in Jobs, NEW l \in BadLines, errs'[j][l] # errs[j][l]
        PROVE  /\ j = m.job /\ m.pc = "complete" /\ l \in m.found
               /\ errs'[j][l] = errs[j][l] + 1
    BY <1>1, <1>2, <2>1, WriteFrame DEF TypeOK
  <2>2. ASSUME NEW j \in Jobs, NEW l \in BadLines, errs'[j][l] > 0
        PROVE  /\ \A v \in Workers :
                     h[v].job = j /\ h[v].pc \in Reporting => h[v].resume = FileRows
               /\ \A n \in late' : n.job = j /\ n.pc = "complete" => n.found = {}
               /\ errs'[j][l] <= 1
    <3>1. CASE errs'[j][l] = errs[j][l]
      BY <1>1, <2>2, <3>1 DEF ReportInv, NoDuplicateErrors
    <3>2. CASE errs'[j][l] # errs[j][l]
      <4>1. j = m.job /\ m.pc = "complete" /\ l \in m.found /\ errs'[j][l] = errs[j][l] + 1
        BY <2>1, <3>2
      <4>2. \A n \in late' : n.job = j /\ n.pc = "complete" => n.found = {}
        BY <1>1, <4>1 DEF ReportInv
      <4>3. errs[j][l] \in Nat /\ ~(errs[j][l] > 0)
        BY <4>1 DEF ReportInv, TypeOK, StoreTypeOK
      <4> QED
        BY <4>1, <4>2, <4>3 DEF ReportInv
    <3> QED
      BY <3>1, <3>2
  <2>3. NoDuplicateErrors'
    <3>1. \A j \in Jobs, l \in BadLines : errs'[j][l] \in Nat
      BY <1>3 DEF StoreTypeOK
    <3> QED
      BY <2>2, <3>1 DEF NoDuplicateErrors
  <2> QED
    BY <1>1, <2>2, <2>3 DEF ReportInv
<1> QED
  BY <1>3, <1>4, <1>5, <1>6, <1>7, <1>8

-----------------------------------------------------------------------------
(* Steps of the API *)

Before == {"new", "lookup", "insert", "reread", "existing"}

\* Where a step leaves submission c.
LEMMA MoveType ==
    ASSUME SubmitTypeOK, NEW c \in Jobs,
           NEW pc \in SubmitPcs \cup {"new", "answered", "lost"}, Move(c, pc)
    PROVE  /\ SubmitTypeOK' /\ req'[c].pc = pc
           /\ \A d \in Jobs \ {c} : req'[d] = req[d]
BY DEF SubmitTypeOK, Move, Requests

LEMMA AnswerType ==
    ASSUME SubmitTypeOK, NEW c \in Jobs, NEW code \in {201, 500},
           NEW j \in Jobs \cup {NoJob}, Answer(c, code, j)
    PROVE  /\ SubmitTypeOK' /\ req'[c].pc = "answered"
           /\ \A d \in Jobs \ {c} : req'[d] = req[d]
<1>1. [pc |-> "answered", code |-> code, answer |-> j] \in Requests
  BY DEF Requests
<1> QED
  BY <1>1 DEF SubmitTypeOK, Answer

\* A step that only moves submission c on, and not to its enqueue.
LEMMA RequestInv ==
    ASSUME Inv, NEW c \in Jobs, SubmitTypeOK', \A d \in Jobs \ {c} : req'[d] = req[d],
           req'[c].pc \in Before => req[c].pc \in Before, req'[c].pc # "enqueue",
           UNCHANGED <<storeVars, task, workerVars>>, FaultsTypeOK'
    PROVE  Inv' /\ Grows
<1> USE DEF Inv
<1>1. UNCHANGED <<job, metrics, errs, scanned, h, late, seen, task>>
  BY DEF storeVars, workerVars
<1>2. StoreTypeOK' /\ Grows /\ LedgerInv'
  BY <1>1, SameLedger DEF TypeOK, WorkerTypeOK, storeVars
<1>3. TypeOK'
  BY <1>1, <1>2 DEF TypeOK, WorkerTypeOK, QueueTypeOK
<1>4. QueueInv'
  BY <1>1 DEF QueueInv
<1>5. SubmitInv'
  BY <1>1 DEF SubmitInv, TaskHasRow, Exists, Before
<1> QED
  BY <1>1, <1>2, <1>3, <1>4, <1>5, Bystanders

\* The INSERT of a submission: its job had no row and no task.
LEMMA InsertInv ==
    ASSUME Inv, NEW c \in Jobs, req[c].pc = "insert", InsertReplayJob(c), SubmitTypeOK',
           \A d \in Jobs \ {c} : req'[d] = req[d], req'[c].pc \in {"enqueue", "answered"},
           UNCHANGED <<task, workerVars>>, FaultsTypeOK'
    PROVE  Inv' /\ Grows
<1> USE DEF Inv
<1>1. UNCHANGED <<metrics, errs, scanned, h, late, seen, task>>
  BY DEF InsertReplayJob, workerVars
<1>2. job[c] = NoRow /\ metrics[c] = 0 /\ task[c].state = "none"
  BY DEF SubmitInv
<1>3. job \in [Jobs -> JobRows] /\ FileRows \in 0 .. LastLine
  BY FileRowsType DEF TypeOK, StoreTypeOK
<1> DEFINE r == [NoRow EXCEPT !.status = "queued"]
<1>4. r \in JobRows /\ r.status = "queued" /\ r.checkpoint = 0 /\ NoRow.checkpoint = 0
      /\ NoRow.manifest.written = FALSE
  <2>1. NoRow \in JobRows
    BY DEF NoRow, JobRows, NoManifest, Manifests
  <2>2. ASSUME NEW n \in JobRows
        PROVE  LET q == [n EXCEPT !.status = "queued"]
               IN  q \in JobRows /\ q.status = "queued" /\ q.checkpoint = n.checkpoint
    BY DEF JobRows, Statuses
  <2>3. NoRow.checkpoint = 0 /\ NoRow.manifest.written = FALSE
    BY DEF NoRow, NoManifest
  <2> QED
    BY <2>1, <2>2, <2>3
<1>5. job' = [job EXCEPT ![c] = r]
  BY DEF InsertReplayJob
<1> HIDE DEF r
<1>6. job'[c] = r /\ \A i \in Jobs \ {c} : job'[i] = job[i]
  BY <1>3, <1>5
<1>7. StoreTypeOK'
  BY <1>1, <1>3, <1>4, <1>5 DEF TypeOK, StoreTypeOK
<1>8. Grows
  <2>1. \A i \in Jobs : job[i].checkpoint <= FileRows /\ job[i].checkpoint \in Nat
    BY <1>3 DEF LedgerInv, JobRows
  <2> QED
    BY <1>1, <1>2, <1>3, <1>4, <1>6, <2>1 DEF Grows
<1>9. LedgerInv'
  <2>1. NoLineSkipped'
    BY <1>1, <1>4, <1>6 DEF LedgerInv, NoLineSkipped, Lines
  <2>2. CompletionEvidence'
    BY <1>1, <1>2, <1>4, <1>6 DEF LedgerInv, CompletionEvidence
  <2>3. \A i \in Jobs : job'[i].checkpoint <= FileRows
    BY <1>8 DEF Grows
  <2> QED
    BY <1>1, <2>1, <2>2, <2>3 DEF LedgerInv
<1>10. TypeOK'
  BY <1>1, <1>7 DEF TypeOK, WorkerTypeOK, QueueTypeOK
<1>11. QueueInv'
  BY <1>1 DEF QueueInv
<1>12. SubmitInv'
  BY <1>1, <1>4, <1>6 DEF SubmitInv, TaskHasRow, Exists
<1> QED
  BY <1>1, <1>7, <1>8, <1>9, <1>10, <1>11, <1>12, Bystanders

\* The enqueue of a submission: its job has its row.
LEMMA EnqueueInv ==
    ASSUME Inv, NEW c \in Jobs, req[c].pc = "enqueue", EnqueueContext(c) \/ UNCHANGED task,
           SubmitTypeOK', \A d \in Jobs \ {c} : req'[d] = req[d], req'[c].pc = "answered",
           UNCHANGED <<storeVars, workerVars>>, FaultsTypeOK'
    PROVE  Inv' /\ Grows
<1> USE DEF Inv
<1>1. UNCHANGED <<job, metrics, errs, scanned, h, late, seen>>
  BY DEF storeVars, workerVars
<1>2. /\ QueueTypeOK' /\ \A i \in Jobs \ {c} : task'[i] = task[i]
      /\ task'[c].state = "none" => task[c].state = "none"
      /\ task[c].state = "active" => task'[c] = task[c]
  <2>1. [state |-> "pending", retried |-> 0] \in Tasks
    BY DEF Tasks, TaskStates
  <2> QED
    BY <2>1 DEF EnqueueContext, TypeOK, QueueTypeOK
<1>3. StoreTypeOK' /\ Grows /\ LedgerInv'
  BY <1>1, SameLedger DEF TypeOK, WorkerTypeOK, storeVars
<1>4. TypeOK'
  BY <1>1, <1>2, <1>3 DEF TypeOK, WorkerTypeOK
<1>5. QueueInv'
  <2>1. \A v \in Workers : h[v].job # NoJob => task'[h[v].job].state = "active"
    <3>1. \A v \in Workers : h[v].job \in Jobs \cup {NoJob}
      BY DEF TypeOK, WorkerTypeOK, Handlers
    <3> QED
      BY <1>2, <3>1 DEF QueueInv
  <2> QED
    BY <1>1, <2>1 DEF QueueInv
<1>6. SubmitInv'
  <2>1. \A m \in late : task'[m.job].state # "none"
    <3>1. \A m \in late : m.job \in Jobs
      BY DEF TypeOK, WorkerTypeOK, Handlers, QueueInv
    <3> QED
      BY <1>2, <3>1 DEF SubmitInv
  <2>2. Exists(c) /\ TaskHasRow'
    BY <1>1, <1>2 DEF SubmitInv, TaskHasRow, Exists
  <2> QED
    BY <1>1, <1>2, <2>1, <2>2 DEF SubmitInv, Exists
<1> QED
  BY <1>1, <1>3, <1>4, <1>5, <1>6, Bystanders

LEMMA CancelInv ==
    ASSUME Inv, NEW j \in Jobs, Cancel(j), UNCHANGED workerVars
    PROVE  Inv' /\ Grows
<1> USE DEF Inv
<1>1. /\ UNCHANGED <<metrics, errs, scanned, h, late, seen, task, req>> /\ Exists(j)
      /\ job' = [job EXCEPT ![j].status = "canceled"]
  BY DEF Cancel, CancelReplayJob, UpdateReplayJobStatus, workerVars
<1>2. job \in [Jobs -> JobRows]
  BY DEF TypeOK, StoreTypeOK
<1>3. /\ job' \in [Jobs -> JobRows] /\ \A i \in Jobs \ {j} : job'[i] = job[i]
      /\ job'[j].status = "canceled" /\ job'[j].checkpoint = job[j].checkpoint
      /\ job'[j].manifest = job[j].manifest
  BY <1>1, <1>2 DEF JobRows, Statuses
<1>4. StoreTypeOK'
  BY <1>1, <1>3 DEF TypeOK, StoreTypeOK
<1>5. Grows
  <2>1. \A i \in Jobs : job[i].checkpoint <= FileRows /\ job[i].checkpoint \in Nat
    BY <1>2 DEF LedgerInv, JobRows
  <2> QED
    BY <1>1, <1>3, <2>1 DEF Grows
<1>6. LedgerInv'
  BY <1>1, <1>3 DEF LedgerInv, NoLineSkipped, CompletionEvidence
<1>7. FaultsTypeOK'
  BY SpendType DEF Cancel, TypeOK, FaultKinds
<1>8. TypeOK'
  BY <1>1, <1>4, <1>7 DEF TypeOK, WorkerTypeOK, QueueTypeOK, SubmitTypeOK
<1>9. QueueInv'
  BY <1>1 DEF QueueInv
<1>10. SubmitInv'
  <2>1. NoRow.status = "absent"
    BY DEF NoRow
  <2>2. \A c \in Jobs : req[c].pc \in Before => c # j
    BY <1>1, <2>1 DEF SubmitInv, Before, Exists
  <2> QED
    BY <1>1, <1>3, <2>2 DEF SubmitInv, TaskHasRow, Exists, Before
<1> QED
  BY <1>1, <1>4, <1>5, <1>6, <1>8, <1>9, <1>10, Bystanders

LEMMA SubmissionInv ==
    ASSUME Inv, NEW c \in Jobs, SubmitStep(c) \/ SubmitFault(c), UNCHANGED workerVars
    PROVE  Inv' /\ Grows
<1>0. SubmitTypeOK /\ FaultsTypeOK
  BY DEF Inv, TypeOK
<1>1. ASSUME NEW pc \in {"insert", "lookup", "existing", "reread", "lost"}, Move(c, pc),
             req[c].pc \in Before \/ pc = "lost", UNCHANGED <<storeVars, task>>, FaultsTypeOK'
      PROVE  Inv' /\ Grows
  <2>1. /\ SubmitTypeOK' /\ req'[c].pc = pc /\ \A d \in Jobs \ {c} : req'[d] = req[d]
    BY <1>0, <1>1, MoveType DEF SubmitPcs
  <2> QED
    BY <1>1, <2>1, RequestInv DEF Before
<1>2. ASSUME NEW code \in {201, 500}, NEW j \in Jobs \cup {NoJob}, Answer(c, code, j),
             UNCHANGED <<storeVars, task>>, FaultsTypeOK'
      PROVE  Inv' /\ Grows
  <2>1. /\ SubmitTypeOK' /\ req'[c].pc = "answered" /\ \A d \in Jobs \ {c} : req'[d] = req[d]
    BY <1>0, <1>2, AnswerType
  <2> QED
    BY <1>2, <2>1, RequestInv DEF Before
<1>3. CASE Submit(c)
  BY <1>0, <1>1, <1>3 DEF Submit, At, Before, FaultsTypeOK
<1>4. CASE LookupKey(c)
  BY <1>0, <1>1, <1>4 DEF LookupKey, At, Before, FaultsTypeOK
<1>5. CASE Insert(c)
  <2>1. CASE WithKey(Key[c]) = {}
    <3>1. Move(c, "enqueue") /\ InsertReplayJob(c) /\ req[c].pc = "insert"
          /\ UNCHANGED <<task, faults>>
      BY <1>5, <2>1 DEF Insert, At
    <3>2. /\ SubmitTypeOK' /\ req'[c].pc = "enqueue" /\ \A d \in Jobs \ {c} : req'[d] = req[d]
      BY <1>0, <3>1, MoveType DEF SubmitPcs
    <3>3. FaultsTypeOK'
      BY <1>0, <3>1 DEF FaultsTypeOK
    <3> QED
      BY <3>1, <3>2, <3>3, InsertInv
  <2>2. CASE WithKey(Key[c]) # {}
    BY <1>0, <1>1, <1>5, <2>2 DEF Insert, At, Before, FaultsTypeOK
  <2> QED
    BY <2>1, <2>2
<1>6. CASE RereadExisting(c)
  BY <1>0, <1>1, <1>6 DEF RereadExisting, At, Before, FaultsTypeOK
<1>7. CASE ReturnExisting(c)
  BY <1>0, <1>2, <1>7 DEF ReturnExisting, Accept, WithKey, FaultsTypeOK
<1>8. CASE Enqueue(c)
  <2>1. req[c].pc = "enqueue" /\ EnqueueContext(c) /\ Answer(c, 201, c)
        /\ UNCHANGED <<storeVars, faults>>
    BY <1>8 DEF Enqueue, Accept, At
  <2>2. /\ SubmitTypeOK' /\ req'[c].pc = "answered" /\ \A d \in Jobs \ {c} : req'[d] = req[d]
    BY <1>0, <2>1, AnswerType
  <2>3. FaultsTypeOK'
    BY <1>0, <2>1 DEF FaultsTypeOK
  <2> QED
    BY <2>1, <2>2, <2>3, EnqueueInv
<1>9. CASE EnqueueFails(c)
  <2>1. req[c].pc = "enqueue" /\ (EnqueueContext(c) \/ UNCHANGED task)
        /\ Answer(c, 500, NoJob) /\ UNCHANGED storeVars /\ Spend("redis")
    BY <1>9 DEF EnqueueFails, Reject, At
  <2>2. /\ SubmitTypeOK' /\ req'[c].pc = "answered" /\ \A d \in Jobs \ {c} : req'[d] = req[d]
    BY <1>0, <2>1, AnswerType
  <2>3. FaultsTypeOK'
    BY <1>0, <2>1, SpendType DEF FaultKinds
  <2> QED
    BY <2>1, <2>2, <2>3, EnqueueInv
<1>10. CASE SubmitCallFails(c)
  <2>1. Answer(c, 500, NoJob) /\ UNCHANGED task /\ Spend("db")
    BY <1>10 DEF SubmitCallFails, Reject
  <2>2. FaultsTypeOK'
    BY <1>0, <2>1, SpendType DEF FaultKinds
  <2>3. CASE UNCHANGED storeVars
    BY <1>2, <2>1, <2>2, <2>3
  <2>4. CASE req[c].pc = "insert" /\ InsertReplayJob(c)
    <3>1. /\ SubmitTypeOK' /\ req'[c].pc = "answered" /\ \A d \in Jobs \ {c} : req'[d] = req[d]
      BY <1>0, <2>1, AnswerType
    <3> QED
      BY <2>1, <2>2, <2>4, <3>1, InsertInv
  <2> QED
    BY <1>10, <2>3, <2>4 DEF SubmitCallFails, At
<1>11. CASE ApiCrash(c)
  <2>1. FaultsTypeOK'
    BY <1>0, <1>11, SpendType DEF ApiCrash, FaultKinds
  <2> QED
    BY <1>1, <1>11, <2>1 DEF ApiCrash
<1> QED
  BY <1>3, <1>4, <1>5, <1>6, <1>7, <1>8, <1>9, <1>10, <1>11 DEF SubmitStep, SubmitFault

-----------------------------------------------------------------------------
(* The theorems *)

LEMMA InitInv == Init => Inv
<1> SUFFICES ASSUME Init PROVE Inv
  OBVIOUS
<1> USE DEF Init, StoreInit, QueueInit, FaultsInit, SubmitInit, WorkerInit
<1>1. NoRow \in JobRows /\ NoRow.status = "absent" /\ NoRow.checkpoint = 0
  BY DEF NoRow, JobRows, NoManifest, Manifests
<1>2. Idle.pc = "idle" /\ Idle.job = NoJob
  BY DEF Idle
<1>3. TypeOK
  <2>1. StoreTypeOK
    BY <1>1 DEF StoreTypeOK
  <2>2. QueueTypeOK /\ FaultsTypeOK
    BY DEF QueueTypeOK, FaultsTypeOK, Tasks, TaskStates
  <2>3. SubmitTypeOK
    BY DEF SubmitTypeOK, Requests
  <2>4. WorkerTypeOK
    BY IdleType DEF WorkerTypeOK
  <2> QED
    BY <2>1, <2>2, <2>3, <2>4 DEF TypeOK
<1>4. QueueInv /\ ProgressInv
  BY <1>2 DEF QueueInv, ProgressInv
<1>5. SubmitInv
  BY <1>1 DEF SubmitInv, TaskHasRow, Exists
<1>6. LedgerInv
  <2>1. NoLineSkipped /\ CompletionEvidence
    BY <1>1 DEF NoLineSkipped, CompletionEvidence, Lines
  <2> QED
    BY <1>1, <2>1, FileRowsType DEF LedgerInv
<1>7. ReportInv
  BY <1>2 DEF ReportInv, NoDuplicateErrors, Reporting
<1> QED
  BY <1>3, <1>4, <1>5, <1>6, <1>7 DEF Inv

LEMMA NextInv ==
    ASSUME Inv, [Next]_vars
    PROVE  Inv' /\ Grows
<1>1. ASSUME NEW c \in Jobs, SubmitStep(c) \/ SubmitFault(c), UNCHANGED workerVars
      PROVE  Inv' /\ Grows
  BY <1>1, SubmissionInv
<1>2. ASSUME NEW j \in Jobs, Cancel(j), UNCHANGED workerVars
      PROVE  Inv' /\ Grows
  BY <1>2, CancelInv
<1>3. ASSUME NEW w \in Workers, HandlerStep(w) \/ WorkerFault(w), UNCHANGED req
      PROVE  Inv' /\ Grows
  <2>1. CASE Settle(w) \/ ContextEnds(w) \/ Crash(w) \/ Shutdown(w)
    BY <1>3, <2>1, ReleaseSteps, ReleaseInv
  <2>2. CASE (HandlerStep(w) \/ CallFails(w)) /\ ~Settle(w)
    <3>1. Advance(w)
      BY <2>2, HandlerAdvances DEF Inv
    <3>2. FaultsTypeOK'
      <4>1. CASE CallFails(w)
        BY <4>1, SpendType DEF CallFails, FaultKinds, Inv, TypeOK
      <4>2. CASE HandlerStep(w) /\ ~Settle(w)
        <5>1. faults' = faults
          BY <4>2 DEF HandlerStep, GetJob, MarkRunning, GetLatest, OpenFile, PrimeRecord,
             ProcessRecord, EndOfFile, SaveCheckpoint, PollCanceled, SaveFinalCheckpoint,
             SaveFileStats, SaveManifest, Complete, RereadCompleted, FailJob
        <5> QED
          BY <5>1 DEF Inv, TypeOK, FaultsTypeOK
      <4> QED
        BY <2>2, <4>1, <4>2
    <3> QED
      BY <1>3, <3>1, <3>2, AdvanceInv
  <2> QED
    BY <1>3, <2>1, <2>2 DEF WorkerFault
<1>4. ASSUME NEW w \in Workers, NEW j \in Jobs, Dequeue(w, j), UNCHANGED req
      PROVE  Inv' /\ Grows
  BY <1>4, DequeueInv
<1>5. ASSUME NEW j \in Jobs, Recover(j), UNCHANGED req
      PROVE  Inv' /\ Grows
  BY <1>5, RecoverInv
<1>6. ASSUME NEW m \in late, LateWrite(m), UNCHANGED req
      PROVE  Inv' /\ Grows
  BY <1>6, LateInv
<1>7. CASE UNCHANGED vars
  <2>1. /\ UNCHANGED <<storeVars, h, late, seen, errs>>
        /\ UNCHANGED <<job, metrics, task, req, faults>>
    BY <1>7 DEF vars, workerVars, storeVars
  <2>2. StoreTypeOK' /\ Grows /\ LedgerInv'
    BY <2>1, SameLedger DEF Inv, TypeOK, WorkerTypeOK
  <2>3. TypeOK'
    BY <2>1, <2>2 DEF Inv, TypeOK, WorkerTypeOK, QueueTypeOK, SubmitTypeOK, FaultsTypeOK
  <2>4. QueueInv' /\ SubmitInv'
    BY <2>1 DEF Inv, QueueInv, SubmitInv, TaskHasRow, Exists
  <2> QED
    BY <2>1, <2>2, <2>3, <2>4, Bystanders DEF Inv
<1>8. CASE ApiNext
  BY <1>1, <1>2, <1>8 DEF ApiNext
<1>9. CASE WorkerNext
  BY <1>3, <1>4, <1>5, <1>6, <1>9 DEF WorkerNext
<1> QED
  BY <1>7, <1>8, <1>9 DEF Next, Rest

LEMMA Invariance == Spec => []Inv
<1>1. Init => Inv
  BY InitInv
<1>2. Inv /\ [Next]_vars => Inv'
  BY NextInv
<1> QED
  BY <1>1, <1>2, PTL DEF Spec

\* Type correctness: every value a handler, a late statement, a submission or
\* the repository holds stays in its type, checkpoints within the file.
THEOREM TypeCorrect == Spec => []TypeOK
<1>1. Inv => TypeOK
  BY DEF Inv
<1> QED
  BY <1>1, Invariance, PTL

\* However attempts of ProcessTask are cut short and retried, no record is
\* skipped by the checkpoint and a completed job has its evidence.
THEOREM ResumeIsComplete == Spec => [](NoLineSkipped /\ CompletionEvidence)
<1>1. Inv => NoLineSkipped /\ CompletionEvidence
  BY DEF Inv, LedgerInv
<1> QED
  BY <1>1, Invariance, PTL

\* A result CompleteReplayJob recorded has the final checkpoint, the manifest
\* and the scan statistics behind it, whichever attempts wrote them.
THEOREM EvidenceComplete == Spec => []CompletionEvidence
BY ResumeIsComplete, PTL

\* A validation error is recorded at most once, also when CompleteReplayJob
\* of an abandoned attempt commits after its retry.
THEOREM ErrorsOnce == Spec => []NoDuplicateErrors
<1>1. Inv => NoDuplicateErrors
  BY DEF Inv, ReportInv
<1> QED
  BY <1>1, Invariance, PTL

\* SubmitReplay writes the row before the task: a task always has its row.
THEOREM RowBeforeTask == Spec => []TaskHasRow
<1>1. Inv => TaskHasRow
  BY DEF Inv, SubmitInv
<1> QED
  BY <1>1, Invariance, PTL

\* GREATEST in UpdateReplayCheckpoint keeps a checkpoint from moving back,
\* whichever attempt writes it and however late.
THEOREM CheckpointGrows == Spec => CheckpointMonotone
<1>1. Inv /\ [Next]_vars => [\A j \in Jobs : job'[j].checkpoint >= job[j].checkpoint]_vars
  <2> SUFFICES ASSUME Inv, [Next]_vars
               PROVE  \A j \in Jobs : job'[j].checkpoint >= job[j].checkpoint
    OBVIOUS
  <2>1. Grows /\ StoreTypeOK /\ StoreTypeOK'
    BY NextInv DEF Inv, TypeOK
  <2> QED
    BY <2>1 DEF Grows, StoreTypeOK, JobRows
<1> QED
  BY <1>1, Invariance, PTL DEF Spec, CheckpointMonotone

-----------------------------------------------------------------------------
(* Idempotency keys *)

\* An answer names a job with the key of the request.
KeyInv ==
    /\ OneJobPerKey
    /\ \A c \in Jobs : req[c].code = 201 =>
          req[c].answer \in Jobs /\ Exists(req[c].answer) /\ Key[req[c].answer] = Key[c]

\* Rows are never deleted, and a row with a key some row has is never added.
RowsStep ==
    /\ \A i \in Jobs : Exists(i) => job'[i].status # "absent"
    /\ \/ \A i \in Jobs : job'[i].status # "absent" => Exists(i)
       \/ \E c \in Jobs : /\ WithKey(Key[c]) = {}
                          /\ \A i \in Jobs \ {c} : job'[i].status # "absent" => Exists(i)

\* An answer is not taken back, and a new one names the job just enqueued or
\* the row found under the key.
AnswerStep ==
    \A c \in Jobs : req'[c].code = 201 =>
        \/ req[c].code = 201 /\ req'[c].answer = req[c].answer
        \/ req'[c].answer = c /\ Exists(c)
        \/ req'[c].answer \in WithKey(Key[c])

LEMMA StoreStep ==
    ASSUME Inv, [Next]_vars
    PROVE  \/ UNCHANGED job
           \/ \E m \in Handlers : m.job \in Jobs /\ Exists(m.job) /\ Write(m)
           \/ \E c \in Jobs : WithKey(Key[c]) = {} /\ InsertReplayJob(c)
           \/ \E j \in Jobs : Exists(j) /\ CancelReplayJob(j)
<1>1. ASSUME NEW w \in Workers, HandlerStep(w) \/ WorkerFault(w)
      PROVE  UNCHANGED job \/ \E m \in Handlers : m.job \in Jobs /\ Exists(m.job) /\ Write(m)
  <2>1. CASE Settle(w) \/ ContextEnds(w) \/ Crash(w) \/ Shutdown(w)
    BY <2>1 DEF Settle, ContextEnds, Crash, Shutdown, storeVars
  <2>2. CASE (HandlerStep(w) \/ CallFails(w)) /\ ~Settle(w)
    <3>1. Advance(w)
      BY <2>2, HandlerAdvances DEF Inv
    <3>2. h[w].job \in Jobs /\ (UNCHANGED storeVars \/ Write(h[w]))
      BY <3>1 DEF Advance, SlotMoves
    <3>3. h[w] \in Handlers /\ Exists(h[w].job)
      BY <3>2 DEF Inv, TypeOK, WorkerTypeOK, QueueInv, SubmitInv, TaskHasRow
    <3> QED
      BY <3>2, <3>3 DEF storeVars
  <2> QED
    BY <1>1, <2>1, <2>2 DEF WorkerFault
<1>2. ASSUME NEW m \in late, LateWrite(m)
      PROVE  m \in Handlers /\ m.job \in Jobs /\ Exists(m.job) /\ Write(m)
  <2>1. m \in Handlers /\ m.job # NoJob /\ task[m.job].state # "none"
    BY <1>2 DEF Inv, TypeOK, WorkerTypeOK, QueueInv, SubmitInv
  <2>2. m.job \in Jobs
    BY <2>1 DEF Handlers
  <2> QED
    BY <1>2, <2>1, <2>2 DEF Inv, SubmitInv, TaskHasRow, LateWrite
<1>3. ASSUME NEW c \in Jobs, SubmitStep(c) \/ SubmitFault(c)
      PROVE  UNCHANGED job \/ (WithKey(Key[c]) = {} /\ InsertReplayJob(c))
  BY <1>3 DEF SubmitStep, SubmitFault, Submit, LookupKey, Insert, RereadExisting,
     ReturnExisting, Enqueue, EnqueueFails, SubmitCallFails, ApiCrash, storeVars
<1>4. CASE UNCHANGED vars
  BY <1>4 DEF vars, storeVars
<1>5. CASE ApiNext
  BY <1>3, <1>5 DEF ApiNext, Cancel
<1>6. CASE WorkerNext
  <2>1. ASSUME NEW w \in Workers, NEW j \in Jobs, Dequeue(w, j)
        PROVE  UNCHANGED job
    BY <2>1 DEF Dequeue, storeVars
  <2>2. ASSUME NEW j \in Jobs, Recover(j)
        PROVE  UNCHANGED job
    BY <2>2 DEF Recover, storeVars
  <2> QED
    BY <1>1, <1>2, <1>6, <2>1, <2>2 DEF WorkerNext
<1> QED
  BY <1>4, <1>5, <1>6 DEF Next, Rest

LEMMA RowsKept ==
    ASSUME Inv, [Next]_vars
    PROVE  RowsStep
<1>1. job \in [Jobs -> JobRows] /\ StoreTypeOK
  BY DEF Inv, TypeOK, StoreTypeOK
<1>2. CASE UNCHANGED job
  BY <1>2 DEF RowsStep, Exists
<1>3. ASSUME NEW m \in Handlers, m.job \in Jobs, Exists(m.job), Write(m)
      PROVE  RowsStep
  BY <1>1, <1>3, WriteFrame DEF RowsStep, Exists
<1>4. ASSUME NEW c \in Jobs, WithKey(Key[c]) = {}, InsertReplayJob(c)
      PROVE  RowsStep
  <2>1. /\ \A i \in Jobs \ {c} : job'[i] = job[i]
        /\ job'[c].status = "queued"
    BY <1>1, <1>4 DEF InsertReplayJob, NoRow
  <2> QED
    BY <1>4, <2>1 DEF RowsStep, Exists
<1>5. ASSUME NEW j \in Jobs, CancelReplayJob(j), Exists(j)
      PROVE  RowsStep
  <2>1. /\ \A i \in Jobs \ {j} : job'[i] = job[i]
        /\ job'[j].status = "canceled"
    BY <1>1, <1>5 DEF CancelReplayJob, UpdateReplayJobStatus, JobRows
  <2> QED
    BY <1>5, <2>1 DEF RowsStep, Exists
<1> QED
  BY <1>2, <1>3, <1>4, <1>5, StoreStep

LEMMA AnswersKept ==
    ASSUME Inv, [Next]_vars
    PROVE  AnswerStep
<1>0. req \in [Jobs -> Requests]
  BY DEF Inv, TypeOK, SubmitTypeOK
<1>1. CASE UNCHANGED req
  BY <1>1 DEF AnswerStep
<1>2. ASSUME NEW c \in Jobs, SubmitStep(c) \/ SubmitFault(c)
      PROVE  AnswerStep
  <2>1. ASSUME NEW pc, Move(c, pc)
        PROVE  AnswerStep
    <3>1. \A d \in Jobs : req'[d].code = req[d].code /\ req'[d].answer = req[d].answer
      BY <1>0, <2>1 DEF Move, Requests
    <3> QED
      BY <3>1 DEF AnswerStep
  <2>2. ASSUME NEW code, NEW j, Answer(c, code, j),
               code = 201 => (j = c /\ Exists(c)) \/ j \in WithKey(Key[c])
        PROVE  AnswerStep
    <3>1. /\ \A d \in Jobs \ {c} : req'[d] = req[d]
          /\ req'[c].code = code /\ req'[c].answer = j
      BY <1>0, <2>2 DEF Answer
    <3> QED
      BY <2>2, <3>1 DEF AnswerStep
  <2>3. CASE Enqueue(c)
    <3>1. Exists(c)
      BY <2>3 DEF Enqueue, At, Inv, SubmitInv
    <3> QED
      BY <2>2, <2>3, <3>1 DEF Enqueue, Accept
  <2>4. CASE ReturnExisting(c)
    BY <2>2, <2>4 DEF ReturnExisting, Accept
  <2>5. CASE EnqueueFails(c) \/ SubmitCallFails(c)
    BY <2>2, <2>5 DEF EnqueueFails, SubmitCallFails, Reject
  <2>6. CASE Submit(c) \/ LookupKey(c) \/ Insert(c) \/ RereadExisting(c) \/ ApiCrash(c)
    BY <2>1, <2>6 DEF Submit, LookupKey, Insert, RereadExisting, ApiCrash
  <2> QED
    BY <1>2, <2>3, <2>4, <2>5, <2>6 DEF SubmitStep, SubmitFault
<1> QED
  BY <1>1, <1>2 DEF Next, ApiNext, WorkerNext, Rest, Cancel, vars

LEMMA KeyStep ==
    ASSUME Inv, KeyInv, [Next]_vars
    PROVE  KeyInv'
<1>1. RowsStep /\ AnswerStep
  BY RowsKept, AnswersKept
<1>2. OneJobPerKey'
  BY <1>1 DEF RowsStep, KeyInv, OneJobPerKey, WithKey, Exists
<1>3. ASSUME NEW c \in Jobs, req'[c].code = 201
      PROVE  /\ req'[c].answer \in Jobs /\ job'[req'[c].answer].status # "absent"
             /\ Key[req'[c].answer] = Key[c]
  BY <1>1, <1>3 DEF RowsStep, AnswerStep, KeyInv, WithKey
<1> QED
  BY <1>2, <1>3 DEF KeyInv, Exists

\* An idempotency key has one row, and all submissions that carry it and are
\* answered with a job are answered with that one, however they race in
\* CreateReplayJob and whatever fails.
THEOREM IdempotentSubmit == Spec => [](OneJobPerKey /\ SameKeySameJob)
<1>1. Init => KeyInv
  BY DEF Init, StoreInit, SubmitInit, KeyInv, OneJobPerKey, Exists, NoRow
<1>2. Inv /\ KeyInv /\ [Next]_vars => KeyInv'
  BY KeyStep
<1>3. KeyInv => OneJobPerKey /\ SameKeySameJob
  BY DEF KeyInv, OneJobPerKey, SameKeySameJob
<1> QED
  BY <1>1, <1>2, <1>3, Invariance, PTL DEF Spec

\* The lookup, the INSERT and the unique index of CreateReplayJob let an
\* idempotency key have one row.
THEOREM OneRowPerKey == Spec => []OneJobPerKey
BY IdempotentSubmit, PTL
-----------------------------------------------------------------------------
(* Cancellation *)

\* What a step may do to a job that is stopped: keep its row canceled, put a
\* handler before its first read or after its return, and abandon no write.
LEMMA StoppedFrame ==
    ASSUME NEW j \in Jobs, Stopped(j), job'[j].status = "canceled",
           \A w \in Workers : h'[w].job = j =>
               h'[w].pc \in {"get", "ack"} \/ h'[w] = h[w],
           \A m \in late' : m \in late \/ m.job # j
    PROVE  Stopped(j)'
BY DEF Stopped, On

LEMMA StoppedHandler ==
    ASSUME Inv, NEW j \in Jobs, Stopped(j), NEW w \in Workers,
           HandlerStep(w) \/ CallFails(w), ~Settle(w)
    PROVE  Stopped(j)'
<1>1. Advance(w) /\ WorkerTypeOK /\ StoreTypeOK
  BY HandlerAdvances DEF Inv, TypeOK
<1>2. /\ h[w].job \in Jobs /\ h[w] \in Handlers /\ h'[w].job = h[w].job
      /\ \A v \in Workers \ {w} : h'[v] = h[v]
      /\ late' = late
      /\ UNCHANGED storeVars \/ Write(h[w])
  BY <1>1 DEF Advance, SlotMoves, WorkerTypeOK
<1>3. CASE h[w].job # j
  <2>1. job'[j] = job[j]
    BY <1>1, <1>2, <1>3, WriteFrame DEF storeVars
  <2> QED
    BY <1>2, <1>3, <2>1, StoppedFrame DEF Stopped
<1>4. CASE h[w].job = j
  <2>1. h[w].pc \in {"get", "ack"} /\ job[j].status = "canceled"
    BY <1>4 DEF Stopped, On
  <2>2. CASE GetJob(w)
    <3>1. Return(w, "done") /\ UNCHANGED job
      BY <1>4, <2>1, <2>2 DEF GetJob, storeVars
    <3>2. h'[w].pc = "ack"
      BY <1>1, <3>1, ReturnType
    <3> QED
      BY <1>2, <2>1, <3>1, <3>2, StoppedFrame
  <2>3. CASE CallFails(w)
    <3>1. h[w].pc = "get"
      BY <2>1, <2>3 DEF CallFails, WritePcs, ReadPcs
    <3>2. Return(w, "skip") /\ UNCHANGED job
      BY <2>3, <3>1 DEF CallFails, Write, storeVars
    <3>3. h'[w].pc = "ack"
      BY <1>1, <3>2, ReturnType
    <3> QED
      BY <1>2, <2>1, <3>2, <3>3, StoppedFrame
  <2> QED
    BY <2>1, <2>2, <2>3 DEF HandlerStep, MarkRunning, GetLatest, OpenFile, PrimeRecord,
       ProcessRecord, EndOfFile, SaveCheckpoint, PollCanceled, SaveFinalCheckpoint,
       SaveFileStats, SaveManifest, Complete, RereadCompleted, FailJob
<1> QED
  BY <1>3, <1>4

LEMMA StoppedWorker ==
    ASSUME Inv, NEW j \in Jobs, Stopped(j), WorkerNext
    PROVE  Stopped(j)'
<1>0. WorkerTypeOK /\ StoreTypeOK /\ job[j].status = "canceled"
  BY DEF Inv, TypeOK, Stopped
<1>1. ASSUME NEW w \in Workers, HandlerStep(w) \/ WorkerFault(w)
      PROVE  Stopped(j)'
  <2>1. CASE Settle(w) \/ ContextEnds(w) \/ Crash(w) \/ Shutdown(w)
    <3>1. /\ h' = [h EXCEPT ![w] = Idle] /\ UNCHANGED job
          /\ late' = late \/ (h[w].pc \in WritePcs /\ late' = late \cup {h[w]})
      BY <2>1 DEF Settle, ContextEnds, Crash, Shutdown, Abandon, storeVars
    <3>2. /\ h'[w].job # j
          /\ \A v \in Workers \ {w} : h'[v] = h[v]
      BY <1>0, <3>1, NoJobAssumption DEF WorkerTypeOK, Idle
    <3>3. h[w].pc \in WritePcs => h[w].job # j
      BY DEF Stopped, On, WritePcs
    <3> QED
      BY <1>0, <3>1, <3>2, <3>3, StoppedFrame
  <2> QED
    BY <1>1, <2>1, StoppedHandler DEF WorkerFault
<1>2. ASSUME NEW w \in Workers, NEW i \in Jobs, Dequeue(w, i)
      PROVE  Stopped(j)'
  <2>1. /\ \A v \in Workers \ {w} : h'[v] = h[v]
        /\ h'[w].pc = "get" /\ UNCHANGED <<job, late>>
    BY <1>0, <1>2 DEF Dequeue, WorkerTypeOK, Idle, storeVars
  <2> QED
    BY <1>0, <2>1, StoppedFrame
<1>3. ASSUME NEW i \in Jobs, Recover(i)
      PROVE  Stopped(j)'
  BY <1>0, <1>3, StoppedFrame DEF Recover, storeVars, workerVars
<1>4. ASSUME NEW m \in late, LateWrite(m)
      PROVE  Stopped(j)'
  <2>1. m \in Handlers /\ m.job \in Jobs \ {j} /\ Write(m)
    BY <1>0, <1>4 DEF LateWrite, Inv, QueueInv, WorkerTypeOK, Handlers, Stopped
  <2>2. job'[j] = job[j]
    BY <1>0, <2>1, WriteFrame
  <2> QED
    BY <1>0, <1>4, <2>2, StoppedFrame DEF LateWrite
<1> QED
  BY <1>1, <1>2, <1>3, <1>4 DEF WorkerNext

LEMMA StoppedApi ==
    ASSUME Inv, NEW j \in Jobs, Stopped(j), ApiNext
    PROVE  Stopped(j)'
<1>0. job \in [Jobs -> JobRows] /\ job[j].status = "canceled"
  BY DEF Inv, TypeOK, StoreTypeOK, Stopped
<1>1. ASSUME NEW c \in Jobs, SubmitStep(c) \/ SubmitFault(c)
      PROVE  UNCHANGED job \/ (At(c, "insert") /\ InsertReplayJob(c))
  BY <1>1 DEF SubmitStep, SubmitFault, Submit, LookupKey, Insert, RereadExisting,
     ReturnExisting, Enqueue, EnqueueFails, SubmitCallFails, ApiCrash, storeVars
<1>2. ASSUME NEW c \in Jobs, At(c, "insert"), InsertReplayJob(c)
      PROVE  job'[j] = job[j]
  <2>1. c # j
    BY <1>0, <1>2 DEF Inv, SubmitInv, At, NoRow
  <2> QED
    BY <1>0, <1>2, <2>1 DEF InsertReplayJob
<1>3. ASSUME NEW i \in Jobs, Cancel(i)
      PROVE  job'[j].status = "canceled"
  BY <1>0, <1>3 DEF Cancel, CancelReplayJob, UpdateReplayJobStatus, JobRows
<1>4. job'[j].status = "canceled"
  BY <1>0, <1>1, <1>2, <1>3 DEF ApiNext
<1> QED
  BY <1>4, StoppedFrame DEF ApiNext, workerVars

\* A job canceled before a handler has begun to run it is never run, and its
\* row stays canceled, through every redelivery, crash and failing call.
THEOREM CancelHolds == Spec => CanceledStaysCanceled
<1>1. Inv /\ [Next]_vars => [\A j \in Jobs : Stopped(j) => Stopped(j)']_vars
  <2> SUFFICES ASSUME Inv, [Next]_vars, NEW j \in Jobs, Stopped(j)
               PROVE  Stopped(j)'
    OBVIOUS
  <2>1. CASE UNCHANGED vars
    BY <2>1 DEF vars, storeVars, workerVars, Stopped, On
  <2> QED
    BY <2>1, StoppedApi, StoppedWorker DEF Next, Rest
<1> QED
  BY <1>1, Invariance, PTL DEF Spec, CanceledStaysCanceled
=============================================================================
