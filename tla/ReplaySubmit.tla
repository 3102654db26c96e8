---------------------------- MODULE ReplaySubmit ----------------------------
(***************************************************************************)
(* POST /replay-jobs with Redis configured: ReplayEnqueuer.SubmitReplay,   *)
(* with the steps of PostgresRepository.CreateReplayJob inside it.  Each   *)
(* submission stands before the call its pc names:                         *)
(*   lookup    GetReplayJobByIdempotencyKey of CreateReplayJob             *)
(*   insert    the INSERT                                                  *)
(*   reread    GetReplayJobByIdempotencyKey after a unique violation       *)
(*   existing  GetReplayJobByIdempotencyKey of SubmitReplay                *)
(*   enqueue   EnqueueContext                                              *)
(* The API answers 201 with the job whether it was created now or not, and *)
(* 500 on any error; a submission whose API process dies gets no answer.   *)
(***************************************************************************)
EXTENDS JobStore, TaskQueue

VARIABLE req      \* req[c]: pc and answer of submission c

SubmitPcs == {"lookup", "insert", "reread", "existing", "enqueue"}
Requests == [pc : SubmitPcs \cup {"new", "answered", "lost"},
             code : {0, 201, 500},       \* HTTP status of the answer
             answer : Jobs \cup {NoJob}]

SubmitInit == req = [c \in Jobs |-> [pc |-> "new", code |-> 0, answer |-> NoJob]]
SubmitTypeOK == req \in [Jobs -> Requests]

At(c, pc) == req[c].pc = pc
Move(c, pc) == req' = [req EXCEPT ![c].pc = pc]
Answer(c, code, j) ==
    req' = [req EXCEPT ![c] = [pc |-> "answered", code |-> code, answer |-> j]]

\* createReplayJob: SubmitReplay never returns ErrAlreadyExists, and the dataset
\* and file of these requests exist, so the answer is 201 with a job or, when a
\* call fails, 500.  writeStoreError's other answers are in Metadata.
Accept(c, j) == Answer(c, 201, j)
Reject(c) == Answer(c, 500, NoJob)

\* createReplayJob hands the request to SubmitReplay; an empty key is not
\* looked up.
Submit(c) ==
    /\ At(c, "new")
    /\ Move(c, IF Key[c] = NoKey THEN "insert" ELSE "lookup")
    /\ UNCHANGED <<storeVars, task, faults>>

LookupKey(c) ==
    /\ At(c, "lookup")
    /\ Move(c, IF WithKey(Key[c]) = {} THEN "insert" ELSE "existing")
    /\ UNCHANGED <<storeVars, task, faults>>

\* Mutant: an INSERT that no unique index on idempotency_key stops.
InsertAlways(c) ==
    /\ At(c, "insert")
    /\ InsertReplayJob(c)
    /\ Move(c, "enqueue")
    /\ UNCHANGED <<task, faults>>

\* The INSERT; the unique index refuses a key another row has.
Insert(c) ==
    /\ At(c, "insert")
    /\ IF WithKey(Key[c]) = {}
       THEN InsertReplayJob(c) /\ Move(c, "enqueue")
       ELSE Move(c, "reread") /\ UNCHANGED storeVars
    /\ UNCHANGED <<task, faults>>

\* isUniqueViolation: CreateReplayJob reads the winner and reports it.
RereadExisting(c) ==
    /\ At(c, "reread")
    /\ Move(c, "existing")
    /\ UNCHANGED <<storeVars, task, faults>>

\* Mutant: a submission that finds its key taken answers with its own id.
ReturnOwn(c) ==
    /\ At(c, "existing")
    /\ Accept(c, c)
    /\ UNCHANGED <<storeVars, task, faults>>

\* SubmitReplay answers ErrAlreadyExists with the existing job; it does not
\* look at the queue.
ReturnExisting(c) ==
    /\ At(c, "existing")
    /\ \E j \in WithKey(Key[c]) : Accept(c, j)
    /\ UNCHANGED <<storeVars, task, faults>>

\* ErrDuplicateTask and ErrTaskIDConflict count as success.
Enqueue(c) ==
    /\ At(c, "enqueue")
    /\ EnqueueContext(c)
    /\ Accept(c, c)
    /\ UNCHANGED <<storeVars, faults>>

\* The enqueue reports an error, with or without the task in Redis.
EnqueueFails(c) ==
    /\ At(c, "enqueue")
    /\ Spend("redis")
    /\ EnqueueContext(c) \/ UNCHANGED task
    /\ Reject(c)
    /\ UNCHANGED storeVars

\* Mutant: the error of the INSERT is ignored.
SubmitIgnoresError(c) ==
    /\ At(c, "insert")
    /\ Spend("db")
    /\ Move(c, "enqueue")
    /\ UNCHANGED <<storeVars, task>>

\* A repository call of the submission reports an error; the INSERT may have
\* been applied.
SubmitCallFails(c) ==
    /\ req[c].pc \in SubmitPcs \ {"enqueue"}
    /\ Spend("db")
    /\ \/ UNCHANGED storeVars
       \/ At(c, "insert") /\ WithKey(Key[c]) = {} /\ InsertReplayJob(c)
    /\ Reject(c)
    /\ UNCHANGED task

\* The API process dies in the middle of a submission.
ApiCrash(c) ==
    /\ req[c].pc \in SubmitPcs
    /\ Spend("api")
    /\ Move(c, "lost")
    /\ UNCHANGED <<storeVars, task>>

\* POST /replay-jobs/{id}/cancel for a job the API can name.
Cancel(j) ==
    /\ Exists(j)
    /\ Spend("cancel")
    /\ CancelReplayJob(j)
    /\ UNCHANGED <<task, req>>

SubmitStep(c) ==
    Submit(c) \/ LookupKey(c) \/ Insert(c) \/ RereadExisting(c)
        \/ ReturnExisting(c) \/ Enqueue(c)

SubmitFault(c) == EnqueueFails(c) \/ SubmitCallFails(c) \/ ApiCrash(c)
=============================================================================
