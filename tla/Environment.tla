---------------------------- MODULE Environment -----------------------------
(***************************************************************************)
(* The submissions the system receives, and what may happen around the     *)
(* repository and the queue: a budget of each kind of fault and of         *)
(* operator action.                                                        *)
(*   crash     a worker process dies            shutdown  a worker is told *)
(*   timeout   a task's context ends                      to stop          *)
(*   db        a repository call returns an error         (task requeued)  *)
(*   redis     an enqueue returns an error      api       the API dies     *)
(*   cancel    POST /replay-jobs/{id}/cancel                               *)
(***************************************************************************)
EXTENDS Naturals

FaultKinds == {"crash", "shutdown", "timeout", "db", "redis", "api", "cancel"}

CONSTANTS
    Jobs,        \* the submissions; a job id is the submission that made the job
    NoJob,       \* no job: what an idle handler works on, an answer without one
    MaxFaults    \* bound: how often each kind may happen

ASSUME MaxFaultsAssumption == MaxFaults \in [FaultKinds -> Nat]

ASSUME NoJobAssumption == NoJob \notin Jobs

VARIABLE faults      \* how often each kind has happened

FaultsInit == faults = [k \in FaultKinds |-> 0]
FaultsTypeOK == faults \in [FaultKinds -> Nat]

Spend(kind) ==
    /\ faults[kind] < MaxFaults[kind]
    /\ faults' = [faults EXCEPT ![kind] = @ + 1]
=============================================================================
