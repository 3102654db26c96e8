----------------------------- MODULE ReplayOnce -----------------------------
(***************************************************************************)
(* What the control plane promises of a replay job, whoever runs it, how   *)
(* often, and whatever fails: no attempts, no queue, no handlers.          *)
(*                                                                         *)
(*   - an idempotency key is accepted for one job;                         *)
(*   - the records of the file are judged in order, none is left out, and  *)
(*     progress is recorded only over judged records, never taken back;    *)
(*   - a result is recorded only when the whole file has been judged, and  *)
(*     every validation error enters the record at most once.              *)
(***************************************************************************)
EXTENDS Integers

CONSTANTS Jobs, Key, NoKey, FirstLine, LastLine, BadLines

VARIABLES
    accepted,   \* the jobs that exist
    judged,     \* judged[j]: the lines that have been validated for job j
    progress,   \* progress[j]: the line up to which j need not be read again
    reported,   \* reported[j]: the lines with a validation error on record
    results     \* results[j]: how many results were recorded

onceVars == <<accepted, judged, progress, reported, results>>

\* The progress of a job that has read its whole file.
AtEnd == IF LastLine < FirstLine THEN 0 ELSE LastLine

Init ==
    /\ accepted = {}
    /\ judged = [j \in Jobs |-> {}]
    /\ progress = [j \in Jobs |-> 0]
    /\ reported = [j \in Jobs |-> {}]
    /\ results = [j \in Jobs |-> 0]

Accept(j) ==
    /\ j \notin accepted
    /\ \A i \in accepted : Key[i] = Key[j] => Key[j] = NoKey
    /\ accepted' = accepted \cup {j}
    /\ UNCHANGED <<judged, progress, reported, results>>

Judge(j, l) ==
    /\ j \in accepted
    /\ FirstLine .. (l - 1) \subseteq judged[j]
    /\ judged' = [judged EXCEPT ![j] = @ \cup {l}]
    /\ UNCHANGED <<accepted, progress, reported, results>>

Advance(j, n) ==
    /\ j \in accepted
    /\ n > progress[j]
    /\ FirstLine .. n \subseteq judged[j]
    /\ progress' = [progress EXCEPT ![j] = n]
    /\ UNCHANGED <<accepted, judged, reported, results>>

Report(j, errors) ==
    /\ j \in accepted
    /\ progress[j] = AtEnd
    /\ errors \subseteq judged[j]
    /\ errors \cap reported[j] = {}
    /\ reported' = [reported EXCEPT ![j] = @ \cup errors]
    /\ results' = [results EXCEPT ![j] = @ + 1]
    /\ UNCHANGED <<accepted, judged, progress>>

Next ==
    \E j \in Jobs :
        \/ Accept(j)
        \/ \E l \in FirstLine .. LastLine : Judge(j, l)
        \/ \E n \in 1 .. LastLine : Advance(j, n)
        \/ \E errors \in SUBSET BadLines : Report(j, errors)

Spec == Init /\ [][Next]_onceVars
=============================================================================
