------------------------------ MODULE Reports -------------------------------
(***************************************************************************)
(* The builders of internal/store/reports.go, as operators on what a       *)
(* repository answers:                                                     *)
(*   files[d]   ListEventFiles      jobs       ListReplayJobs              *)
(*   metrics[j] ListReplayMetrics   errors[j]  ListValidationErrors        *)
(* The orders in which the builders sort their rows are left out: a report *)
(* is a set or a function of its rows.                                     *)
(***************************************************************************)
EXTENDS Integers, Sequences, FiniteSets, FiniteSetsExt

CONSTANT DayLength   \* how many times make a day

Day(at) == at \div DayLength

\* f with the entry of k set to v, whether or not it had one.
Put(f, k, v) == [x \in DOMAIN f \cup {k} |-> IF x = k THEN v ELSE f[x]]

validationErrorTypes(errs) == {e.type : e \in errs} \ {""}

\* Per file of dataset d, the jobs of d that replay it.
BuildDatasetLineage(repo, d) ==
    [f \in repo.files[d] |->
        {[job |-> j, metricCount |-> Cardinality(repo.metrics[j]),
          errorCount |-> Cardinality(repo.errors[j]),
          errorTypes |-> validationErrorTypes(repo.errors[j])] :
         j \in {i \in DOMAIN repo.jobs :
                    repo.jobs[i].dataset = d /\ repo.jobs[i].file = f}}]

\* One error added to the summary of its type, symbol and day.
AddError(sums, e) ==
    LET k == <<e.type, e.symbol, Day(e.at)>>
        s == IF k \in DOMAIN sums THEN sums[k]
             ELSE [count |-> 0, firstLine |-> e.line, lastLine |-> e.line,
                   firstSeen |-> e.at, lastSeen |-> e.at]
    IN  Put(sums, k,
            [count     |-> s.count + 1,
             firstLine |-> IF e.line < s.firstLine \/ s.firstLine = 0
                           THEN e.line ELSE s.firstLine,
             lastLine  |-> IF e.line > s.lastLine THEN e.line ELSE s.lastLine,
             firstSeen |-> IF e.at < s.firstSeen THEN e.at ELSE s.firstSeen,
             lastSeen  |-> IF e.at > s.lastSeen THEN e.at ELSE s.lastSeen])

summarizeValidationErrors(errs) ==
    FoldSet(LAMBDA e, sums : AddError(sums, e), <<>>, errs)

\* Mutant: the later of two jobs' summaries counts once.
MergeItemOnce(sums, k, item) ==
    IF k \notin DOMAIN sums THEN Put(sums, k, item)
    ELSE Put(sums, k, [sums[k] EXCEPT !.count = @ + 1])

\* A job's summary item merged into the one of the same key, if there is one.
MergeItem(sums, k, item) ==
    IF k \notin DOMAIN sums THEN Put(sums, k, item)
    ELSE LET s == sums[k] IN
         Put(sums, k,
             [count     |-> s.count + item.count,
              firstLine |-> IF item.firstLine < s.firstLine \/ s.firstLine = 0
                            THEN item.firstLine ELSE s.firstLine,
              lastLine  |-> IF item.lastLine > s.lastLine THEN item.lastLine ELSE s.lastLine,
              firstSeen |-> IF item.firstSeen < s.firstSeen THEN item.firstSeen ELSE s.firstSeen,
              lastSeen  |-> IF item.lastSeen > s.lastSeen THEN item.lastSeen ELSE s.lastSeen])

\* The items of a job on file f, under their type, symbol, day and file.
MergeItems(sums, items, f) ==
    FoldSet(LAMBDA k, s : MergeItem(s, <<k[1], k[2], k[3], f>>, items[k]), sums, DOMAIN items)

\* Over all jobs.
BuildValidationErrorSummary(repo) ==
    FoldSet(LAMBDA j, sums : MergeItems(sums, summarizeValidationErrors(repo.errors[j]),
                                        repo.jobs[j].file),
            <<>>, DOMAIN repo.jobs)
=============================================================================
