CONSTANTS
    j1 = j1
    j2 = j2
    j3 = j3
    Jobs = {j1, j2, j3}
    NoJob = NoJob
    Key <- PairAndLone
    NoKey = "none"
    FirstLine = 1
    LastLine = 1
    BadLines = {1}
    CheckpointEvery = 1
    MaxRetry = 1
    Workers = {"w1"}
    LateWrites = FALSE
    MaxFaults <- SubmitFaults
SPECIFICATION Spec
INVARIANTS TypeOK OneJobPerKey SameKeySameJob TaskHasRow
