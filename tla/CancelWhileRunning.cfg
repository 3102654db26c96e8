CONSTANTS
    j1 = j1
    j2 = j2
    j3 = j3
    Jobs = {j1}
    NoJob = NoJob
    Key <- SameKey
    NoKey = "none"
    FirstLine = 1
    LastLine = 2
    BadLines = {1}
    CheckpointEvery = 2
    MaxRetry = 3
    Workers = {"w1"}
    LateWrites = FALSE
    MaxFaults <- OneCancel
SPECIFICATION FairSpec
PROPERTIES NoMetricForCanceled
