CONSTANTS
    Clients = {c1, c2}
    Keys = {"k"}
    NoKey = "none"
    Failures <- FailureLists
    LastLine = 3
    DayLength = 2
    MaxDatasets = 2
    MaxFiles = 1
    MaxCalls = 4
SPECIFICATION Spec
SYMMETRY ClientSymmetry
INVARIANTS RepositoriesAgree AnswersAgree ReportSound SummaryExact
CHECK_DEADLOCK FALSE
