CONSTANTS
    Symbols = {"a", "b"}
    OptSymbol = "a"
    AnySymbol = "any"
    Absent = Absent
    Sources <- AllSources
    Targets = {6}
SPECIFICATION Spec
INVARIANTS ExpandedStaysClean PacedByRecording
CHECK_DEADLOCK FALSE
