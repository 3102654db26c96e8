CONSTANTS
    Symbols = {"s"}
    AnySymbol = "any"
    OptSymbol = "any"
    Files <- SmallFiles
    ForeignRows <- SmallForeign
    MaxTrouble = 3
SPECIFICATION Spec
INVARIANTS NothingLost SequenceVerdicts NoFalseAlarm
CHECK_DEADLOCK FALSE
