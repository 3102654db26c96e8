CONSTANTS
    Symbols = {"BTC", "ETH"}
    OptSymbol = "any"
    AnySymbol = "any"
    Rows <- PositiveRows
    MaxLines = 4
SPECIFICATION Spec
INVARIANTS TypeOK PrimedStateMatches AttemptsPartition
CHECK_DEADLOCK FALSE
