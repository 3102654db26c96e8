CONSTANTS
    Symbols = {"BTC"}
    OptSymbol = "any"
    AnySymbol = "any"
    Rows <- AcceptedRows
    MaxLines = 3
SPECIFICATION Spec
INVARIANTS PrimedStateMatches
CHECK_DEADLOCK FALSE
