CONSTANTS
    Symbols = {"a", "b"}
    OptSymbol = "any"
    AnySymbol = "any"
    Absent = Absent
    Sources <- JsonlTrades
    Targets = {6}
SPECIFICATION Spec
INVARIANTS ValidStaysValid
CHECK_DEADLOCK FALSE
