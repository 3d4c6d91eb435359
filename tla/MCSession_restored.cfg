SPECIFICATION Spec
CONSTANTS
    Users = {"o", "p"}
    Operators = {"o", "p"}
    Sessions = {"s"}
    Nobody = "nobody"
    Actor <- MCActor
    ReadLimit = 2
    MaxTurns = 3
INVARIANTS
    HistoryIsRestored
CHECK_DEADLOCK FALSE
