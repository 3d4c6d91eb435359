SPECIFICATION Spec
CONSTANTS
    Things = {"i", "j"}
    Home <- MCHome
    Hub = "l1"
    ReadMax = 2
INVARIANT UnresolvedIsTold
CHECK_DEADLOCK FALSE
