SPECIFICATION Spec
CONSTANTS
    Plans = {"p", "q"}
    Executions = {"e1", "e2", "f"}
    PlanOf <- MCPlanOf
    Share <- MCShare
    ByEnvironment = {"q"}
    Account <- MCAccount
    Before = 0
    After = 0
    MaxRun = 1
    Lookback = 0
    CommandsFinish = 1
    MaxClock = 1
    Faults = {"pending"}
INVARIANTS
    TypeOK
    WholeRunUndone
PROPERTY PlannedForLastRun
CHECK_DEADLOCK FALSE
