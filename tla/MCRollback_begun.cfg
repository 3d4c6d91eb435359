SPECIFICATION Spec
CONSTANTS
    Plans = {"p", "q"}
    Executions = {"e1", "e2", "f"}
    PlanOf <- MCPlanOf
    Share <- MCShare
    ByEnvironment = {"q"}
    Account <- MCAccount
    Before = 1
    After = 1
    MaxRun = 1
    Lookback = 1
    CommandsFinish = 2
    MaxClock = 3
    Faults = {}
PROPERTY PlansForLastBegun
CHECK_DEADLOCK FALSE
