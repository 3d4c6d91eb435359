SPECIFICATION Operations
CONSTANTS
    Plans = {"p1", "p2"}
    Executions = {"e1", "e2", "e3"}
    Conversations = {"c1", "c2"}
    Stops = {"r1"}
    PlanOf <- MCPlanOf
    Conversation <- MCConversation
    Faults = {"record", "list", "read", "stop"}
INVARIANTS
    TypesOK
    StopAnswersAll
    StopReachesOwn
    ProceedIsClean
    RollbackIsForFailure
    PassedStageIsVerified
    StartedAtHome
    ListIsComplete
    WholeRunUndone
    ConfirmedCameOff
    ScheduleMeetsSla
    FixIsInEffect
    FiguresTellAll
    DashboardCounts
    ConversationIsOwners
    AnswerIsWhole
PROPERTIES
    StartedInScope
    NoRunVanishes
    PlannedForLastRun
CHECK_DEADLOCK FALSE
