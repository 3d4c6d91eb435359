SPECIFICATION Spec
CONSTANTS
    Plans = {"p"}
    Executions = {"e1"}
    Locations = {"here"}
    Scopes = {"all"}
    PlanOf <- MCPlanOf
    LocationsOf <- MCLocationsOf
    Stage <- MCStage
    Scope <- MCScope
    Alarms = {"cpu"}
    Evaluation <- MCEvaluation
    MinSettle = 1
    Margin = 0
    MaxSettle = 2
    MaxAge = 2
    Shown = 5
    MaxClock = 3
    Faults = {"places"}
INVARIANT UnreadNeverRollsBack
CHECK_DEADLOCK FALSE
