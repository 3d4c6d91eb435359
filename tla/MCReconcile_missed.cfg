SPECIFICATION Spec
CONSTANTS
    None = None
    Run = {e1}
    Location = {here, there}
    Reconciler = {r1}
    FinishTicks = 2
    DropTicks = 4
    Faults = {"children"}
INVARIANTS
    ReportIsMarked
