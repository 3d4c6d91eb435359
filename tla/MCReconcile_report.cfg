SPECIFICATION Spec
CONSTANTS
    None = None
    Run = {e1}
    Location = {here, there}
    Reconciler = {r1, r2}
    FinishTicks = 2
    DropTicks = 4
    Faults = {"call", "drop", "head", "unread", "children", "die", "overrun"}
SYMMETRY Symmetry
INVARIANTS
    TypeOK
    ReportTellsAll
    NoReportLost
PROPERTIES
    ReportStands
