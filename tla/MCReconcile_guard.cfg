SPECIFICATION Spec
CONSTANTS
    None = None
    Run = {e1}
    Location = {here, there}
    Reconciler = {r1, r2}
    FinishTicks = 2
    DropTicks = 4
    Faults = {"call", "unread"}
SYMMETRY Symmetry
PROPERTIES
    ImplementsRunLife
