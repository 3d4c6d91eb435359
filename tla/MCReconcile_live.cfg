SPECIFICATION FairSpec
CONSTANTS
    None = None
    Run = {e1, e2}
    Location = {here}
    Reconciler = {r1}
    FinishTicks = 1
    DropTicks = 2
    Faults = {"call", "unread", "overrun"}
PROPERTIES
    EveryRunSettled
