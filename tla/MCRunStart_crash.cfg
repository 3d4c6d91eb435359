SPECIFICATION Spec
CONSTANTS
    patch = patch
    other = other
    here = here
    there = there
    None = None
    Plan = {patch, other}
    Rollback = {other}
    Location = {here, there}
    Scope <- MCScopeOne
    Attempt = {a1, a2, a3}
    LockSeconds = 1
    Faults = {"crash", "lost reply", "report"}
SYMMETRY Symmetry
INVARIANTS
    NoReportedOverlap
PROPERTIES
    ImplementsRunLife
CHECK_DEADLOCK FALSE
