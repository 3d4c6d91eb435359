SPECIFICATION Spec
CONSTANTS
    patch = patch
    other = other
    here = here
    there = there
    None = None
    Plan = {patch, other}
    Rollback = {other}
    Location = {here, there}
    Scope <- MCScope
    Attempt = {a1, a2, a3}
    LockSeconds = 1
    Faults = {"start", "release", "listing"}
SYMMETRY Symmetry
PROPERTIES
    RollbackAfterReports
CHECK_DEADLOCK FALSE
