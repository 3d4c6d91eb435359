SPECIFICATION Spec
CONSTANTS
    patch = patch
    other = other
    here = here
    there = there
    None = None
    Plan = {patch, other}
    Rollback = {}
    Location = {here, there}
    Scope <- MCScope
    Attempt = {a1, a2}
    LockSeconds = 1
    Faults = {"crash", "slow", "duplicate", "record", "listing"}
SYMMETRY Symmetry
INVARIANTS
    StartedByOneAttempt
CHECK_DEADLOCK FALSE
