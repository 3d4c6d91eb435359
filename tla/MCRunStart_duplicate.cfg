SPECIFICATION Spec
CONSTANTS
    patch = patch
    other = other
    here = here
    there = there
    None = None
    Plan = {patch, other}
    Rollback = {}
    Location = {here, there}
    Scope <- MCScope
    Attempt = {a1, a2, a3}
    LockSeconds = 1
    Faults = {"duplicate"}
SYMMETRY Symmetry
INVARIANTS
    OneStartAtATime
CHECK_DEADLOCK FALSE
