SPECIFICATION Spec
CONSTANTS
    patch = patch
    other = other
    here = here
    there = there
    None = None
    Plan = {patch, other}
    Rollback = {}
    Location = {here, there}
    Scope <- MCScope
    Attempt = {a1, a2, a3}
    LockSeconds = 1
    Faults = {"start", "release"}
SYMMETRY Symmetry
INVARIANTS
    TypeOK
    OneStartAtATime
    NoOverlap
    EveryRunTracked
CHECK_DEADLOCK FALSE
