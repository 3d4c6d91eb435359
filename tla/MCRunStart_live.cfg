SPECIFICATION FairSpec
CONSTANTS
    patch = patch
    other = other
    here = here
    there = there
    None = None
    Plan = {patch, other}
    Rollback = {other}
    Location = {here, there}
    Scope <- MCScopeOne
    Attempt = {a1, a2}
    LockSeconds = 2
    Faults = {"crash", "start", "release", "slow"}
PROPERTIES
    LockRecovers
    AttemptsEnd
CHECK_DEADLOCK FALSE
