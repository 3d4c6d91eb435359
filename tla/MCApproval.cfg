SPECIFICATION Spec
CONSTANTS
    None = None
    Plan = {p}
    Session = {s1, s2}
    User = {alice, bob, viewer}
    Operator = {alice, bob}
    Request = {r1, r2}
    Attempt = {t1, t2}
    PlanTTL = 2
    ApprovalTTL = 1
    SeparateApprover = TRUE
    MaxTime = 3
SYMMETRY Symmetry
INVARIANTS
    TypeOK
    RunsOnce
    ClaimIsApproved
    CancelIsFinal
PROPERTIES
    ImplementsChangeApproval
