CONSTANTS
    Requests <- MCRequests
    r1 = r1
    r2 = r2
    r3 = r3
    Nobody = Nobody
    Configured = FALSE
    InOrder = TRUE
SPECIFICATION Spec
SYMMETRY Symmetry
CHECK_DEADLOCK FALSE
INVARIANTS
    PlanIsRead
