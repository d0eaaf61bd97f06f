SPECIFICATION Spec
CONSTANTS
    Modules = {m1, m2}
    Credentials = {c1}
    Restorers = {p1}
    Service = service
    Free = free
    CopyMayFail = FALSE
    MayBeKilled = FALSE
SYMMETRY Interchangeable
INVARIANTS NeverStartedSilently
CHECK_DEADLOCK FALSE
