SPECIFICATION Spec
CONSTANTS
    Modules = {m1, m2}
    Credentials = {c1}
    Restorers = {p1}
    Service = service
    Free = free
    CopyMayFail = FALSE
    MayBeKilled = TRUE
SYMMETRY Interchangeable
INVARIANTS NothingRevived
CHECK_DEADLOCK FALSE
