SPECIFICATION Spec
CONSTANTS
    Modules = {m1, m2}
    Credentials = {c1}
    Restorers = {p1}
    Service = service
    Free = free
    CopyMayFail = TRUE
    MayBeKilled = FALSE
SYMMETRY Interchangeable
INVARIANTS FailureIsMarked
CHECK_DEADLOCK FALSE
