SPECIFICATION Spec
CONSTANTS
    Modules = {m1, m2}
    Credentials = {c1}
    Restorers = {p1, p2}
    Service = service
    Free = free
    CopyMayFail = TRUE
    MayBeKilled = TRUE
SYMMETRY Interchangeable
INVARIANTS BackupComplete RestoreComplete
PROPERTIES NothingOverwritten
CHECK_DEADLOCK FALSE
