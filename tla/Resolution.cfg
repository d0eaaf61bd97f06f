SPECIFICATION Spec
CONSTANTS
    Layers <- MCLayers
    Host = "host"
    Interfaces = {"nic"}
    Locks <- MCLocks
    Object = "object"
INVARIANTS LastWriterWins OriginShown LocksHold
CHECK_DEADLOCK FALSE
