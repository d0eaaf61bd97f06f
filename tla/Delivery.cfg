CONSTANTS
    Contents = {"a", "b"}
    Batch <- MCBatch
    Limit <- MCLimit
    EarlyRetention = FALSE
    MaxWritten <- MCWritten
    MaxLate = 2
SPECIFICATION FairSpec
INVARIANTS TypeOK NothingLost NeverRefused
PROPERTY AllDelivered
CHECK_DEADLOCK FALSE
