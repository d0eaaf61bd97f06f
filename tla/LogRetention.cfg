CONSTANTS
    Contents = {"a", "b"}
    Batch <- MCBatch
    Limit <- MCLimit
    EarlyRetention = TRUE
    MaxWritten <- MCWrittenFew
    MaxLate = 1
SPECIFICATION Spec
INVARIANT NeverRefused
CHECK_DEADLOCK FALSE
