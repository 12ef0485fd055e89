SPECIFICATION Spec
CONSTANTS
    MaxBacklog = 1
    RedisMayFail = TRUE
    DbMayFail = FALSE
INVARIANT EnginesPersist
CHECK_DEADLOCK FALSE
