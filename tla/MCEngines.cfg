SPECIFICATION FairSpec
CONSTANTS
    MaxBacklog = 2
    RedisMayFail = TRUE
    DbMayFail = TRUE
INVARIANTS EndsForCause
PROPERTIES QuietAfterStop EnginesEnd
CHECK_DEADLOCK FALSE
