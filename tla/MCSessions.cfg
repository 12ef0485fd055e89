SPECIFICATION FairSpec
CONSTANTS
    Requests = {r1, r2, r3, r4}
    Users = {u1}
    Null = Null
    Lifetime = 0
    MaxTime = 1
    DbMayFail = TRUE
INVARIANTS TypeOK SessionsLast RefusedForCause WaitsAscend
PROPERTY RequestsAnswered
CHECK_DEADLOCK FALSE
