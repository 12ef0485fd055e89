SPECIFICATION FairSpec
CONSTANTS
    Clients = {c1, c2}
    Null = Null
    MaxTicks = 1
    RedisMayFail = FALSE
PROPERTY ClientsAreServed
CHECK_DEADLOCK FALSE
