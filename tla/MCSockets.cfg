SPECIFICATION FairSpec
CONSTANTS
    Clients = {c1, c2, c3}
    Null = Null
    MaxTicks = 3
    RedisMayFail = TRUE
INVARIANTS TypeOK OneListener IdleListenerStops TicksInOrder
PROPERTY IdleListenerEnds
CHECK_DEADLOCK FALSE
