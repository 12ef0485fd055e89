SPECIFICATION FairSpec
CONSTANTS
    Symbols = {nifty, bank}
    Prices = {1, 3}
    Quantities = {0, 1}
    Averages = {2}
    RefreshSecs = 1
    MaxAge = 2
    MaxTrades = 1
    MaxBacklog = 2
    Null = Null
    Lost = Lost
    DbMayFail = TRUE
    RedisMayFail = TRUE
INVARIANTS ShowsLastPrices
PROPERTIES PositionsFresh CatchesUp GoneStreamsEnd
CHECK_DEADLOCK FALSE
