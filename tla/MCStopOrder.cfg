SPECIFICATION Spec
CONSTANTS
    ann = ann
    bob = bob
    nifty = nifty
    Null = Null
    Users = {ann}
    Symbols = {nifty}
    Prices = {1, 2}
    Quantities = {1}
    OpeningBalance = 3
    RequestIds = {r1}
    SaleIds = {}
    OrderRequests <- HoldRequests
    StopRequests <- OneStopEach
    Matchers = {}
    StopEngines = {}
    Editors = {d1, d2}
    DbMayFail = FALSE
    MaxTicks = 1
    FeedMayDrop = FALSE
INVARIANT StopBelowTarget
