SPECIFICATION FairSpec
CONSTANTS
    ann = ann
    bob = bob
    nifty = nifty
    Null = Null
    Users = {ann}
    Symbols = {nifty}
    Prices = {1, 2}
    Quantities = {1}
    OpeningBalance = 3
    RequestIds = {r1, r2}
    SaleIds = {s1}
    OrderRequests <- LiveRequests
    StopRequests <- LiveStops
    Matchers = {m1}
    StopEngines = {e1}
    Editors = {d1}
    DbMayFail = FALSE
    MaxTicks = 2
    FeedMayDrop = FALSE
PROPERTIES RequestsAnswered CrossedOrdersSettle StopsFire
