SPECIFICATION Spec
CONSTANTS
    ann = ann
    bob = bob
    nifty = nifty
    Null = Null
    Users = {ann}
    Symbols = {nifty}
    Prices = {1, 2}
    Quantities = {1}
    OpeningBalance = 4
    RequestIds = {r1, r2}
    SaleIds = {s1, s2}
    OrderRequests <- HoldRequests
    StopRequests <- HoldStops
    Matchers = {m1}
    StopEngines = {e1, e2}
    Editors = {d1}
    DbMayFail = TRUE
    MaxTicks = 2
    FeedMayDrop = TRUE
SYMMETRY HoldSymmetry
INVARIANTS HoldingsMatchOrders
PROPERTY ImplementsAtomic
