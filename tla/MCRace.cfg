SPECIFICATION Spec
CONSTANTS
    ann = ann
    bob = bob
    nifty = nifty
    Null = Null
    Users = {ann}
    Symbols = {nifty}
    Prices = {2, 3}
    Quantities = {1, 2}
    OpeningBalance = 5
    RequestIds = {r1, r2, r3}
    SaleIds = {}
    OrderRequests <- RaceRequests
    StopRequests <- NoStops
    Matchers = {m1, m2}
    StopEngines = {}
    Editors = {}
    DbMayFail = TRUE
    MaxTicks = 2
    FeedMayDrop = TRUE
SYMMETRY RaceSymmetry
INVARIANTS TypeOK NoOverdraft LedgerChains OneEntryPerExecution HoldingsMatchOrders AverageWithinBuys LockedReadsCurrent WaitsAscend StopWaitsForTrigger
PROPERTY ImplementsAtomic
