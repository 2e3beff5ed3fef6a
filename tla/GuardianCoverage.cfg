SPECIFICATION Spec
CONSTANTS
    OrderIds <- MCOrderIds
    Prices <- MCPrices
    Step = 2
    MinQty = 2
    MinNotional = 160
    BandPct = 85
    Entry = 100
    StartRows <- MCRows
    StartBooks <- MCBooks
    StartFree <- MCFree
    MaxFaults = 1
    MaxMoves = 1
INVARIANTS
    CoveredMeansHalf
CHECK_DEADLOCK FALSE
