SPECIFICATION FairSpec
CONSTANTS
    OrderIds <- MCOrderIds
    Prices <- MCPrices
    Step = 2
    MinQty = 2
    MinNotional = 160
    BandPct = 85
    Entry = 100
    StartRows <- MCRows
    StartBooks <- MCBooks
    StartFree <- MCFree
    MaxFaults = 0
    MaxMoves = 0
PROPERTIES
    NakedGetsStop
CHECK_DEADLOCK FALSE
