SPECIFICATION FairSpec
CONSTANTS
    OrderIds <- MCOrderIds
    Prices <- MCPrices
    Step = 2
    MinQty = 2
    MinNotional = 160
    BandPct = 85
    Entry = 100
    StartRows <- MCRows
    StartBooks <- MCBooks
    StartFree <- MCFree
    MaxFaults = 1
    MaxMoves = 1
INVARIANTS
    TypeOK
    FloorKept
    CoverKept
    ShapedBookKept
    CancelsOnlyDeclared
    RescueComplete
    OneSwapPerWindow
PROPERTIES
    NeverSells
    EventuallyStopped
CHECK_DEADLOCK FALSE
