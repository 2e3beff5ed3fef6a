CONSTANTS
    a = a
    b = b
    Symbols = {a, b}
    StartClock = 4
    DayLen = 6
    Cooldown = 1
    StartCash = 36
    StartValue <- StartValueMC
    PriceMoves = {75, 134}
    CashDrift <- CashDriftMC
    EntrySize = 10
    MinNotional = 5
    MaxClock = 6
    MaxMoves = 2
    MaxFaults = 1
    MaxResets = 1
SPECIFICATION FairSpec
CHECK_DEADLOCK TRUE
INVARIANT TypeOK
INVARIANT DeleverageExact
INVARIANT DrawdownStopsEntries
PROPERTY RowKept
PROPERTY LatchSpec
PROPERTY ReleaseMeansRecovered
PROPERTY Deleveraged
PROPERTY ReleasedWhenSafe
