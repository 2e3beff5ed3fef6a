SPECIFICATION Spec
CONSTANTS
    DayLen = 2
    LocalHour = 1
    EntryCap = 2
    NeutralCap = 1
    Equities <- MCEquities
    Cash = 100
    MaxTroubles = 1
INVARIANTS
    TypeOK
    PacesKept
PROPERTIES
    BrakeHolds
