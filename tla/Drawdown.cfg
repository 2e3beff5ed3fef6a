SPECIFICATION FairSpec
CONSTANTS
    Early = 1
    Recheck = 2
    Chain = 2
    Cap = 2
    G1Days = 1
    Retrip = 2
    RampDays = 1
    Equities <- MCEquities
    MaxTroubles = 1
INVARIANT TypeOK
PROPERTIES
    HeldForItsTime
    FiresApart
    VetoHonoured
    RampedEntries
    TripStopsEntries
    Rearmed
