CONSTANTS
  OrderIds = {1, 2, 3, 4, 5, 6, 7, 8, 9, 10, 11, 12}
  Prices = {90, 100, 113}
  Step = 2
  MinQty = 2
  MinNotional = 400
  BandPct = 85
  MaxFaults = 2
  MaxMoves = 2
  Entry = 100
  Atr = 4
  SlPct = 8
  TpPct <- MCTpPct
  TpSize <- MCTpSize
  TpExit = 8
  SlExit = 8
  PartialAt = 12
  Tier1Px = 112
  Sizes = {7, 13, 49}
  Fee = 1
  MaxScans = 2
  MaxLives = 1
  Overlaps = {"exiting"}
SPECIFICATION Spec
CHECK_DEADLOCK FALSE
INVARIANTS TypeOK ReportedStops NakedIsLoud TrackerNamesLive
PROPERTIES DumpOnlyNaked ExitKeepsFloor OneTranche MoveKeepsStop
