CONSTANTS
  Legs <- MCLegs
  Stops <- MCStops
  Part = 20
  MaxBuys = 2
  MaxTroubles = 1
SPECIFICATION Spec
INVARIANTS TypeOK NeverOverbooked LossNoted RoundBooks ShadowFollows
