SPECIFICATION Spec
CONSTANTS
  Names <- MCNames
  MaxDepth = 2
  Documents <- Ambiguous
  Intents <- CacheIntents
  Rows <- MCRows
  Aspects <- MCAspects
  MaxStages = 3
  MaxApplies = 1
CHECK_DEADLOCK FALSE
INVARIANTS
  AmbiguityRepairable
