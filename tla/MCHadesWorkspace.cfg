SPECIFICATION Spec
CONSTANTS
  Names <- MCNames
  MaxDepth = 2
  Documents <- MCDocuments
  Intents <- MCIntents
  Rows <- MCRows
  Aspects <- MCAspects
  MaxStages = 3
  MaxApplies = 1
CHECK_DEADLOCK FALSE
INVARIANTS
  SeenTrue
  BatchTrue
  ReviewTrue
  HeaderFollows
PROPERTIES
  FileTrue
