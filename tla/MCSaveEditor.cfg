SPECIFICATION Spec
CONSTANTS
  NumberOwners <- MCNumberOwners
  TextOwners <- MCTextOwners
  Aspects <- MCAspects
  DefaultAspect <- MCDefaultAspect
  Starter = "staff"
  TopTier = 2
  Tools = {"pick"}
  Upgrades <- MCUpgrades
  TopUpgrade = 2
  Layout <- MCLayout
  Cost <- MCCost
  Rule <- MCRule
  CostKinds <- MCCostKinds
  MinZoom = 2
  GraspLevels = 5
  Resources <- MCResources
  Quests <- MCQuests
  Lines <- MCLines
  People <- MCPeople
  EntryOrder <- MCEntryOrder
  Scenes <- MCScenes
CONSTRAINT Bounded
INVARIANTS
  ReviewTrue
PROPERTIES
  InstalledAsShown
  LedgersTrue
  CoherentKept
CHECK_DEADLOCK FALSE
