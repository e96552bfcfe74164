SPECIFICATION FairSpec
CONSTANTS
  Found <- MCFound
  MaxCommands = 2
  MaxFaults = 1
  MaxGens = 2
CHECK_DEADLOCK FALSE
INVARIANTS
  IntentDurable
  CleanTrue
PROPERTIES
  TeardownTrue
  Settles
