SPECIFICATION Spec
CONSTANTS
  Stored <- MCStored
  Profiles <- MCProfiles
  MaxLives = 2
  MaxWorkers = 2
  MaxFaults = 1
  MaxCommands = 3
CHECK_DEADLOCK FALSE
INVARIANTS
  NoBlindReplay
  FocusKept
  Backed
  SpeedTrue
