SPECIFICATION Spec
CONSTANTS
  Modules = {"hades", "hades2"}
  Recorded = {"hades2"}
  MaxGames = 2
  MaxWaiting = 2
  MaxOps = 2
CONSTRAINT Bounded
INVARIANTS
  NoStale
  LaunchAnswered
