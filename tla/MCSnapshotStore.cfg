CONSTANTS
  Files = {f1, f2}
  HotBackup = TRUE
  Attempts = 2
  Policies <- Budgets
  MaxSnapshots = 3
  MaxBackups = 1
  MaxStates = 3
SPECIFICATION Spec
INVARIANTS CherishedKept
PROPERTIES Consistent EvictionSound
