SPECIFICATION Spec
CONSTANTS
  status = status
  mutation = mutation
  NoCommand = NoCommand
  Commands <- MCCommands
  Statuses <- MCStatuses
  MaxLeases = 2
  MaxReloads = 1
  MaxWorkers = 2
  MaxHandoffs = 1
  MaxLosses = 1
INVARIANTS
  NotRunTrue
  OnceOnly
  UncertaintyKept
CHECK_DEADLOCK FALSE
