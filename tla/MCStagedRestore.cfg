SPECIFICATION Spec
CONSTANTS
  w1 = w1
  w2 = w2
  s1 = s1
  s2 = s2
  Workers <- MCWorkers
  NoWorker = NoWorker
  Snapshots <- MCSnapshots
  NoSnapshot = NoSnapshot
  Policy = "hotPreferred"
  Stageable = TRUE
  MaxIntents = 2
INVARIANTS
  NeverReplayed
  UncertainVisible
  InputKept
SYMMETRY MCSymmetry
CONSTRAINT Bounded
