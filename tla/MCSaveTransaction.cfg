SPECIFICATION Spec
CONSTANTS
  Keys <- MCKeys
  Bytes <- MCBytes
  Absent = Absent
  Requests <- MCRequests
  MaxWrites = 1
  MaxTxns = 2
INVARIANTS
  LastCopyKept
  OutcomeTrue
  OverwriteKnown
  PreWriteKept
PROPERTIES
  KeepsContract
