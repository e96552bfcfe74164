CONSTANTS
  a = a
  b = b
  Nothing = Nothing
  Ids <- MCIds
  Requests <- MCRequests
  Fields = {"speed"}
  Values <- MCValues
  low = low
  high = high
  MaxCache = 1
  MaxLines = 4
  MaxAhead = 2
SYMMETRY Symmetric
SPECIFICATION Spec
CHECK_DEADLOCK FALSE
INVARIANTS AnsweredInOrder OnceOnly ToldTrue
PROPERTY ViewTrue
