SPECIFICATION SessionSpec
CONSTANTS
  r1 = r1
  r2 = r2
  plain = plain
  k = k
  Requests <- MCRequests
  NoRequest = NoRequest
  Key <- MCKey
  NoKey = NoKey
  Trusted <- MCRequests
  Answers = {"ok", "unknown", "fatalUnknown"}
  MaxQueue = 1
  MaxWorkers = 2
  MaxStops = 1
  MaxLifetimes = 2
CHECK_DEADLOCK FALSE
CONSTRAINT Bounded
INVARIANTS
  NotSentTrue
  NeverStuck
PROPERTIES
  TrustGate
