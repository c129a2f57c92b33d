SPECIFICATION Spec
CONSTANTS
  Requests = {r1}
  Conns = {c1}
  MaxSignals = 1
INVARIANTS
  NothingUsedAfterRelease
  CleanExit
PROPERTIES
  GoneEnds
  SignalEnds
CHECK_DEADLOCK FALSE
