SPECIFICATION Spec
CONSTANTS
  Requests = {}
  Conns = {}
  MaxSignals = 2
PROPERTIES
  SignalUnmounts
CHECK_DEADLOCK FALSE
