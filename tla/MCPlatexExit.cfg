\* One signal, at any moment.
SPECIFICATION PlatexSpec
CONSTANTS
  MaxSignals = 1
  Quitters = {}
  JoinWaits = TRUE
CHECK_DEADLOCK FALSE
INVARIANTS CleanExit
