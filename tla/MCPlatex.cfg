\* The whole program with two signals, a worker of a bus and one of an actuator ending
\* by themselves; it stops when it exits.
SPECIFICATION PlatexSpec
CONSTANTS
  MaxSignals = 2
  Quitters = {"acc", "motors"}
  JoinWaits = FALSE
CHECK_DEADLOCK FALSE
INVARIANTS UsersHaveDevices SafeStop
PROPERTIES SignalEnds
