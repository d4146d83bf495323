\* Two tasks calibrating the accelerometer.
SPECIFICATION Spec
CONSTANTS
  Task = {t1, t2}
  NoTask = NoTask
SYMMETRY Symmetry
INVARIANTS CalibrationOfOneRead
