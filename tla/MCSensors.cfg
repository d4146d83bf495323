\* Two tasks sharing the accelerometer, the sonar and the compass.
SPECIFICATION Spec
CONSTANTS
  Task = {t1, t2}
  NoTask = NoTask
SYMMETRY Symmetry
INVARIANTS OwnedInside AccelerationOfOneRead EchoOfOneShot CompassSettles InitPowersUp
