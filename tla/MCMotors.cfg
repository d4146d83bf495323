\* Two tasks between every way the driver can be started and stopped.
SPECIFICATION Spec
CONSTANTS
  Task = {t1, t2}
  NoTask = NoTask
  NumMotors = 2
  NumEncs = 2
  Motor <- MCMotor
  Enc <- MCEnc
  Setting <- MCSetting
  MaxSpeed = 2
  MaxFreqDiv = 1
  MaxCount = 1
  Junk = 9
SYMMETRY Symmetry
INVARIANTS CopyIsApplied StoppedWhenCleaned
INVARIANTS NothingLeft NothingUsedOnceGone
PROPERTIES ReadingsChain
