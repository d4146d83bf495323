\* Two tasks writing and reading fields of one data register and enabling, disabling
\* and checking channels of a core that has one; one of them starts and stops the driver.
SPECIFICATION LifeSpec
CONSTANTS
  Task = {main, led}
  NoTask = NoTask
  Main = main
  Bit <- MCBit
  Field <- MCField
  Value <- MCValue
  NumChannels = 1
  IrqTask = {main, led}
  IrqKinds = {"enable", "disable", "toggle"}
INVARIANTS TypeOK UsedWhileMapped IrqCallsTakeEffect
PROPERTIES WritesStayInMask
