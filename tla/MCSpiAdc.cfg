\* Two tasks sharing the converter, every transfer may fail.
SPECIFICATION Spec
CONSTANTS
  Task = {t1, t2}
  NoTask = NoTask
  Top = 1
  Capacity = 3
  MaxFiles = 4
SYMMETRY Symmetry
INVARIANTS TypeOK OwnConversions Aligned
