\* Two tasks positioning, enabling and disabling two servos.
SPECIFICATION Spec
CONSTANTS
  Task = {t1, t2}
  NoTask = NoTask
  Servo = {0, 1}
  Request = {1, 2, 3, 4}
  Min = 2
  Max = 3
SYMMETRY Symmetry
INVARIANTS TypeOK PositionKept DisabledWhenUnmapped
