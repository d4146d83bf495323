\* lcd_daemon and another user of the display; the process is killed twice, so also
\* while it initialises what the first kill has left.
SPECIFICATION Spec
CONSTANTS
  Task = {daemon, other}
  NoTask = NoTask
  Daemon = daemon
  Char <- MCChar
  NUL = NUL
  Messages <- MCMessages
  Banner <- MCBanner
  Width = 3
  BufLen = 9
  MaxKills = 2
  MaxInterrupts = 1
INVARIANTS Aligned WholeBytes Displayed
