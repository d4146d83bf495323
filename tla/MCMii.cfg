\* The whole program, with the widths and bits of the code, on a PHY that is reset
\* at any moment, twice.
SPECIFICATION MiiSpec
CONSTANTS
  Preamble = 32
  AddrBits = 5
  DataBits = 16
  Oui = {0, 6, 8}
  Link = {10}
  Gigabit = {8, 9}
  Restart = {9}
  MaxResets = 2
INVARIANTS NoContention DoesWhatIsAsked
