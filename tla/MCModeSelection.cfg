\* The whole program under three signals.  It ends, or pauses for ever when the
\* only signals came before it paused.
SPECIFICATION FairSpec
CONSTANTS
  MaxSignals = 3
  PipeMax = 2
CHECK_DEADLOCK FALSE
INVARIANTS RegistersMapped CleanGivesBack
PROPERTIES ChosenIsShown SignalEnds
