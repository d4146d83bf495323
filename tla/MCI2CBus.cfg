\* Two tasks scheduled fairly, addresses on either side of every check, one file leaked.
SPECIFICATION FairSpec
CONSTANTS
  Task = {t1, t2}
  NoTask = NoTask
  Address <- MCAddress
  Size = {"b"}
  MaxFiles = 2
INVARIANTS TypeOK OneTransaction SelectionHolds OwnAnswer NothingHeldOutside FileOpen
PROPERTIES CallsAreAtomic CallsReturn
