CONSTANTS
  Codes = {1, 2}
  None = 0
  Garbage = garbage
  LogSize = 2
  MaxRecords = 6
SPECIFICATION FairSpec
INVARIANTS
  LogTellsActive
  LogIsRecent
  ListInOrder
PROPERTIES
  FatalEnds
  FatalRaised
