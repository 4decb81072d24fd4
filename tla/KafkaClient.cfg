SPECIFICATION FairSpec
CONSTANTS
  LogEnd = 3
  Partitions = 2
  c1 = c1
  c2 = c2
  Conditions = {c1, c2}
  Matches <- MCMatches
  Seeks = {2}
  PageSize = 2
  MaxMatches = 2
  Slots = {1, 2, 3}
  MaxGestures = 3
  MaxFaults = 1
  All = all
  None = none
CHECK_DEADLOCK FALSE
INVARIANTS OldSearchLeavesNoRows ExportIsHonest
PROPERTIES SpinnersStop
