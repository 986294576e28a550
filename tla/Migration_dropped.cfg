SPECIFICATION FairSpec
CONSTANTS
  Users = {o, p}
  Owner = o
  Numbers = {n1}
  LineSpaces = TRUE
  Faults = {}
  MaxPortals = 3
  MaxLeft = 0
  MaxStarts = 2
CHECK_DEADLOCK FALSE
PROPERTIES
  DroppedIsUnlisted
