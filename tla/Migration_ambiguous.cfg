SPECIFICATION Spec
CONSTANTS
  Users = {o, p}
  Owner = o
  Numbers = {n1, n2}
  LineSpaces = TRUE
  Faults = {}
  MaxPortals = 3
  MaxLeft = 0
  MaxStarts = 1
CHECK_DEADLOCK FALSE
PROPERTIES
  AmbiguousIsLeftAlone
