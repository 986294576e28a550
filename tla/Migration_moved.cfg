SPECIFICATION FairSpec
CONSTANTS
  Users = {o, p}
  Owner = o
  Numbers = {n1, n2}
  LineSpaces = TRUE
  Faults = {"move", "space", "link", "members"}
  MaxPortals = 3
  MaxLeft = 1
  MaxStarts = 2
CHECK_DEADLOCK FALSE
INVARIANTS
  NothingIsDeleted
PROPERTIES
  RoomsAreKept
  FlagsAreKept
  MigrationEnds
  RoomsInTheirLine
