SPECIFICATION Spec
CONSTANTS
  a1 = a1
  a2 = a2
  b1 = b1
  A = A
  B = B
  Texts = {a1, b1}
  Portals = {A, B}
  PortalOf <- TwoPortals
  MaxParallel = 1
  BatchSize = 500
  HasSpool = FALSE
  Faults = {}
  Stuck = {}
  MaxCrashes = 0
CHECK_DEADLOCK FALSE
INVARIANTS
  SkippedIsWoken
