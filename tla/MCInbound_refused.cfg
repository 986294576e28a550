SPECIFICATION Spec
CONSTANTS
  a1 = a1
  a2 = a2
  b1 = b1
  A = A
  B = B
  Texts = {a1}
  Portals = {A}
  PortalOf <- TwoPortals
  MaxParallel = 1
  BatchSize = 500
  HasSpool = FALSE
  Faults = {"insert"}
  Stuck = {}
  MaxCrashes = 0
CHECK_DEADLOCK FALSE
INVARIANTS
  RefusedDoesNotLand
