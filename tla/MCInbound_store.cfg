SPECIFICATION Spec
CONSTANTS
  a1 = a1
  a2 = a2
  b1 = b1
  A = A
  B = B
  Texts = {a1, a2}
  Portals = {A}
  PortalOf <- TwoPortals
  MaxParallel = 2
  BatchSize = 500
  HasSpool = TRUE
  Faults = {"insert", "db", "spool", "matrix"}
  Stuck = {}
  MaxCrashes = 1
SYMMETRY Exchanged
CHECK_DEADLOCK FALSE
INVARIANTS
  TypeOK
  AcceptedIsStored
  OneInFlightPerPortal
  DeliveryHasState
PROPERTIES
  ImplementsPromise
