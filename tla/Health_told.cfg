SPECIFICATION Spec
CONSTANTS
  Logins = {l1, l2}
  Registers = FALSE
  SIPDownNotice = TRUE
  TrunkNotice = TRUE
  LiveKits = {FALSE}
  Disturbances = {}
  MaxDisturbances = 0
CHECK_DEADLOCK FALSE
INVARIANTS
  FirstStateIsReal
PROPERTIES
  ChangeIsForEveryone
