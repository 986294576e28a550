SPECIFICATION Spec
CONSTANTS
  Logins = {l1}
  Registers = FALSE
  SIPDownNotice = TRUE
  TrunkNotice = TRUE
  LiveKits = {FALSE}
  Disturbances = {"request"}
  MaxDisturbances = 2
CHECK_DEADLOCK FALSE
INVARIANTS
  ToldIsRecorded
