SPECIFICATION FairSpec
CONSTANTS
  Logins = {l1}
  Registers = TRUE
  SIPDownNotice = TRUE
  TrunkNotice = TRUE
  LiveKits = {FALSE}
  Disturbances = {"request", "registrar", "serve", "lost"}
  MaxDisturbances = 1
CHECK_DEADLOCK FALSE
PROPERTIES
  RecordedIsTrue
  ReadinessLatches
