SPECIFICATION FairTrunkSpec
CONSTANTS
  LiveKits = {TRUE, FALSE}
  Disturbances = {"request", "answer", "lost", "settings", "password", "restart"}
  MaxDisturbances = 6
CHECK_DEADLOCK FALSE
PROPERTIES
  TrunkRecovers
  WritesEnd
