SPECIFICATION Spec
CONSTANTS
  c1 = c1
  c2 = c2
  u1 = u1
  u2 = u2
  conf = conf
  NoUser = NoUser
  Calls = {c1}
  Inbound = {}
  Users = {u1, u2}
  Conferences = {conf}
  ConferenceOf <- OneConference
  ReceiverOf <- SameRoom
  MembersOf <- Alone
  Commanded = {c1}
  Faults = {}
  Events = {"decline"}
  MaxCrashes = 0
CHECK_DEADLOCK FALSE
PROPERTIES
  DeclineSparesLiveCalls
