SPECIFICATION FairSpec
CONSTANTS
  c1 = c1
  c2 = c2
  u1 = u1
  u2 = u2
  conf = conf
  NoUser = NoUser
  Calls = {c1}
  Inbound = {c1}
  Users = {u1, u2}
  Conferences = {conf}
  ConferenceOf <- OneConference
  ReceiverOf <- SameRoom
  MembersOf <- Alone
  Commanded = {}
  Faults = {}
  Events = {"join", "leave", "hangup", "depart", "watch", "age", "crash"}
  MaxCrashes = 1
CHECK_DEADLOCK FALSE
PROPERTIES
  DepartureEndsCall
  OrphanRowIsDiscarded
  LastRunIsSwept
