SPECIFICATION Spec
CONSTANTS
  c1 = c1
  c2 = c2
  u1 = u1
  u2 = u2
  conf = conf
  NoUser = NoUser
  Calls = {c1}
  Inbound = {c1}
  Users = {u1, u2}
  Conferences = {conf}
  ConferenceOf <- OneConference
  ReceiverOf <- OwnRooms
  MembersOf <- Together
  Commanded = {}
  Faults = {}
  Events = {"join", "leave"}
  MaxCrashes = 0
CHECK_DEADLOCK FALSE
INVARIANTS
  NoDanglingLeg
