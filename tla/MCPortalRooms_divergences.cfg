SPECIFICATION Spec
CONSTANTS
  u1 = u1
  u2 = u2
  call1 = call1
  call2 = call2
  text1 = text1
  text2 = text2
  login1 = login1
  Users = {u1, u2}
  Permitted = {u1}
  Requests = {call1, call2, text1, text2, login1}
  UserOf <- Named
  Kind <- KindOf
  Members = {u1, u2}
  Free = Free
  Scenes = {{call1, "old", "rename"}, {call1, "version", "crash"}}
  OwnedKeys = TRUE
  MaxRenames = 2
  MaxFaults = 2
INVARIANTS
  RetractedWherePublished
PROPERTIES
  UserNameIsKept
CHECK_DEADLOCK FALSE
