SPECIFICATION Spec
CONSTANTS
  u1 = u1
  u2 = u2
  call1 = call1
  call2 = call2
  text1 = text1
  text2 = text2
  login1 = login1
  Users = {u1, u2}
  Permitted = {u1}
  Requests = {call1, call2, text1, text2, login1}
  UserOf <- Named
  Kind <- KindOf
  Members = {u1, u2}
  Free = Free
  Scenes = {{call1, text1, "puppet", "old", "update", "levels", "create", "join"}, {call1, text1, "old", "leave"}, {call1, text1, "rename", "leave", "members"}, {call1, text1, "puppet", "rename", "crash"}, {call1, call2, "version", "publish", "retract"}, {call1, call2, "puppet", "overlap", "crash", "publish", "retract"}, {call1, text1, text2, login1, "login", "crash"}, {call1, text1, "lost login"}}
  OwnedKeys = TRUE
  MaxRenames = 2
  MaxFaults = 2
INVARIANTS
  TypeOK
  RetractedWherePublished
PROPERTIES
  LoginIsConnected
  UserNameIsKept
  NameComesBack
CHECK_DEADLOCK FALSE
