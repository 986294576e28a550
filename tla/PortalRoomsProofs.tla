-------------------------- MODULE PortalRoomsProofs --------------------------
(***************************************************************************)
(* Logins and rooms of any number of users and requests, over any faults,  *)
(* renames and crashes: their types, one login per user that may log in;   *)
(* and, under the conditions without which it is not so, that a user's name *)
(* stays and that a membership is taken back where it was put.             *)
(***************************************************************************)
EXTENDS PortalRooms, TLAPS

Places == {"idle", "lock", "locked", "create", "connect", "hasLogin", "refused",
           "room", "update", "join", "publish", "send", "up", "retract",
           "retracted", "stale", "done"}

RoomsTypeOK ==
  /\ callable \subseteq rooms /\ rooms \subseteq Users
  /\ member \in [Users -> {"none", "invited", "joined", "left"}]
  /\ title \in [Users -> {"none", "bridge", "user", "blank"}]
  /\ recorded \in [Users -> [name : {"bridge", "user"}, set : BOOLEAN, byUser : BOOLEAN]]
  /\ given \in [Users -> Seq({"user", "blank"})]
  /\ repaired \subseteq callable
  /\ marked \subseteq Users /\ resyncs \subseteq rooms /\ reading \subseteq Users
  /\ info \in [Requests -> {"none", "bridge", "keep"}]

KeysTypeOK ==
  /\ membership \in [Requests -> SUBSET KeyForms]
  /\ version \in [Users -> KeyForms \cup {"unread"}]
  /\ key \in [Requests -> KeyForms \cup {"none"}]

(* Only calls get to rooms, a bridge that is down runs nothing, and nothing *)
(* is left of an earlier run without a crash.                              *)
AtInv ==
  /\ at \in [Requests -> Places]
  /\ \A r \in Requests : at[r] \in Callers => Kind[r] = "call"
  /\ ~running => \A r \in Requests :
       at[r] \in {"idle", "hasLogin", "refused", "retracted", "stale", "done"}
  /\ "crash" \notin scene => running /\ \A r \in Requests : at[r] # "stale"

(* Who creates a login holds the mutex, and the user has none from NewLogin.*)
LoginInv ==
  /\ LoginsTypeOK
  /\ \A r \in Requests :
       /\ at[r] \in {"locked", "create"} => mutex = r
       /\ at[r] = "create" => UserOf[r] \in userRows /\ creations[UserOf[r]] = 0
  /\ \A u \in Users : creations[u] = 1 => u \in logins

(* What happens in a room happens in one that is there.                    *)
RoomInv ==
  /\ RoomsTypeOK
  /\ \A u \in Users : member[u] # "none" \/ given[u] # <<>> \/ title[u] # "none" => u \in rooms
  /\ \A r \in Requests :
       /\ at[r] \in {"update", "join"} => UserOf[r] \in rooms
       /\ at[r] = "update" => info[r] \in {"bridge", "keep"}

(* A repair is of a room of an older version.  While nobody renames it, the *)
(* description it has read still says whose the name is.                   *)
NameInv ==
  /\ named \in [Users -> Nat]
  /\ "rename" \notin scene => \A u \in Users : given[u] = <<>>
  /\ "old" \notin scene => callable = rooms
  /\ \A r \in Requests : at[r] = "update" =>
       /\ "old" \in scene
       /\ "rename" \notin scene /\ recorded[UserOf[r]].byUser => info[r] = "keep"

(* A version that can always be read gives every call the right key.       *)
ReadInv ==
  "version" \notin scene =>
    /\ \A u \in Users : version[u] \in {"unread", Right}
    /\ \A r \in Requests :
         /\ membership[r] \subseteq {Right}
         /\ at[r] = "send" => key[r] = Right
         /\ at[r] = "retracted" => membership[r] = {}

(* Without overlaps and crashes the first answer is the only one, right or  *)
(* not, and the call that is up has it.                                    *)
Orderly == "overlap" \notin scene /\ "crash" \notin scene

OneCaller ==
  Orderly =>
    \A c, d \in Requests :
      at[c] \in Callers /\ at[d] \in Callers /\ UserOf[c] = UserOf[d] => c = d

OrderlyInv ==
  Orderly =>
    \A r \in Requests :
         /\ at[r] \notin {"up", "retract", "done", "refused", "stale"} => membership[r] = {}
         /\ at[r] = "send" => version[UserOf[r]] \in {"unread", key[r]}
         /\ at[r] \in {"up", "retract"} =>
              version[UserOf[r]] = key[r] /\ membership[r] \subseteq {key[r]}

KeyInv ==
  /\ KeysTypeOK /\ ReadInv /\ OneCaller /\ OrderlyInv
  /\ \A r \in Requests : at[r] \in {"send", "up"} => key[r] \in KeyForms

IInv == scene \in Scenes /\ AtInv /\ LoginInv /\ RoomInv /\ NameInv /\ KeyInv

(* The body of UserNameIsKept, where no repaired room is renamed.          *)
NameStep ==
  ~("old" \in scene /\ "rename" \in scene) =>
    \A u \in Users :
      recorded[u].byUser /\ title[u] = "user" /\ title'[u] # "user" => named'[u] > named[u]

(* What every step does.                                                   *)
Kept == IInv' /\ NameStep

-----------------------------------------------------------------------------
(* One request moves.                                                      *)
LEMMA Moved ==
  ASSUME AtInv, NEW r \in Requests, NEW there \in Places \ {"stale"}, running, Goto(r, there),
         UNCHANGED <<running, scene>>, there \in Callers => Kind[r] = "call"
  PROVE  /\ AtInv' /\ at'[r] = there
         /\ \A x \in Requests : x # r => at'[x] = at[x]
         /\ OneCaller /\ (there \in Callers => at[r] \in Callers) => OneCaller'
<1>1. at' = [at EXCEPT ![r] = there] /\ at \in [Requests -> Places]
  BY DEF AtInv, Goto
<1>2. at'[r] = there /\ at' \in [Requests -> Places] /\ \A x \in Requests : x # r => at'[x] = at[x]
  BY <1>1
<1>3. AtInv'
  BY <1>2 DEF AtInv
<1>4. OneCaller /\ (there \in Callers => at[r] \in Callers) => OneCaller'
  BY <1>2 DEF OneCaller, Orderly
<1> QED
  BY <1>2, <1>3, <1>4

(* What leaves the logins alone and gives no request the mutex.            *)
LEMMA LoginsStay ==
  ASSUME LoginInv, UNCHANGED <<loginVars, running>>,
         \A r \in Requests : at'[r] \in {"locked", "create"} => at'[r] = at[r]
  PROVE  LoginInv'
BY DEF LoginInv, LoginsTypeOK, loginVars

(* What leaves the rooms alone and gets no request into one.               *)
LEMMA RoomsStay ==
  ASSUME RoomInv, NameInv, UNCHANGED <<matrixVars, repaired, marked, resyncs, info, scene>>,
         reading' \subseteq Users,
         \A r \in Requests : at'[r] \in {"update", "join"} => at'[r] = at[r]
  PROVE  RoomInv' /\ NameInv' /\ NameStep
<1>1. RoomInv'
  BY DEF RoomInv, RoomsTypeOK, matrixVars
<1>2. NameInv'
  BY DEF NameInv, matrixVars
<1>3. NameStep
  BY DEF NameStep, matrixVars
<1> QED
  BY <1>1, <1>2, <1>3

Settled == {"up", "retract", "done", "refused", "stale"}

(* What leaves the keys alone and brings no call further than its key.     *)
LEMMA KeysStay ==
  ASSUME KeyInv, OneCaller', UNCHANGED <<callVars, scene>>,
         \A r \in Requests :
           /\ at'[r] \in {"send", "up", "retracted"} => at'[r] = at[r]
           /\ at'[r] = "retract" => at[r] \in {"up", "retract"}
           /\ at'[r] \notin Settled => at[r] \notin Settled
  PROVE  KeyInv'
<1>1. KeysTypeOK'
  BY DEF KeyInv, KeysTypeOK, callVars
<1>2. ReadInv'
  BY DEF KeyInv, ReadInv, callVars
<1>3. OrderlyInv'
  BY DEF KeyInv, OrderlyInv, Orderly, callVars, Settled
<1>4. \A r \in Requests : at'[r] \in {"send", "up"} => key'[r] \in KeyForms
  BY DEF KeyInv, callVars
<1> QED
  BY <1>1, <1>2, <1>3, <1>4 DEF KeyInv

-----------------------------------------------------------------------------
(* A step of a request up to its login.                                    *)
LEMMA LoginStepKeeps ==
  ASSUME IInv, NEW r \in Requests, LoginRequest(r), UNCHANGED <<running, scene>>,
         NEW there \in {"lock", "locked", "hasLogin", "refused", "create", "connect", "done"},
         Goto(r, there), running, at[r] \in {"idle", "lock", "locked", "create", "connect"},
         LoginsTypeOK', there \in {"locked", "create"} => mutex' = r,
         \A x \in Requests : x # r /\ at[x] \in {"locked", "create"} => mutex' = x,
         there = "create" => UserOf[r] \in userRows' /\ creations'[UserOf[r]] = 0,
         userRows \subseteq userRows', logins \subseteq logins',
         \A u \in Users : creations'[u] # creations[u] =>
                            u \in logins' /\ \A x \in Requests : x # r => at[x] # "create"
  PROVE  Kept
<1>1. there \in Places /\ there \notin Callers /\ at[r] \notin Callers
  BY DEF Places, Callers, InRow
<1>2. /\ AtInv' /\ at'[r] = there /\ \A x \in Requests : x # r => at'[x] = at[x]
      /\ OneCaller'
  BY <1>1, Moved DEF IInv, KeyInv
<1>3. UserOf \in [Requests -> Users]
  BY LoginsAssumption
<1>4. LoginInv'
  BY <1>2, <1>3 DEF IInv, LoginInv
<1>5. reading' \subseteq Users
  BY <1>4 DEF LoginRequest, IInv, RoomInv, RoomsTypeOK, LoginsTypeOK
<1>6. RoomInv' /\ NameInv' /\ NameStep
  BY <1>2, <1>5, RoomsStay DEF LoginRequest, IInv
<1>7. KeyInv'
  <2>1. at[r] \notin Settled /\ at'[r] \notin {"send", "up", "retract", "retracted"}
    BY <1>2 DEF Settled
  <2> QED
    BY <1>2, <2>1, KeysStay DEF LoginRequest, IInv
<1> QED
  BY <1>2, <1>4, <1>6, <1>7 DEF Kept, IInv

(* Each of them is one.                                                    *)
LEMMA LoginStepsKeep ==
  ASSUME IInv, NEW r \in Requests, LoginRequest(r), UNCHANGED <<running, scene>>
  PROVE  Kept
<1> USE LoginsAssumption DEF IInv, LoginInv, LoginsTypeOK, From
<1>1. CASE LookUpLogin(r)
  <2> DEFINE there == IF HasLogin(r) THEN "hasLogin" ELSE "lock"
  <2>1. Goto(r, there) /\ UNCHANGED loginVars /\ running /\ at[r] = "idle"
    BY <1>1 DEF LookUpLogin
  <2>2. there \in {"hasLogin", "lock"}
    OBVIOUS
  <2> HIDE DEF there
  <2>3. LoginsTypeOK' /\ \A x \in Requests : x # r /\ at[x] \in {"locked", "create"} => mutex' = x
    BY <2>1 DEF loginVars
  <2>4. there \in {"lock", "locked", "hasLogin", "refused", "create", "connect", "done"}
    BY <2>2
  <2> HIDE DEF IInv, LoginInv, LoginsTypeOK, From
  <2> QED
    BY <2>1, <2>2, <2>3, <2>4, LoginStepKeeps DEF loginVars
<1>2. CASE Lock(r)
  <2>1. Goto(r, "locked") /\ running /\ at[r] = "lock" /\ mutex = Free /\ mutex' = r
        /\ UNCHANGED <<logins, userRows, creations, connected>>
    BY <1>2 DEF Lock
  <2> QED
    BY <2>1, LoginStepKeeps
<1>3. CASE Permit(r)
  <2>1. running /\ at[r] = "locked" /\ UNCHANGED <<logins, creations, connected>> /\ mutex = r
    BY <1>3 DEF Permit
  <2>2. CASE FoundAgain(r) /\ Unlock /\ Goto(r, "hasLogin") /\ UNCHANGED userRows
    BY <2>1, <2>2, LoginStepKeeps DEF Unlock
  <2>3. CASE Unlock /\ Goto(r, "refused") /\ UNCHANGED userRows
    BY <2>1, <2>3, LoginStepKeeps DEF Unlock
  <2>4. CASE /\ ~FoundAgain(r) /\ UserOf[r] \in Permitted
             /\ userRows' = userRows \cup {UserOf[r]}
             /\ Goto(r, "create") /\ UNCHANGED mutex
    <3>1. creations[UserOf[r]] = 0
      BY <2>4 DEF FoundAgain, HasLogin
    <3> QED
      BY <2>1, <2>4, <3>1, LoginStepKeeps
  <2> QED
    BY <1>3, <2>2, <2>3, <2>4 DEF Permit
<1>4. CASE CreateLogin(r)
  <2>1. /\ running /\ at[r] = "create" /\ mutex = r /\ mutex' = Free
        /\ UNCHANGED <<userRows, connected>>
        /\ UserOf[r] \in userRows /\ creations[UserOf[r]] = 0
    BY <1>4 DEF CreateLogin, Unlock
  <2>2. \A x \in Requests : x # r => at[x] \notin {"locked", "create"}
    BY <2>1
  <2>3. ASSUME Inserted(r), NEW there \in {"connect", "refused"}, Goto(r, there)
        PROVE  Kept
    <3>1. LoginsTypeOK'
      BY <2>1, <2>3 DEF Inserted
    <3>2. \A u \in Users : creations'[u] = creations[u] \/ u \in logins'
      BY <2>3 DEF Inserted
    <3> QED
      BY <2>1, <2>2, <2>3, <3>1, <3>2, LoginStepKeeps DEF Inserted
  <2>4. CASE Goto(r, "refused") /\ UNCHANGED <<logins, creations>>
    <3>1. LoginsTypeOK'
      BY <2>1, <2>4
    <3> QED
      BY <2>1, <2>2, <2>4, <3>1, LoginStepKeeps
  <2> QED
    BY <1>4, <2>3, <2>4 DEF CreateLogin
<1>5. CASE ConnectLogin(r)
  <2> DEFINE there == IF Kind[r] = "login" THEN "done" ELSE "hasLogin"
  <2>1. Goto(r, there) /\ running /\ at[r] = "connect"
        /\ UNCHANGED <<mutex, logins, userRows, creations>>
        /\ connected' = connected \cup {UserOf[r]}
    BY <1>5 DEF ConnectLogin
  <2>2. there \in {"hasLogin", "done"}
    OBVIOUS
  <2> HIDE DEF there
  <2>3. LoginsTypeOK' /\ \A x \in Requests : x # r /\ at[x] \in {"locked", "create"} => mutex' = x
    BY <2>1
  <2>4. there \in {"lock", "locked", "hasLogin", "refused", "create", "connect", "done"}
    BY <2>2
  <2> HIDE DEF IInv, LoginInv, LoginsTypeOK, From
  <2> QED
    BY <2>1, <2>2, <2>3, <2>4, LoginStepKeeps
<1>6. CASE LogIn(r)
  <2>1. Goto(r, "connect") /\ running /\ at[r] = "idle" /\ UNCHANGED <<mutex, creations, connected>>
        /\ UserOf[r] \in Permitted
        /\ userRows' = userRows \cup {UserOf[r]} /\ logins' = logins \cup {UserOf[r]}
    BY <1>6 DEF LogIn
  <2>2. LoginsTypeOK' /\ \A x \in Requests : x # r /\ at[x] \in {"locked", "create"} => mutex' = x
    BY <2>1
  <2> HIDE DEF IInv, LoginInv, LoginsTypeOK, From
  <2> QED
    BY <2>1, <2>2, LoginStepKeeps
<1> QED
  BY <1>1, <1>2, <1>3, <1>4, <1>5, <1>6 DEF LoginRequest, LoginStep

-----------------------------------------------------------------------------
(* A step of a call or text leaves the logins alone.                       *)
LEMMA CallMoves ==
  ASSUME IInv, NEW r \in Requests, NEW there \in Places \ {"locked", "create", "stale"}, running,
         Goto(r, there), there \in Callers => Kind[r] = "call",
         UNCHANGED <<running, scene, loginVars>>
  PROVE  /\ AtInv' /\ LoginInv' /\ at'[r] = there
         /\ \A x \in Requests : x # r => at'[x] = at[x]
         /\ (there \in Callers => at[r] \in Callers) => OneCaller'
<1>1. /\ AtInv' /\ at'[r] = there /\ \A x \in Requests : x # r => at'[x] = at[x]
      /\ OneCaller /\ (there \in Callers => at[r] \in Callers) => OneCaller'
  BY Moved DEF IInv
<1>2. LoginInv'
  BY <1>1, LoginsStay DEF IInv
<1> QED
  BY <1>1, <1>2 DEF IInv, KeyInv

LEMMA LookUpCallKeeps ==
  ASSUME IInv, NEW c \in Requests, LookUpCall(c), UNCHANGED <<running, scene>>
  PROVE  Kept
<1>1. /\ running /\ at[c] = "hasLogin" /\ Kind[c] = "call"
      /\ UNCHANGED <<budget, loginVars, matrixVars, callVars, memoryVars>>
  BY DEF LookUpCall, FromCall, From
<1>2. ASSUME NEW there \in {"refused", "room"}, Goto(c, there), OneCaller'
      PROVE  Kept
  <2>1. /\ AtInv' /\ LoginInv' /\ at'[c] = there
        /\ \A x \in Requests : x # c => at'[x] = at[x]
    BY <1>1, <1>2, CallMoves DEF Places
  <2>2. RoomInv' /\ NameInv' /\ NameStep
    BY <1>1, <2>1, RoomsStay DEF memoryVars, IInv, RoomInv, RoomsTypeOK
  <2>3. KeyInv'
    BY <1>1, <1>2, <2>1, KeysStay DEF Settled, IInv
  <2> QED
    BY <2>1, <2>2, <2>3 DEF Kept, IInv
<1>3. CASE Goto(c, "refused")
  <2>1. OneCaller'
    BY <1>1, <1>3, CallMoves DEF Places, Callers, InRow
  <2> QED
    BY <1>2, <1>3, <2>1
<1>4. CASE Goto(c, "room") /\ Others(c, Callers) = {}
  <2>1. \A x \in Requests : x # c => at'[x] = at[x]
    BY <1>1, <1>4, CallMoves DEF Places
  <2>2. \A x \in Requests \ {c} : UserOf[x] = UserOf[c] => at[x] \notin Callers
    BY <1>4 DEF Others, IInv, AtInv
  <2>3. OneCaller
    BY DEF IInv, KeyInv
  <2>4. OneCaller'
    BY <2>1, <2>2, <2>3 DEF OneCaller, Orderly
  <2> QED
    BY <1>2, <1>4, <2>4
<1>5. CASE Goto(c, "room") /\ "overlap" \in scene
  <2>1. OneCaller'
    BY <1>5 DEF OneCaller, Orderly
  <2> QED
    BY <1>2, <1>5, <2>1
<1> QED
  BY <1>3, <1>4, <1>5 DEF LookUpCall

(* A call on its way to its room: the keys stay.                           *)
LEMMA ToRoomMoves ==
  ASSUME IInv, NEW c \in Requests, NEW there \in {"room", "update", "join", "publish", "refused"},
         running, Goto(c, there), Kind[c] = "call", at[c] \in {"room", "update", "join"},
         UNCHANGED <<running, scene, loginVars, callVars>>
  PROVE  /\ AtInv' /\ LoginInv' /\ KeyInv' /\ at'[c] = there
         /\ \A x \in Requests : x # c => at'[x] = at[x]
<1>1. /\ AtInv' /\ LoginInv' /\ at'[c] = there
      /\ \A x \in Requests : x # c => at'[x] = at[x]
      /\ OneCaller'
  BY CallMoves DEF Places, Callers, InRow
<1>2. KeyInv'
  BY <1>1, KeysStay DEF Settled, IInv
<1> QED
  BY <1>1, <1>2

LEMMA FindRoomKeeps ==
  ASSUME IInv, NEW c \in Requests, FindRoom(c), UNCHANGED <<running, scene>>
  PROVE  Kept
<1> DEFINE u == UserOf[c]
<1>1. /\ running /\ at[c] = "room" /\ Kind[c] = "call" /\ u \in Users
      /\ UNCHANGED <<loginVars, callVars, marked, resyncs, reading, scene>>
  BY LoginsAssumption DEF FindRoom, FromCall, From
<1>2. ASSUME NEW there \in {"update", "join", "refused"}, Goto(c, there),
             RoomInv' /\ NameInv' /\ NameStep
      PROVE  Kept
  BY <1>1, <1>2, ToRoomMoves DEF Kept, IInv
<1>3. ASSUME NEW there \in {"update", "join", "refused"}, Goto(c, there)
      PROVE  at'[c] = there /\ \A x \in Requests : x # c => at'[x] = at[x]
  BY <1>1, <1>3, ToRoomMoves
<1>4. CASE CreateRoom(u) /\ Goto(c, "join") /\ UNCHANGED <<repaired, info>>
  <2>1. RoomsTypeOK /\ RoomInv
    BY DEF IInv, RoomInv
  <2>2. /\ member' \in [Users -> {"none", "invited", "joined", "left"}]
        /\ \A x \in Users : x # u => member'[x] = member[x]
    BY <1>4, <2>1 DEF CreateRoom, Enters, RoomsTypeOK
  <2>3. /\ title' \in [Users -> {"none", "bridge", "user", "blank"}]
        /\ \A x \in Users : x # u => title'[x] = title[x]
    BY <1>4, <2>1 DEF CreateRoom, RoomsTypeOK
  <2>4. recorded' \in [Users -> [name : {"bridge", "user"}, set : BOOLEAN, byUser : BOOLEAN]]
    BY <1>4, <2>1 DEF CreateRoom, ByBridge, RoomsTypeOK
  <2>5. rooms' = rooms \cup {u} /\ callable' = callable \cup {u} /\ UNCHANGED given
    BY <1>4 DEF CreateRoom
  <2>6. RoomsTypeOK'
    BY <1>1, <1>4, <2>1, <2>2, <2>3, <2>4, <2>5 DEF RoomsTypeOK
  <2>7. RoomInv'
    BY <1>1, <1>3, <1>4, <2>1, <2>2, <2>3, <2>5, <2>6, LoginsAssumption DEF RoomInv
  <2>8. NameInv' /\ NameStep
    BY <1>1, <1>3, <1>4, LoginsAssumption
       DEF CreateRoom, ByBridge, IInv, NameInv, NameStep, RoomInv, RoomsTypeOK
  <2> QED
    BY <1>2, <1>4, <2>7, <2>8
<1>5. CASE u \notin rooms /\ Goto(c, "refused") /\ UNCHANGED <<matrixVars, repaired, info>>
  <2>1. RoomInv' /\ NameInv' /\ NameStep
    BY <1>1, <1>3, <1>5, RoomsStay DEF IInv, RoomInv, RoomsTypeOK
  <2> QED
    BY <1>2, <1>5, <2>1
<1>6. ASSUME u \in rooms, Goto(c, "join"), UNCHANGED <<matrixVars, info>>,
             repaired' = repaired \/ (u \in repaired \cup callable /\ repaired' = repaired \cup {u})
      PROVE  Kept
  <2>1. RoomInv'
    BY <1>1, <1>3, <1>6 DEF IInv, RoomInv, RoomsTypeOK, matrixVars
  <2>2. NameInv' /\ NameStep
    BY <1>1, <1>3, <1>6 DEF IInv, NameInv, NameStep, matrixVars
  <2> QED
    BY <1>2, <1>6, <2>1, <2>2
<1>7. CASE /\ u \in rooms \ (repaired \cup callable)
           /\ info' = [info EXCEPT ![c] = ChatInfoName(u)]
           /\ Goto(c, "update") /\ UNCHANGED <<matrixVars, repaired>>
  <2>1. info'[c] = ChatInfoName(u) /\ \A x \in Requests : x # c => info'[x] = info[x]
    BY <1>7 DEF IInv, RoomInv, RoomsTypeOK
  <2>2. RoomInv'
    BY <1>1, <1>3, <1>7, <2>1 DEF IInv, RoomInv, RoomsTypeOK, ChatInfoName, matrixVars
  <2>3. NameInv' /\ NameStep
    BY <1>1, <1>3, <1>7, <2>1 DEF IInv, NameInv, NameStep, ChatInfoName, matrixVars
  <2> QED
    BY <1>2, <1>7, <2>2, <2>3
<1> QED
  BY <1>4, <1>5, <1>6, <1>7 DEF FindRoom, RoomOf

LEMMA UpdateInfoKeeps ==
  ASSUME IInv, NEW c \in Requests, UpdateInfo(c), UNCHANGED <<running, scene>>
  PROVE  Kept
<1> DEFINE u == UserOf[c]
<1>1. /\ running /\ at[c] = "update" /\ Kind[c] = "call" /\ u \in Users /\ Goto(c, "join")
      /\ UpdateName(u, info[c]) /\ info' = [info EXCEPT ![c] = "none"]
      /\ callable' = callable \/ callable' = callable \cup {u}
      /\ UNCHANGED <<loginVars, callVars, rooms, member, given, named, repaired, marked, resyncs, reading, scene>>
  BY LoginsAssumption DEF UpdateInfo, FromCall, From, RoomOf
<1>2. /\ at'[c] = "join" /\ \A x \in Requests : x # c => at'[x] = at[x]
      /\ AtInv' /\ LoginInv' /\ KeyInv'
  BY <1>1, ToRoomMoves
<1>3. /\ u \in rooms /\ info[c] \in {"bridge", "keep"} /\ "old" \in scene
      /\ "rename" \notin scene /\ recorded[u].byUser => info[c] = "keep"
  BY <1>1 DEF IInv, RoomInv, NameInv
<1>4. RoomsTypeOK /\ RoomInv /\ NameInv
  BY DEF IInv, RoomInv
<1>5. /\ title' \in [Users -> {"none", "bridge", "user", "blank"}]
      /\ \A x \in Users : x # u => title'[x] = title[x]
      /\ info[c] = "keep" => UNCHANGED title
  BY <1>1, <1>3, <1>4 DEF UpdateName, RoomsTypeOK
<1>6. /\ recorded' \in [Users -> [name : {"bridge", "user"}, set : BOOLEAN, byUser : BOOLEAN]]
      /\ \A x \in Users : recorded'[x].byUser = recorded[x].byUser
  <2>1. CASE UNCHANGED recorded
    BY <1>4, <2>1 DEF RoomsTypeOK
  <2>2. CASE info[c] = "bridge" /\ recorded' = [recorded EXCEPT ![u].name = info[c], ![u].set = TRUE]
    <3>1. recorded' = [recorded EXCEPT ![u] = [recorded[u] EXCEPT !.name = "bridge", !.set = TRUE]]
      BY <1>1, <1>4, <2>2 DEF RoomsTypeOK
    <3> QED
      BY <1>1, <1>4, <3>1 DEF RoomsTypeOK
  <2> QED
    BY <1>1, <1>3, <2>1, <2>2 DEF UpdateName
<1>7. info' \in [Requests -> {"none", "bridge", "keep"}]
      /\ \A x \in Requests : x # c => info'[x] = info[x]
  BY <1>1, <1>4 DEF RoomsTypeOK
<1>8. RoomInv'
  <2>1. RoomsTypeOK'
    BY <1>1, <1>3, <1>4, <1>5, <1>6, <1>7 DEF RoomsTypeOK
  <2> QED
    BY <1>1, <1>2, <1>3, <1>4, <1>5, <1>7, <2>1 DEF RoomInv
<1>9. NameInv'
  <2>1. "old" \notin scene => callable' = rooms'
    BY <1>1, <1>3
  <2> QED
    BY <1>1, <1>2, <1>4, <1>6, <1>7, <2>1, LoginsAssumption DEF NameInv
<1>10. NameStep
  BY <1>1, <1>3, <1>5 DEF NameStep
<1> QED
  BY <1>1, <1>2, <1>8, <1>9, <1>10 DEF Kept, IInv

LEMMA JoinRoomKeeps ==
  ASSUME IInv, NEW c \in Requests, JoinRoom(c), UNCHANGED <<running, scene>>
  PROVE  Kept
<1> DEFINE u == UserOf[c]
<1>1. /\ running /\ at[c] = "join" /\ Kind[c] = "call" /\ u \in Users /\ Goto(c, "publish")
      /\ UNCHANGED member \/ \E how \in {"joined", "invited", member[u]} : Enters(u, how)
      /\ UNCHANGED <<loginVars, callVars, memoryVars, rooms, callable, title, recorded, given, named, scene>>
  BY LoginsAssumption DEF JoinRoom, FromCall, From, RoomOf
<1>2. /\ at'[c] = "publish" /\ \A x \in Requests : x # c => at'[x] = at[x]
      /\ AtInv' /\ LoginInv' /\ KeyInv'
  BY <1>1, ToRoomMoves
<1>3. u \in rooms
  BY <1>1 DEF IInv, RoomInv
<1>4. member' \in [Users -> {"none", "invited", "joined", "left"}]
      /\ \A x \in Users : x # u => member'[x] = member[x]
  <2>1. RoomsTypeOK
    BY DEF IInv, RoomInv
  <2>2. CASE UNCHANGED member
    BY <2>1, <2>2 DEF RoomsTypeOK
  <2>3. ASSUME NEW how \in {"joined", "invited", member[u]}, Enters(u, how)
        PROVE  member' \in [Users -> {"none", "invited", "joined", "left"}]
               /\ \A x \in Users : x # u => member'[x] = member[x]
    BY <1>1, <2>1, <2>3 DEF Enters, RoomsTypeOK
  <2> QED
    BY <1>1, <2>2, <2>3
<1>5. RoomInv'
  BY <1>1, <1>2, <1>3, <1>4 DEF IInv, RoomInv, RoomsTypeOK, memoryVars
<1>6. NameInv' /\ NameStep
  BY <1>1, <1>2 DEF IInv, NameInv, NameStep, memoryVars
<1> QED
  BY <1>1, <1>2, <1>5, <1>6 DEF Kept, IInv

-----------------------------------------------------------------------------
(* A call with its membership: the rooms stay.                             *)
LEMMA InRowMoves ==
  ASSUME IInv, NEW c \in Requests,
         NEW there \in {"send", "up", "retract", "retracted", "done"},
         running, Goto(c, there), Kind[c] = "call", at[c] \in Callers,
         UNCHANGED <<running, scene, loginVars, matrixVars, memoryVars>>, KeyInv'
  PROVE  Kept
<1>1. /\ AtInv' /\ LoginInv' /\ at'[c] = there
      /\ \A x \in Requests : x # c => at'[x] = at[x]
  BY CallMoves DEF Places, Callers, InRow
<1>2. RoomInv' /\ NameInv' /\ NameStep
  BY <1>1, RoomsStay DEF memoryVars, IInv, RoomInv, RoomsTypeOK
<1> QED
  BY <1>1, <1>2 DEF Kept, IInv

(* What a read of the version answers: what a version that can be read     *)
(* says, and what was answered before.                                     *)
LEMMA KeyRead ==
  ASSUME IInv, NEW c \in Requests, NEW k \in KeyForms, StateKeyRead(RoomOf(c), k)
  PROVE  /\ "version" \notin scene => k = Right
         /\ version[RoomOf(c)] \in {"unread", k}
BY LoginsAssumption DEF StateKeyRead, RoomOf, Fails, IInv, KeyInv, KeysTypeOK, ReadInv

(* The keys change of the one call and the one room.                       *)
LEMMA KeysMove ==
  ASSUME IInv, NEW c \in Requests, Orderly => at[c] \in Callers, UNCHANGED scene,
         NEW there \in Places, \A x \in Requests : at'[x] = IF x = c THEN there ELSE at[x],
         OneCaller', NEW k \in KeyForms, "version" \notin scene => k = Right,
         version' \in {version, [version EXCEPT ![RoomOf(c)] = k]},
         \A x \in Requests \ {c} : key'[x] = key[x] /\ membership'[x] = membership[x],
         key' \in [Requests -> KeyForms \cup {"none"}],
         membership' \in [Requests -> SUBSET KeyForms],
         "version" \notin scene =>
           /\ membership'[c] \subseteq {Right}
           /\ there = "send" => key'[c] = Right
           /\ there = "retracted" => membership'[c] = {},
         Orderly =>
           /\ there \notin Settled => membership'[c] = {}
           /\ there = "send" => version'[RoomOf(c)] \in {"unread", key'[c]}
           /\ there \in {"up", "retract"} =>
                version'[RoomOf(c)] = key'[c] /\ membership'[c] \subseteq {key'[c]},
         there \in {"send", "up"} => key'[c] \in KeyForms
  PROVE  KeyInv'
<1>1. RoomOf(c) \in Users /\ UserOf \in [Requests -> Users] /\ KeyInv
  BY LoginsAssumption DEF RoomOf, IInv
<1>2. /\ version' \in [Users -> KeyForms \cup {"unread"}]
      /\ version'[RoomOf(c)] \in {version[RoomOf(c)], k}
      /\ \A u \in Users : u # RoomOf(c) => version'[u] = version[u]
  BY <1>1 DEF KeyInv, KeysTypeOK
<1>3. KeysTypeOK'
  BY <1>2 DEF KeysTypeOK
<1>4. ReadInv'
  BY <1>1, <1>2 DEF KeyInv, ReadInv
<1>5. OrderlyInv'
  <2> SUFFICES ASSUME Orderly, NEW r \in Requests
               PROVE  /\ at'[r] \notin Settled => membership'[r] = {}
                      /\ at'[r] = "send" => version'[UserOf[r]] \in {"unread", key'[r]}
                      /\ at'[r] \in {"up", "retract"} =>
                           version'[UserOf[r]] = key'[r] /\ membership'[r] \subseteq {key'[r]}
    BY DEF OrderlyInv, Orderly, Settled
  <2>1. CASE r = c
    BY <1>1, <1>2, <2>1 DEF RoomOf, Orderly
  <2>2. CASE r # c
    <3>1. /\ at'[r] = at[r] /\ key'[r] = key[r] /\ membership'[r] = membership[r]
          /\ at[r] \notin Settled => membership[r] = {}
          /\ at[r] = "send" => version[UserOf[r]] \in {"unread", key[r]}
          /\ at[r] \in {"up", "retract"} =>
               version[UserOf[r]] = key[r] /\ membership[r] \subseteq {key[r]}
      BY <1>1, <2>2 DEF KeyInv, OrderlyInv, Orderly, Settled
    <3>2. at[r] \in {"send", "up", "retract"} => UserOf[r] # RoomOf(c)
      BY <1>1, <2>2 DEF KeyInv, OneCaller, Orderly, Callers, InRow, RoomOf
    <3> QED
      BY <1>1, <1>2, <3>1, <3>2
  <2> QED
    BY <2>1, <2>2
<1>6. \A r \in Requests : at'[r] \in {"send", "up"} => key'[r] \in KeyForms
  BY <1>1 DEF KeyInv
<1> QED
  BY <1>3, <1>4, <1>5, <1>6 DEF KeyInv

LEMMA SettleKeyKeeps ==
  ASSUME IInv, NEW c \in Requests, SettleKey(c), UNCHANGED <<running, scene>>
  PROVE  Kept
<1>1. /\ running /\ at[c] = "publish" /\ Kind[c] = "call" /\ Goto(c, "send")
      /\ UNCHANGED <<loginVars, matrixVars, memoryVars, membership, version, scene>>
  BY DEF SettleKey, FromCall, From
<1>2. PICK k \in KeyForms : StateKeyRead(RoomOf(c), k) /\ key' = [key EXCEPT ![c] = k]
  BY DEF SettleKey
<1>3. /\ OneCaller' /\ at'[c] = "send" /\ \A x \in Requests : x # c => at'[x] = at[x]
  BY <1>1, CallMoves DEF Places, Callers, InRow
<1>4. /\ "version" \notin scene => k = Right
      /\ version[RoomOf(c)] \in {"unread", k}
  BY <1>2, KeyRead
<1>5. KeyInv
  BY DEF IInv
<1>6. /\ key' \in [Requests -> KeyForms \cup {"none"}] /\ key'[c] = k
      /\ \A x \in Requests \ {c} : key'[x] = key[x] /\ membership'[x] = membership[x]
      /\ membership' \in [Requests -> SUBSET KeyForms]
  BY <1>1, <1>2, <1>5 DEF KeyInv, KeysTypeOK
<1>7. /\ "version" \notin scene => membership'[c] \subseteq {Right}
      /\ Orderly => membership'[c] = {}
  BY <1>1, <1>5 DEF KeyInv, ReadInv, OrderlyInv, Settled
<1>8. KeyInv'
  BY <1>1, <1>3, <1>4, <1>6, <1>7, KeysMove DEF Places, Callers, InRow, Settled
<1> QED
  BY <1>1, <1>8, InRowMoves DEF Callers, InRow

LEMMA PublishMembershipKeeps ==
  ASSUME IInv, NEW c \in Requests, PublishMembership(c), UNCHANGED <<running, scene>>
  PROVE  Kept
<1>1. /\ running /\ at[c] = "send" /\ Kind[c] = "call"
      /\ version' = [version EXCEPT ![RoomOf(c)] = key[c]]
      /\ membership' \in {membership, [membership EXCEPT ![c] = @ \cup {key[c]}]}
      /\ Goto(c, "up") \/ Goto(c, "retract")
      /\ UNCHANGED <<loginVars, matrixVars, memoryVars, key, scene>>
  BY DEF PublishMembership, FromCall, From, Keeps, Cached
<1>2. PICK there \in {"up", "retract"} : Goto(c, there)
  BY <1>1
<1>3. OneCaller' /\ at'[c] = there /\ \A x \in Requests : x # c => at'[x] = at[x]
  BY <1>1, <1>2, CallMoves DEF Places, Callers, InRow
<1>4. KeyInv /\ RoomOf(c) \in Users
  BY LoginsAssumption DEF IInv, RoomOf
<1>5. /\ key[c] \in KeyForms /\ key'[c] = key[c]
      /\ "version" \notin scene => key[c] = Right /\ membership[c] \subseteq {Right}
      /\ Orderly => membership[c] = {}
  BY <1>1, <1>4 DEF KeyInv, KeysTypeOK, ReadInv, OrderlyInv
<1>6. /\ key' \in [Requests -> KeyForms \cup {"none"}]
      /\ \A x \in Requests \ {c} : key'[x] = key[x] /\ membership'[x] = membership[x]
      /\ membership' \in [Requests -> SUBSET KeyForms]
      /\ membership'[c] \subseteq membership[c] \cup {key[c]}
      /\ version'[RoomOf(c)] = key[c]
  BY <1>1, <1>4, <1>5 DEF KeyInv, KeysTypeOK
<1>7. /\ "version" \notin scene => key[c] = Right
      /\ "version" \notin scene =>
           /\ membership'[c] \subseteq {Right}
           /\ there = "send" => key'[c] = Right
           /\ there = "retracted" => membership'[c] = {}
      /\ Orderly =>
           /\ there \notin Settled => membership'[c] = {}
           /\ there = "send" => version'[RoomOf(c)] \in {"unread", key'[c]}
           /\ there \in {"up", "retract"} =>
                version'[RoomOf(c)] = key'[c] /\ membership'[c] \subseteq {key'[c]}
      /\ there \in {"send", "up"} => key'[c] \in KeyForms
  BY <1>5, <1>6 DEF Settled
<1>8. /\ at[c] \in Callers /\ there \in Places /\ there \in {"up", "retract"}
      /\ \A x \in Requests : at'[x] = IF x = c THEN there ELSE at[x]
  BY <1>1, <1>3 DEF Places, Callers, InRow
<1>9. version' \in {version, [version EXCEPT ![RoomOf(c)] = key[c]]}
  BY <1>1
<1>10. KeyInv'
  BY <1>1, <1>3, <1>5, <1>6, <1>7, <1>8, <1>9, KeysMove
<1> QED
  BY <1>1, <1>2, <1>10, InRowMoves DEF Callers, InRow

LEMMA EndCallKeeps ==
  ASSUME IInv, NEW c \in Requests, EndCall(c), UNCHANGED <<running, scene>>
  PROVE  Kept
<1>1. /\ running /\ at[c] = "up" /\ Kind[c] = "call" /\ Goto(c, "retract")
      /\ UNCHANGED <<loginVars, matrixVars, callVars, memoryVars, scene>>
  BY DEF EndCall, FromCall, From
<1>2. OneCaller' /\ at'[c] = "retract" /\ \A x \in Requests : x # c => at'[x] = at[x]
  BY <1>1, CallMoves DEF Places, Callers, InRow
<1>3. KeyInv'
  BY <1>1, <1>2, KeysStay DEF Settled, IInv
<1> QED
  BY <1>1, <1>3, InRowMoves DEF Callers, InRow

(* The key worked out anew is the one the membership stands at.            *)
LEMMA RetractKeepsKeys ==
  ASSUME IInv, NEW c \in Requests, at[c] \in {"retract", "stale"}, Retract(c), UNCHANGED scene,
         NEW there \in {"retracted", "done"}, Goto(c, there), OneCaller'
  PROVE  KeyInv'
<1>1. KeyInv /\ RoomOf(c) \in Users /\ AtInv
  BY LoginsAssumption DEF IInv, RoomOf
<1>2. /\ there \in Places /\ there \in {"retracted", "done"} /\ UNCHANGED key
      /\ \A x \in Requests : at'[x] = IF x = c THEN there ELSE at[x]
  BY <1>1 DEF AtInv, Goto, Places, Retract
<1>3. Orderly => at[c] = "retract"
  BY <1>1 DEF AtInv, Orderly
<1>4. CASE UNCHANGED <<version, membership>> /\ there = "done"
  BY <1>1, <1>2, <1>4, KeysStay DEF Settled, callVars
<1>5. ASSUME NEW k \in KeyForms, StateKeyRead(RoomOf(c), k), Keeps(RoomOf(c), k),
             membership' = [membership EXCEPT ![c] = @ \ {k}]
      PROVE  KeyInv'
  <2>1. /\ "version" \notin scene => k = Right
        /\ version[RoomOf(c)] \in {"unread", k}
    BY <1>5, KeyRead
  <2>2. /\ \A x \in Requests \ {c} : key'[x] = key[x] /\ membership'[x] = membership[x]
        /\ key' \in [Requests -> KeyForms \cup {"none"}]
        /\ membership' \in [Requests -> SUBSET KeyForms]
        /\ membership'[c] = membership[c] \ {k}
        /\ version' \in {version, [version EXCEPT ![RoomOf(c)] = k]}
    BY <1>1, <1>2, <1>5 DEF Keeps, Cached, KeyInv, KeysTypeOK
  <2>3. "version" \notin scene => membership'[c] = {}
    BY <1>1, <2>1, <2>2 DEF KeyInv, ReadInv
  <2>4. Orderly => membership'[c] = {}
    <3>1. Orderly => version[RoomOf(c)] = key[c] /\ membership[c] \subseteq {key[c]}
      BY <1>1, <1>3 DEF KeyInv, OrderlyInv, RoomOf
    <3> QED
      BY <1>1, <2>1, <2>2, <3>1 DEF KeyInv, KeysTypeOK, KeyForms
  <2> QED
    BY <1>2, <1>3, <2>1, <2>2, <2>3, <2>4, KeysMove DEF Callers, InRow
<1>6. Goto(c, "done") => there = "done"
  BY <1>1, <1>2 DEF Goto, AtInv
<1> QED
  BY <1>4, <1>5, <1>6 DEF Retract

LEMMA RetractMembershipKeeps ==
  ASSUME IInv, NEW c \in Requests, RetractMembership(c), UNCHANGED <<running, scene>>
  PROVE  Kept
<1>1. /\ running /\ at[c] = "retract" /\ Kind[c] = "call" /\ Retract(c)
      /\ UNCHANGED <<loginVars, matrixVars, memoryVars, scene>>
  BY DEF RetractMembership, FromCall, From, Retract
<1>2. PICK there \in {"retracted", "done"} : Goto(c, there)
  BY <1>1 DEF Retract
<1>3. OneCaller'
  BY <1>1, <1>2, CallMoves DEF Places, Callers, InRow
<1>4. KeyInv'
  BY <1>1, <1>2, <1>3, RetractKeepsKeys
<1> QED
  BY <1>1, <1>2, <1>4, InRowMoves DEF Callers, InRow

LEMMA SweepStaleKeeps ==
  ASSUME IInv, NEW c \in Requests, SweepStale(c), UNCHANGED scene
  PROVE  Kept
<1>1. /\ ~running /\ at[c] = "stale" /\ Retract(c)
      /\ UNCHANGED <<loginVars, matrixVars, memoryVars, running, scene>>
  BY DEF SweepStale, Retract
<1>2. PICK there \in {"retracted", "done"} : Goto(c, there)
  BY <1>1 DEF Retract
<1>3. /\ AtInv' /\ OneCaller' /\ at'[c] = there
      /\ \A x \in Requests : x # c => at'[x] = at[x]
  <2>1. AtInv /\ OneCaller
    BY DEF IInv, KeyInv
  <2>2. /\ at' \in [Requests -> Places] /\ at'[c] = there
        /\ \A x \in Requests : x # c => at'[x] = at[x]
    BY <1>2, <2>1 DEF AtInv, Goto, Places
  <2>3. AtInv'
    BY <1>1, <2>1, <2>2 DEF AtInv, Callers, InRow
  <2>4. OneCaller'
    BY <1>1, <2>1, <2>2 DEF OneCaller, Orderly, Callers, InRow
  <2> QED
    BY <2>2, <2>3, <2>4
<1>4. LoginInv'
  BY <1>1, <1>3, LoginsStay DEF IInv
<1>5. RoomInv' /\ NameInv' /\ NameStep
  BY <1>1, <1>3, RoomsStay DEF memoryVars, IInv, RoomInv, RoomsTypeOK
<1>6. KeyInv'
  BY <1>1, <1>2, <1>3, RetractKeepsKeys
<1> QED
  BY <1>1, <1>3, <1>4, <1>5, <1>6 DEF Kept, IInv

-----------------------------------------------------------------------------
(* What happens to the one user's room, and not to where requests are: the *)
(* repair of a call keeps what it has read.                                *)
LEMMA RoomMoves ==
  ASSUME IInv, NEW u \in rooms, UNCHANGED <<at, running, scene, loginVars, callVars, rooms, info>>,
         NEW C \in {callable, callable \cup {u}}, callable' = C,
         repaired' = repaired, resyncs' \subseteq rooms, marked' \subseteq Users,
         reading' \subseteq Users,
         member' \in [Users -> {"none", "invited", "joined", "left"}],
         title' \in [Users -> {"none", "bridge", "user", "blank"}],
         recorded' \in [Users -> [name : {"bridge", "user"}, set : BOOLEAN, byUser : BOOLEAN]],
         given' \in [Users -> Seq({"user", "blank"})], named' \in [Users -> Nat],
         \A x \in Users : x # u => /\ member'[x] = member[x] /\ title'[x] = title[x]
                                   /\ given'[x] = given[x] /\ recorded'[x] = recorded[x],
         "rename" \notin scene => given'[u] = <<>> /\ recorded'[u].byUser = recorded[u].byUser,
         title'[u] = "user" \/ ~(title[u] = "user" /\ recorded[u].byUser)
                            \/ named'[u] > named[u]
  PROVE  Kept
<1>1. RoomInv /\ RoomsTypeOK /\ NameInv /\ UserOf \in [Requests -> Users]
  BY LoginsAssumption DEF IInv, RoomInv
<1>2. AtInv' /\ LoginInv' /\ KeyInv'
  BY DEF IInv, AtInv, LoginInv, LoginsTypeOK, loginVars, callVars, KeyInv, KeysTypeOK, ReadInv,
         OneCaller, OrderlyInv, Orderly
<1>3. RoomsTypeOK'
  BY <1>1 DEF RoomsTypeOK
<1>4. RoomInv'
  BY <1>1, <1>3 DEF RoomInv
<1>5. NameInv'
  <2>1. "rename" \notin scene => \A x \in Users : given'[x] = <<>> /\ recorded'[x].byUser = recorded[x].byUser
    BY <1>1 DEF NameInv
  <2>2. "old" \notin scene => callable' = rooms'
    BY <1>1 DEF NameInv
  <2> QED
    BY <1>1, <2>1, <2>2 DEF NameInv
<1>6. NameStep
  BY DEF NameStep
<1> QED
  BY <1>2, <1>4, <1>5, <1>6 DEF Kept, IInv

LEMMA DeliverTextKeeps ==
  ASSUME IInv, NEW t \in Requests, DeliverText(t), UNCHANGED <<running, scene>>
  PROVE  Kept
<1> DEFINE u == UserOf[t]
<1>1. /\ running /\ at[t] = "hasLogin" /\ Goto(t, "done") /\ u \in Users
      /\ UNCHANGED <<loginVars, callVars, repaired, resyncs, reading, info, scene>>
  BY LoginsAssumption DEF DeliverText, From
<1>2. /\ AtInv' /\ LoginInv' /\ OneCaller' /\ at'[t] = "done"
      /\ \A x \in Requests : x # t => at'[x] = at[x]
  BY <1>1, CallMoves DEF Places, Callers, InRow
<1>3. KeyInv'
  BY <1>1, <1>2, KeysStay DEF Settled, IInv
<1>4. RoomsTypeOK /\ RoomInv /\ NameInv
  BY DEF IInv, RoomInv
<1>5. CASE CreateRoom(u) /\ marked' = marked \cup {u}
  <2>2. /\ member' \in [Users -> {"none", "invited", "joined", "left"}]
        /\ \A x \in Users : x # u => member'[x] = member[x]
    BY <1>1, <1>5, <1>4 DEF CreateRoom, Enters, RoomsTypeOK
  <2>3. /\ title' \in [Users -> {"none", "bridge", "user", "blank"}]
        /\ \A x \in Users : x # u => title'[x] = title[x]
    BY <1>5, <1>4 DEF CreateRoom, RoomsTypeOK
  <2>4. recorded' \in [Users -> [name : {"bridge", "user"}, set : BOOLEAN, byUser : BOOLEAN]]
    BY <1>5, <1>4 DEF CreateRoom, ByBridge, RoomsTypeOK
  <2>5. rooms' = rooms \cup {u} /\ callable' = callable \cup {u} /\ UNCHANGED given
    BY <1>5 DEF CreateRoom
  <2>6. RoomsTypeOK'
    BY <1>1, <1>5, <1>4, <2>2, <2>3, <2>4, <2>5 DEF RoomsTypeOK
  <2>7. RoomInv'
    BY <1>1, <1>2, <1>4, <2>2, <2>3, <2>5, <2>6, LoginsAssumption DEF RoomInv
  <2>8. NameInv' /\ NameStep
    BY <1>1, <1>2, <1>4, <1>5, LoginsAssumption
       DEF CreateRoom, ByBridge, NameInv, NameStep, RoomInv, RoomsTypeOK
  <2> QED
    BY <1>1, <1>2, <1>3, <2>7, <2>8 DEF Kept, IInv
<1>6. CASE /\ u \in rooms /\ MarkInPortal(u)
           /\ UNCHANGED <<rooms, callable, title, recorded, given, named>>
  <2>1. /\ marked' \subseteq Users
        /\ member' \in [Users -> {"none", "invited", "joined", "left"}]
        /\ \A x \in Users : x # u => member'[x] = member[x]
    BY <1>1, <1>4, <1>6 DEF MarkInPortal, Enters, RoomsTypeOK
  <2>2. RoomsTypeOK'
    BY <1>1, <1>4, <1>6, <2>1 DEF RoomsTypeOK
  <2>3. RoomInv'
    BY <1>1, <1>2, <1>4, <1>6, <2>1, <2>2 DEF RoomInv
  <2>4. NameInv' /\ NameStep
    BY <1>1, <1>2, <1>4, <1>6 DEF NameInv, NameStep
  <2> QED
    BY <1>1, <1>2, <1>3, <2>3, <2>4 DEF Kept, IInv
<1> QED
  BY <1>5, <1>6 DEF DeliverText

LEMMA EventKeeps ==
  ASSUME IInv, NEW u \in Users, Event(u), UNCHANGED <<running, scene>>
  PROVE  Kept
<1>1. RoomsTypeOK /\ RoomInv /\ NameInv
  BY DEF IInv, RoomInv
<1>2. CASE HandleMatrixRoomName(u)
  <2>1. /\ given[u] # <<>> /\ given' = [given EXCEPT ![u] = Tail(@)]
        /\ \E row \in {ByUser(u), BlankName} : recorded' = [recorded EXCEPT ![u] = row]
        /\ resyncs' \in {resyncs, resyncs \cup {u}}
        /\ UNCHANGED <<at, loginVars, callVars, rooms, callable, member, title, named,
                       repaired, marked, reading, info>>
    BY <1>2 DEF HandleMatrixRoomName
  <2>2. u \in rooms /\ "rename" \in scene
    BY <1>1, <2>1 DEF RoomInv, NameInv
  <2>3. /\ given' \in [Users -> Seq({"user", "blank"})]
        /\ \A x \in Users : x # u => given'[x] = given[x]
    <3>1. given[u] \in Seq({"user", "blank"})
      BY <1>1 DEF RoomsTypeOK
    <3>2. Tail(given[u]) \in Seq({"user", "blank"})
      BY <2>1, <3>1
    <3> QED
      BY <1>1, <2>1, <3>2 DEF RoomsTypeOK
  <2>4. /\ recorded' \in [Users -> [name : {"bridge", "user"}, set : BOOLEAN, byUser : BOOLEAN]]
        /\ \A x \in Users : x # u => recorded'[x] = recorded[x]
    <3>1. PICK row \in {ByUser(u), BlankName} : recorded' = [recorded EXCEPT ![u] = row]
      BY <2>1
    <3>2. row \in [name : {"bridge", "user"}, set : BOOLEAN, byUser : BOOLEAN]
      <4>1. CASE row = [name |-> "user", set |-> TRUE, byUser |-> TRUE]
        BY <4>1
      <4>2. CASE row = [name |-> "bridge", set |-> FALSE, byUser |-> FALSE]
        BY <4>2
      <4> QED
        BY <4>1, <4>2 DEF ByUser, BlankName
    <3> QED
      BY <1>1, <3>1, <3>2 DEF RoomsTypeOK
  <2>5. title'[u] = "user" \/ ~(title[u] = "user" /\ recorded[u].byUser)
    BY <2>1
  <2> QED
    BY <1>1, <2>1, <2>2, <2>3, <2>4, <2>5, RoomMoves DEF RoomsTypeOK, NameInv
<1>3. CASE Resync(u)
  <2>1. /\ u \in resyncs /\ resyncs' = resyncs \ {u}
        /\ MarkInPortal(u) /\ UpdateName(u, ChatInfoName(u))
        /\ callable' \in {callable, callable \cup {u}}
        /\ UNCHANGED <<at, loginVars, callVars, rooms, given, named, repaired, reading, info>>
    BY <1>3 DEF Resync
  <2>2. u \in rooms
    BY <1>1, <2>1 DEF RoomsTypeOK
  <2>3. /\ marked' \subseteq Users
        /\ member' \in [Users -> {"none", "invited", "joined", "left"}]
        /\ \A x \in Users : x # u => member'[x] = member[x]
    BY <1>1, <2>1 DEF MarkInPortal, Enters, RoomsTypeOK
  <2>4. CASE UNCHANGED <<title, recorded>>
    BY <1>1, <2>1, <2>2, <2>3, <2>4, RoomMoves DEF RoomsTypeOK, NameInv
  <2>5. CASE /\ ~recorded[u].byUser
             /\ title' = [title EXCEPT ![u] = "bridge"]
             /\ recorded' = [recorded EXCEPT ![u].name = "bridge", ![u].set = TRUE]
    <3>1. recorded' = [recorded EXCEPT ![u] = [recorded[u] EXCEPT !.name = "bridge", !.set = TRUE]]
      BY <1>1, <2>5 DEF RoomsTypeOK
    <3>2. /\ recorded' \in [Users -> [name : {"bridge", "user"}, set : BOOLEAN, byUser : BOOLEAN]]
          /\ recorded'[u].byUser = recorded[u].byUser
          /\ \A x \in Users : x # u => recorded'[x] = recorded[x]
      BY <1>1, <3>1 DEF RoomsTypeOK
    <3>3. /\ title' \in [Users -> {"none", "bridge", "user", "blank"}]
          /\ \A x \in Users : x # u => title'[x] = title[x]
      BY <1>1, <2>5 DEF RoomsTypeOK
    <3>4. /\ given' \in [Users -> Seq({"user", "blank"})] /\ named' \in [Users -> Nat]
          /\ resyncs' \subseteq rooms /\ reading' \subseteq Users
          /\ "rename" \notin scene => given'[u] = <<>>
          /\ ~(title[u] = "user" /\ recorded[u].byUser)
          /\ UNCHANGED <<at, running, scene, loginVars, callVars, rooms, info, repaired>>
      BY <1>1, <2>1, <2>5 DEF RoomsTypeOK, NameInv
    <3>5. \A x \in Users : x # u => /\ member'[x] = member[x] /\ title'[x] = title[x]
                                   /\ given'[x] = given[x] /\ recorded'[x] = recorded[x]
      BY <2>1, <2>3, <3>2, <3>3
    <3> QED
      BY <2>1, <2>2, <2>3, <3>2, <3>3, <3>4, <3>5, RoomMoves
  <2> QED
    BY <2>1, <2>4, <2>5 DEF UpdateName, ChatInfoName
<1>4. CASE ResyncPortals(u)
  <2>1. /\ reading' = reading \ {u}
        /\ resyncs' = resyncs \/ (resyncs' = resyncs \cup {u} /\ (IsIn(u) \/ u \in rooms))
        /\ UNCHANGED <<at, loginVars, matrixVars, callVars, repaired, marked, info>>
    BY <1>4 DEF ResyncPortals
  <2>2. resyncs' \subseteq rooms /\ reading' \subseteq Users
    BY <1>1, <2>1 DEF RoomsTypeOK, RoomInv, IsIn
  <2>3. AtInv' /\ LoginInv' /\ KeyInv'
    BY <2>1 DEF IInv, AtInv, LoginInv, LoginsTypeOK, loginVars, callVars, KeyInv, KeysTypeOK,
                ReadInv, OneCaller, OrderlyInv, Orderly
  <2>4. RoomInv' /\ NameInv' /\ NameStep
    BY <1>1, <2>1, <2>2 DEF RoomInv, RoomsTypeOK, NameInv, NameStep, matrixVars
  <2> QED
    BY <2>1, <2>3, <2>4 DEF Kept, IInv
<1> QED
  BY <1>2, <1>3, <1>4 DEF Event

-----------------------------------------------------------------------------
(* Users, crashes and starts.                                              *)
LEMMA UserKeeps ==
  ASSUME IInv, NEW u \in Users,
         Accept(u) \/ Leave(u) \/ \E name \in {"user", "blank"} : Rename(u, name),
         UNCHANGED scene
  PROVE  Kept
<1>1. RoomsTypeOK /\ RoomInv /\ NameInv
  BY DEF IInv, RoomInv
<1>2. ASSUME NEW from \in {"invited", "joined"}, NEW to \in {"joined", "left"}, Moves(u, from, to)
      PROVE  Kept
  <2>1. /\ member[u] = from /\ member' = [member EXCEPT ![u] = to]
        /\ UNCHANGED <<at, running, loginVars, callVars, memoryVars, rooms, callable, title,
                       recorded, given, named>>
    BY <1>2 DEF Moves, Enters
  <2>2. u \in rooms
    BY <1>1, <2>1 DEF RoomInv
  <2>3. /\ member' \in [Users -> {"none", "invited", "joined", "left"}]
        /\ \A x \in Users : x # u => member'[x] = member[x]
    BY <1>1, <2>1 DEF RoomsTypeOK
  <2> QED
    BY <1>1, <2>1, <2>2, <2>3, RoomMoves DEF RoomsTypeOK, NameInv, memoryVars
<1>3. ASSUME NEW name \in {"user", "blank"}, Rename(u, name)
      PROVE  Kept
  <2>1. /\ "rename" \in scene /\ member[u] = "joined"
        /\ named' = [named EXCEPT ![u] = @ + 1]
        /\ given' = [given EXCEPT ![u] = Append(@, name)]
        /\ title' = [title EXCEPT ![u] = name]
        /\ UNCHANGED <<at, running, loginVars, callVars, memoryVars, rooms, callable, member, recorded>>
    BY <1>3 DEF Rename
  <2>2. u \in rooms
    BY <1>1, <2>1 DEF RoomInv
  <2>3. /\ given' \in [Users -> Seq({"user", "blank"})]
        /\ \A x \in Users : x # u => given'[x] = given[x]
    <3>1. given[u] \in Seq({"user", "blank"})
      BY <1>1 DEF RoomsTypeOK
    <3>2. Append(given[u], name) \in Seq({"user", "blank"})
      BY <3>1
    <3> QED
      BY <1>1, <2>1, <3>2 DEF RoomsTypeOK
  <2>4. /\ title' \in [Users -> {"none", "bridge", "user", "blank"}]
        /\ \A x \in Users : x # u => title'[x] = title[x]
    BY <1>1, <2>1 DEF RoomsTypeOK
  <2>5. named' \in [Users -> Nat] /\ named'[u] > named[u]
    BY <1>1, <2>1 DEF NameInv
  <2> QED
    BY <1>1, <2>1, <2>2, <2>3, <2>4, <2>5, RoomMoves DEF RoomsTypeOK, memoryVars
<1> QED
  BY <1>2, <1>3 DEF Accept, Leave

LEMMA CrashKeeps ==
  ASSUME IInv, Crash, UNCHANGED scene
  PROVE  Kept
<1>1. /\ "crash" \in scene /\ ~running' /\ mutex' = Free /\ connected' = {}
      /\ UNCHANGED <<logins, userRows, creations, matrixVars, membership, key, scene>>
      /\ repaired' = {} /\ marked' = {} /\ resyncs' = {} /\ reading' = {}
      /\ version' = [x \in Users |-> "unread"] /\ info' = [r \in Requests |-> "none"]
      /\ at' = [r \in Requests |-> AfterCrash(r)] /\ running' = FALSE
  BY DEF Crash, StopLogins, Fails
<1>2. AtInv /\ LoginInv /\ RoomInv /\ RoomsTypeOK /\ NameInv /\ KeyInv
  BY DEF IInv, RoomInv
<1>3. \A r \in Requests : /\ at'[r] \in {"idle", "hasLogin", "refused", "retracted", "stale", "done"}
                          /\ at'[r] = "retracted" => at[r] = "retracted"
  <2> SUFFICES ASSUME NEW r \in Requests
               PROVE  /\ AfterCrash(r) \in {"idle", "hasLogin", "refused", "retracted", "stale", "done"}
                      /\ AfterCrash(r) = "retracted" => at[r] = "retracted"
    BY <1>1
  <2> QED
    BY DEF AfterCrash
<1>4. AtInv'
  BY <1>1, <1>3 DEF AtInv, Places, Callers, InRow
<1>5. LoginInv'
  BY <1>1, <1>2, <1>3 DEF LoginInv, LoginsTypeOK
<1>6. RoomInv'
  BY <1>1, <1>2, <1>3 DEF RoomInv, RoomsTypeOK, matrixVars
<1>7. NameInv' /\ NameStep
  BY <1>1, <1>2, <1>3 DEF NameInv, NameStep, matrixVars
<1>8. KeyInv'
  BY <1>1, <1>2, <1>3 DEF KeyInv, KeysTypeOK, ReadInv, OneCaller, OrderlyInv, Orderly
<1> QED
  BY <1>1, <1>4, <1>5, <1>6, <1>7, <1>8 DEF Kept, IInv

LEMMA StartKeeps ==
  ASSUME IInv, Start, UNCHANGED scene
  PROVE  Kept
<1> DEFINE missing == (Members \cap Permitted) \ logins
<1>1. /\ ~running /\ running' = TRUE /\ reading' = connected' /\ connected' = logins'
      /\ logins' \in {logins, logins \cup missing} /\ userRows' = userRows \cup missing
      /\ creations' = [u \in Users |-> IF u \in logins' \ logins THEN creations[u] + 1
                                                           ELSE creations[u]]
      /\ UNCHANGED <<mutex, at, matrixVars, callVars, repaired, marked, resyncs, info, scene>>
  BY DEF Start, StartLogins
<1>2. AtInv /\ LoginInv /\ LoginsTypeOK /\ RoomInv /\ NameInv /\ KeyInv
  BY DEF IInv, LoginInv
<1>3. \A r \in Requests : at[r] \in {"idle", "hasLogin", "refused", "retracted", "stale", "done"}
  BY <1>1, <1>2 DEF AtInv
<1>4. AtInv'
  BY <1>1, <1>2, <1>3 DEF AtInv
<1>5. LoginsTypeOK'
  <2>1. \A u \in Users : u \notin logins => creations[u] = 0
    BY <1>2 DEF LoginInv, LoginsTypeOK
  <2>2. creations' \in [Users -> 0..1]
    BY <1>1, <1>2, <2>1 DEF LoginsTypeOK
  <2> QED
    BY <1>1, <1>2, <2>2, LoginsAssumption DEF LoginsTypeOK
<1>6. LoginInv'
  BY <1>1, <1>2, <1>3, <1>5 DEF LoginInv, LoginsTypeOK
<1>7. RoomInv' /\ NameInv' /\ NameStep
  <2>1. reading' \subseteq Users
    BY <1>1, <1>5 DEF LoginsTypeOK
  <2> QED
    BY <1>1, <1>2, <2>1, RoomsStay
<1>8. KeyInv'
  <2>1. OneCaller'
    BY <1>1, <1>2 DEF KeyInv, OneCaller, Orderly
  <2> QED
    BY <1>1, <1>2, <2>1, KeysStay
<1> QED
  BY <1>1, <1>4, <1>6, <1>7, <1>8 DEF Kept, IInv

-----------------------------------------------------------------------------
LEMMA InitIInv == Init => IInv
<1> SUFFICES ASSUME Init PROVE IInv
  OBVIOUS
<1>1. AtInv
  BY DEF Init, LoginsInit, AtInv, Places, Callers, InRow
<1>2. LoginInv
  BY LoginsAssumption DEF Init, LoginsInit, LoginInv, LoginsTypeOK
<1>3. RoomsTypeOK
  <2>1. recorded \in [Users -> [name : {"bridge", "user"}, set : BOOLEAN, byUser : BOOLEAN]]
    BY DEF Init, ByUser, ByBridge
  <2>2. given \in [Users -> Seq({"user", "blank"})]
    BY DEF Init
  <2>3. rooms \subseteq Users
    BY LoginsAssumption DEF Init, LoginsInit
  <2> QED
    BY <2>1, <2>2, <2>3, LoginsAssumption DEF Init, LoginsInit, RoomsTypeOK
<1>4. RoomInv
  BY <1>3 DEF Init, LoginsInit, RoomInv
<1>5. NameInv
  BY DEF Init, LoginsInit, NameInv
<1>6. KeyInv
  BY DEF Init, LoginsInit, KeyInv, KeysTypeOK, ReadInv, OneCaller, OrderlyInv, Callers, InRow, KeyForms
<1> QED
  BY <1>1, <1>2, <1>4, <1>5, <1>6 DEF Init, LoginsInit, IInv

LEMMA NextKeeps == IInv /\ Next => Kept
<1> SUFFICES ASSUME IInv, Next PROVE Kept
  OBVIOUS
<1>1. CASE Handled
  <2>1. ASSUME NEW r \in Requests, LoginRequest(r), UNCHANGED <<running, scene>> PROVE Kept
    BY <2>1, LoginStepsKeep
  <2>2. ASSUME NEW r \in Requests, Call(r), UNCHANGED <<running, scene>> PROVE Kept
    BY <2>2, LookUpCallKeeps, FindRoomKeeps, UpdateInfoKeeps, JoinRoomKeeps, SettleKeyKeeps,
       PublishMembershipKeeps, EndCallKeeps, RetractMembershipKeeps DEF Call
  <2>3. ASSUME NEW r \in Requests, DeliverText(r), UNCHANGED <<running, scene>> PROVE Kept
    BY <2>3, DeliverTextKeeps
  <2>4. ASSUME NEW u \in Users, Event(u), UNCHANGED <<running, scene>> PROVE Kept
    BY <2>4, EventKeeps
  <2> QED
    BY <1>1, <2>1, <2>2, <2>3, <2>4 DEF Handled
<1>2. CASE Done /\ UNCHANGED scene
  BY <1>2, UserKeeps, CrashKeeps, StartKeeps, SweepStaleKeeps DEF Done
<1> QED
  BY <1>1, <1>2 DEF Next

LEMMA StutterKeeps == IInv /\ UNCHANGED vars => Kept
<1> SUFFICES ASSUME IInv, UNCHANGED vars PROVE Kept
  OBVIOUS
<1>1. AtInv' /\ OneCaller'
  BY DEF vars, IInv, AtInv, KeyInv, OneCaller, Orderly
<1>2. LoginInv'
  BY LoginsStay DEF vars, loginVars, IInv
<1>3. RoomInv' /\ NameInv' /\ NameStep
  BY RoomsStay DEF vars, memoryVars, IInv, RoomInv, RoomsTypeOK
<1>4. KeyInv'
  BY <1>1, KeysStay DEF vars, IInv
<1> QED
  BY <1>1, <1>2, <1>3, <1>4 DEF Kept, IInv, vars

LEMMA StepKeeps == IInv /\ [Next]_vars => Kept
BY NextKeeps, StutterKeeps

(* Every step of a request, a user, bridgev2's events, a crash and a start *)
(* keeps the invariant (logins.go, matrixside.go, membership.go).          *)
THEOREM Invariance == Spec => []IInv
<1>1. IInv /\ [Next]_vars => IInv'
  BY StepKeeps DEF Kept
<1> QED
  BY InitIInv, <1>1, PTL DEF Spec

(* The types, of which one is a promise: a user has at most one login made *)
(* and who may not log in leaves nothing behind (loginResolver).           *)
THEOREM TypeCorrect == Spec => []TypeOK
<1>1. IInv => TypeOK
  BY DEF IInv, LoginInv, RoomInv, RoomsTypeOK, KeyInv, KeysTypeOK, TypeOK
<1> QED
  BY <1>1, Invariance, PTL

(* Where users do not rename a room that an older version left to be       *)
(* repaired, no call, resync or restart takes their name from one          *)
(* (HandleMatrixRoomName, keepUserName); that they can is a divergence.    *)
THEOREM NameKept ==
  ASSUME \A s \in Scenes : ~("old" \in s /\ "rename" \in s)
  PROVE  Spec => UserNameIsKept
<1>1. IInv /\ [Next]_vars =>
        [\A u \in Users :
           recorded[u].byUser /\ title[u] = "user" /\ title'[u] # "user" => named'[u] > named[u]]_vars
  BY StepKeeps DEF Kept, NameStep, IInv
<1> QED
  BY <1>1, Invariance, PTL DEF Spec, UserNameIsKept

(* Where the room's version can be read, or calls of a user come one after *)
(* the other and the bridge does not stop, a membership taken back is gone *)
(* (ownedStateKeys): the answer may be wrong, but it is the same one.      *)
THEOREM RetractionMeets ==
  ASSUME \A s \in Scenes : "version" \notin s \/ ("overlap" \notin s /\ "crash" \notin s)
  PROVE  Spec => []RetractedWherePublished
<1>1. IInv => RetractedWherePublished
  BY DEF IInv, KeyInv, ReadInv, OrderlyInv, Orderly, RetractedWherePublished
<1> QED
  BY <1>1, Invariance, PTL
==============================================================================
