---------------------------- MODULE PortalRooms ----------------------------
(***************************************************************************)
(* A user's room for one number (pkg/calls/matrixside.go, portaljoin.go,   *)
(* membership.go; pkg/connector/client.go): made by the first call or text,*)
(* repaired and joined by every call, described by GetChatInfo, renamed and*)
(* left by its user, re-read at every start, and a place where calls put   *)
(* and take back their RTC membership.  Calls run beside bridgev2's events,*)
(* which it handles one at a time under the portal's lock.  bridgev2 and   *)
(* the homeserver are external.                                            *)
(***************************************************************************)
EXTENDS Logins, Sequences

CONSTANTS
  OwnedKeys,   \* whether the room's version lets users own state keys
  MaxRenames,  \* bound on the names a user gives
  MaxFaults    \* bound on failures and crashes

ASSUME PortalRoomsAssumption ==
  /\ OwnedKeys \in BOOLEAN
  /\ MaxRenames \in Nat /\ MaxFaults \in Nat

VARIABLES
  rooms,       \* users whose portal has a Matrix room
  callable,    \* those whose power levels let the user make a call
  member,      \* user -> "none", "invited", "joined" or "left"
  title,       \* user -> the name in the room: "none", "bridge", "user" or "blank"
  recorded,    \* user -> [name, set, byUser] of the portal's row
  membership,  \* call -> state keys its membership stands at
  given,       \* user -> names the user has given and the bridge not yet seen
  named,       \* user -> how many names the user has given
  \* in memory:
  repaired,    \* rooms known to be callable
  marked,      \* users bridgev2 believes to be in their room
  version,     \* user -> the cached answer of ownedStateKeys, or "unread"
  resyncs,     \* users whose portal has a resync queued
  reading,     \* users whose login's resyncPortals has yet to see the portal
  info,        \* call -> the name in the ChatInfo it holds, "keep" for none
  key          \* call -> the state key it has settled on

matrixVars == <<rooms, callable, member, title, recorded, given, named>>
callVars   == <<membership, version, key>>
memoryVars == <<repaired, marked, resyncs, reading, info>>
vars == <<at, running, scene, budget, loginVars, matrixVars, callVars, memoryVars>>

KeyForms == {"owned", "prefixed"}
Right    == IF OwnedKeys THEN "owned" ELSE "prefixed"

TypeOK ==
  /\ LoginsTypeOK
  /\ callable \subseteq rooms /\ rooms \subseteq Users
  /\ member \in [Users -> {"none", "invited", "joined", "left"}]
  /\ title \in [Users -> {"none", "bridge", "user", "blank"}]
  /\ recorded \in [Users -> [name : {"bridge", "user"}, set : BOOLEAN, byUser : BOOLEAN]]
  /\ membership \in [Requests -> SUBSET KeyForms]
  /\ given \in [Users -> Seq({"user", "blank"})]
  /\ repaired \subseteq callable
  /\ marked \subseteq Users /\ resyncs \subseteq rooms /\ reading \subseteq Users
  /\ version \in [Users -> KeyForms \cup {"unread"}]
  /\ info \in [Requests -> {"none", "bridge", "keep"}]
  /\ key \in [Requests -> KeyForms \cup {"none"}]

ByUser(u) == [name |-> "user", set |-> TRUE, byUser |-> TRUE]
ByBridge  == [name |-> "bridge", set |-> TRUE, byUser |-> FALSE]

(* Rooms of earlier runs and versions: named by the bridge or the user,    *)
(* with or without the levels that calls need.                             *)
Init ==
  /\ LoginsInit
  /\ rooms \in SUBSET logins
  /\ callable \in SUBSET rooms
  /\ "old" \notin scene => callable = rooms
  /\ title \in [Users -> {"none", "bridge", "user"}]
  /\ \A u \in Users : title[u] = "none" <=> u \notin rooms
  /\ member \in [Users -> {"none", "invited", "joined", "left"}]
  /\ \A u \in Users : member[u] = "none" <=> u \notin rooms
  /\ recorded = [u \in Users |-> IF title[u] = "user" THEN ByUser(u) ELSE ByBridge]
  /\ membership = [r \in Requests |-> {}]
  /\ given = [u \in Users |-> <<>>] /\ named = [u \in Users |-> 0]
  /\ repaired = {} /\ marked = {} /\ resyncs = {} /\ reading = logins
  /\ version = [u \in Users |-> "unread"]
  /\ info = [r \in Requests |-> "none"]
  /\ key = [r \in Requests |-> "none"]
  /\ budget = MaxFaults

-----------------------------------------------------------------------------
(* What bridgev2 does with a room. *)

Puppet == "puppet" \in scene   \* whether users have a double puppet

IsIn(u) == member[u] \in {"invited", "joined"}

Enters(u, how) == member' = [member EXCEPT ![u] = how]

(* updateName: a name that is recorded and set is not sent again.          *)
UpdateName(u, name) ==
  IF name = "keep" \/ (recorded[u].name = name /\ recorded[u].set)
  THEN UNCHANGED <<title, recorded>>
  ELSE /\ title' = [title EXCEPT ![u] = name]
       /\ recorded' = [recorded EXCEPT ![u].name = name, ![u].set = TRUE]

(* Mistaken: the flag is written and never read.                           *)
ForgetUserName(u) == "bridge"

(* GetChatInfo, of which the name is what differs from time to time.       *)
ChatInfoName(u) == IF recorded[u].byUser THEN "keep" ELSE "bridge"

(* CreateMatrixRoom: it may or may not bring in the user, whom the bridge's*)
(* description does not list. *)
CreateRoom(u) ==
  /\ u \notin rooms
  /\ rooms' = rooms \cup {u} /\ callable' = callable \cup {u}
  /\ title' = [title EXCEPT ![u] = "bridge"]
  /\ recorded' = [recorded EXCEPT ![u] = ByBridge]
  /\ \E how \in {"none", "invited"} \cup (IF Puppet THEN {"joined"} ELSE {}) : Enters(u, how)
  /\ UNCHANGED <<given, named>>

(* MarkInPortal, of whatever touches a portal: once in a run it invites the*)
(* user to the room there is.                                              *)
MarkInPortal(u) ==
  /\ marked' = marked \cup {u}
  /\ IF u \in marked \/ u \notin rooms \/ IsIn(u) THEN UNCHANGED member
                                                  ELSE Enters(u, "invited")

-----------------------------------------------------------------------------
(* A call: PortalRoom, and the membership that goes up and comes down.     *)

FromCall(c, here) == From(c, here) /\ Kind[c] = "call"

InRow   == {"publish", "send", "up", "retract"}
Callers == InRow \cup {"room", "update", "join"}

Others(c, places) ==
  {d \in Requests \ {c} : Kind[d] = "call" /\ UserOf[d] = UserOf[c] /\ at[d] \in places}

(* A row for the same conference refuses a second call.  Calls overlap if  *)
(* they have two conferences, or if the second comes before the first has  *)
(* its row (module Calls), in the scenes where they may.                   *)
LookUpCall(c) ==
  /\ FromCall(c, "hasLogin")
  /\ \/ Others(c, InRow) # {} /\ Goto(c, "refused")
     \/ Others(c, Callers) = {} /\ Goto(c, "room")
     \/ Others(c, Callers) # {} /\ "overlap" \in scene /\ Goto(c, "room")
  /\ UNCHANGED <<budget, loginVars, matrixVars, callVars, memoryVars>>

RoomOf(c) == UserOf[c]

(* PortalRoom makes the room, or repairs what there is (reapplyChatInfo).  *)
FindRoom(c) ==
  LET u == RoomOf(c) IN
  /\ FromCall(c, "room")
  /\ \/ CreateRoom(u) /\ Goto(c, "join") /\ UNCHANGED <<repaired, info, budget>>
     \/ /\ u \notin rooms /\ Fails("create") /\ Goto(c, "refused")
        /\ UNCHANGED <<matrixVars, repaired, info>>
     \/ /\ u \in rooms /\ (u \in repaired \/ u \in callable)
        /\ repaired' = repaired \cup {u}
        /\ Goto(c, "join") /\ UNCHANGED <<matrixVars, info, budget>>
     \/ /\ u \in rooms \ repaired /\ Fails("levels")
        /\ Goto(c, "join") /\ UNCHANGED <<matrixVars, repaired, info>>
     \/ /\ u \in rooms \ (repaired \cup callable)
        /\ info' = [info EXCEPT ![c] = ChatInfoName(u)]
        /\ Goto(c, "update") /\ UNCHANGED <<matrixVars, repaired, budget>>
  /\ UNCHANGED <<loginVars, callVars, marked, resyncs, reading>>

(* UpdateInfo outside the portal's lock, with the description read before. *)
UpdateInfo(c) ==
  LET u == RoomOf(c) IN
  /\ FromCall(c, "update")
  /\ UpdateName(u, info[c])
  /\ \/ callable' = callable \cup {u} /\ UNCHANGED budget
     \/ Fails("update") /\ UNCHANGED callable
  /\ info' = [info EXCEPT ![c] = "none"]
  /\ Goto(c, "join")
  /\ UNCHANGED <<loginVars, callVars, rooms, member, given, named, repaired, marked, resyncs, reading>>

(* ensureUserInPortal: the double puppet joins, or the bot invites.        *)
JoinRoom(c) ==
  LET u == RoomOf(c) IN
  /\ FromCall(c, "join")
  /\ \/ Puppet /\ Enters(u, "joined") /\ UNCHANGED budget
     \/ /\ IF Puppet THEN Fails("join") ELSE UNCHANGED budget
        /\ Enters(u, IF IsIn(u) THEN member[u] ELSE "invited")
     \/ Fails("join") /\ UNCHANGED member
  /\ Goto(c, "publish")
  /\ UNCHANGED <<loginVars, callVars, memoryVars, rooms, callable, title, recorded, given, named>>

(* ownedStateKeys: the cached answer or, at the first use, a read; the safe*)
(* answer is taken for one that fails.                                     *)
StateKeyRead(u, k) ==
  \/ version[u] # "unread" /\ k = version[u] /\ UNCHANGED budget
  \/ version[u] = "unread" /\ k = Right /\ UNCHANGED budget
  \/ version[u] = "unread" /\ Fails("version") /\ k = "prefixed"

(* Mistaken: an answer that could not be read is asked for again.          *)
CacheRead(u, k) == IF k = Right THEN k ELSE version[u]

(* Every answer is cached, the failed read's too.                          *)
Cached(u, k) == k

(* A call may overtake another between the read and the caching.           *)
SettleKey(c) ==
  /\ FromCall(c, "publish")
  /\ \E k \in KeyForms : StateKeyRead(RoomOf(c), k) /\ key' = [key EXCEPT ![c] = k]
  /\ Goto(c, "send")
  /\ UNCHANGED <<loginVars, matrixVars, memoryVars, membership, version>>

Keeps(u, k) == version' = [version EXCEPT ![u] = Cached(u, k)]

(* SendState may fail, also after the event was sent: failCall retracts.   *)
PublishMembership(c) ==
  /\ FromCall(c, "send")
  /\ Keeps(RoomOf(c), key[c])
  /\ \/ /\ membership' = [membership EXCEPT ![c] = @ \cup {key[c]}]
        /\ Goto(c, "up") /\ UNCHANGED budget
     \/ /\ membership' \in {membership, [membership EXCEPT ![c] = @ \cup {key[c]}]}
        /\ Fails("publish") /\ Goto(c, "retract")
  /\ UNCHANGED <<loginVars, matrixVars, memoryVars, key>>

EndCall(c) ==
  /\ FromCall(c, "up")
  /\ Goto(c, "retract")
  /\ UNCHANGED <<budget, loginVars, matrixVars, callVars, memoryVars>>

(* retractGhostMembership: the key is worked out anew.                     *)
Retract(c) ==
  /\ \/ /\ \E k \in KeyForms :
             /\ StateKeyRead(RoomOf(c), k)
             /\ Keeps(RoomOf(c), k)
             /\ membership' = [membership EXCEPT ![c] = @ \ {k}]
        /\ Goto(c, "retracted")
     \/ Fails("retract") /\ Goto(c, "done") /\ UNCHANGED <<version, membership>>
  /\ UNCHANGED <<loginVars, matrixVars, memoryVars, key>>

RetractMembership(c) == FromCall(c, "retract") /\ Retract(c)

Call(c) ==
  \/ LookUpCall(c) \/ FindRoom(c) \/ UpdateInfo(c) \/ JoinRoom(c)
  \/ SettleKey(c) \/ PublishMembership(c) \/ EndCall(c) \/ RetractMembership(c)

-----------------------------------------------------------------------------
(* What bridgev2 handles, under the lock of the portal.                    *)

(* Until a text is delivered the queue of module InboundQueue keeps it.    *)
DeliverText(t) ==
  LET u == UserOf[t] IN
  /\ From(t, "hasLogin") /\ Kind[t] = "text"
  /\ \/ CreateRoom(u) /\ marked' = marked \cup {u}
     \/ /\ u \in rooms /\ MarkInPortal(u)
        /\ UNCHANGED <<rooms, callable, title, recorded, given, named>>
  /\ Goto(t, "done")
  /\ UNCHANGED <<budget, loginVars, callVars, repaired, resyncs, reading, info>>

(* Mistaken: a name taken back is left as one that has been set.           *)
BlankNameSet == ByBridge

BlankName == [name |-> "bridge", set |-> FALSE, byUser |-> FALSE]

(* HandleMatrixRoomName; a resync then asserts the name taken back.        *)
HandleMatrixRoomName(u) ==
  /\ running /\ given[u] # <<>>
  /\ given' = [given EXCEPT ![u] = Tail(@)]
  /\ IF Head(given[u]) = "user"
     THEN recorded' = [recorded EXCEPT ![u] = ByUser(u)] /\ UNCHANGED resyncs
     ELSE recorded' = [recorded EXCEPT ![u] = BlankName] /\ resyncs' = resyncs \cup {u}
  /\ UNCHANGED <<at, budget, loginVars, callVars, rooms, callable, member, title, named,
                 repaired, marked, reading, info>>

(* A ChatResync, from GetChatInfo to UpdateInfo.                           *)
Resync(u) ==
  /\ running /\ u \in resyncs
  /\ resyncs' = resyncs \ {u}
  /\ MarkInPortal(u)
  /\ UpdateName(u, ChatInfoName(u))
  /\ \/ callable' = callable \cup {u} /\ UNCHANGED budget
     \/ Fails("update") /\ UNCHANGED callable
  /\ UNCHANGED <<at, loginVars, callVars, rooms, given, named, repaired, reading, info>>

(* resyncPortals: only the rooms the user is in, and those of which this   *)
(* cannot be told (shouldResyncPortal).                                    *)
ResyncPortals(u) ==
  /\ running /\ u \in reading
  /\ reading' = reading \ {u}
  /\ \/ resyncs' = resyncs \cup (IF IsIn(u) THEN {u} ELSE {}) /\ UNCHANGED budget
     \/ u \in rooms /\ ~IsIn(u) /\ Fails("members") /\ resyncs' = resyncs \cup {u}
  /\ UNCHANGED <<at, loginVars, matrixVars, callVars, repaired, marked, info>>

Event(u) == HandleMatrixRoomName(u) \/ Resync(u) \/ ResyncPortals(u)

-----------------------------------------------------------------------------
(* What users do, and what happens to the bridge. *)

Rename(u, name) ==
  /\ "rename" \in scene /\ member[u] = "joined" /\ named[u] < MaxRenames
  /\ named' = [named EXCEPT ![u] = @ + 1]
  /\ given' = [given EXCEPT ![u] = Append(@, name)]
  /\ title' = [title EXCEPT ![u] = name]
  /\ UNCHANGED <<at, running, budget, loginVars, callVars, memoryVars, rooms, callable, member, recorded>>

Moves(u, from, to) ==
  /\ member[u] = from /\ Enters(u, to)
  /\ UNCHANGED <<at, running, budget, loginVars, callVars, memoryVars, rooms, callable, title, recorded, given, named>>

Accept(u) == Moves(u, "invited", "joined")
Leave(u)  == "leave" \in scene /\ (Moves(u, "joined", "left") \/ Moves(u, "invited", "left"))

(* A crash ends what runs in memory: a call that has a row is swept, a text*)
(* that has been accepted is still delivered, other requests get no answer.*)
AfterCrash(r) ==
  CASE at[r] \in InRow -> "stale"
    [] at[r] \in {"idle", "refused", "done", "retracted", "stale"} -> at[r]
    [] Kind[r] = "text" /\ at[r] = "hasLogin" -> at[r]
    [] OTHER -> "done"

Crash ==
  /\ running /\ Fails("crash")
  /\ running' = FALSE
  /\ at' = [r \in Requests |-> AfterCrash(r)]
  /\ StopLogins
  /\ repaired' = {} /\ marked' = {} /\ resyncs' = {} /\ reading' = {}
  /\ version' = [u \in Users |-> "unread"]
  /\ info' = [r \in Requests |-> "none"]
  /\ UNCHANGED <<matrixVars, membership, key>>

(* The next start takes back what the calls of the last run left.          *)
SweepStale(c) ==
  /\ ~running /\ at[c] = "stale"
  /\ Retract(c)
  /\ UNCHANGED running

(* bridgev2 then connects every login there is.                            *)
Start ==
  /\ ~running /\ \A r \in Requests : at[r] # "stale"
  /\ running' = TRUE
  /\ StartLogins
  /\ reading' = connected'
  /\ UNCHANGED <<at, matrixVars, callVars, repaired, marked, resyncs, info>>

-----------------------------------------------------------------------------
(* A new login is connected, and reads its portals.                        *)
LoginRequest(r) ==
  /\ LoginStep(r)
  /\ reading' = reading \cup (connected' \ connected)
  /\ UNCHANGED <<matrixVars, callVars, repaired, marked, resyncs, info>>

Handled ==
  /\ \/ \E r \in Requests : LoginRequest(r) \/ Call(r) \/ DeliverText(r)
     \/ \E u \in Users : Event(u)
  /\ UNCHANGED <<running, scene>>

Done ==
  \/ \E u \in Users : Accept(u) \/ Leave(u) \/ \E name \in {"user", "blank"} : Rename(u, name)
  \/ Crash \/ Start \/ \E r \in Requests : SweepStale(r)

Next == Handled \/ (Done /\ UNCHANGED scene)

(* Goroutines run and events are handled; users and callers may do nothing. *)
Fairness ==
  /\ \A r \in Requests : WF_vars(LoginRequest(r) /\ UNCHANGED <<running, scene>>)
  /\ \A u \in Users : WF_vars(Event(u) /\ UNCHANGED <<running, scene>>)
  /\ \A r \in Requests : WF_vars(SweepStale(r) /\ UNCHANGED scene)
  /\ WF_vars(Start /\ UNCHANGED scene)

Spec == Init /\ [][Next]_vars /\ Fairness

-----------------------------------------------------------------------------
(* Every login is connected, whoever made it and whatever stopped the      *)
(* bridge: bridgev2 connects only those it finds at its start or has logged *)
(* in itself (Login, logins.go:64-68).  One whose INSERT was taken for a   *)
(* failure waits for the next start.                                       *)
LoginIsConnected ==
  \A u \in Users : u \in logins /\ "lost login" \notin scene ~> u \in connected

(* The name a user has given is not taken from the room by a call that     *)
(* repairs it, a resync or a restart (HandleMatrixRoomName, keepUserName). *)
UserNameIsKept ==
  [][\A u \in Users :
       recorded[u].byUser /\ title[u] = "user" /\ title'[u] # "user" => named'[u] > named[u]]_vars

(* A user who empties the name gets the bridge's back, even if the bridge  *)
(* stops before it could say so (resyncPortalName, client.go:275-283).  Of *)
(* one who is not in the room at the next start this is not so.            *)
NameComesBack == \A u \in Users : title[u] = "blank" ~> title[u] # "blank"

(* The retraction of a call's membership meets the state key it stands at, *)
(* whatever became of the read of the room's version (ownedStateKeys).     *)
RetractedWherePublished ==
  \A c \in Requests : at[c] = "retracted" => membership[c] = {}
=============================================================================
