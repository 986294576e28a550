------------------------------- MODULE Logins -------------------------------
(***************************************************************************)
(* The logins of Matrix users (pkg/connector/logins.go): the first request *)
(* that names a user gives them one.  Requests run on goroutines of their  *)
(* own; a mutex serialises the creation.  A request is a call or a text    *)
(* whose recipient has been named; what it does with the login is left to  *)
(* module PortalRooms.  The members of lines get theirs at the start       *)
(* (linemembers.go).  bridgev2's table and cache of logins are external.   *)
(***************************************************************************)
EXTENDS Naturals

CONSTANTS
  Users,       \* Matrix users
  Permitted,   \* those bridge.permissions lets log in
  Requests,    \* calls, texts and manual logins
  UserOf,      \* request -> the user it names
  Kind,        \* request -> "call", "text" or "login"
  Members,     \* users listed in line_members
  Scenes,      \* each a set of requests, of what may go wrong, and of what
               \* users may do
  Free         \* nobody holds the mutex

ASSUME LoginsAssumption ==
  /\ Permitted \subseteq Users
  /\ UserOf \in [Requests -> Users]
  /\ Kind \in [Requests -> {"call", "text", "login"}]
  /\ Members \subseteq Users
  /\ Free \notin Requests

VARIABLES
  at,         \* request -> where it is
  mutex,      \* the holder of loginResolver.mu, or Free
  logins,     \* users with a row in bridgev2's user_login
  userRows,   \* users with a row in bridgev2's user
  creations,  \* user -> how often NewLogin has made their login
  connected,  \* users whose login has been connected in this run
  running,    \* whether the bridge is
  scene,      \* the one of Scenes this behaviour has
  budget      \* failures and crashes still to come

loginVars == <<mutex, logins, userRows, creations, connected>>

(* A refused user leaves nothing behind, and a login is made once.         *)
LoginsTypeOK ==
  /\ mutex \in Requests \cup {Free}
  /\ logins \subseteq userRows /\ userRows \subseteq Permitted
  /\ connected \subseteq Users
  /\ creations \in [Users -> 0..1]
  /\ running \in BOOLEAN

LoginsInit ==
  /\ at = [r \in Requests |-> "idle"]
  /\ mutex = Free
  /\ logins \in SUBSET Permitted
  /\ userRows = logins
  /\ creations = [u \in Users |-> 0]
  /\ connected = logins
  /\ running = TRUE
  /\ scene \in Scenes

From(r, here) == running /\ at[r] = here
Goto(r, there) == at' = [at EXCEPT ![r] = there]

Fails(what) == what \in scene /\ budget > 0 /\ budget' = budget - 1

HasLogin(r) == UserOf[r] \in logins

(* Login, and ensure up to the mutex. *)
LookUpLogin(r) ==
  /\ From(r, "idle") /\ r \in scene /\ Kind[r] # "login"
  /\ Goto(r, IF HasLogin(r) THEN "hasLogin" ELSE "lock")
  /\ UNCHANGED <<loginVars, budget>>

Lock(r) ==
  /\ From(r, "lock") /\ mutex = Free
  /\ mutex' = r
  /\ Goto(r, "locked")
  /\ UNCHANGED <<logins, userRows, creations, connected, budget>>

Unlock == mutex' = Free

(* Mistaken: the look before the mutex is the only one. *)
NeverFound(r) == FALSE

(* The look at the table that is repeated under the mutex. *)
FoundAgain(r) == HasLogin(r)

(* Under the mutex: look again, ask bridge.permissions, and only then let  *)
(* bridgev2 insert the user. *)
Permit(r) ==
  /\ From(r, "locked")
  /\ \/ FoundAgain(r) /\ Unlock /\ Goto(r, "hasLogin") /\ UNCHANGED userRows
     \/ /\ ~FoundAgain(r) /\ UserOf[r] \notin Permitted
        /\ Unlock /\ Goto(r, "refused") /\ UNCHANGED userRows
     \/ /\ ~FoundAgain(r) /\ UserOf[r] \in Permitted
        /\ userRows' = userRows \cup {UserOf[r]}
        /\ Goto(r, "create") /\ UNCHANGED mutex
  /\ UNCHANGED <<logins, creations, connected, budget>>

Inserted(r) ==
  /\ logins' = logins \cup {UserOf[r]}
  /\ creations' = [creations EXCEPT ![UserOf[r]] = @ + 1]

(* Mistaken: the new login is left to bridgev2 to connect. *)
CreateUnconnected(r) ==
  /\ From(r, "create")
  /\ Inserted(r)
  /\ Unlock /\ Goto(r, "hasLogin")
  /\ UNCHANGED <<userRows, connected, budget>>

(* NewLogin may fail, or fail after its INSERT.                            *)
CreateLogin(r) ==
  /\ From(r, "create")
  /\ \/ Inserted(r) /\ Goto(r, "connect") /\ UNCHANGED budget
     \/ Fails("login") /\ Goto(r, "refused") /\ UNCHANGED <<logins, creations>>
     \/ Fails("lost login") /\ Goto(r, "refused") /\ Inserted(r)
  /\ Unlock
  /\ UNCHANGED <<userRows, connected>>

(* bridgev2 connects only what it finds at the start and what it logged in.*)
ConnectLogin(r) ==
  /\ From(r, "connect")
  /\ connected' = connected \cup {UserOf[r]}
  /\ Goto(r, IF Kind[r] = "login" THEN "done" ELSE "hasLogin")
  /\ UNCHANGED <<mutex, logins, userRows, creations, budget>>

(* ensureLineMemberLogins, before bridgev2 connects what there is.  A login*)
(* that cannot be made is only logged.                                     *)
StartLogins ==
  LET missing == (Members \cap Permitted) \ logins
  IN /\ \/ logins' = logins \cup missing /\ UNCHANGED budget
        \/ missing # {} /\ Fails("login") /\ UNCHANGED logins
     /\ creations' = [u \in Users |-> IF u \in logins' \ logins THEN creations[u] + 1
                                                            ELSE creations[u]]
     /\ userRows' = userRows \cup missing
     /\ connected' = logins'
     /\ UNCHANGED mutex

StopLogins ==
  /\ mutex' = Free
  /\ connected' = {}
  /\ UNCHANGED <<logins, userRows, creations>>

(* SIPLogin.Start, the user's own way to a login, takes no mutex; bridgev2 *)
(* has asked bridge.permissions. *)
LogIn(r) ==
  /\ From(r, "idle") /\ r \in scene /\ Kind[r] = "login"
  /\ UserOf[r] \in Permitted
  /\ userRows' = userRows \cup {UserOf[r]}
  /\ logins' = logins \cup {UserOf[r]}
  /\ Goto(r, "connect")
  /\ UNCHANGED <<mutex, creations, connected, budget>>

LoginStep(r) ==
  \/ LookUpLogin(r) \/ Lock(r) \/ Permit(r) \/ CreateLogin(r) \/ ConnectLogin(r)
  \/ LogIn(r)
=============================================================================
