------------------------------- MODULE Migration -------------------------------
(***************************************************************************)
(* What a start does to the rooms of earlier versions (connector.go:92-103,*)
(* migrate.go, spaces.go), over the database it survives crashes with: a   *)
(* receiver-less space goes to the receiver of its rooms, every other      *)
(* receiver-less portal to the owner of the old shared login, and that     *)
(* login is removed.  Then the logins connect, and those of their rooms    *)
(* that their users are in are put into the line's space.  One line; the   *)
(* logins, portals and user_portal rows and ReIDPortal are bridgev2's and  *)
(* external; so is the foreign key, which rewrites the parent of a re-keyed*)
(* space's rooms.  bridgev2's cache of portals is taken to agree with the  *)
(* database.                                                               *)
(***************************************************************************)
EXTENDS Naturals, FiniteSets

CONSTANTS
  Users,       \* Matrix users, whose MXIDs are their login IDs
  Owner,       \* the owner of the old shared login
  Numbers,     \* portal IDs of phone numbers
  LineSpaces,  \* line_spaces, as the bridge is configured
  Faults,      \* what may fail and be logged: "move", "space", "link", "unlink",
               \* and "members", the reading of a room's
  MaxPortals,  \* bound on the portals of an initial state
  MaxLeft,     \* bound on the rooms in it that their user has left
  MaxStarts    \* bound on the number of starts

Nobody   == "nobody"     \* the receiver of a receiver-less portal
Legacy   == "sip"        \* legacyLoginID
Space    == "space"      \* the portal ID of the line's space
NoRoom   == <<>>
NoParent == "no parent"

ASSUME MigrationAssumption ==
  /\ Owner \in Users
  /\ {Nobody, Legacy, NoParent} \cap Users = {}
  /\ IsFiniteSet(Numbers) /\ Space \notin Numbers
  /\ LineSpaces \in BOOLEAN
  /\ MaxPortals \in Nat /\ MaxLeft \in Nat /\ MaxStarts \in Nat

Receivers == Users \cup {Nobody}
Keys      == (Numbers \cup {Space}) \X Receivers
SpaceOf(r) == <<Space, r>>

\* A room is named after the portal that had it first, or the login whose
\* personal space it is; a space's room may be made anew.
NewRoom(r)      == <<"new", r>>
PersonalRoom(l) == <<"personal", l>>
PortalRooms     == Keys \cup {NewRoom(r) : r \in Users}
Rooms           == PortalRooms \cup {PersonalRoom(l) : l \in Users \cup {Legacy}}

\* parent is the receiver in the key of the parent space, if there is one.
Rows == [room : PortalRooms \cup {NoRoom}, parent : Receivers \cup {NoParent}, inSpace : BOOLEAN]

VARIABLES
  portals,    \* the rows of portal: a function from some of the keys
  logins,     \* the rows of user_login
  flags,      \* the rows of user_portal: login and portal key
  personal,   \* login -> its personal space room
  recipient,  \* the default recipient in the KV store
  listed,     \* m.space.child in Matrix: space room and room
  left,       \* number's rooms whose login's user is neither invited nor joined
  deleted,    \* rooms the bridge has deleted
  step,       \* where the start is
  todo,       \* receiver-less portals still to be moved
  skipped,    \* whether one of them was not
  mended,     \* the receiver whose space is being repaired
  dead,       \* the room of the space it had before
  starts      \* how many starts there have been

store  == <<portals, logins, flags, personal, recipient>>
start  == <<todo, skipped, mended, dead>>
vars   == <<store, listed, left, deleted, step, start, starts>>

Steps == {"down", "repair", "list", "recipient", "ensure", "move", "flags",
          "transfer", "clear", "delete", "done"}

Has(k)         == k \in DOMAIN portals
HasRoom(k)     == Has(k) /\ portals[k].room # NoRoom
WithoutReceiver == {k \in DOMAIN portals : k[2] = Nobody}

\* A start may be stopped and its steps may fail, unless it is the last one.
Undisturbed == starts = MaxStarts
MayFail(f)  == f \in Faults /\ ~Undisturbed

\* The rooms of the space of receiver r.
Children(r) == {k \in DOMAIN portals : portals[k].parent = r}

-------------------------------------------------------------------------------
\* Changes of the portal table, as functions of it and of user_portal.

\* A row goes, and with it what refers to it.
Without(p, k) ==
  [x \in DOMAIN p \ {k} |->
     IF k[1] = Space /\ p[x].parent = k[2]
     THEN [p[x] EXCEPT !.parent = NoParent] ELSE p[x]]

FlagsWithout(k) == {f \in flags : f[2] # k}

\* A row gets another receiver, and the parent key of a space's rooms follows.
ReKeyed(p, k, r) ==
  [x \in (DOMAIN p \ {k}) \cup {<<k[1], r>>} |->
     LET row == IF x = <<k[1], r>> THEN p[k] ELSE p[x]
     IN  IF k[1] = Space /\ row.parent = k[2] THEN [row EXCEPT !.parent = r] ELSE row]

FlagsReKeyed(fs, k, r) ==
  {<<f[1], IF f[2] = k THEN <<k[1], r>> ELSE f[2]>> : f \in fs}

\* bridgev2's ReIDPortal: a target without a room makes way, a source without
\* one is dropped, and of two rooms the source's is deleted.
ReIDPortal(k, r) ==
  LET target == <<k[1], r>> IN
  IF HasRoom(target)
  THEN /\ portals' = Without(portals, k) /\ flags' = FlagsWithout(k)
       /\ deleted' = deleted \cup ({portals[k].room} \ {NoRoom})
  ELSE /\ portals' = ReKeyed(Without(portals, target), k, r)
       /\ flags' = FlagsReKeyed(FlagsWithout(target), k, r)
       /\ UNCHANGED deleted

\* reIDPortal: never into a key that has a room.
MovePortal(k, r) ==
  \/ ~HasRoom(<<k[1], r>>) /\ ReIDPortal(k, r) /\ UNCHANGED skipped
  \/ /\ HasRoom(<<k[1], r>>) \/ MayFail("move")
     /\ skipped' = TRUE /\ UNCHANGED <<portals, flags, deleted>>

-------------------------------------------------------------------------------
\* The state an earlier version may have left.  A number's parent is the shared
\* space or its receiver's own, and it is in it if the space has a room.  Only
\* spaces and receiver-less portals may want a room.

Layout(D, bare, parentOf) ==
  [k \in D |->
     [room    |-> IF k \in bare THEN NoRoom ELSE k,
      parent  |-> parentOf[k],
      inSpace |-> k \notin bare /\ parentOf[k] # NoParent /\ SpaceOf(parentOf[k]) \notin bare]]

Possible(D, parentOf) == \A k \in D :
  parentOf[k] # NoParent =>
    k[1] # Space /\ parentOf[k] \in {Nobody, k[2]} /\ SpaceOf(parentOf[k]) \in D

Init ==
  /\ \E D \in {E \in SUBSET Keys : Cardinality(E) <= MaxPortals} :
     \E bare \in SUBSET {k \in D : k[1] = Space \/ k[2] = Nobody} :
     \E parentOf \in {p \in [D -> Receivers \cup {NoParent}] : Possible(D, p)} :
     \E shared \in SUBSET {Legacy}, gone \in {{}, Users \ {Owner}} :
       /\ portals = Layout(D, bare, parentOf)
       /\ logins = ({k[2] : k \in D} \ (gone \cup {Nobody})) \cup shared
  /\ recipient \in {Nobody, Owner}
  /\ flags = {f \in logins \X DOMAIN portals :
                f[1] = (IF f[2][2] = Nobody THEN Legacy ELSE f[2][2])}
  /\ personal \in {[l \in Users \cup {Legacy} |->
                     IF l \in has THEN PersonalRoom(l) ELSE NoRoom] :
                   has \in SUBSET (logins \cap {Legacy, Owner})}
  /\ listed = {<<portals[SpaceOf(portals[k].parent)].room, portals[k].room>> :
                 k \in {x \in DOMAIN portals : portals[x].inSpace}}
            \cup {<<personal[u], SpaceOf(u)>> :
                 u \in {x \in Users : personal[x] # NoRoom /\ HasRoom(SpaceOf(x))}}
  /\ left \in {rooms \in SUBSET {k \in DOMAIN portals : k[1] # Space /\ HasRoom(k)} :
               Cardinality(rooms) <= MaxLeft}
  /\ deleted = {} /\ step = "down" /\ starts = 0
  /\ todo = {} /\ skipped = FALSE /\ mended = Nobody /\ dead = NoRoom

\* What a request about a room in a space comes to: what was asked, or nothing.
Asked(f, pair) == {{pair}} \cup (IF MayFail(f) THEN {{}} ELSE {})

-------------------------------------------------------------------------------
\* repairLineSpaces.

Start ==
  /\ step = "down" /\ step' = "repair"
  /\ starts < MaxStarts /\ starts' = starts + 1
  /\ UNCHANGED <<store, listed, left, deleted, start>>

\* Mistaken: the receiver's own space is dropped with rooms in it.
RepairableRegardless(r) ==
  /\ Has(SpaceOf(Nobody)) /\ r \in logins \cap Users
  /\ Children(Nobody) # {} /\ \A k \in Children(Nobody) : k[2] = r

\* The receiver r can have the receiver-less space: all its rooms are r's, and
\* r's own space, if there is one, has none.
Repairable(r) ==
  /\ Has(SpaceOf(Nobody)) /\ r \in logins \cap Users
  /\ Children(Nobody) # {} /\ \A k \in Children(Nobody) : k[2] = r
  /\ Children(r) = {}

RepairDrop(r) ==
  /\ step = "repair" /\ Repairable(r) /\ Has(SpaceOf(r))
  /\ portals' = Without(portals, SpaceOf(r)) /\ flags' = FlagsWithout(SpaceOf(r))
  /\ dead' = portals[SpaceOf(r)].room
  /\ UNCHANGED <<logins, personal, recipient, listed, left, deleted, step, starts>>
  /\ UNCHANGED <<todo, skipped, mended>>

RepairMove(r) ==
  /\ step = "repair" /\ Repairable(r) /\ ~Has(SpaceOf(r))
  /\ \/ ReIDPortal(SpaceOf(Nobody), r) /\ mended' = r /\ step' = "list"
     \/ /\ MayFail("move") /\ step' = "recipient"
        /\ UNCHANGED <<portals, flags, deleted, mended>>
  /\ UNCHANGED <<logins, personal, recipient, listed, left, starts, todo, skipped, dead>>

\* The personal space lists the space in place of the dropped one; either
\* request may fail.  ensureInPersonalSpace creates the user_portal row.
RepairList ==
  /\ step = "list" /\ step' = "recipient"
  /\ \E new \in Asked("link", <<personal[mended], portals[SpaceOf(mended)].room>>),
        old \in Asked("unlink", <<personal[mended], dead>>) :
       listed' = (listed \ old) \cup {x \in new : NoRoom \notin {x[1], x[2]}}
  /\ flags' = flags \cup {<<mended, SpaceOf(mended)>>}
  /\ UNCHANGED <<portals, logins, personal, recipient, deleted, start, left, starts>>

NothingToRepair ==
  /\ step = "repair" /\ ~\E r \in Users : Repairable(r)
  /\ step' = "recipient"
  /\ UNCHANGED <<store, listed, left, deleted, start, starts>>

-------------------------------------------------------------------------------
\* migrateSharedLogin.

\* Mistaken: without the old login there is nothing to do.
SetRecipientOfLegacy ==
  /\ step = "recipient"
  /\ recipient' = IF Legacy \in logins THEN Owner ELSE recipient
  /\ step' = IF Legacy \in logins THEN "ensure" ELSE "done"
  /\ UNCHANGED <<portals, logins, flags, personal, listed, left, deleted, start, starts>>

\* The owner of the old login becomes the default recipient.  Without portals
\* to move and an old login, or without a recipient, there is nothing to do.
SetRecipient ==
  /\ step = "recipient"
  /\ recipient' = IF Legacy \in logins THEN Owner ELSE recipient
  /\ step' = IF recipient' = Nobody \/ (Legacy \notin logins /\ WithoutReceiver = {})
             THEN "done" ELSE "ensure"
  /\ UNCHANGED <<portals, logins, flags, personal, listed, left, deleted, start, starts>>

EnsureLogin ==
  /\ step = "ensure" /\ step' = "move"
  /\ logins' = logins \cup {recipient}
  /\ todo' = WithoutReceiver /\ skipped' = FALSE
  /\ UNCHANGED <<portals, flags, personal, recipient, listed, left, deleted, starts, mended, dead>>

MoveOne == \E k \in todo :
  /\ step = "move"
  /\ SpaceOf(Nobody) \in todo => k = SpaceOf(Nobody)
  /\ MovePortal(k, recipient)
  /\ todo' = todo \ {k}
  /\ UNCHANGED <<logins, personal, recipient, listed, step, left, starts, mended, dead>>

AllMoved ==
  /\ step = "move" /\ todo = {}
  /\ step' = IF Legacy \in logins THEN "flags" ELSE "done"
  /\ UNCHANGED <<store, listed, left, deleted, start, starts>>

\* Mistaken: user_portal is left to the deletion of the old login.
KeepFlags ==
  /\ step = "flags"
  /\ step' = IF skipped THEN "done" ELSE "transfer"
  /\ UNCHANGED <<store, listed, left, deleted, start, starts>>

\* The rows the new login has already are left to go with the old one.
MoveFlags ==
  /\ step = "flags"
  /\ flags' = {f \in flags : f[1] # Legacy \/ <<recipient, f[2]>> \in flags}
               \cup {<<recipient, f[2]>> : f \in {g \in flags : g[1] = Legacy}}
  /\ step' = IF skipped THEN "done" ELSE "transfer"
  /\ UNCHANGED <<portals, logins, personal, recipient, listed, left, deleted, start, starts>>

\* transferSpace, which saves the new login first and the old one after.
TransferSpace ==
  /\ step = "transfer"
  /\ personal' = IF personal[Legacy] # NoRoom /\ personal[recipient] = NoRoom
                 THEN [personal EXCEPT ![recipient] = personal[Legacy]] ELSE personal
  /\ step' = "clear"
  /\ UNCHANGED <<portals, logins, flags, recipient, listed, left, deleted, start, starts>>

\* Mistaken: the old login keeps its space as well.
ClearNothing ==
  /\ step = "clear" /\ step' = "delete"
  /\ UNCHANGED <<store, listed, left, deleted, start, starts>>

ClearSpace ==
  /\ step = "clear" /\ step' = "delete"
  /\ personal' = [personal EXCEPT ![Legacy] = NoRoom]
  /\ UNCHANGED <<portals, logins, flags, recipient, listed, left, deleted, start, starts>>

\* UserLogin.Delete takes the login's personal space with it.
DeleteLegacy ==
  /\ step = "delete" /\ step' = "done"
  /\ logins' = logins \ {Legacy}
  /\ flags' = {f \in flags : f[1] # Legacy}
  /\ deleted' = deleted \cup ({personal[Legacy]} \ {NoRoom})
  /\ UNCHANGED <<portals, personal, recipient, listed, start, left, starts>>

-------------------------------------------------------------------------------
\* The logins are connected and their rooms resynced.

\* Mistaken: a room that names its space as its parent is taken to be in it.
KeyedOnly(k) == portals[k].parent = k[2]

\* The room is in its line's space: keyed is not linked.
Linked(k) == portals[k].parent = k[2] /\ portals[k].inSpace /\ HasRoom(SpaceOf(k[2]))

\* The room k in the space of its receiver, whose room is made; linked or not.
InSpace(k, made, linked) ==
  [x \in DOMAIN portals \cup {SpaceOf(k[2])} |->
     CASE x = k             -> [portals[k] EXCEPT !.parent = k[2], !.inSpace = linked]
       [] x = SpaceOf(k[2]) -> [room |-> made, parent |-> NoParent, inSpace |-> FALSE]
       [] OTHER             -> portals[x]]

\* shouldResyncPortal: a room is passed over that its user has demonstrably left.
Resynced(k) == portals[k].room \notin left \/ MayFail("members")

\* The resync of a room by the login r that receives it, as far as lineParent,
\* which is only reached with line_spaces on: the space may have to be made.  A
\* resync invites the user again (MarkInPortal).
Resync(k) == LET r    == k[2]
                 row  == portals[k]
                 home == IF Has(SpaceOf(r)) THEN portals[SpaceOf(r)].room ELSE NoRoom
                 old  == IF row.parent # r /\ row.inSpace /\ HasRoom(SpaceOf(row.parent))
                         THEN {<<portals[SpaceOf(row.parent)].room, row.room>>} ELSE {}
             IN
  /\ step = "done" /\ k[1] # Space /\ r \in logins /\ row.room # NoRoom
  /\ LineSpaces /\ Resynced(k)
  /\ ~Linked(k)
  /\ left' = left \ {row.room}
  /\ \E made \in {home} \cup (IF home = NoRoom THEN {NewRoom(r)} ELSE {}),
        unlinked, linked \in BOOLEAN :
       /\ made = NoRoom => MayFail("space")
       /\ ~unlinked => MayFail("unlink") /\ old # {}
       /\ ~linked => MayFail("link") \/ made = NoRoom
       /\ linked => made # NoRoom
       /\ portals' = InSpace(k, made, linked)
       /\ listed' = (listed \ (IF unlinked THEN old ELSE {}))
                    \cup (IF linked THEN {<<made, row.room>>} ELSE {})
  /\ UNCHANGED <<logins, flags, personal, recipient, deleted, step, start, starts>>

Stop ==
  /\ ~Undisturbed /\ step # "down" /\ step' = "down"
  /\ todo' = {} /\ skipped' = FALSE /\ mended' = Nobody /\ dead' = NoRoom
  /\ UNCHANGED <<store, listed, left, deleted, starts>>

Repairs  == NothingToRepair \/ RepairList \/ \E r \in Users : RepairDrop(r) \/ RepairMove(r)
Migrates == \/ SetRecipient \/ EnsureLogin \/ MoveOne \/ AllMoved \/ MoveFlags
            \/ TransferSpace \/ ClearSpace \/ DeleteLegacy

Next == Start \/ Repairs \/ Migrates \/ Stop \/ \E k \in DOMAIN portals : Resync(k)

Spec == Init /\ [][Next]_vars

\* A start runs to its end unless it is stopped, and is followed by a resync of
\* every room whose user is invited or joined.  One that is not is resynced by
\* chance, when its members cannot be read.
FairSpec ==
  /\ Spec
  /\ WF_vars(Start) /\ WF_vars(Repairs) /\ WF_vars(Migrates)
  /\ \A k \in Keys : WF_vars(Has(k) /\ portals[k].room \notin left /\ Resync(k))
================================================================================
