-------------------------- MODULE MigrationProperties --------------------------
(***************************************************************************)
(* What the repair and the migration of rooms promise: the properties of   *)
(* Migration.                                                              *)
(***************************************************************************)
EXTENDS Migration

\* The tables are typed and their references hold: no row has a parent that is
\* not there, and no user_portal row names a login or a portal that is not.
TypeOK ==
  /\ DOMAIN portals \subseteq Keys
  /\ \A k \in DOMAIN portals :
       /\ portals[k] \in Rows
       /\ portals[k].parent # NoParent => Has(SpaceOf(portals[k].parent))
  /\ logins \subseteq Users \cup {Legacy}
  /\ flags \subseteq logins \X DOMAIN portals
  /\ personal \in [Users \cup {Legacy} -> Rooms \cup {NoRoom}]
  /\ recipient \in {Nobody, Owner}
  /\ listed \subseteq Rooms \X PortalRooms
  /\ left \subseteq PortalRooms /\ deleted \subseteq Rooms
  /\ step \in Steps /\ starts \in 0 .. MaxStarts
  /\ todo \subseteq WithoutReceiver /\ skipped \in BOOLEAN
  /\ mended \in Receivers /\ dead \in PortalRooms \cup {NoRoom}

\* No step loses a room or gives it to the wrong login: a number's room stays
\* with its receiver, or goes from nobody to the default recipient, and a space
\* that holds rooms keeps its room ("keeping the same Matrix rooms",
\* README.md:401-403, migrateSharedLogin and reIDPortal).
RoomsAreKept ==
  [][ \A k \in DOMAIN portals :
        portals[k].room # NoRoom /\ (k[1] # Space \/ Children(k[2]) # {}) =>
          \E j \in DOMAIN portals' :
            /\ j[1] = k[1] /\ portals'[j].room = portals[k].room
            /\ k[1] # Space => j[2] = k[2] \/ (k[2] = Nobody /\ j[2] = recipient') ]_vars

\* The bridge deletes no room, the owner's personal space included, wherever an
\* earlier start was stopped ("It never deletes, tombstones or duplicates a
\* room", README.md:407-408; transferSpace), and its
\* tables keep what they refer to.
NothingIsDeleted == TypeOK /\ deleted = {}

\* The per-room state of the owner goes with the rooms: a user_portal row of a
\* number stays, or passes from the old login to the recipient
\* (moveUserPortalsQuery, migrate.go:17-28).
FlagsAreKept ==
  [][ \A f \in flags : f[2][1] # Space =>
        \E g \in flags' :
          /\ g[1] = f[1] \/ (f[1] = Legacy /\ g[1] = recipient')
          /\ portals'[g[2]].room = portals[f[2]].room /\ g[2][1] = f[2][1] ]_vars

\* A start that nothing disturbs finishes the migration, wherever earlier ones
\* were stopped and whatever failed in them: what still has no receiver clashes
\* with a room of the owner's, and the old login is only kept for such a clash.
MigrationEnds ==
  <>Undisturbed =>
    <>[] \/ recipient = Nobody
         \/ /\ \A k \in WithoutReceiver : HasRoom(<<k[1], recipient>>)
            /\ Legacy \in logins => WithoutReceiver # {}

\* With line_spaces on, after such a start every room of a login that its user
\* is in or invited to is listed in its own receiver's space and in no other
\* (lineParent, spaces.go:31-88; shouldResyncPortal, client.go:114-131).
RoomsInTheirLine ==
  LineSpaces /\ <>Undisturbed =>
    <>[] \A k \in DOMAIN portals :
           k[1] # Space /\ k[2] \in logins /\ HasRoom(k) /\ portals[k].room \notin left =>
             /\ HasRoom(SpaceOf(k[2]))
             /\ {l[1] : l \in {x \in listed : x[2] = portals[k].room}} = {portals[SpaceOf(k[2])].room}

\* A space with rooms of several receivers keeps its key ("A space whose rooms
\* belong to several receivers [...] is left alone", spaces.go:158-160).
AmbiguousIsLeftAlone ==
  [][ Has(SpaceOf(Nobody)) /\ Cardinality({k[2] : k \in Children(Nobody)} \ {Nobody}) > 1 =>
        SpaceOf(Nobody) \in DOMAIN portals' ]_vars

\* In the end a personal space lists no room that has lost its portal ("the
\* replaced copy's entry there is removed", README.md:417).
DroppedIsUnlisted ==
  <>[] \A l \in listed :
         l[1] \notin PortalRooms => \E k \in DOMAIN portals : portals[k].room = l[2]
================================================================================
