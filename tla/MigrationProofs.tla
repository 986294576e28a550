---------------------------- MODULE MigrationProofs ----------------------------
(***************************************************************************)
(* The migration of rooms over every database an earlier version may have  *)
(* left, with any users, numbers and portals, stopped at any step: the     *)
(* tables keep their types and references, no room is deleted, and no step *)
(* loses a room or the owner's flags for it.                               *)
(***************************************************************************)
EXTENDS MigrationProperties, TLAPS

\* The portal table: every parent is there.
TableOK(p) ==
  /\ DOMAIN p \subseteq Keys
  /\ \A k \in DOMAIN p :
       /\ p[k] \in Rows
       /\ p[k].parent # NoParent => SpaceOf(p[k].parent) \in DOMAIN p

\* What a step of the start may take for granted.
StepInv ==
  /\ step \in {"ensure", "move", "flags", "transfer", "clear", "delete"} => recipient = Owner
  /\ step \in {"move", "flags", "transfer", "clear", "delete"} => Owner \in logins
  /\ step = "delete" => personal[Legacy] = NoRoom
  /\ step = "list" => mended \in logins \cap Users /\ Has(SpaceOf(mended))
  /\ step # "move" => todo = {}

\* A number whose receiver-less portal is still there has rooms in its others.
NumbersInv ==
  \A k \in DOMAIN portals :
    k[1] # Space /\ k[2] # Nobody /\ Has(<<k[1], Nobody>>) => portals[k].room # NoRoom

\* Before the old login goes, its flags have been copied.
FlagsInv ==
  step \in {"transfer", "clear", "delete"} =>
    \A f \in flags : f[1] = Legacy => <<Owner, f[2]>> \in flags

IInv == TypeOK /\ deleted = {} /\ StepInv /\ NumbersInv /\ FlagsInv

\* The bodies of the two action properties.
RoomsStep ==
  \A k \in DOMAIN portals :
    portals[k].room # NoRoom /\ (k[1] # Space \/ Children(k[2]) # {}) =>
      \E j \in DOMAIN portals' :
        /\ j[1] = k[1] /\ portals'[j].room = portals[k].room
        /\ k[1] # Space => j[2] = k[2] \/ (k[2] = Nobody /\ j[2] = recipient')

FlagsStep ==
  \A f \in flags : f[2][1] # Space =>
    \E g \in flags' :
      /\ g[1] = f[1] \/ (f[1] = Legacy /\ g[1] = recipient')
      /\ portals'[g[2]].room = portals[f[2]].room /\ g[2][1] = f[2][1]

Keeps == IInv' /\ RoomsStep /\ FlagsStep

-------------------------------------------------------------------------------
\* The names of things are told apart.
LEMMA Names ==
  /\ Owner \in Users /\ Owner # Nobody /\ Nobody \notin Users /\ Legacy \notin Users
  /\ NoParent \notin Receivers
  /\ \A k \in Keys : /\ k = <<k[1], k[2]>> /\ k[1] \in Numbers \cup {Space} /\ k[2] \in Receivers
  /\ \A r \in Receivers : SpaceOf(r) \in Keys
  /\ \A k \in Keys, r \in Receivers : <<k[1], r>> \in Keys
  /\ \A k \in Keys : k[1] = Space <=> k = SpaceOf(k[2])
  /\ \A q, r : SpaceOf(q) = SpaceOf(r) => q = r
  /\ \A q, r : SpaceOf(q) = <<Space, r>> => q = r
<1>1. Owner \in Users /\ Owner # Nobody /\ Nobody \notin Users /\ Legacy \notin Users
  BY MigrationAssumption
<1>2. NoParent \notin Receivers
  <2>1. NoParent \notin Users
    BY MigrationAssumption
  <2> QED
    BY <2>1 DEF Receivers, NoParent, Nobody
<1>3. \A k \in Keys : /\ k = <<k[1], k[2]>> /\ k[1] \in Numbers \cup {Space} /\ k[2] \in Receivers
  BY DEF Keys
<1>4. /\ \A r \in Receivers : SpaceOf(r) \in Keys
      /\ \A k \in Keys, r \in Receivers : <<k[1], r>> \in Keys
  BY <1>3 DEF Keys, SpaceOf
<1>5. \A k \in Keys : k[1] = Space <=> k = SpaceOf(k[2])
  BY <1>3 DEF SpaceOf
<1> QED
  BY <1>1, <1>2, <1>3, <1>4, <1>5 DEF SpaceOf

\* A row goes with the references to it.
LEMMA WithoutOK ==
  ASSUME NEW p, TableOK(p), NEW k \in Keys
  PROVE  /\ DOMAIN Without(p, k) = DOMAIN p \ {k}
         /\ TableOK(Without(p, k))
         /\ \A x \in DOMAIN p \ {k} : Without(p, k)[x].room = p[x].room
<1> DEFINE q == Without(p, k)
<1>1. DOMAIN q = DOMAIN p \ {k}
  BY DEF Without
<1>2. ASSUME NEW x \in DOMAIN p \ {k}
      PROVE  /\ q[x] \in Rows /\ q[x].room = p[x].room
             /\ q[x].parent # NoParent => SpaceOf(q[x].parent) \in DOMAIN p \ {k}
  <2>1. p[x] \in Rows /\ x \in Keys /\ (p[x].parent # NoParent => SpaceOf(p[x].parent) \in DOMAIN p)
    BY DEF TableOK
  <2>2. CASE k[1] = Space /\ p[x].parent = k[2]
    <3>1. q[x] = [p[x] EXCEPT !.parent = NoParent]
      BY <2>2 DEF Without
    <3> QED
      BY <2>1, <3>1 DEF Rows
  <2>3. CASE ~(k[1] = Space /\ p[x].parent = k[2])
    <3>1. q[x] = p[x]
      BY <2>3 DEF Without
    <3>2. SpaceOf(p[x].parent) # k
      BY <2>3 DEF SpaceOf
    <3> QED
      BY <2>1, <3>1, <3>2
  <2> QED
    BY <2>2, <2>3
<1> HIDE DEF q
<1>3. TableOK(q)
  BY <1>1, <1>2 DEF TableOK
<1> QED
  BY <1>1, <1>2, <1>3 DEF q

\* A row gets another receiver, and its references follow.
LEMMA ReKeyedOK ==
  ASSUME NEW p, TableOK(p), NEW k \in DOMAIN p, NEW r \in Receivers, <<k[1], r>> \notin DOMAIN p
  PROVE  LET q == ReKeyed(p, k, r)
             target == <<k[1], r>>
         IN
         /\ DOMAIN q = (DOMAIN p \ {k}) \cup {target}
         /\ TableOK(q)
         /\ q[target].room = p[k].room
         /\ \A x \in DOMAIN p \ {k} : q[x].room = p[x].room
<1> DEFINE q == ReKeyed(p, k, r)
           target == <<k[1], r>>
           row(x) == IF x = target THEN p[k] ELSE p[x]
<1>1. DOMAIN q = (DOMAIN p \ {k}) \cup {target}
  BY DEF ReKeyed
<1>2. k \in Keys /\ target \in Keys
  BY Names DEF TableOK
<1>3. ASSUME NEW x \in DOMAIN q
      PROVE  /\ q[x] \in Rows /\ q[x].room = row(x).room
             /\ q[x].parent # NoParent => SpaceOf(q[x].parent) \in DOMAIN q
  <2>1. row(x) \in Rows /\ (row(x).parent # NoParent => SpaceOf(row(x).parent) \in DOMAIN p)
    BY <1>1 DEF TableOK
  <2>2. CASE k[1] = Space /\ row(x).parent = k[2]
    <3>1. q[x] = [row(x) EXCEPT !.parent = r]
      BY <1>1, <2>2 DEF ReKeyed
    <3>2. SpaceOf(r) = target
      BY <2>2 DEF SpaceOf
    <3> QED
      BY <1>1, <2>1, <3>1, <3>2 DEF Rows
  <2>3. CASE ~(k[1] = Space /\ row(x).parent = k[2])
    <3>1. q[x] = row(x)
      BY <1>1, <2>3 DEF ReKeyed
    <3>2. SpaceOf(row(x).parent) # k
      BY <2>3 DEF SpaceOf
    <3> QED
      BY <1>1, <2>1, <3>1, <3>2
  <2> QED
    BY <2>2, <2>3
<1> HIDE DEF q
<1>4. TableOK(q)
  BY <1>1, <1>2, <1>3 DEF TableOK
<1>5. q[target].room = p[k].room
  BY <1>1, <1>3
<1>6. \A x \in DOMAIN p \ {k} : q[x].room = p[x].room
  BY <1>1, <1>3
<1> QED
  BY <1>1, <1>4, <1>5, <1>6 DEF q

\* What bridgev2 does to the tables when the target has no room.
LEMMA ReIDPortalMoves ==
  ASSUME TypeOK, NEW k \in DOMAIN portals, NEW r \in Receivers, r # k[2],
         ~HasRoom(<<k[1], r>>), ReIDPortal(k, r)
  PROVE  LET target == <<k[1], r>> IN
         /\ TableOK(portals') /\ DOMAIN portals' = (DOMAIN portals \ {k, target}) \cup {target}
         /\ portals'[target].room = portals[k].room
         /\ \A x \in DOMAIN portals \ {k, target} : portals'[x].room = portals[x].room
         /\ flags' \subseteq logins \X DOMAIN portals'
         /\ \A f \in flags : f[2] # target =>
              <<f[1], IF f[2] = k THEN target ELSE f[2]>> \in flags'
         /\ UNCHANGED deleted
<1> DEFINE target == <<k[1], r>>
           p == Without(portals, target)
<1>1. TableOK(portals) /\ k \in Keys /\ target \in Keys /\ k # target
  BY Names DEF TypeOK, TableOK, Has
<1>2. /\ portals' = ReKeyed(p, k, r)
      /\ flags' = FlagsReKeyed(FlagsWithout(target), k, r)
      /\ UNCHANGED deleted
  BY DEF ReIDPortal
<1>3. /\ TableOK(p) /\ DOMAIN p = DOMAIN portals \ {target}
      /\ \A x \in DOMAIN portals \ {target} : p[x].room = portals[x].room
  BY <1>1, WithoutOK
<1>4. k \in DOMAIN p /\ target \notin DOMAIN p
  BY <1>1, <1>3
<1> HIDE DEF p
<1>5. /\ DOMAIN portals' = (DOMAIN p \ {k}) \cup {target}
      /\ TableOK(portals')
      /\ portals'[target].room = p[k].room
      /\ \A x \in DOMAIN p \ {k} : portals'[x].room = p[x].room
  BY <1>2, <1>3, <1>4, ReKeyedOK
<1>6. \A f \in flags : f = <<f[1], f[2]>> /\ f[1] \in logins /\ f[2] \in DOMAIN portals
  BY DEF TypeOK
<1>7. flags' \subseteq logins \X DOMAIN portals'
  BY <1>2, <1>3, <1>5, <1>6 DEF FlagsReKeyed, FlagsWithout
<1>8. \A f \in flags : f[2] # target => <<f[1], IF f[2] = k THEN target ELSE f[2]>> \in flags'
  BY <1>2 DEF FlagsReKeyed, FlagsWithout
<1> QED
  BY <1>1, <1>2, <1>3, <1>4, <1>5, <1>7, <1>8

\* A step that leaves the tables alone loses nothing.
LEMMA TablesStay ==
  ASSUME TypeOK, UNCHANGED portals
  PROVE  RoomsStep /\ (flags \subseteq flags' => FlagsStep)
BY DEF TypeOK, RoomsStep, FlagsStep

LEMMA RepairDropKeeps ==
  ASSUME IInv, NEW r \in Users, RepairDrop(r)
  PROVE  Keeps
<1> USE DEF IInv, RepairDrop
<1>1. TableOK(portals) /\ SpaceOf(r) \in Keys /\ r \in Receivers /\ r # Nobody
  BY Names DEF TypeOK, TableOK, Has, Receivers
<1>2. /\ TableOK(portals') /\ DOMAIN portals' = DOMAIN portals \ {SpaceOf(r)}
      /\ \A x \in DOMAIN portals' : portals'[x].room = portals[x].room
  BY <1>1, WithoutOK
<1>3. flags' = {f \in flags : f[2] # SpaceOf(r)}
  BY DEF FlagsWithout
<1>4. portals[SpaceOf(r)].room \in PortalRooms \cup {NoRoom}
  BY DEF TypeOK, Rows, Has
<1>5. WithoutReceiver' = WithoutReceiver
  BY <1>1, <1>2, Names DEF WithoutReceiver, SpaceOf
<1>6. TypeOK'
  BY <1>2, <1>3, <1>4, <1>5 DEF TypeOK, TableOK, Has
<1>7. StepInv' /\ FlagsInv'
  BY DEF StepInv, FlagsInv
<1>8. NumbersInv'
  BY <1>2 DEF NumbersInv, Has
<1>9. RoomsStep
  <2> SUFFICES ASSUME NEW k \in DOMAIN portals, k[1] # Space \/ Children(k[2]) # {}
               PROVE  k \in DOMAIN portals' /\ portals'[k].room = portals[k].room
    BY DEF RoomsStep
  <2>1. Children(SpaceOf(r)[2]) = {} /\ SpaceOf(r)[1] = Space
    BY DEF Repairable, SpaceOf
  <2> QED
    BY <1>2, <2>1
<1>10. FlagsStep
  BY <1>2, <1>3 DEF FlagsStep, SpaceOf, TypeOK
<1> QED
  BY <1>6, <1>7, <1>8, <1>9, <1>10 DEF Keeps

LEMMA RepairMoveKeeps ==
  ASSUME IInv, NEW r \in Users, RepairMove(r)
  PROVE  Keeps
<1> USE DEF IInv
<1> DEFINE k == SpaceOf(Nobody)
<1>1. /\ k \in DOMAIN portals /\ k \in Keys /\ k[1] = Space /\ k[2] = Nobody
      /\ <<k[1], r>> = SpaceOf(r) /\ SpaceOf(r) \notin DOMAIN portals
      /\ r \in logins /\ r \in Receivers /\ r # Nobody /\ step = "repair" /\ todo = {}
  BY Names DEF RepairMove, Repairable, Has, SpaceOf, Receivers, StepInv
<1>2. CASE UNCHANGED <<portals, flags, deleted, mended>> /\ step' = "recipient"
  <2>1. TypeOK'
    BY <1>2 DEF RepairMove, TypeOK, WithoutReceiver, Has, Steps
  <2>2. StepInv' /\ NumbersInv' /\ FlagsInv'
    BY <1>1, <1>2 DEF RepairMove, StepInv, NumbersInv, FlagsInv, Has
  <2> QED
    BY <1>2, <2>1, <2>2, TablesStay DEF Keeps
<1>3. CASE ReIDPortal(k, r) /\ mended' = r /\ step' = "list"
  <2>0. ~HasRoom(<<k[1], r>>)
    BY <1>1 DEF HasRoom, Has
  <2>1. /\ TableOK(portals') /\ DOMAIN portals' = (DOMAIN portals \ {k, SpaceOf(r)}) \cup {SpaceOf(r)}
        /\ portals'[SpaceOf(r)].room = portals[k].room
        /\ \A x \in DOMAIN portals \ {k, SpaceOf(r)} : portals'[x].room = portals[x].room
        /\ flags' \subseteq logins \X DOMAIN portals'
        /\ \A f \in flags : f[2] # SpaceOf(r) =>
             <<f[1], IF f[2] = k THEN SpaceOf(r) ELSE f[2]>> \in flags'
        /\ UNCHANGED deleted
    BY <1>1, <1>3, <2>0, ReIDPortalMoves
  <2>2. UNCHANGED <<logins, personal, recipient, listed, left, starts, todo, skipped, dead>>
    BY DEF RepairMove
  <2>3. TypeOK'
    BY <1>1, <1>3, <2>1, <2>2 DEF TypeOK, TableOK, Has, Steps
  <2>4. StepInv' /\ FlagsInv'
    BY <1>1, <1>3, <2>1, <2>2 DEF StepInv, FlagsInv, Has
  <2>5. NumbersInv'
    BY <1>1, <2>1, Names DEF NumbersInv, Has, SpaceOf
  <2>6. RoomsStep
    <3> SUFFICES ASSUME NEW x \in DOMAIN portals
                 PROVE  \E j \in DOMAIN portals' :
                          /\ j[1] = x[1] /\ portals'[j].room = portals[x].room
                          /\ x[1] # Space => j[2] = x[2]
      BY DEF RoomsStep
    <3>1. CASE x = k
      BY <1>1, <2>1, <3>1 DEF SpaceOf
    <3>2. CASE x # k
      BY <1>1, <2>1, <3>2
    <3> QED
      BY <3>1, <3>2
  <2>7. FlagsStep
    <3> SUFFICES ASSUME NEW f \in flags, f[2][1] # Space
                 PROVE  f \in flags' /\ portals'[f[2]].room = portals[f[2]].room
      BY DEF FlagsStep
    <3>1. f[2] # k /\ f[2] # SpaceOf(r) /\ f[2] \in DOMAIN portals /\ f = <<f[1], f[2]>>
      BY <1>1 DEF SpaceOf, TypeOK
    <3> QED
      BY <2>1, <3>1
  <2> QED
    BY <2>1, <2>3, <2>4, <2>5, <2>6, <2>7 DEF Keeps
<1> QED
  BY <1>2, <1>3 DEF RepairMove

LEMMA RepairListKeeps ==
  ASSUME IInv, RepairList
  PROVE  Keeps
<1> USE DEF IInv, RepairList
<1>1. mended \in logins /\ mended \in Users /\ SpaceOf(mended) \in DOMAIN portals /\ todo = {}
  BY DEF StepInv, Has
<1>2. flags' \subseteq logins \X DOMAIN portals
  BY <1>1 DEF TypeOK
<1>3. listed' \subseteq Rooms \X PortalRooms
  <2>1. PICK new \in Asked("link", <<personal[mended], portals[SpaceOf(mended)].room>>),
             old \in Asked("unlink", <<personal[mended], dead>>) :
          listed' = (listed \ old) \cup {x \in new : NoRoom \notin {x[1], x[2]}}
    OBVIOUS
  <2>2. new \subseteq {<<personal[mended], portals[SpaceOf(mended)].room>>}
    BY DEF Asked
  <2>3. personal[mended] \in Rooms \cup {NoRoom}
        /\ portals[SpaceOf(mended)].room \in PortalRooms \cup {NoRoom}
    BY <1>1 DEF TypeOK, Rows
  <2> QED
    BY <2>1, <2>2, <2>3 DEF TypeOK
<1>4. TypeOK'
  BY <1>2, <1>3 DEF TypeOK, WithoutReceiver, Has, Steps, start
<1>5. StepInv' /\ NumbersInv' /\ FlagsInv'
  BY <1>1 DEF StepInv, NumbersInv, FlagsInv, Has, start
<1> QED
  BY <1>4, <1>5, TablesStay DEF Keeps

LEMMA StartKeeps ==
  ASSUME IInv, Start
  PROVE  Keeps
<1> USE Names DEF IInv, Start, store, start
<1>1. TypeOK'
  BY MigrationAssumption DEF TypeOK, WithoutReceiver, Has, Steps
<1>2. StepInv' /\ NumbersInv' /\ FlagsInv'
  BY DEF TypeOK, StepInv, NumbersInv, FlagsInv, Has
<1> QED
  BY <1>1, <1>2, TablesStay DEF Keeps

LEMMA NothingToRepairKeeps ==
  ASSUME IInv, NothingToRepair
  PROVE  Keeps
<1> USE Names DEF IInv, NothingToRepair, store, start
<1>1. TypeOK'
  BY DEF TypeOK, WithoutReceiver, Has, Steps
<1>2. StepInv' /\ NumbersInv' /\ FlagsInv'
  BY DEF TypeOK, StepInv, NumbersInv, FlagsInv, Has
<1> QED
  BY <1>1, <1>2, TablesStay DEF Keeps

LEMMA SetRecipientKeeps ==
  ASSUME IInv, SetRecipient
  PROVE  Keeps
<1> USE Names DEF IInv, SetRecipient, store, start
<1>1. TypeOK'
  BY DEF TypeOK, WithoutReceiver, Has, Steps
<1>2. StepInv' /\ NumbersInv' /\ FlagsInv'
  BY DEF TypeOK, StepInv, NumbersInv, FlagsInv, Has
<1> QED
  BY <1>1, <1>2, TablesStay DEF Keeps

LEMMA EnsureLoginKeeps ==
  ASSUME IInv, EnsureLogin
  PROVE  Keeps
<1> USE Names DEF IInv, EnsureLogin, store, start
<1>1. TypeOK'
  <2>1. logins' \subseteq Users \cup {Legacy} /\ logins \subseteq logins'
    BY DEF TypeOK, StepInv
  <2>2. flags' \subseteq logins' \X DOMAIN portals'
    BY <2>1 DEF TypeOK
  <2>3. todo' \subseteq WithoutReceiver'
    BY DEF WithoutReceiver
  <2> QED
    BY <2>1, <2>2, <2>3 DEF TypeOK, Has, Steps
<1>2. StepInv' /\ NumbersInv' /\ FlagsInv'
  BY DEF TypeOK, StepInv, NumbersInv, FlagsInv, Has
<1> QED
  BY <1>1, <1>2, TablesStay DEF Keeps

LEMMA AllMovedKeeps ==
  ASSUME IInv, AllMoved
  PROVE  Keeps
<1> USE Names DEF IInv, AllMoved, store, start
<1>1. TypeOK'
  BY DEF TypeOK, WithoutReceiver, Has, Steps
<1>2. StepInv' /\ NumbersInv' /\ FlagsInv'
  BY DEF TypeOK, StepInv, NumbersInv, FlagsInv, Has
<1> QED
  BY <1>1, <1>2, TablesStay DEF Keeps

LEMMA TransferSpaceKeeps ==
  ASSUME IInv, TransferSpace
  PROVE  Keeps
<1> USE Names DEF IInv, TransferSpace, store, start
<1>1. TypeOK'
  BY DEF TypeOK, WithoutReceiver, Has, Steps
<1>2. StepInv' /\ NumbersInv' /\ FlagsInv'
  BY DEF TypeOK, StepInv, NumbersInv, FlagsInv, Has
<1> QED
  BY <1>1, <1>2, TablesStay DEF Keeps

LEMMA ClearSpaceKeeps ==
  ASSUME IInv, ClearSpace
  PROVE  Keeps
<1> USE Names DEF IInv, ClearSpace, store, start
<1>1. TypeOK'
  BY DEF TypeOK, WithoutReceiver, Has, Steps
<1>2. StepInv' /\ NumbersInv' /\ FlagsInv'
  BY DEF TypeOK, StepInv, NumbersInv, FlagsInv, Has
<1> QED
  BY <1>1, <1>2, TablesStay DEF Keeps

LEMMA StopKeeps ==
  ASSUME IInv, Stop
  PROVE  Keeps
<1> USE Names DEF IInv, Stop, store, start
<1>1. TypeOK'
  <2>1. mended' \in Receivers /\ dead' = NoRoom /\ todo' = {} /\ skipped' = FALSE /\ step' = "down"
    BY DEF Receivers
  <2> QED
    BY <2>1 DEF TypeOK, WithoutReceiver, Has, Steps
<1>2. StepInv' /\ NumbersInv' /\ FlagsInv'
  BY DEF TypeOK, StepInv, NumbersInv, FlagsInv, Has
<1> QED
  BY <1>1, <1>2, TablesStay DEF Keeps

LEMMA MoveOneKeeps ==
  ASSUME IInv, MoveOne
  PROVE  Keeps
<1> USE DEF IInv
<1>1. PICK k \in todo :
        /\ step = "move" /\ MovePortal(k, recipient) /\ todo' = todo \ {k}
        /\ UNCHANGED <<logins, personal, recipient, listed, step, left, starts, mended, dead>>
  BY DEF MoveOne
<1> DEFINE target == <<k[1], Owner>>
<1>2. /\ k \in DOMAIN portals /\ k \in Keys /\ k[2] = Nobody /\ k = <<k[1], Nobody>>
      /\ target \in Keys /\ target # k /\ recipient = Owner /\ Owner \in Receivers /\ Owner # Nobody
  BY <1>1, Names DEF TypeOK, WithoutReceiver, StepInv, Receivers
<1>3. CASE UNCHANGED <<portals, flags, deleted>> /\ skipped' = TRUE
  <2>1. TypeOK'
    BY <1>1, <1>3 DEF TypeOK, WithoutReceiver, Has, Steps
  <2>2. StepInv' /\ NumbersInv' /\ FlagsInv'
    BY <1>1, <1>3 DEF StepInv, NumbersInv, FlagsInv, Has
  <2> QED
    BY <1>3, <2>1, <2>2, TablesStay DEF Keeps
<1>4. CASE ~HasRoom(target) /\ ReIDPortal(k, Owner) /\ UNCHANGED skipped
  <2>1. /\ TableOK(portals') /\ DOMAIN portals' = (DOMAIN portals \ {k, target}) \cup {target}
        /\ portals'[target].room = portals[k].room
        /\ \A x \in DOMAIN portals \ {k, target} : portals'[x].room = portals[x].room
        /\ flags' \subseteq logins \X DOMAIN portals'
        /\ \A f \in flags : f[2] # target =>
             <<f[1], IF f[2] = k THEN target ELSE f[2]>> \in flags'
        /\ UNCHANGED deleted
    BY <1>2, <1>4, ReIDPortalMoves
  <2>2. todo' \subseteq WithoutReceiver'
    BY <1>1, <1>2, <2>1 DEF TypeOK, WithoutReceiver
  <2>3. TypeOK'
    BY <1>1, <1>4, <2>1, <2>2 DEF TypeOK, TableOK, Has
  <2>4. StepInv' /\ FlagsInv'
    BY <1>1, <2>1 DEF StepInv, FlagsInv
  <2>5. NumbersInv'
    <3> SUFFICES ASSUME NEW x \in DOMAIN portals', x[1] # Space, x[2] # Nobody,
                        <<x[1], Nobody>> \in DOMAIN portals'
                 PROVE  portals'[x].room # NoRoom
      BY DEF NumbersInv, Has
    <3>1. <<x[1], Nobody>> # k /\ <<x[1], Nobody>> # target
      BY <1>2, <2>1
    <3>2. x # target
      BY <1>2, <3>1
    <3>3. x \in DOMAIN portals /\ x # k /\ <<x[1], Nobody>> \in DOMAIN portals
      BY <1>2, <2>1, <3>1, <3>2
    <3> QED
      BY <2>1, <3>2, <3>3 DEF NumbersInv, Has
  <2>6. RoomsStep
    <3> SUFFICES ASSUME NEW x \in DOMAIN portals, portals[x].room # NoRoom
                 PROVE  \E j \in DOMAIN portals' :
                          /\ j[1] = x[1] /\ portals'[j].room = portals[x].room
                          /\ j[2] = x[2] \/ (x[2] = Nobody /\ j[2] = recipient')
      BY DEF RoomsStep
    <3>1. CASE x = k
      BY <1>1, <1>2, <2>1, <3>1
    <3>2. CASE x # k
      <4>1. x # target
        BY <1>4 DEF HasRoom, Has
      <4> QED
        BY <2>1, <3>2, <4>1
    <3> QED
      BY <3>1, <3>2
  <2>7. FlagsStep
    <3> SUFFICES ASSUME NEW f \in flags, f[2][1] # Space
                 PROVE  \E g \in flags' :
                          /\ g[1] = f[1] /\ portals'[g[2]].room = portals[f[2]].room
                          /\ g[2][1] = f[2][1]
      BY DEF FlagsStep
    <3>1. f[2] \in DOMAIN portals /\ f = <<f[1], f[2]>>
      BY DEF TypeOK
    <3>2. f[2] # target
      <4>1. ASSUME f[2] = target PROVE portals[target].room # NoRoom
        BY <1>2, <3>1, <4>1 DEF NumbersInv, Has
      <4> QED
        BY <1>4, <3>1, <4>1 DEF HasRoom, Has
    <3>3. CASE f[2] = k
      <4>1. <<f[1], target>> \in flags'
        BY <2>1, <3>2, <3>3
      <4> QED
        BY <2>1, <3>3, <4>1
    <3>4. CASE f[2] # k
      <4>1. <<f[1], f[2]>> \in flags'
        BY <2>1, <3>2, <3>4
      <4> QED
        BY <2>1, <3>1, <3>2, <3>4, <4>1
    <3> QED
      BY <3>3, <3>4
  <2> QED
    BY <2>1, <2>3, <2>4, <2>5, <2>6, <2>7 DEF Keeps
<1> QED
  BY <1>1, <1>2, <1>3, <1>4 DEF MovePortal

LEMMA MoveFlagsKeeps ==
  ASSUME IInv, MoveFlags
  PROVE  Keeps
<1> USE DEF IInv, MoveFlags, start
<1>1. recipient = Owner /\ Owner \in logins
  BY DEF StepInv
<1>2. \A f \in flags : f = <<f[1], f[2]>> /\ f[1] \in logins /\ f[2] \in DOMAIN portals
  BY DEF TypeOK
<1>3. flags' \subseteq logins \X DOMAIN portals
  BY <1>1, <1>2
<1>4. TypeOK'
  BY <1>3 DEF TypeOK, WithoutReceiver, Has, Steps
<1>5. StepInv' /\ NumbersInv'
  BY DEF StepInv, NumbersInv, Has
<1>6. FlagsInv'
  BY <1>1, <1>2 DEF FlagsInv
<1>7. FlagsStep
  <2> SUFFICES ASSUME NEW f \in flags
               PROVE  \E g \in flags' :
                        /\ g[1] = f[1] \/ (f[1] = Legacy /\ g[1] = recipient')
                        /\ g[2] = f[2]
    BY DEF FlagsStep
  <2>1. CASE f[1] = Legacy
    BY <1>1, <2>1
  <2>2. CASE f[1] # Legacy
    BY <2>2
  <2> QED
    BY <2>1, <2>2
<1> QED
  BY <1>4, <1>5, <1>6, <1>7, TablesStay DEF Keeps

LEMMA DeleteLegacyKeeps ==
  ASSUME IInv, DeleteLegacy
  PROVE  Keeps
<1> USE DEF IInv, DeleteLegacy, start
<1>1. recipient = Owner /\ Owner \in logins /\ personal[Legacy] = NoRoom
  BY DEF StepInv
<1>2. \A f \in flags : f = <<f[1], f[2]>> /\ f[1] \in logins /\ f[2] \in DOMAIN portals
  BY DEF TypeOK
<1>3. flags' \subseteq logins' \X DOMAIN portals
  BY <1>2
<1>4. TypeOK'
  BY <1>1, <1>3 DEF TypeOK, WithoutReceiver, Has, Steps
<1>5. StepInv' /\ NumbersInv' /\ FlagsInv'
  BY DEF StepInv, NumbersInv, FlagsInv, Has
<1>6. FlagsStep
  <2> SUFFICES ASSUME NEW f \in flags
               PROVE  \E g \in flags' :
                        /\ g[1] = f[1] \/ (f[1] = Legacy /\ g[1] = recipient')
                        /\ g[2] = f[2]
    BY DEF FlagsStep
  <2>1. CASE f[1] = Legacy
    <3>1. <<Owner, f[2]>> \in flags'
      BY <2>1, Names DEF FlagsInv
    <3> QED
      BY <1>1, <2>1, <3>1
  <2>2. CASE f[1] # Legacy
    BY <2>2
  <2> QED
    BY <2>1, <2>2
<1> QED
  BY <1>1, <1>4, <1>5, <1>6, TablesStay DEF Keeps

LEMMA ResyncKeeps ==
  ASSUME IInv, NEW k \in DOMAIN portals, Resync(k)
  PROVE  Keeps
<1> USE DEF IInv
<1> DEFINE r == k[2]
           row == portals[k]
           home == IF Has(SpaceOf(r)) THEN portals[SpaceOf(r)].room ELSE NoRoom
           old == IF row.parent # r /\ row.inSpace /\ HasRoom(SpaceOf(row.parent))
                  THEN {<<portals[SpaceOf(row.parent)].room, row.room>>} ELSE {}
<1>1. /\ k \in Keys /\ k[1] # Space /\ r \in Users /\ r \in Receivers /\ r \in logins
      /\ SpaceOf(r) \in Keys /\ SpaceOf(r) # k /\ row \in Rows /\ row.room # NoRoom
      /\ step = "done" /\ SpaceOf(r)[1] = Space /\ r # Nobody
  BY Names DEF Resync, TypeOK, SpaceOf, Receivers, Legacy, Nobody
<1>2. home \in PortalRooms \cup {NoRoom} /\ NewRoom(r) \in PortalRooms
  BY <1>1 DEF TypeOK, Rows, Has, PortalRooms
<1>3. PICK made \in {home} \cup (IF home = NoRoom THEN {NewRoom(r)} ELSE {}),
           unlinked \in BOOLEAN, linked \in BOOLEAN :
        /\ linked => made # NoRoom
        /\ portals' = InSpace(k, made, linked)
        /\ listed' = (listed \ (IF unlinked THEN old ELSE {}))
                     \cup (IF linked THEN {<<made, row.room>>} ELSE {})
  BY DEF Resync
<1>4. made \in PortalRooms \cup {NoRoom} /\ (home # NoRoom => made = home)
  BY <1>2, <1>3
<1>5. /\ UNCHANGED <<logins, flags, personal, recipient, deleted, step, todo, skipped, mended, dead, starts>>
      /\ left' \subseteq left
  BY DEF Resync, start
<1>6. /\ DOMAIN portals' = DOMAIN portals \cup {SpaceOf(r)}
      /\ portals'[k] = [row EXCEPT !.parent = r, !.inSpace = linked]
      /\ portals'[SpaceOf(r)] = [room |-> made, parent |-> NoParent, inSpace |-> FALSE]
      /\ \A x \in DOMAIN portals \ {k, SpaceOf(r)} : portals'[x] = portals[x]
  BY <1>1, <1>3 DEF InSpace
<1> HIDE DEF home
<1>7. TableOK(portals')
  <2>1. portals'[k] \in Rows /\ portals'[k].parent = r /\ portals'[k].room = row.room
    BY <1>1, <1>3, <1>6 DEF Rows
  <2>2. portals'[SpaceOf(r)] \in Rows /\ portals'[SpaceOf(r)].parent = NoParent
    BY <1>4, <1>6 DEF Rows
  <2>3. \A x \in DOMAIN portals \ {k, SpaceOf(r)} :
          /\ portals'[x] \in Rows
          /\ portals'[x].parent # NoParent => SpaceOf(portals'[x].parent) \in DOMAIN portals
    BY <1>6 DEF TypeOK, Has
  <2>4. DOMAIN portals' \subseteq Keys
    BY <1>1, <1>6 DEF TypeOK
  <2>5. ASSUME NEW x \in DOMAIN portals'
        PROVE  /\ portals'[x] \in Rows
               /\ portals'[x].parent # NoParent => SpaceOf(portals'[x].parent) \in DOMAIN portals'
    <3>1. CASE x = k
      BY <1>6, <2>1, <3>1
    <3>2. CASE x = SpaceOf(r)
      BY <2>2, <3>2
    <3>3. CASE x \in DOMAIN portals \ {k, SpaceOf(r)}
      BY <1>6, <2>3, <3>3
    <3> QED
      BY <1>6, <3>1, <3>2, <3>3
  <2> QED
    BY <2>4, <2>5 DEF TableOK
<1>8. listed' \subseteq Rooms \X PortalRooms
  <2>1. row.room \in PortalRooms
    BY <1>1 DEF Rows
  <2> QED
    BY <1>3, <1>4, <2>1 DEF TypeOK, Rooms
<1>9. TypeOK'
  <2>1. WithoutReceiver' = WithoutReceiver
    BY <1>1, <1>6 DEF WithoutReceiver, SpaceOf
  <2>2. flags' \subseteq logins' \X DOMAIN portals'
    BY <1>5, <1>6 DEF TypeOK
  <2> QED
    BY <1>5, <1>7, <1>8, <2>1, <2>2 DEF TypeOK, TableOK, Has
<1>10. StepInv' /\ FlagsInv'
  BY <1>1, <1>5 DEF StepInv, FlagsInv
<1>11. \A x \in DOMAIN portals :
         x[1] # Space \/ portals[x].room # NoRoom => portals'[x].room = portals[x].room
  <2>1. portals'[k].room = row.room
    BY <1>1, <1>6 DEF Rows
  <2>2. SpaceOf(r) \in DOMAIN portals /\ portals[SpaceOf(r)].room # NoRoom
          => portals'[SpaceOf(r)].room = portals[SpaceOf(r)].room
    BY <1>4, <1>6 DEF home, Has
  <2> QED
    BY <1>1, <1>6, <2>1, <2>2
<1>12. NumbersInv'
  <2> SUFFICES ASSUME NEW x \in DOMAIN portals', x[1] # Space, x[2] # Nobody,
                      <<x[1], Nobody>> \in DOMAIN portals'
               PROVE  portals'[x].room # NoRoom
    BY DEF NumbersInv, Has
  <2>1. x \in DOMAIN portals /\ <<x[1], Nobody>> \in DOMAIN portals
    BY <1>1, <1>6 DEF SpaceOf
  <2> QED
    BY <1>11, <2>1 DEF NumbersInv, Has
<1>13. RoomsStep
  BY <1>6, <1>11 DEF RoomsStep
<1>14. FlagsStep
  BY <1>5, <1>11 DEF FlagsStep, TypeOK
<1> QED
  BY <1>5, <1>9, <1>10, <1>12, <1>13, <1>14 DEF Keeps


-------------------------------------------------------------------------------
\* The layout an earlier version left keeps its references.
LEMMA LayoutOK ==
  ASSUME NEW D, D \subseteq Keys, NEW bare, NEW p \in [D -> Receivers \cup {NoParent}],
         Possible(D, p)
  PROVE  LET q == Layout(D, bare, p) IN
         /\ DOMAIN q = D /\ TableOK(q)
         /\ \A k \in D : k \notin bare => q[k].room = k /\ k # NoRoom
         /\ \A k \in D : q[k].inSpace => q[k].parent # NoParent /\ k \notin bare
                                         /\ SpaceOf(q[k].parent) \in D \ bare
<1> DEFINE q == Layout(D, bare, p)
<1>1. DOMAIN q = D
  BY DEF Layout
<1>2. ASSUME NEW k \in D
      PROVE  /\ q[k].room = (IF k \in bare THEN NoRoom ELSE k) /\ q[k].parent = p[k]
             /\ q[k].inSpace = (k \notin bare /\ p[k] # NoParent /\ SpaceOf(p[k]) \notin bare)
             /\ q[k] \in Rows
  BY DEF Layout, Rows, PortalRooms
<1>3. \A k \in D : p[k] # NoParent => SpaceOf(p[k]) \in D
  BY DEF Possible
<1>4. \A k \in D : k # NoRoom
  BY DEF Keys, NoRoom
<1> HIDE DEF q
<1>5. TableOK(q)
  BY <1>1, <1>2, <1>3 DEF TableOK
<1> QED
  BY <1>1, <1>2, <1>3, <1>4, <1>5 DEF q

\* Every database an earlier version may have left satisfies the invariant.
LEMMA Initially == Init => IInv
<1> SUFFICES ASSUME Init PROVE IInv
  OBVIOUS
<1>1. PICK D \in SUBSET Keys :
        \E bare \in SUBSET {k \in D : k[1] = Space \/ k[2] = Nobody} :
        \E p \in [D -> Receivers \cup {NoParent}] :
          /\ Possible(D, p) /\ portals = Layout(D, bare, p)
          /\ logins \subseteq Users \cup {Legacy}
  <2>1. \A D \in SUBSET Keys : {k[2] : k \in D} \subseteq Receivers
    BY Names
  <2>2. PICK D \in SUBSET Keys :
        \E bare \in SUBSET {k \in D : k[1] = Space \/ k[2] = Nobody} :
        \E p \in {x \in [D -> Receivers \cup {NoParent}] : Possible(D, x)} :
        \E shared \in SUBSET {Legacy}, gone \in {{}, Users \ {Owner}} :
          /\ portals = Layout(D, bare, p)
          /\ logins = ({k[2] : k \in D} \ (gone \cup {Nobody})) \cup shared
    BY DEF Init
  <2> QED
    BY <2>1, <2>2 DEF Receivers
<1>2. PICK bare \in SUBSET {k \in D : k[1] = Space \/ k[2] = Nobody},
           p \in [D -> Receivers \cup {NoParent}] :
        Possible(D, p) /\ portals = Layout(D, bare, p) /\ logins \subseteq Users \cup {Legacy}
  BY <1>1
<1>3. /\ DOMAIN portals = D /\ TableOK(portals)
      /\ \A k \in D : k \notin bare => portals[k].room = k /\ k # NoRoom
      /\ \A k \in D : portals[k].inSpace => portals[k].parent # NoParent /\ k \notin bare
                                            /\ SpaceOf(portals[k].parent) \in D \ bare
  BY <1>2, LayoutOK
<1>4. /\ left \in SUBSET DOMAIN portals
      /\ deleted = {} /\ step = "down" /\ starts = 0
      /\ todo = {} /\ skipped = FALSE /\ mended = Nobody /\ dead = NoRoom
      /\ recipient \in {Nobody, Owner} /\ flags \subseteq logins \X DOMAIN portals
  BY DEF Init
<1>5. personal \in [Users \cup {Legacy} -> Rooms \cup {NoRoom}]
  <2>1. PICK has : personal = [l \in Users \cup {Legacy} |->
                                 IF l \in has THEN PersonalRoom(l) ELSE NoRoom]
    BY DEF Init
  <2> QED
    BY <2>1 DEF Rooms
<1>6. listed \subseteq Rooms \X PortalRooms
  <2>1. \A k \in DOMAIN portals : portals[k].inSpace =>
          portals[SpaceOf(portals[k].parent)].room \in Keys /\ portals[k].room \in Keys
    BY <1>3 DEF TableOK
  <2>2. \A u \in Users : personal[u] # NoRoom => personal[u] \in Rooms /\ SpaceOf(u) \in Keys
    BY <1>5, Names DEF Receivers
  <2>3. listed = {<<portals[SpaceOf(portals[k].parent)].room, portals[k].room>> :
                   k \in {x \in DOMAIN portals : portals[x].inSpace}}
              \cup {<<personal[u], SpaceOf(u)>> :
                   u \in {x \in Users : personal[x] # NoRoom /\ HasRoom(SpaceOf(x))}}
    BY DEF Init
  <2> QED
    BY <2>1, <2>2, <2>3 DEF Rooms, PortalRooms
<1>7. TypeOK
  <2>1. /\ starts \in 0 .. MaxStarts /\ step \in Steps /\ skipped \in BOOLEAN
        /\ todo \subseteq WithoutReceiver /\ deleted \subseteq Rooms
        /\ left \subseteq PortalRooms
    <3>1. starts \in 0 .. MaxStarts
      <4>1. MaxStarts \in Nat
        BY MigrationAssumption
      <4> QED
        BY <1>4, <4>1
    <3>2. left \subseteq PortalRooms
      BY <1>3, <1>4 DEF TableOK, PortalRooms
    <3> QED
      BY <1>4, <3>1, <3>2 DEF Steps
  <2>2. mended \in Receivers /\ dead \in PortalRooms \cup {NoRoom} /\ recipient \in {Nobody, Owner}
    BY <1>4 DEF Receivers
  <2> QED
    BY <1>2, <1>3, <1>4, <1>5, <1>6, <2>1, <2>2 DEF TypeOK, TableOK, Has
<1>8. StepInv /\ FlagsInv
  BY <1>4 DEF StepInv, FlagsInv
<1>9. NumbersInv
  BY <1>2, <1>3 DEF NumbersInv
<1> QED
  BY <1>4, <1>7, <1>8, <1>9 DEF IInv

\* Every step keeps the invariant, the rooms and the flags.
LEMMA StepKeeps ==
  ASSUME IInv, [Next]_vars
  PROVE  IInv' /\ [RoomsStep]_vars /\ [FlagsStep]_vars
<1>1. CASE UNCHANGED vars
  BY <1>1 DEF vars, store, start, IInv, TypeOK, StepInv, NumbersInv, FlagsInv, Has, WithoutReceiver
<1>2. CASE Start \/ Stop
  BY <1>2, StartKeeps, StopKeeps DEF Keeps
<1>3. CASE Repairs
  BY <1>3, NothingToRepairKeeps, RepairListKeeps, RepairDropKeeps, RepairMoveKeeps
     DEF Repairs, Keeps
<1>4. CASE Migrates
  BY <1>4, SetRecipientKeeps, EnsureLoginKeeps, MoveOneKeeps, AllMovedKeeps, MoveFlagsKeeps,
     TransferSpaceKeeps, ClearSpaceKeeps, DeleteLegacyKeeps DEF Migrates, Keeps
<1>5. ASSUME NEW k \in DOMAIN portals, Resync(k)
      PROVE  Keeps
  BY <1>5, ResyncKeeps
<1> QED
  BY <1>1, <1>2, <1>3, <1>4, <1>5 DEF Next, Keeps

-------------------------------------------------------------------------------
\* The invariant holds of every start and restart.
THEOREM Invariance == Spec => []IInv
<1>1. IInv /\ [Next]_vars => IInv'
  BY StepKeeps
<1> QED
  BY Initially, <1>1, PTL DEF Spec

\* The tables keep their references and no room is deleted, the owner's
\* personal space included, wherever a start is stopped (migrateSharedLogin,
\* transferSpace, reIDPortal).
THEOREM NothingGoes == Spec => []NothingIsDeleted
<1>1. IInv => NothingIsDeleted
  BY DEF IInv, NothingIsDeleted
<1> QED
  BY Invariance, <1>1, PTL

\* No step loses a room or gives it to another login than its own or the
\* default recipient's (migrateSharedLogin, repairLineSpaces, lineParent).
THEOREM RoomsStay == Spec => RoomsAreKept
<1>1. IInv /\ [Next]_vars => [RoomsStep]_vars
  BY StepKeeps
<1> QED
  BY Invariance, <1>1, PTL DEF Spec, RoomsAreKept, RoomsStep

\* The owner's flags for a number's room stay with it, from the old login to
\* the new one (moveUserPortalsQuery).
THEOREM FlagsStay == Spec => FlagsAreKept
<1>1. IInv /\ [Next]_vars => [FlagsStep]_vars
  BY StepKeeps
<1> QED
  BY Invariance, <1>1, PTL DEF Spec, FlagsAreKept, FlagsStep
==============================================================================
