----------------------------- MODULE CallsProofs ------------------------------
(***************************************************************************)
(* Theorems about the call subsystem for any number of calls, users and    *)
(* conferences, any services failing and any number of crashes: its types, *)
(* the claim on a conference, who media and answers are for, the record of *)
(* a call, and that the call table implements CallLifecycle.               *)
(***************************************************************************)
EXTENDS CallProperties, FiniteSetTheorems, TLAPS

USE CallTableAssumption, CallsAssumption

------------------------------------------------------------------------------
(* The inductive invariant *)

InboundOnly == {"wait", "reread", "answer", "held", "endPlain", "endDeclined", "endReject"}

OutboundOnly == {"dial", "invite", "transition"}

(* Which labels the owner of a call in each direction can be at.            *)
Roles ==
  \A c \in Calls :
    /\ c \in Inbound => pc[c] \notin OutboundOnly
    /\ c \in Outbound => pc[c] \notin InboundOnly

Early == {"idle", "begin", "insert"}

ClaimedLabels == {"bridge", "mark", "republish", "answer", "held"}

(* A call has a row once its owner has inserted one and not before, and an  *)
(* outbound row names its user from the start.                              *)
RowFollowsOwner ==
  \A c \in Calls :
    /\ pc[c] \in Early => row[c].state = "none"
    /\ pc[c] \notin Early \cup {"done"} => row[c].state # "none"
    /\ row[c].state = "none" => row[c].user = NoUser
    /\ c \in Outbound /\ row[c].state # "none" => row[c].user # NoUser

(* Only an ended row is torn down.                                          *)
TeardownFollowsEnd == \A c \in Calls : row[c].state # "ended" => td[c] = "none"

(* Media and the 200 are handled for a call somebody is on.                 *)
ClaimantKnown ==
  \A c \in Calls : pc[c] \in ClaimedLabels => row[c].user # NoUser

IInv ==
  /\ TypeOK /\ Roles
  /\ RowFollowsOwner /\ TeardownFollowsEnd /\ ClaimantKnown
  /\ OneInboundBridged /\ MediaOnlyForClaimant /\ RecordedOnce

------------------------------------------------------------------------------
(* Types *)

(* An End keeps the type of the table, ...                                  *)
LEMMA EndRowType ==
  ASSUME TypeOK, NEW c \in Calls, EndRow(c)
  PROVE  row' \in [Calls -> Rows]
<1>1. row[c] \in Rows
  BY DEF TypeOK
<1>2. [row[c] EXCEPT !.state = "ended"] \in Rows
  BY <1>1 DEF Rows, RowStates
<1>3. QED
  BY <1>1, <1>2 DEF TypeOK, EndRow

(* ... with what it does to the teardown, the verdict and the records.      *)
LEMMA EndCallType ==
  ASSUME TypeOK, NEW c \in Calls, NEW kind, NEW state, EndCall(c, kind, state)
  PROVE  /\ row' \in [Calls -> Rows]
         /\ td' \in [Calls -> {"none", "signal", "media", "member", "done"}]
         /\ verdict' \in [Calls -> Outcomes]
         /\ records' \in [Calls -> Nat]
<1>1. Outcome(kind, state) \in Outcomes
  BY DEF Outcome, Outcomes
<1>2. row' \in [Calls -> Rows]
  BY EndRowType DEF EndCall
<1>3. QED
  BY <1>1, <1>2 DEF TypeOK, EndCall

(* So does an end whose statement may fail.                                 *)
LEMMA TryEndType ==
  ASSUME TypeOK, NEW c \in Calls, NEW kind, NEW state, TryEnd(c, kind, state)
  PROVE  /\ row' \in [Calls -> Rows]
         /\ td' \in [Calls -> {"none", "signal", "media", "member", "done"}]
         /\ verdict' \in [Calls -> Outcomes]
         /\ records' \in [Calls -> Nat]
BY EndCallType, EndRowType DEF TypeOK, TryEnd, EndUntold, ends

(* The statements on the table keep its type: INSERT, ...                   *)
LEMMA InsertRowType ==
  ASSUME TypeOK, NEW c \in Calls, NEW u \in Users \cup {NoUser}, InsertRow(c, u, late)
  PROVE  row' \in [Calls -> Rows]
<1> DEFINE inserted == {d \in Calls : row[d].state # "none"}
<1>1. Cardinality(inserted) \in Nat
  BY FS_Subset, FS_CardinalityType
<1>2. QED
  BY <1>1 DEF TypeOK, InsertRow, Rows, RowStates

(* ... Answer, ...                                                          *)
LEMMA AnswerRowType ==
  ASSUME TypeOK, NEW c \in Calls, NEW u \in Users, AnswerRow(c, u)
  PROVE  row' \in [Calls -> Rows]
<1>1. row[c] \in Rows
  BY DEF TypeOK
<1>2. [[row[c] EXCEPT !.state = "bridged"] EXCEPT !.user = u] \in Rows
  BY <1>1 DEF Rows, RowStates
<1>3. QED
  BY <1>1, <1>2 DEF TypeOK, AnswerRow

(* ... Transition, ...                                                      *)
LEMMA TransitionRowType ==
  ASSUME TypeOK, NEW c \in Calls, TransitionRow(c)
  PROVE  row' \in [Calls -> Rows]
<1>1. row[c] \in Rows
  BY DEF TypeOK
<1>2. [row[c] EXCEPT !.state = "bridged"] \in Rows
  BY <1>1 DEF Rows, RowStates
<1>3. QED
  BY <1>1, <1>2 DEF TypeOK, TransitionRow

(* ... and EndAll.                                                          *)
LEMMA EndAllRowsType ==
  ASSUME TypeOK, EndAllRows
  PROVE  row' \in [Calls -> Rows]
<1>1. \A c \in Calls : row[c] \in Rows
  BY DEF TypeOK
<1>2. \A c \in Calls : [row[c] EXCEPT !.state = "ended"] \in Rows
  BY <1>1 DEF Rows, RowStates
<1>3. QED
  BY <1>1, <1>2 DEF EndAllRows

(* Every step keeps the types.                                              *)
LEMMA TypeStep ==
  ASSUME TypeOK, Roles, [Next]_vars
  PROVE  TypeOK'
<1> USE DEF matrix, media, waiters, memory, clock, ends, process
<1>1. ASSUME NEW c \in Calls, LookUp(c) PROVE TypeOK'
  <2>1. leg' \in [Calls -> LegStates] /\ pc' \in [Calls -> OwnerStates]
    BY <1>1 DEF TypeOK, LookUp, Goto, Reject, RequestRejects, HangupCuts, OwnerStates, LegStates
  <2> DEFINE Typed == /\ row' \in [Calls -> Rows]
                      /\ td' \in [Calls -> {"none", "signal", "media", "member", "done"}]
                      /\ verdict' \in [Calls -> Outcomes] /\ records' \in [Calls -> Nat]
  <2>2. Typed
    <3>1. CASE UNCHANGED <<row, ends>>
      BY <3>1 DEF TypeOK
    <3>2. ASSUME NEW d \in Calls, TryEnd(d, "quiet", row[d].state) PROVE Typed
      BY <3>2, TryEndType
    <3> HIDE DEF Typed
    <3>3. QED
      BY <1>1, <3>1, <3>2 DEF LookUp, TryEnd, Newest, ActiveIn, Active
  <2>3. QED
    BY <1>1, <2>1, <2>2 DEF TypeOK, LookUp
<1>2. ASSUME NEW c \in Calls, Insert(c) PROVE TypeOK'
  BY <1>2, InsertRowType DEF TypeOK, Insert, Goto, Reject, RequestRejects, HangupCuts,
     OwnerStates, LegStates
<1>3. ASSUME NEW c \in Calls, PublishMembership(c) PROVE TypeOK'
  BY <1>3 DEF TypeOK, PublishMembership, Goto, RequestFails, HangupCuts, OwnerStates, LegStates
<1>4. ASSUME NEW c \in Calls, SendNotification(c) PROVE TypeOK'
  BY <1>4 DEF TypeOK, SendNotification, Goto, AfterRinging, RequestFails, HangupCuts, OwnerStates,
     LegStates
<1>5. ASSUME NEW c \in Calls, RememberNotification(c) PROVE TypeOK'
  BY <1>5 DEF TypeOK, RememberNotification, Goto, AfterRinging, OwnerStates
<1>6. ASSUME NEW c \in Calls, AnswerInbound(c) PROVE TypeOK'
  <2>1. row' \in [Calls -> Rows]
    BY <1>6, AnswerRowType DEF TypeOK, AnswerInbound
  <2>2. QED
    BY <1>6, <2>1 DEF TypeOK, AnswerInbound, Goto, OwnerStates
<1>7. ASSUME NEW c \in Calls, RereadRefused(c) PROVE TypeOK'
  <2>1. c \in Inbound
    BY <1>7 DEF RereadRefused, Roles, InboundOnly, Outbound
  <2>2. QED
    BY <1>7, <2>1 DEF TypeOK, RereadRefused, Goto, Return, Forget, Release, OwnerStates, LegStates
<1>8. ASSUME NEW c \in Calls, HearEnded(c) PROVE TypeOK'
  BY <1>8 DEF TypeOK, HearEnded, Goto, Return, Forget, Reject, OwnerStates, LegStates
<1>9. ASSUME NEW c \in Calls, HearDecline(c) PROVE TypeOK'
  BY <1>9 DEF TypeOK, HearDecline, Goto, Reject, OwnerStates, LegStates
<1>10. ASSUME NEW c \in Calls, HearHangup(c) PROVE TypeOK'
  BY <1>10 DEF TypeOK, HearHangup, Goto, OwnerStates
<1>11. ASSUME NEW c \in Calls, RingTimeout(c) PROVE TypeOK'
  BY <1>11 DEF TypeOK, RingTimeout, Goto, Reject, OwnerStates, LegStates
<1>12. ASSUME NEW c \in Calls, HearShutdown(c) PROVE TypeOK'
  BY <1>12 DEF TypeOK, HearShutdown, Goto, Reject, OwnerStates, LegStates
<1>13. ASSUME NEW c \in Calls, AnswerLeg(c) PROVE TypeOK'
  BY <1>13 DEF TypeOK, AnswerLeg, Goto, Reject, OwnerStates, LegStates
<1>14. ASSUME NEW c \in Calls, LeaveHeld(c) PROVE TypeOK'
  BY <1>14 DEF TypeOK, LeaveHeld, Goto, Return, Forget, Release, OwnerStates, LegStates
<1>15. ASSUME NEW c \in Calls, SendInvite(c) PROVE TypeOK'
  BY <1>15 DEF TypeOK, SendInvite, Goto, OwnerStates, LegStates
<1>16. ASSUME NEW c \in Calls, InviteAnswered(c) PROVE TypeOK'
  <2>1. c \in Outbound
    BY <1>16 DEF InviteAnswered, Roles, OutboundOnly, Outbound
  <2>2. QED
    BY <1>16, <2>1 DEF TypeOK, InviteAnswered, Goto, OwnerStates, LegStates
<1>17. ASSUME NEW c \in Calls, InviteRefused(c) PROVE TypeOK'
  BY <1>17 DEF TypeOK, InviteRefused, Goto, OwnerStates, LegStates
<1>18. ASSUME NEW c \in Calls, Transition(c) PROVE TypeOK'
  <2>1. row' \in [Calls -> Rows]
    BY <1>18, TransitionRowType DEF TypeOK, Transition
  <2>2. QED
    BY <1>18, <2>1 DEF TypeOK, Transition, Goto, TakeLeg, OwnerStates, LegStates
<1>19. ASSUME NEW c \in Calls, CreateParticipant(c) PROVE TypeOK'
  BY <1>19 DEF TypeOK, CreateParticipant, Goto, MediaFails, HangupCuts, Reject, OwnerStates, LegStates
<1>20. ASSUME NEW c \in Calls, MarkSeen(c) PROVE TypeOK'
  BY <1>20 DEF TypeOK, MarkSeen, Goto, MediaFails, HangupCuts, Reject, OwnerStates, LegStates
<1>21. ASSUME NEW c \in Calls, Republish(c) PROVE TypeOK'
  BY <1>21 DEF TypeOK, Republish, Goto, RequestFails, HangupCuts, OwnerStates, LegStates
<1>22. ASSUME NEW c \in Calls, OwnerEnds(c) PROVE TypeOK'
  BY <1>22, TryEndType DEF TypeOK, OwnerEnds, Return, Goto, Forget, Reject, Release, OwnerStates,
     LegStates
<1>23. ASSUME NEW c \in Calls, SignalEnd(c) PROVE TypeOK'
  BY <1>23 DEF TypeOK, SignalEnd, HasEndedChannel, HasWaiters, Outcomes
<1>24. ASSUME NEW c \in Calls, RemoveMedia(c) PROVE TypeOK'
  BY <1>24 DEF TypeOK, RemoveMedia, TakeLeg, LegStates
<1>25. ASSUME NEW c \in Calls, RetractMembership(c) PROVE TypeOK'
  BY <1>25 DEF TypeOK, RetractMembership
<1>26. ASSUME NEW c \in Calls, WatchStale(c) PROVE TypeOK'
  BY <1>26, TryEndType DEF TypeOK, WatchStale
<1>27. ASSUME NEW c \in Calls, WatchParticipant(c) PROVE TypeOK'
  BY <1>27 DEF TypeOK, WatchParticipant
<1>28. ASSUME NEW c \in Calls, WatchFails(c) PROVE TypeOK'
  BY <1>28 DEF TypeOK, WatchFails
<1>29. ASSUME NEW c \in Calls, WatchAbsent(c) PROVE TypeOK'
  BY <1>29, TryEndType DEF TypeOK, WatchAbsent
<1>30. ASSUME NEW c \in Calls, HandleInboundCall(c) PROVE TypeOK'
  BY <1>30 DEF TypeOK, HandleInboundCall, Goto, OwnerStates, LegStates
<1>31. ASSUME NEW c \in Calls, StartDial(c) PROVE TypeOK'
  BY <1>31 DEF TypeOK, StartDial, Goto, OwnerStates
<1>32. ASSUME NEW c \in Calls, LegEnds(c) PROVE TypeOK'
  BY <1>32 DEF TypeOK, LegEnds, LegStates
<1>33. ASSUME NEW c \in Calls, ParticipantLeaves(c) PROVE TypeOK'
  BY <1>33 DEF TypeOK, ParticipantLeaves
<1>34. ASSUME NEW c \in Calls, RowGrowsLate(c) PROVE TypeOK'
  BY <1>34 DEF TypeOK, RowGrowsLate
<1>35. ASSUME NEW c \in Calls, RowExpires(c) PROVE TypeOK'
  BY <1>35 DEF TypeOK, RowExpires
<1>36. ASSUME NEW c \in Calls, SweepStale(c) PROVE TypeOK'
  BY <1>36 DEF TypeOK, SweepStale
<1>37. ASSUME NEW u \in Users, NEW room, UserJoins(u, room) PROVE TypeOK'
  BY <1>37, TryEndType DEF TypeOK, UserJoins, Newest, ActiveIn, Active
<1>38. ASSUME NEW u \in Users, NEW room, UserLeaves(u, room) PROVE TypeOK'
  <2>1. row \in [Calls -> Rows] /\ \A c \in Active : row[c].state \in {"ringing", "bridged"}
    BY DEF TypeOK, Active
  <2>2. QED
    BY <1>38, <2>1, TryEndType DEF TypeOK, UserLeaves, Newest, ActiveIn, Active, PendingEnds, Ends
<1>39. ASSUME NEW u \in Users, NEW c \in Calls, Decline(u, c) PROVE TypeOK'
  BY <1>39 DEF TypeOK, Decline, HasWaiters, PendingEnds, Ends
<1>40. ASSUME NEW p \in pend, HandlerEnds(p) PROVE TypeOK'
  <2>1. p.call \in Calls
    BY DEF TypeOK, PendingEnds
  <2>2. QED
    BY <1>40, <2>1, TryEndType DEF TypeOK, HandlerEnds
<1>41. CASE WatchList
  <2>1. \A c \in Active : row[c].state \in {"ringing", "bridged"}
    BY DEF Active
  <2>2. QED
    BY <1>41, <2>1 DEF TypeOK, WatchList
<1>42. CASE Stop
  BY <1>42 DEF TypeOK, Stop
<1>43. CASE Crash
  BY <1>43 DEF TypeOK, Crash, OwnerStates, LegStates
<1>44. CASE Start
  BY <1>44, EndAllRowsType DEF TypeOK, Start, Active
<1>45. CASE Started
  BY <1>45 DEF TypeOK, Started
<1>46. CASE UNCHANGED vars
  BY <1>46 DEF TypeOK, vars
<1>47. QED
  BY <1>1, <1>2, <1>3, <1>4, <1>5, <1>6, <1>7, <1>8, <1>9, <1>10, <1>11, <1>12, <1>13, <1>14, <1>15,
     <1>16, <1>17, <1>18, <1>19, <1>20, <1>21, <1>22, <1>23, <1>24, <1>25, <1>26, <1>27, <1>28, <1>29,
     <1>30, <1>31, <1>32, <1>33, <1>34, <1>35, <1>36, <1>37, <1>38, <1>39, <1>40, <1>41, <1>42, <1>43,
     <1>44, <1>45, <1>46
     DEF Next, Owner, SetUp, InboundOwner, OutboundOwner, Claimed, Teardown, Watch,
         Handlers, Environment, Process, CallsAssumption, CallTableAssumption

------------------------------------------------------------------------------
(* Which statements a step can run on the call table, and by whom           *)

InsertsRow == \E c \in Calls : \E u \in Users \cup {NoUser} :
  /\ pc[c] = "insert"
  /\ u = NoUser <=> c \in Inbound
  /\ InsertRow(c, u, late)
  /\ UNCHANGED td /\ pc' \in {[pc EXCEPT ![c] = "publish"], [pc EXCEPT ![c] = "done"]}

AnswersRow == \E c \in Calls :
  /\ pc[c] = "wait" /\ joined[c] # NoUser
  /\ AnswerRow(c, joined[c])
  /\ UNCHANGED td
  /\ \/ pc' = [pc EXCEPT ![c] = IF AnswerWins(c) THEN "bridge" ELSE "reread"]
     \/ MayFail("db") /\ pc' = [pc EXCEPT ![c] = "endFailed"]

TransitionsRow == \E c \in Calls :
  /\ pc[c] = "transition"
  /\ TransitionRow(c)
  /\ UNCHANGED td
  /\ \/ pc' = [pc EXCEPT ![c] = IF TransitionWins(c) THEN "bridge" ELSE "done"]
     \/ MayFail("db") /\ pc' = [pc EXCEPT ![c] = "endFailed"]

EndsRow == \E c \in Calls : EndRow(c)

(* A step leaves the table alone or runs one of its five statements.        *)
LEMMA RowStep ==
  ASSUME TypeOK, [Next]_vars
  PROVE  \/ UNCHANGED row
         \/ InsertsRow \/ AnswersRow \/ TransitionsRow \/ EndsRow
         \/ EndAllRows
<1> USE DEF matrix, media, waiters, memory, clock, ends, process, EndCall, EndUntold, TryEnd
<1>1. ASSUME NEW c \in Calls, SetUp(c) PROVE UNCHANGED row \/ InsertsRow \/ EndsRow
  <2>1. ASSUME LookUp(c) PROVE UNCHANGED row \/ EndsRow
    BY <2>1 DEF LookUp, EndsRow, Newest, ActiveIn, Active
  <2>2. ASSUME Insert(c) PROVE UNCHANGED row \/ InsertsRow
    BY <2>2 DEF Insert, InsertsRow, Goto
  <2>3. QED
    BY <1>1, <2>1, <2>2 DEF SetUp, PublishMembership, SendNotification, RememberNotification
<1>2. ASSUME NEW c \in Calls, InboundOwner(c) PROVE UNCHANGED row \/ AnswersRow
  <2>1. ASSUME AnswerInbound(c) PROVE UNCHANGED row \/ AnswersRow
    BY <2>1 DEF AnswerInbound, AnswersRow, Goto
  <2>2. QED
    BY <1>2, <2>1 DEF InboundOwner, RereadRefused, HearEnded, HearDecline, HearHangup,
                       RingTimeout, HearShutdown, AnswerLeg, LeaveHeld
<1>3. ASSUME NEW c \in Calls, OutboundOwner(c) PROVE UNCHANGED row \/ TransitionsRow
  BY <1>3 DEF OutboundOwner, SendInvite, Transition, TransitionsRow, Goto
<1>4. ASSUME NEW c \in Calls, Claimed(c) PROVE UNCHANGED row \/ EndsRow
  BY <1>4 DEF Claimed, CreateParticipant, MarkSeen, Republish, OwnerEnds, EndsRow
<1>5. ASSUME NEW c \in Calls, Teardown(c) PROVE UNCHANGED row
  BY <1>5 DEF Teardown, SignalEnd, RemoveMedia, RetractMembership
<1>6. ASSUME NEW c \in Calls, Watch(c) PROVE UNCHANGED row \/ EndsRow
  BY <1>6 DEF Watch, WatchStale, WatchParticipant, WatchFails, WatchAbsent, EndsRow
<1>7. ASSUME NEW c \in Calls, Environment(c) PROVE UNCHANGED row
  BY <1>7 DEF Environment, HandleInboundCall, StartDial, InviteAnswered, InviteRefused,
              LegEnds, ParticipantLeaves, RowGrowsLate, RowExpires
<1>8. CASE Handlers
  <2>1. ASSUME NEW u, NEW room, UserJoins(u, room) PROVE UNCHANGED row \/ EndsRow
    BY <2>1 DEF UserJoins, EndsRow, Newest, ActiveIn, Active
  <2>2. ASSUME NEW u, NEW room, UserLeaves(u, room) PROVE UNCHANGED row \/ EndsRow
    BY <2>2 DEF UserLeaves, EndsRow, Newest, ActiveIn, Active
  <2>3. ASSUME NEW p \in pend, HandlerEnds(p) PROVE UNCHANGED row \/ EndsRow
    BY <2>3 DEF HandlerEnds, EndsRow, TypeOK, PendingEnds
  <2>4. QED
    BY <1>8, <2>1, <2>2, <2>3 DEF Handlers, Decline
<1>9. CASE WatchList \/ Process
  BY <1>9 DEF WatchList, Process, Stop, Crash, Start, Started, SweepStale
<1>10. CASE UNCHANGED vars
  BY <1>10 DEF vars
<1>11. QED
  BY <1>1, <1>2, <1>3, <1>4, <1>5, <1>6, <1>7, <1>8, <1>9, <1>10 DEF Next, Owner

------------------------------------------------------------------------------
(* Where an owner goes *)

(* The owners of the two directions keep to their labels.                   *)
LEMMA RolesStep ==
  ASSUME TypeOK, Roles, [Next]_vars
  PROVE  Roles'
<1> USE DEF Roles, InboundOnly, OutboundOnly, Outbound, Goto, Return, waiters, matrix, ends, memory
<1>0. pc \in [Calls -> OwnerStates]
  BY DEF TypeOK
<1>1. ASSUME NEW c \in Calls, SetUp(c) PROVE Roles'
  <2>1. ASSUME PublishMembership(c) PROVE Roles'
    BY <1>0, <2>1 DEF PublishMembership, Rings
  <2>2. ASSUME SendNotification(c) \/ RememberNotification(c) PROVE Roles'
    BY <1>0, <2>2 DEF SendNotification, RememberNotification, AfterRinging
  <2>3. QED
    BY <1>0, <1>1, <2>1, <2>2 DEF SetUp, LookUp, Insert
<1>2. ASSUME NEW c \in Calls, InboundOwner(c) PROVE Roles'
  BY <1>0, <1>2 DEF InboundOwner, AnswerInbound, RereadRefused, HearEnded, HearDecline,
     HearHangup, RingTimeout, HearShutdown, AnswerLeg, LeaveHeld
<1>3. ASSUME NEW c \in Calls, OutboundOwner(c) PROVE Roles'
  BY <1>0, <1>3 DEF OutboundOwner, SendInvite, Transition
<1>4. ASSUME NEW c \in Calls, Claimed(c) PROVE Roles'
  BY <1>0, <1>4 DEF Claimed, CreateParticipant, MarkSeen, Republish, OwnerEnds, MediaFails,
     Cancelled, HangupCuts
<1>5. ASSUME NEW c \in Calls, Environment(c) PROVE Roles'
  BY <1>0, <1>5 DEF Environment, HandleInboundCall, StartDial, InviteAnswered, InviteRefused,
     LegEnds, ParticipantLeaves, RowGrowsLate, RowExpires
<1>6. CASE Process
  BY <1>0, <1>6 DEF Process, Stop, Crash, Start, Started, SweepStale
<1>7. ASSUME NEW c \in Calls, Teardown(c) \/ Watch(c) PROVE Roles'
  BY <1>7 DEF Teardown, SignalEnd, RemoveMedia, RetractMembership,
     Watch, WatchStale, WatchParticipant, WatchFails, WatchAbsent
<1>8. CASE Handlers
  BY <1>8 DEF Handlers, UserJoins, UserLeaves, Decline, HandlerEnds
<1>9. CASE WatchList \/ UNCHANGED vars
  BY <1>9 DEF WatchList, vars
<1>10. QED
  BY <1>1, <1>2, <1>3, <1>4, <1>5, <1>6, <1>7, <1>8, <1>9 DEF Next, Owner

(* No label is gone back to: an owner reaches the claimed ones by a claim, and *)
(* leaves the early ones by inserting its row.                              *)
OwnerMove(d) ==
  /\ pc'[d] \in Early => pc[d] \in Early
  /\ pc'[d] \notin Early \cup {"done"} =>
       \/ pc[d] \notin Early \cup {"done"}
       \/ row'[d].state # "none"
  /\ pc'[d] \in ClaimedLabels =>
       pc[d] \in ClaimedLabels \cup {"transition"} \/ row'[d].user # NoUser

(* Every step of an owner is such a move.                                   *)
LEMMA OwnerMoves ==
  ASSUME TypeOK, [Next]_vars
  PROVE  \A d \in Calls : OwnerMove(d)
<1> DEFINE Moves == \A d \in Calls : OwnerMove(d)
<1> USE DEF OwnerMove
<1> USE DEF Early, ClaimedLabels, Goto, Return, waiters, matrix, ends, memory
<1>0. pc \in [Calls -> OwnerStates] /\ row \in [Calls -> Rows]
  BY DEF TypeOK
<1>1. ASSUME NEW c \in Calls, SetUp(c) PROVE Moves
  <2>1. ASSUME Insert(c) PROVE Moves
    <3>1. pc[c] = "insert" /\ \A d \in Calls \ {c} : pc'[d] = pc[d]
      BY <1>0, <2>1 DEF Insert
    <3>2. pc'[c] \in {"publish", "done"}
      BY <1>0, <2>1 DEF Insert
    <3>3. ASSUME pc'[c] = "publish" PROVE row'[c].state = "ringing"
      <4>1. PICK u : InsertRow(c, u, late)
        BY <1>0, <2>1, <3>3 DEF Insert
      <4>2. QED
        BY <1>0, <4>1 DEF InsertRow
    <3>4. QED
      BY <3>1, <3>2, <3>3
  <2>2. QED
    BY <1>0, <1>1, <2>1 DEF SetUp, LookUp, PublishMembership, SendNotification,
       RememberNotification, AfterRinging
<1>2. ASSUME NEW c \in Calls, InboundOwner(c) PROVE Moves
  <2>1. ASSUME AnswerInbound(c) PROVE Moves
    <3>1. pc[c] = "wait" /\ joined[c] # NoUser /\ \A d \in Calls \ {c} : pc'[d] = pc[d]
      BY <1>0, <2>1 DEF AnswerInbound
    <3>2. pc'[c] \in {"bridge", "reread", "endFailed"}
      BY <1>0, <2>1 DEF AnswerInbound
    <3>3. pc'[c] = "bridge" => row'[c].user = joined[c]
      BY <1>0, <2>1 DEF AnswerInbound, AnswerRow, AnswerWins, Rows
    <3>4. QED
      BY <3>1, <3>2, <3>3
  <2>2. QED
    BY <1>0, <1>2, <2>1 DEF InboundOwner, RereadRefused, HearEnded, HearDecline,
       HearHangup, RingTimeout, HearShutdown, AnswerLeg, LeaveHeld
<1>3. ASSUME NEW c \in Calls, OutboundOwner(c) PROVE Moves
  BY <1>0, <1>3 DEF OutboundOwner, SendInvite, Transition
<1>4. ASSUME NEW c \in Calls, Claimed(c) PROVE Moves
  BY <1>0, <1>4 DEF Claimed, CreateParticipant, MarkSeen, Republish, OwnerEnds, MediaFails
<1>5. ASSUME NEW c \in Calls, Environment(c) PROVE Moves
  BY <1>0, <1>5 DEF Environment, HandleInboundCall, StartDial, InviteAnswered, InviteRefused,
     LegEnds, ParticipantLeaves, RowGrowsLate, RowExpires
<1>6. CASE Process
  BY <1>0, <1>6 DEF Process, Stop, Crash, Start, Started, SweepStale
<1>7. ASSUME NEW c \in Calls, Teardown(c) \/ Watch(c) PROVE Moves
  BY <1>7 DEF Teardown, SignalEnd, RemoveMedia, RetractMembership,
     Watch, WatchStale, WatchParticipant, WatchFails, WatchAbsent
<1>8. CASE Handlers
  BY <1>8 DEF Handlers, UserJoins, UserLeaves, Decline, HandlerEnds
<1>9. CASE WatchList \/ UNCHANGED vars
  BY <1>9 DEF WatchList, vars
<1>10. QED
  BY <1>1, <1>2, <1>3, <1>4, <1>5, <1>6, <1>7, <1>8, <1>9 DEF Next, Owner

------------------------------------------------------------------------------
(* How a row moves *)

(* A row appears ringing, stays, ends for good, and keeps its user.         *)
RowMove(d) ==
  /\ row[d].state = "none" /\ row'[d].state # "none" =>
       /\ pc'[d] \in {"publish", "done"}
       /\ row'[d].state = "ringing"
       /\ d \in Outbound => row'[d].user # NoUser
  /\ row[d].state # "none" => row'[d].state # "none"
  /\ row[d].state = "ended" => row'[d].state = "ended"
  /\ row'[d].state = "none" => row'[d].user = row[d].user
  /\ row[d].user # NoUser => row'[d].user # NoUser

(* Every step of the bridge is such a move of every row.                    *)
LEMMA RowMoves ==
  ASSUME TypeOK, Roles, RowFollowsOwner, [Next]_vars
  PROVE  \A d \in Calls : RowMove(d)
<1> DEFINE Moves == \A d \in Calls : RowMove(d)
<1> USE DEF RowMove
<1>0. pc \in [Calls -> OwnerStates] /\ row \in [Calls -> Rows]
  BY DEF TypeOK
<1>1. CASE UNCHANGED row
  BY <1>1
<1>2. CASE InsertsRow
  BY <1>0, <1>2 DEF InsertsRow, InsertRow, RowFollowsOwner, Early, Outbound
<1>3. CASE AnswersRow
  BY <1>0, <1>3 DEF AnswersRow, AnswerRow, AnswerWins, Rows
<1>4. CASE TransitionsRow
  BY <1>0, <1>4 DEF TransitionsRow, TransitionRow, TransitionWins, Rows
<1>5. CASE EndsRow
  BY <1>0, <1>5 DEF EndsRow, EndRow, EndWins, Rows
<1>6. CASE EndAllRows
  BY <1>0, <1>6 DEF EndAllRows, Active, Rows
<1>7. QED
  BY <1>1, <1>2, <1>3, <1>4, <1>5, <1>6, RowStep

(* The row of a call keeps up with its owner.                               *)
LEMMA RowFollowsOwnerStep ==
  ASSUME TypeOK, Roles, RowFollowsOwner, [Next]_vars
  PROVE  RowFollowsOwner'
<1>1. pc \in [Calls -> OwnerStates] /\ pc' \in [Calls -> OwnerStates]
  BY TypeStep DEF TypeOK
<1>2. QED
  BY <1>1, RowMoves, OwnerMoves DEF RowMove, OwnerMove, RowFollowsOwner, Early

(* Past its claim an owner knows whom the call is for.                      *)
LEMMA ClaimantKnownStep ==
  ASSUME TypeOK, Roles, RowFollowsOwner, ClaimantKnown, [Next]_vars
  PROVE  ClaimantKnown'
<1>1. \A d \in Calls : pc[d] = "transition" => row[d].user # NoUser
  BY DEF Roles, RowFollowsOwner, Outbound, OutboundOnly, Early
<1>2. QED
  BY <1>1, RowMoves, OwnerMoves DEF RowMove, OwnerMove, ClaimantKnown

------------------------------------------------------------------------------
(* Teardown and record *)

(* The winner of an End finds a call nobody has torn down or recorded.      *)
LEMMA EndIsTornDownOnce ==
  ASSUME TypeOK, TeardownFollowsEnd, RecordedOnce,
         NEW c \in Calls, NEW kind, NEW state, TryEnd(c, kind, state)
  PROVE  TeardownFollowsEnd' /\ RecordedOnce'
<1>0. /\ row \in [Calls -> Rows]
      /\ td \in [Calls -> {"none", "signal", "media", "member", "done"}]
      /\ verdict \in [Calls -> Outcomes] /\ records \in [Calls -> Nat]
  BY DEF TypeOK
<1>1. CASE UNCHANGED <<row, ends>>
  BY <1>1 DEF ends, TeardownFollowsEnd, RecordedOnce
<1>2. CASE EndCall(c, kind, state)
  <2>1. \A d \in Calls : row'[d].state = IF d = c /\ EndWins(c) THEN "ended" ELSE row[d].state
    BY <1>0, <1>2 DEF EndCall, EndRow, Rows
  <2>2. CASE EndWins(c)
    <3>1. td[c] = "none" /\ records[c] = 0
      BY <2>2 DEF EndWins, TeardownFollowsEnd, RecordedOnce
    <3>2. td' = [td EXCEPT ![c] = "signal"] /\ records' = records
      BY <1>2, <2>2 DEF EndCall
    <3>3. \A d \in Calls \ {c} : verdict'[d] = verdict[d]
      BY <1>0, <1>2, <2>2 DEF EndCall
    <3>4. QED
      BY <1>0, <2>1, <2>2, <3>1, <3>2, <3>3 DEF TeardownFollowsEnd, RecordedOnce
  <2>3. CASE ~EndWins(c)
    BY <1>0, <1>2, <2>1, <2>3 DEF EndCall, TeardownFollowsEnd, RecordedOnce
  <2>4. QED
    BY <2>2, <2>3
<1>3. CASE EndUntold(c)
  <2>1. \A d \in Calls : row[d].state = "ended" => row'[d].state = "ended"
    BY <1>0, <1>3 DEF EndUntold, EndRow, Rows
  <2>2. QED
    BY <1>3, <2>1 DEF EndUntold, ends, TeardownFollowsEnd, RecordedOnce
<1>4. QED
  BY <1>1, <1>2, <1>3 DEF TryEnd

(* A call is torn down after it ended, and recorded at the end of that.     *)
LEMMA TeardownStep ==
  ASSUME TypeOK, Roles, RowFollowsOwner, TeardownFollowsEnd, RecordedOnce, [Next]_vars
  PROVE  TeardownFollowsEnd' /\ RecordedOnce'
<1> DEFINE Goal == TeardownFollowsEnd' /\ RecordedOnce'
<1> USE DEF matrix, media, waiters, memory, clock, process
<1>0. /\ row \in [Calls -> Rows]
      /\ td \in [Calls -> {"none", "signal", "media", "member", "done"}]
      /\ verdict \in [Calls -> Outcomes] /\ records \in [Calls -> Nat]
  BY DEF TypeOK
<1>1. ASSUME UNCHANGED ends PROVE Goal
  BY <1>1, RowMoves DEF RowMove, ends, TeardownFollowsEnd, RecordedOnce
<1>2. ASSUME NEW c \in Calls, LookUp(c) PROVE Goal
  BY <1>1, <1>2, EndIsTornDownOnce DEF LookUp, TryEnd, Newest, ActiveIn, Active
<1>3. ASSUME NEW c \in Calls, OwnerEnds(c) PROVE Goal
  BY <1>3, EndIsTornDownOnce DEF OwnerEnds
<1>4. ASSUME NEW c \in Calls, SignalEnd(c) PROVE Goal
  BY <1>0, <1>4 DEF SignalEnd, TeardownFollowsEnd, RecordedOnce
<1>5. ASSUME NEW c \in Calls, RemoveMedia(c) PROVE Goal
  BY <1>0, <1>5 DEF RemoveMedia, TeardownFollowsEnd, RecordedOnce
<1>6. ASSUME NEW c \in Calls, RetractMembership(c) PROVE Goal
  BY <1>0, <1>6 DEF RetractMembership, TeardownFollowsEnd, RecordedOnce
<1>7. ASSUME NEW c \in Calls, Watch(c) PROVE Goal
  BY <1>1, <1>7, EndIsTornDownOnce DEF Watch, WatchStale, WatchParticipant, WatchFails,
     WatchAbsent, TryEnd, ends
<1>8. CASE Handlers
  <2>1. ASSUME NEW u, NEW room, UserJoins(u, room) PROVE Goal
    BY <1>1, <2>1, EndIsTornDownOnce DEF UserJoins, TryEnd, Newest, ActiveIn, Active
  <2>2. ASSUME NEW u, NEW room, UserLeaves(u, room) PROVE Goal
    BY <1>1, <2>2, EndIsTornDownOnce DEF UserLeaves, TryEnd, Newest, ActiveIn, Active
  <2>3. ASSUME NEW p \in pend, HandlerEnds(p) PROVE Goal
    BY <2>3, EndIsTornDownOnce DEF HandlerEnds, TypeOK, PendingEnds
  <2>4. QED
    BY <1>1, <1>8, <2>1, <2>2, <2>3 DEF Handlers, Decline
<1>9. CASE Crash
  BY <1>0, <1>9 DEF Crash, TeardownFollowsEnd, RecordedOnce
<1>10. ASSUME NEW c \in Calls, Environment(c) PROVE Goal
  BY <1>1, <1>10 DEF Environment, HandleInboundCall, StartDial, InviteAnswered, InviteRefused,
     LegEnds, ParticipantLeaves, RowGrowsLate, RowExpires
<1>11. ASSUME NEW c \in Calls, InboundOwner(c) \/ OutboundOwner(c) PROVE Goal
  BY <1>1, <1>11 DEF InboundOwner, AnswerInbound, RereadRefused, HearEnded, HearDecline,
     HearHangup, RingTimeout, HearShutdown, AnswerLeg, LeaveHeld,
     OutboundOwner, SendInvite, Transition
<1>12. CASE Process \/ WatchList \/ UNCHANGED vars
  BY <1>1, <1>9, <1>12 DEF Process, Stop, Start, Started, SweepStale, WatchList, vars
<1>13. ASSUME NEW c \in Calls, SetUp(c) \/ Claimed(c) PROVE Goal
  BY <1>1, <1>2, <1>3, <1>13 DEF SetUp, Insert, PublishMembership, SendNotification,
     RememberNotification, Claimed, CreateParticipant, MarkSeen, Republish
<1>14. QED
  BY <1>4, <1>5, <1>6, <1>7, <1>8, <1>10, <1>11, <1>12, <1>13 DEF Next, Owner, Teardown

------------------------------------------------------------------------------
(* The claim, and what it is for *)

(* No step bridges a second inbound leg of a conference.                    *)
LEMMA ClaimStep ==
  ASSUME TypeOK, Roles, OneInboundBridged, [Next]_vars
  PROVE  OneInboundBridged'
<1>0. row \in [Calls -> Rows]
  BY DEF TypeOK
<1>1. CASE UNCHANGED row
  BY <1>1 DEF OneInboundBridged
<1>2. CASE InsertsRow
  BY <1>0, <1>2 DEF InsertsRow, InsertRow, OneInboundBridged
<1>3. CASE AnswersRow
  <2>1. PICK c \in Calls : AnswerRow(c, joined[c])
    BY <1>3 DEF AnswersRow
  <2>2. \A d \in Calls : d # c => row'[d] = row[d]
    BY <1>0, <2>1 DEF AnswerRow
  <2>3. AnswerWins(c) \/ row' = row
    BY <2>1 DEF AnswerRow
  <2>4. QED
    BY <1>1, <2>2, <2>3 DEF AnswerWins, Peers, OneInboundBridged
<1>4. CASE TransitionsRow
  BY <1>0, <1>4 DEF TransitionsRow, TransitionRow, OneInboundBridged, Roles, OutboundOnly
<1>5. CASE EndsRow
  BY <1>0, <1>5 DEF EndsRow, EndRow, OneInboundBridged, Rows
<1>6. CASE EndAllRows
  BY <1>0, <1>6 DEF EndAllRows, OneInboundBridged, Rows
<1>7. QED
  BY <1>1, <1>2, <1>3, <1>4, <1>5, <1>6, RowStep

(* Media and the 200 come from a label of the owner.                        *)
MediaMove(d) ==
  /\ d \in part' => d \in part \/ pc[d] = "bridge"
  /\ Answered(d)' => Answered(d) \/ pc[d] = "answer"

(* livekit-sip is sent for, and a 200 goes out, only where a claim was won. *)
LEMMA MediaMoves ==
  ASSUME TypeOK, [Next]_vars
  PROVE  \A d \in Calls : MediaMove(d)
<1> DEFINE Moves == \A d \in Calls : MediaMove(d)
<1> USE DEF MediaMove
<1> USE DEF Answered, Reject, Release, TakeLeg, RequestFails, RequestRejects, HangupCuts,
            matrix, media, waiters, memory, clock, ends, process
<1>0. leg \in [Calls -> LegStates]
  BY DEF TypeOK
<1>1. ASSUME NEW c \in Calls, SetUp(c) PROVE Moves
  BY <1>0, <1>1 DEF SetUp, LookUp, Insert, PublishMembership, SendNotification,
     RememberNotification
<1>2. ASSUME NEW c \in Calls, InboundOwner(c) PROVE Moves
  BY <1>0, <1>2 DEF InboundOwner, AnswerInbound, RereadRefused, HearEnded, HearDecline,
     HearHangup, RingTimeout, HearShutdown, AnswerLeg, LeaveHeld
<1>3. ASSUME NEW c \in Calls, OutboundOwner(c) PROVE Moves
  BY <1>0, <1>3 DEF OutboundOwner, SendInvite, Transition
<1>4. ASSUME NEW c \in Calls, Claimed(c) PROVE Moves
  BY <1>0, <1>4 DEF Claimed, CreateParticipant, MarkSeen, Republish, OwnerEnds, MediaFails
<1>5. ASSUME NEW c \in Calls, Environment(c) PROVE Moves
  BY <1>0, <1>5 DEF Environment, HandleInboundCall, StartDial, InviteAnswered, InviteRefused,
     LegEnds, ParticipantLeaves, RowGrowsLate, RowExpires
<1>6. CASE Process
  BY <1>0, <1>6 DEF Process, Stop, Crash, Start, Started, SweepStale
<1>7. ASSUME NEW c \in Calls, Teardown(c) \/ Watch(c) PROVE Moves
  BY <1>0, <1>7 DEF Teardown, SignalEnd, RemoveMedia, RetractMembership,
     Watch, WatchStale, WatchParticipant, WatchFails, WatchAbsent
<1>8. CASE Handlers
  BY <1>8 DEF Handlers, UserJoins, UserLeaves, Decline, HandlerEnds
<1>9. CASE WatchList \/ UNCHANGED vars
  BY <1>9 DEF WatchList, vars
<1>10. QED
  BY <1>1, <1>2, <1>3, <1>4, <1>5, <1>6, <1>7, <1>8, <1>9 DEF Next, Owner

(* No step brings media or a 200 to a call without a user.                  *)
LEMMA MediaStep ==
  ASSUME TypeOK, Roles, RowFollowsOwner, ClaimantKnown, MediaOnlyForClaimant, [Next]_vars
  PROVE  MediaOnlyForClaimant'
BY MediaMoves, RowMoves DEF MediaMove, RowMove, MediaOnlyForClaimant, ClaimantKnown, ClaimedLabels

------------------------------------------------------------------------------
(* The invariants *)

(* The inductive invariant holds at the start, ...                          *)
LEMMA InitIInv == Init => IInv
<1> SUFFICES ASSUME Init PROVE IInv
  OBVIOUS
<1>1. TypeOK
  BY DEF Init, TypeOK, Rows, RowStates, NoRow, OwnerStates, LegStates, Outcomes
<1>2. Roles /\ RowFollowsOwner /\ TeardownFollowsEnd /\ ClaimantKnown
  BY DEF Init, Roles, RowFollowsOwner, TeardownFollowsEnd, ClaimantKnown, NoRow, Early,
         ClaimedLabels, InboundOnly, OutboundOnly
<1>3. OneInboundBridged /\ MediaOnlyForClaimant /\ RecordedOnce
  BY DEF Init, OneInboundBridged, MediaOnlyForClaimant, RecordedOnce, Answered, NoRow
<1>4. QED
  BY <1>1, <1>2, <1>3 DEF IInv

(* ... and every step keeps it.                                             *)
LEMMA StepIInv == IInv /\ [Next]_vars => IInv'
<1> SUFFICES ASSUME IInv, [Next]_vars PROVE IInv'
  OBVIOUS
<1>1. TypeOK' /\ Roles'
  BY TypeStep, RolesStep DEF IInv
<1>2. RowFollowsOwner' /\ ClaimantKnown'
  BY RowFollowsOwnerStep, ClaimantKnownStep DEF IInv
<1>3. TeardownFollowsEnd' /\ RecordedOnce'
  BY TeardownStep DEF IInv
<1>4. OneInboundBridged' /\ MediaOnlyForClaimant'
  BY ClaimStep, MediaStep DEF IInv
<1>5. QED
  BY <1>1, <1>2, <1>3, <1>4 DEF IInv

(* So it holds of every reachable state of the call subsystem.              *)
THEOREM Invariance == Spec => []IInv
BY InitIInv, StepIInv, PTL DEF Spec

(* Every variable of the call subsystem keeps its type.                     *)
THEOREM TypeCorrect == Spec => []TypeOK
<1>1. IInv => TypeOK
  BY DEF IInv
<1>2. QED
  BY <1>1, Invariance, PTL

(* Of the inbound legs of one phone call at most one is bridged, however    *)
(* many recipients it rings and however many of them join at once.          *)
THEOREM ConferenceClaimedOnce == Spec => []OneInboundBridged
<1>1. IInv => OneInboundBridged
  BY DEF IInv
<1>2. QED
  BY <1>1, Invariance, PTL

(* No media and no 200 for a call nobody is on.                             *)
THEOREM NothingBeforeAJoin == Spec => []MediaOnlyForClaimant
<1>1. IInv => MediaOnlyForClaimant
  BY DEF IInv
<1>2. QED
  BY <1>1, Invariance, PTL

(* A call is recorded exactly once when it has been torn down, and not      *)
(* before, however many goroutines decide to end it.                        *)
THEOREM OneRecordPerCall == Spec => []RecordedOnce
<1>1. IInv => RecordedOnce
  BY DEF IInv
<1>2. QED
  BY <1>1, Invariance, PTL

------------------------------------------------------------------------------
(* The refinement *)

(* The initial states of the table are initial states of its life cycle.    *)
LEMMA InitImplements == Init => Lifecycle!Init
BY DEF Init, Lifecycle!Init, NoRow

(* A statement on the table is a step of its life cycle or none.            *)
LEMMA StepImplements == IInv /\ [Next]_vars => [Lifecycle!Next]_(Lifecycle!vars)
<1> SUFFICES ASSUME IInv, [Next]_vars PROVE [Lifecycle!Next]_(Lifecycle!vars)
  OBVIOUS
<1> DEFINE phase == [c \in Calls |-> row[c].state]
<1> DEFINE who == [c \in Calls |-> row[c].user]
<1>0. TypeOK /\ row \in [Calls -> Rows]
  BY DEF IInv, TypeOK
<1>1. CASE UNCHANGED row
  BY <1>1 DEF Lifecycle!vars
<1>2. CASE InsertsRow
  <2>1. PICK c \in Calls, u \in Users \cup {NoUser} :
          pc[c] = "insert" /\ (u = NoUser <=> c \in Inbound) /\ InsertRow(c, u, late)
    BY <1>2 DEF InsertsRow
  <2>2. row[c].state = "none" /\ row[c].user = NoUser
    BY <2>1 DEF IInv, RowFollowsOwner, Early
  <2>3. phase' = [phase EXCEPT ![c] = "ringing"] /\ who' = [who EXCEPT ![c] = u]
    BY <1>0, <2>1 DEF InsertRow
  <2>4. c \in Inbound => who' = who
    <3>1. ASSUME c \in Inbound PROVE [who EXCEPT ![c] = NoUser] = who
      BY <2>2
    <3>2. QED
      BY <2>1, <2>3, <3>1
  <2>5. c \notin Inbound => u \in Users
    BY <2>1
  <2>6. Lifecycle!Ring(c)
    BY <2>2, <2>3, <2>4, <2>5 DEF Lifecycle!Ring
  <2>7. QED
    BY <2>6 DEF Lifecycle!Next
<1>3. CASE AnswersRow
  <2>1. PICK c \in Calls : pc[c] = "wait" /\ joined[c] # NoUser /\ AnswerRow(c, joined[c])
    BY <1>3 DEF AnswersRow
  <2>2. c \in Inbound /\ joined[c] \in Users
    BY <1>0, <2>1 DEF IInv, TypeOK, Roles, InboundOnly, Outbound
  <2>3. CASE AnswerWins(c)
    <3>1. row' = [row EXCEPT ![c].state = "bridged", ![c].user = joined[c]]
      BY <2>1, <2>3 DEF AnswerRow
    <3>2. phase' = [phase EXCEPT ![c] = "bridged"] /\ who' = [who EXCEPT ![c] = joined[c]]
      BY <1>0, <3>1 DEF Rows
    <3>3. Lifecycle!Take(c)
      BY <2>2, <2>3, <3>2 DEF Lifecycle!Take, AnswerWins, Peers
    <3>4. QED
      BY <3>3 DEF Lifecycle!Next
  <2>4. CASE ~AnswerWins(c)
    BY <1>1, <2>1, <2>4 DEF AnswerRow
  <2>5. QED
    BY <2>3, <2>4
<1>4. CASE TransitionsRow
  <2>1. PICK c \in Calls : pc[c] = "transition" /\ TransitionRow(c)
    BY <1>4 DEF TransitionsRow
  <2>2. c \notin Inbound
    BY <2>1 DEF IInv, Roles, OutboundOnly
  <2>3. CASE TransitionWins(c)
    <3>1. phase' = [phase EXCEPT ![c] = "bridged"] /\ who' = who
      BY <1>0, <2>1, <2>3 DEF TransitionRow, Rows
    <3>2. Lifecycle!Connect(c)
      BY <2>2, <2>3, <3>1 DEF Lifecycle!Connect, TransitionWins
    <3>3. QED
      BY <3>2 DEF Lifecycle!Next
  <2>4. CASE ~TransitionWins(c)
    BY <1>1, <2>1, <2>4 DEF TransitionRow
  <2>5. QED
    BY <2>3, <2>4
<1>5. CASE EndsRow
  <2>1. PICK c \in Calls : EndRow(c)
    BY <1>5 DEF EndsRow
  <2>2. CASE EndWins(c)
    <3>1. /\ phase' = [d \in Calls |-> IF d \in {c} THEN "ended" ELSE phase[d]]
          /\ who' = who
      BY <1>0, <2>1, <2>2 DEF EndRow, Rows
    <3>2. Lifecycle!Finish({c})
      BY <2>2, <3>1 DEF Lifecycle!Finish, EndWins
    <3>3. QED
      BY <3>2 DEF Lifecycle!Next
  <2>3. CASE ~EndWins(c)
    BY <1>1, <2>1, <2>3 DEF EndRow
  <2>4. QED
    BY <2>2, <2>3
<1>6. CASE EndAllRows
  <2>1. PICK S \in SUBSET Calls : S = Active
    BY DEF Active
  <2>2. /\ phase' = [d \in Calls |-> IF d \in S THEN "ended" ELSE phase[d]]
        /\ who' = who
    BY <1>0, <1>6, <2>1 DEF EndAllRows, Rows
  <2>3. Lifecycle!Finish(S)
    BY <2>1, <2>2 DEF Lifecycle!Finish, Active
  <2>4. QED
    BY <2>3 DEF Lifecycle!Next
<1>7. QED
  BY <1>0, <1>1, <1>2, <1>3, <1>4, <1>5, <1>6, RowStep

(* The call table, whichever goroutines run its statements and however they *)
(* are interleaved, keeps the life cycle its readers rely on.               *)
THEOREM Implementation == Spec => ImplementsLifecycle
BY InitImplements, StepImplements, Invariance, PTL DEF Spec, ImplementsLifecycle, Lifecycle!Spec
==============================================================================
