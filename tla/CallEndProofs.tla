---------------------------- MODULE CallEndProofs -----------------------------
(***************************************************************************)
(* Theorems about the end of a call, for any number of calls, users and    *)
(* conferences: what an answered leg is connected to, that nobody but a    *)
(* handler with an old copy of the row mislabels a call or ends that of    *)
(* somebody else, that the leg of an ended call is sent its BYE, where an  *)
(* end makes a late answer or a dangling leg, the windows of the set-up in *)
(* which an end does, and outside which it does not, leave something       *)
(* behind, and the one in which the watcher errs.                          *)
(***************************************************************************)
EXTENDS CallsProofs

USE CallTableAssumption, CallsAssumption

------------------------------------------------------------------------------
(* The connection of an answered leg *)

Connected == {"mark", "republish", "answer", "held"}

(* What has been listed for the sweep has been ended first.                 *)
SweptAreEnded == \A c \in sweep : Ended(c)

(* A leg is up, as far as its caller can tell, only while it is held.       *)
AnsweredIsHeld == \A c \in Calls : leg[c] = "answered" => pc[c] = "held"

(* Past bridgeMedia an owner has a participant, until its call is ended.    *)
OwnerIsConnected ==
  \A c \in Calls : pc[c] \in Connected /\ ~Ended(c) => c \in part

ConnectedInv == SweptAreEnded /\ AnsweredIsHeld /\ OwnerIsConnected


(* How a step changes what an owner has connected: it comes past bridgeMedia *)
(* with a participant, a 200 holds the leg, and only the environment, the   *)
(* teardown and the sweep take a participant away.                          *)
ConnectionMove(d) ==
  /\ pc'[d] \in Connected => pc[d] \in Connected \/ d \in part'
  /\ leg'[d] = "answered" => (leg[d] = "answered" /\ pc'[d] = pc[d]) \/ pc'[d] = "held"
  /\ d \in part \ part' => td[d] = "media" \/ d \in sweep \/ Happens("depart")

(* Every step is such a move for every call.                                *)
LEMMA ConnectionMoves ==
  ASSUME TypeOK, AnsweredIsHeld, [Next]_vars
  PROVE  \A d \in Calls : ConnectionMove(d)
<1> DEFINE Moves == \A d \in Calls : ConnectionMove(d)
<1> USE DEF ConnectionMove, AnsweredIsHeld, Connected, Goto, Return, Reject, Release, TakeLeg,
            RequestFails, RequestRejects, HangupCuts,
            matrix, media, waiters, memory, clock, ends, process
<1>0. leg \in [Calls -> LegStates] /\ pc \in [Calls -> OwnerStates]
  BY DEF TypeOK
<1>1. ASSUME NEW c \in Calls, SetUp(c) PROVE Moves
  BY <1>0, <1>1 DEF SetUp, LookUp, Insert, PublishMembership, SendNotification,
     RememberNotification, AfterRinging
<1>2. ASSUME NEW c \in Calls, InboundOwner(c) PROVE Moves
  BY <1>0, <1>2 DEF InboundOwner, AnswerInbound, RereadRefused, HearEnded, HearDecline,
     HearHangup, RingTimeout, HearShutdown, AnswerLeg, LeaveHeld
<1>3. ASSUME NEW c \in Calls, OutboundOwner(c) PROVE Moves
  BY <1>0, <1>3 DEF OutboundOwner, SendInvite, Transition
<1>4. ASSUME NEW c \in Calls, Claimed(c) PROVE Moves
  BY <1>0, <1>4 DEF Claimed, CreateParticipant, MarkSeen, Republish, OwnerEnds, MediaFails
<1>5. ASSUME NEW c \in Calls, Environment(c) PROVE Moves
  BY <1>0, <1>5 DEF Environment, HandleInboundCall, StartDial, InviteAnswered, InviteRefused,
     LegEnds, ParticipantLeaves, RowGrowsLate, RowExpires
<1>6. CASE Process
  BY <1>0, <1>6 DEF Process, Stop, Crash, Start, Started, SweepStale
<1>7. ASSUME NEW c \in Calls, Teardown(c) \/ Watch(c) PROVE Moves
  BY <1>0, <1>7 DEF Teardown, SignalEnd, RemoveMedia, RetractMembership,
     Watch, WatchStale, WatchParticipant, WatchFails, WatchAbsent
<1>8. CASE Handlers
  BY <1>8 DEF Handlers, UserJoins, UserLeaves, Decline, HandlerEnds
<1>9. CASE WatchList \/ UNCHANGED vars
  BY <1>9 DEF WatchList, vars
<1>10. QED
  BY <1>1, <1>2, <1>3, <1>4, <1>5, <1>6, <1>7, <1>8, <1>9 DEF Next, Owner

(* The sweep lists no call whose row it has not ended.                      *)
LEMMA SweepStep ==
  ASSUME IInv, SweptAreEnded, [Next]_vars
  PROVE  SweptAreEnded'
<1>1. TypeOK /\ row \in [Calls -> Rows]
  BY DEF IInv, TypeOK
<1>2. CASE sweep' \subseteq sweep
  BY <1>1, <1>2, RowMoves DEF IInv, RowMove, SweptAreEnded, Ended, TypeOK
<1>3. CASE Start
  BY <1>1, <1>3 DEF Start, EndAllRows, Active, SweptAreEnded, Ended, Rows
<1>4. sweep' \subseteq sweep \/ Start
  <2>1. ASSUME NEW c \in Calls, Owner(c) PROVE sweep' \subseteq sweep
    BY <2>1 DEF Owner, SetUp, LookUp, Insert, PublishMembership, SendNotification,
       RememberNotification, InboundOwner, AnswerInbound, RereadRefused, HearEnded, HearDecline,
       HearHangup, RingTimeout, HearShutdown, AnswerLeg, LeaveHeld, OutboundOwner, SendInvite,
       Transition, Claimed, CreateParticipant, MarkSeen, Republish, OwnerEnds, process
  <2>2. ASSUME NEW c \in Calls, Teardown(c) \/ Watch(c) \/ Environment(c) PROVE sweep' \subseteq sweep
    BY <2>2 DEF Teardown, SignalEnd, RemoveMedia, RetractMembership, Watch, WatchStale,
       WatchParticipant, WatchFails, WatchAbsent, Environment, HandleInboundCall, StartDial,
       InviteAnswered, InviteRefused, LegEnds, ParticipantLeaves, RowGrowsLate, RowExpires, process
  <2>3. CASE Handlers \/ WatchList \/ UNCHANGED vars
    BY <2>3 DEF Handlers, UserJoins, UserLeaves, Decline, HandlerEnds, WatchList, vars, process
  <2>4. CASE Process
    BY <2>4 DEF Process, Stop, Crash, Started, SweepStale, process
  <2>5. QED
    BY <2>1, <2>2, <2>3, <2>4 DEF Next
<1>5. QED
  BY <1>2, <1>3, <1>4

(* No step disconnects the owner of a call that goes on, unless livekit-sip *)
(* leaves by itself.                                                        *)
LEMMA ConnectedStep ==
  ASSUME "depart" \notin Events, IInv, ConnectedInv, [Next]_vars
  PROVE  ConnectedInv'
<1>1. \A d \in Calls : ConnectionMove(d) /\ RowMove(d)
  BY ConnectionMoves, RowMoves DEF IInv, ConnectedInv
<1>2. SweptAreEnded'
  BY SweepStep DEF ConnectedInv
<1>3. AnsweredIsHeld'
  BY <1>1 DEF ConnectedInv, AnsweredIsHeld, ConnectionMove
<1>4. OwnerIsConnected'
  <2> SUFFICES ASSUME NEW d \in Calls, pc'[d] \in Connected, ~Ended(d)' PROVE d \in part'
    BY DEF OwnerIsConnected
  <2>1. ~Ended(d)
    BY <1>1 DEF RowMove, Ended
  <2>2. td[d] # "media" /\ d \notin sweep
    BY <2>1 DEF IInv, TeardownFollowsEnd, ConnectedInv, SweptAreEnded, Ended
  <2>3. QED
    BY <1>1, <2>1, <2>2 DEF ConnectionMove, ConnectedInv, OwnerIsConnected, Happens
<1>5. QED
  BY <1>2, <1>3, <1>4 DEF ConnectedInv

(* While livekit-sip stays in the rooms it was sent to, no failure, crash,  *)
(* stop or interleaving leaves a caller with a 200 and a call that is up,   *)
(* and no participant: answerInbound has the media before the 200.          *)
THEOREM AnsweredLegsAreConnected ==
  ASSUME "depart" \notin Events
  PROVE  Spec => []AnsweredIsConnected
<1>1. Init => ConnectedInv
  BY DEF Init, ConnectedInv, SweptAreEnded, AnsweredIsHeld, OwnerIsConnected, Connected
<1>2. IInv /\ ConnectedInv /\ [Next]_vars => ConnectedInv'
  BY ConnectedStep
<1>3. IInv /\ ConnectedInv => AnsweredIsConnected
  BY DEF ConnectedInv, AnsweredIsHeld, OwnerIsConnected, Connected, AnsweredIsConnected, Ended,
         Outbound
<1>4. QED
  BY <1>1, <1>2, <1>3, Invariance, PTL DEF Spec

------------------------------------------------------------------------------
(* Who ends a call, and what it is recorded as *)

EndLabels == {"endPlain", "endDeclined", "endFailed", "endReject"}

(* An end begins a teardown, and with it the record of an outcome, unless   *)
(* its statement was reported to have failed.                               *)
Concludes(d, outcome) ==
  \/ td'[d] = "signal" /\ verdict'[d] = outcome
  \/ MayFail("db") /\ UNCHANGED ends

(* A call ends by a goroutine that finds its row stale, by its own owner,   *)
(* by a handler that decided so earlier, by the watcher that found nobody   *)
(* in its room, all with the outcome of their copy of the row, or by the    *)
(* start of the bridge.                                                     *)
EndCause(d) ==
  \/ (late # {} \/ expired # {}) /\ Concludes(d, "stale")
  \/ pc[d] \in EndLabels /\ Concludes(d, Outcome(EndOf(pc[d]), row[d].state))
  \/ \E p \in pend \ pend' : p.call = d /\ Concludes(d, Outcome(p.kind, p.state))
  \/ watch[d] = "absent" /\ Concludes(d, "answered")
  \/ up = "down" /\ verdict'[d] = verdict[d]

(* What an End does to the one call it is about.                            *)
LEMMA EndCallCause ==
  ASSUME TypeOK, NEW c \in Calls, NEW kind, NEW state, TryEnd(c, kind, state)
  PROVE  \A d \in Calls : Ending(d) => d = c /\ Concludes(d, Outcome(kind, state))
<1>1. /\ row \in [Calls -> Rows] /\ verdict \in [Calls -> Outcomes]
      /\ td \in [Calls -> {"none", "signal", "media", "member", "done"}]
  BY DEF TypeOK
<1>2. CASE UNCHANGED <<row, ends>>
  BY <1>2 DEF Ending
<1>3. CASE EndCall(c, kind, state)
  <2>1. \A d \in Calls : Ending(d) => d = c /\ EndWins(c)
    BY <1>1, <1>3 DEF EndCall, EndRow, Ending
  <2>2. EndWins(c) => td'[c] = "signal" /\ verdict'[c] = Outcome(kind, state)
    BY <1>1, <1>3 DEF EndCall
  <2>3. QED
    BY <2>1, <2>2 DEF Concludes
<1>4. CASE EndUntold(c)
  BY <1>1, <1>4 DEF EndUntold, EndRow, Ending, Concludes
<1>5. QED
  BY <1>2, <1>3, <1>4 DEF TryEnd

(* Every end of a call has one of these causes.                             *)
LEMMA EndCauses ==
  ASSUME TypeOK, Roles, RowFollowsOwner, [Next]_vars
  PROVE  \A d \in Calls : Ending(d) => EndCause(d)
<1> DEFINE Caused == \A d \in Calls : Ending(d) => EndCause(d)
<1> USE DEF EndCause, Concludes
<1>0. row \in [Calls -> Rows]
  BY DEF TypeOK
<1>1. CASE UNCHANGED row
  BY <1>1 DEF Ending
<1>2. ASSUME NEW c \in Calls, NEW d \in Calls, Stale(d, row[d].state) \/ Stale(d, watch[d]),
             NEW state, TryEnd(d, "quiet", state)
      PROVE  Caused
  BY <1>2, EndCallCause DEF Outcome, Stale
<1>3. ASSUME NEW c \in Calls, SetUp(c) PROVE Caused
  <2>1. ASSUME Insert(c) PROVE Caused
    <3>1. pc[c] = "insert" /\ row[c].state = "none"
      BY <2>1 DEF Insert, RowFollowsOwner, Early
    <3>2. ASSUME NEW u, InsertRow(c, u, late) PROVE Caused
      BY <1>0, <3>2 DEF InsertRow, Ending
    <3>3. QED
      BY <1>1, <2>1, <3>2 DEF Insert
  <2>2. ASSUME LookUp(c) PROVE Caused
    <3>1. CASE UNCHANGED <<row, ends>>
      BY <1>1, <3>1
    <3>2. CASE \E d \in Newest(ActiveIn(RoomOf(c))) :
                 Stale(d, row[d].state) /\ TryEnd(d, "quiet", row[d].state)
      BY <1>2, <3>2 DEF Newest, ActiveIn, Active
    <3>3. QED
      BY <2>2, <3>1, <3>2 DEF LookUp, TryEnd
  <2>3. QED
    BY <1>1, <1>3, <2>1, <2>2 DEF SetUp, PublishMembership, SendNotification, RememberNotification
<1>4. ASSUME NEW c \in Calls, InboundOwner(c) PROVE Caused
  <2>1. ASSUME NEW u, AnswerRow(c, u) PROVE \A d \in Calls : ~Ending(d)
    BY <1>0, <2>1 DEF AnswerRow, Ending, Rows
  <2>2. QED
    BY <1>1, <1>4, <2>1 DEF InboundOwner, AnswerInbound, RereadRefused, HearEnded,
       HearDecline, HearHangup, RingTimeout, HearShutdown, AnswerLeg, LeaveHeld
<1>5. ASSUME NEW c \in Calls, OutboundOwner(c) PROVE Caused
  <2>1. ASSUME TransitionRow(c) PROVE \A d \in Calls : ~Ending(d)
    BY <1>0, <2>1 DEF TransitionRow, Ending, Rows
  <2>2. QED
    BY <1>1, <1>5, <2>1 DEF OutboundOwner, SendInvite, Transition
<1>6. ASSUME NEW c \in Calls, Claimed(c) PROVE Caused
  <2>1. ASSUME OwnerEnds(c) PROVE Caused
    BY <2>1, EndCallCause DEF OwnerEnds, EndLabels
  <2>2. QED
    BY <1>1, <1>6, <2>1 DEF Claimed, CreateParticipant, MarkSeen, Republish
<1>7. ASSUME NEW c \in Calls, Teardown(c) \/ Environment(c) PROVE Caused
  BY <1>1, <1>7 DEF Teardown, SignalEnd, RemoveMedia, RetractMembership, Environment,
     HandleInboundCall, StartDial, InviteAnswered, InviteRefused,
     LegEnds, ParticipantLeaves, RowGrowsLate, RowExpires
<1>8. ASSUME NEW c \in Calls, Watch(c) PROVE Caused
  <2>1. ASSUME WatchStale(c) PROVE Caused
    BY <1>2, <2>1 DEF WatchStale
  <2>2. ASSUME WatchAbsent(c) PROVE Caused
    BY <1>1, <2>2, EndCallCause DEF WatchAbsent, Outcome
  <2>3. QED
    BY <1>1, <1>8, <2>1, <2>2 DEF Watch, WatchParticipant, WatchFails
<1>9. CASE Handlers
  <2>1. ASSUME NEW c \in Calls, NEW u, UserJoins(u, RoomOf(c)) PROVE Caused
    <3>1. CASE UNCHANGED <<row, ends>>
      BY <1>1, <3>1
    <3>2. CASE \E d \in Newest(ActiveIn(RoomOf(c))) :
                 Stale(d, row[d].state) /\ TryEnd(d, "quiet", row[d].state)
      BY <1>2, <3>2 DEF Newest, ActiveIn, Active
    <3>3. QED
      BY <2>1, <3>1, <3>2 DEF UserJoins
  <2>2. ASSUME NEW c \in Calls, NEW u, UserLeaves(u, RoomOf(c)) PROVE Caused
    <3>1. CASE UNCHANGED <<row, ends>>
      BY <1>1, <3>1
    <3>2. CASE \E d \in Newest(ActiveIn(RoomOf(c))) :
                 Stale(d, row[d].state) /\ TryEnd(d, "quiet", row[d].state)
      BY <1>2, <3>2 DEF Newest, ActiveIn, Active
    <3>3. QED
      BY <2>2, <3>1, <3>2 DEF UserLeaves
  <2>3. ASSUME NEW p \in pend, HandlerEnds(p) PROVE Caused
    <3>1. p.call \in Calls /\ p \notin pend'
      BY <2>3 DEF TypeOK, PendingEnds, HandlerEnds
    <3>2. QED
      BY <2>3, <3>1, EndCallCause DEF HandlerEnds
  <2>4. QED
    BY <1>1, <1>9, <2>1, <2>2, <2>3 DEF Handlers, Decline
<1>10. CASE Start
  BY <1>10 DEF Start, ends
<1>11. CASE Process \/ WatchList \/ UNCHANGED vars
  BY <1>1, <1>10, <1>11 DEF Process, Stop, Crash, Started, SweepStale, WatchList, vars
<1>12. QED
  BY <1>3, <1>4, <1>5, <1>6, <1>7, <1>8, <1>9, <1>11 DEF Next, Owner

(* A call has no outcome before it ends.                                    *)
VerdictFollowsEnd == \A c \in Calls : ~Ended(c) => verdict[c] = "none"

(* An outcome is given by the end of a call, and refined by its teardown.   *)
LEMMA VerdictMoves ==
  ASSUME TypeOK, [Next]_vars
  PROVE  \A d \in Calls : verdict'[d] = verdict[d] \/ Ending(d) \/ td[d] = "signal"
<1> DEFINE Moves == \A d \in Calls : verdict'[d] = verdict[d] \/ Ending(d) \/ td[d] = "signal"
<1>0. row \in [Calls -> Rows] /\ verdict \in [Calls -> Outcomes]
  BY DEF TypeOK
<1>1. CASE UNCHANGED ends
  BY <1>1 DEF ends
<1>2. ASSUME NEW c \in Calls, NEW kind, NEW state, TryEnd(c, kind, state) PROVE Moves
  BY <1>0, <1>1, <1>2 DEF TryEnd, EndUntold, EndCall, EndRow, EndWins, Ending, Rows
<1>3. ASSUME NEW c \in Calls, Teardown(c) PROVE Moves
  BY <1>0, <1>3 DEF Teardown, SignalEnd, RemoveMedia, RetractMembership
<1>4. ASSUME NEW c \in Calls, Owner(c) PROVE Moves
  <2>1. ASSUME LookUp(c) PROVE Moves
    BY <1>1, <1>2, <2>1 DEF LookUp, TryEnd, Newest, ActiveIn, Active, ends
  <2>2. ASSUME OwnerEnds(c) PROVE Moves
    BY <1>2, <2>2 DEF OwnerEnds
  <2>3. QED
    BY <1>1, <1>4, <2>1, <2>2 DEF Owner, SetUp, Insert, PublishMembership, SendNotification,
       RememberNotification, InboundOwner, AnswerInbound, RereadRefused, HearEnded, HearDecline,
       HearHangup, RingTimeout, HearShutdown, AnswerLeg, LeaveHeld, OutboundOwner, SendInvite,
       Transition, Claimed, CreateParticipant, MarkSeen, Republish
<1>5. ASSUME NEW c \in Calls, Watch(c) PROVE Moves
  BY <1>1, <1>2, <1>5 DEF Watch, WatchStale, WatchParticipant, WatchFails, WatchAbsent, ends
<1>6. CASE Handlers
  <2>1. ASSUME NEW u, NEW room, UserJoins(u, room) \/ UserLeaves(u, room) PROVE Moves
    BY <1>1, <1>2, <2>1 DEF UserJoins, UserLeaves, TryEnd, Newest, ActiveIn, Active, ends
  <2>2. ASSUME NEW p \in pend, HandlerEnds(p) PROVE Moves
    BY <1>2, <2>2 DEF HandlerEnds, TypeOK, PendingEnds
  <2>3. QED
    BY <1>1, <1>6, <2>1, <2>2 DEF Handlers, Decline
<1>7. ASSUME NEW c \in Calls, Environment(c) PROVE Moves
  BY <1>1, <1>7 DEF Environment, HandleInboundCall, StartDial, InviteAnswered, InviteRefused,
     LegEnds, ParticipantLeaves, RowGrowsLate, RowExpires
<1>8. CASE Process \/ WatchList \/ UNCHANGED vars
  BY <1>1, <1>8 DEF Process, Stop, Crash, Start, Started, SweepStale, WatchList, vars, ends
<1>9. QED
  BY <1>3, <1>4, <1>5, <1>6, <1>7, <1>8 DEF Next

(* A call that was up is recorded as missed or declined only by a handler   *)
(* that goes by a copy of the row it read while the call still rang.        *)
MislabelledByOldCopy ==
  [][\A c \in Calls :
       /\ Ending(c) /\ row[c].state = "bridged"
       /\ verdict'[c] \in {"missed", "elsewhere", "declined"}
       => \E p \in pend \ pend' : p.call = c /\ p.state = "ringing"]_vars

(* endCallAs labels a call by "the row as it was before it ended", a copy   *)
(* of its caller's; whatever fails, crashes or interleaves, the only copy   *)
(* that can be wrong is the one of a leave or a decline that was decided    *)
(* on before the call was answered.  The owner's and the watcher's are not. *)
THEOREM OnlyOldCopiesMislabel == Spec => MislabelledByOldCopy
<1>1. Init => VerdictFollowsEnd
  BY DEF Init, VerdictFollowsEnd
<1>2. IInv /\ VerdictFollowsEnd /\ [Next]_vars => VerdictFollowsEnd'
  <2> SUFFICES ASSUME IInv, VerdictFollowsEnd, [Next]_vars, NEW d \in Calls, ~Ended(d)'
               PROVE  verdict'[d] = "none"
    BY DEF VerdictFollowsEnd
  <2>1. ~Ended(d) /\ td[d] = "none" /\ ~Ending(d)
    BY RowMoves DEF IInv, RowMove, Ended, Ending, TeardownFollowsEnd
  <2>2. QED
    BY <2>1, VerdictMoves DEF IInv, VerdictFollowsEnd
<1>3. ASSUME IInv, VerdictFollowsEnd, [Next]_vars, NEW c \in Calls,
             Ending(c), row[c].state = "bridged",
             verdict'[c] \in {"missed", "elsewhere", "declined"}
      PROVE  \E p \in pend \ pend' : p.call = c /\ p.state = "ringing"
  <2>1. EndCause(c)
    BY <1>3, EndCauses DEF IInv
  <2>2. verdict[c] = "none"
    BY <1>3 DEF VerdictFollowsEnd, Ended
  <2>3. ~(pc[c] \in EndLabels /\ verdict'[c] = Outcome(EndOf(pc[c]), row[c].state))
    BY <1>3 DEF Outcome, EndOf, EndLabels
  <2>4. PICK p \in pend \ pend' : p.call = c /\ verdict'[c] = Outcome(p.kind, p.state)
    BY <1>3, <2>1, <2>2, <2>3 DEF EndCause, Concludes, ends
  <2>5. p.state \in {"ringing", "bridged"}
    BY <1>3, <2>4 DEF IInv, TypeOK, PendingEnds
  <2>6. QED
    BY <1>3, <2>4, <2>5 DEF Outcome
<1>4. IInv /\ VerdictFollowsEnd /\ [Next]_vars =>
        [\A c \in Calls :
           /\ Ending(c) /\ row[c].state = "bridged"
           /\ verdict'[c] \in {"missed", "elsewhere", "declined"}
           => \E p \in pend \ pend' : p.call = c /\ p.state = "ringing"]_vars
  BY <1>3
<1>5. QED
  BY <1>1, <1>2, <1>4, Invariance, PTL DEF Spec, MislabelledByOldCopy

------------------------------------------------------------------------------
(* The control leg of an outbound call *)

(* An outbound leg that is up is kept for whoever is to hang it up.         *)
UpIsKept == \A c \in Calls : leg[c] = "up" => c \in legs

(* A kept leg still has somebody who will: the owner at its transition, the *)
(* end of a bridged call, or the teardown under way.                        *)
KeptHasHolder ==
  \A c \in legs :
    pc[c] = "transition" \/ row[c].state = "bridged" \/ td[c] \in {"signal", "media"}

(* A process that is not there remembers nothing and runs no owner.         *)
NothingWhileDown ==
  up \in {"down", "starting"} => legs = {} /\ \A c \in Calls : pc[c] \in {"idle", "done"}

ControlInv == UpIsKept /\ KeptHasHolder /\ NothingWhileDown

(* How a step changes who holds a leg: it is kept from the answer on, left  *)
(* at its transition to the call it bridges, and taken by the teardown; and *)
(* it is let go of without being gone only where a BYE may fail.            *)
HolderMove(d) ==
  /\ leg'[d] = "up" => d \in legs'
  /\ leg'[d] = "left" => leg[d] = "left" \/ MayFail("sip")
  /\ d \in legs' /\ pc'[d] # "transition" =>
       /\ d \in legs
       /\ pc[d] = "transition" => row'[d].state = "bridged"
       /\ td[d] \in {"signal", "media"} => td'[d] \in {"signal", "media"}

(* Every step is such a move for every leg, while the table answers.        *)
LEMMA HolderMoves ==
  ASSUME "db" \notin Faults, TypeOK, UpIsKept, NothingWhileDown, [Next]_vars
  PROVE  (\A d \in Calls : HolderMove(d)) /\ NothingWhileDown'
<1> DEFINE Moves == (\A d \in Calls : HolderMove(d)) /\ NothingWhileDown'
<1> USE DEF HolderMove, UpIsKept, NothingWhileDown, Goto, Return, Reject, Release, TakeLeg,
            RequestFails, RequestRejects, HangupCuts,
            matrix, media, waiters, memory, clock, ends, process
<1>0. /\ leg \in [Calls -> LegStates] /\ pc \in [Calls -> OwnerStates]
      /\ row \in [Calls -> Rows] /\ legs \subseteq Calls
      /\ td \in [Calls -> {"none", "signal", "media", "member", "done"}]
  BY DEF TypeOK, Outbound
<1>1. ASSUME NEW c \in Calls, NEW kind, NEW state, TryEnd(c, kind, state)
      PROVE  \A d \in Calls : td[d] \in {"signal", "media"} => td'[d] \in {"signal", "media"}
  BY <1>0, <1>1 DEF TryEnd, EndUntold, EndCall, ends
<1>2. ASSUME NEW c \in Calls, SetUp(c) PROVE Moves
  <2>1. ASSUME LookUp(c)
        PROVE  \A d \in Calls : td[d] \in {"signal", "media"} => td'[d] \in {"signal", "media"}
    BY <1>1, <2>1 DEF LookUp, TryEnd, Newest, ActiveIn, Active
  <2>2. QED
    BY <1>0, <1>2, <2>1 DEF SetUp, LookUp, Insert, PublishMembership, SendNotification,
       RememberNotification, AfterRinging
<1>3. ASSUME NEW c \in Calls, InboundOwner(c) PROVE Moves
  BY <1>0, <1>3 DEF InboundOwner, AnswerInbound, RereadRefused, HearEnded, HearDecline,
     HearHangup, RingTimeout, HearShutdown, AnswerLeg, LeaveHeld
<1>4. ASSUME NEW c \in Calls, OutboundOwner(c) PROVE Moves
  <2>1. ASSUME TransitionRow(c), TransitionWins(c) PROVE row'[c].state = "bridged"
    BY <1>0, <2>1 DEF TransitionRow, Rows
  <2>2. ~MayFail("db")
    BY DEF MayFail
  <2>3. QED
    BY <1>0, <1>4, <2>1, <2>2 DEF OutboundOwner, SendInvite, Transition
<1>5. ASSUME NEW c \in Calls, Claimed(c) PROVE Moves
  <2>1. ASSUME OwnerEnds(c)
        PROVE  \A d \in Calls : td[d] \in {"signal", "media"} => td'[d] \in {"signal", "media"}
    BY <1>1, <2>1 DEF OwnerEnds
  <2>2. QED
    BY <1>0, <1>5, <2>1 DEF Claimed, CreateParticipant, MarkSeen, Republish, OwnerEnds, MediaFails
<1>6. ASSUME NEW c \in Calls, Environment(c) PROVE Moves
  BY <1>0, <1>6 DEF Environment, HandleInboundCall, StartDial, InviteAnswered, InviteRefused,
     LegEnds, ParticipantLeaves, RowGrowsLate, RowExpires
<1>7. CASE Process
  BY <1>0, <1>7 DEF Process, Stop, Crash, Start, Started, SweepStale
<1>8. ASSUME NEW c \in Calls, Teardown(c) PROVE Moves
  BY <1>0, <1>8 DEF Teardown, SignalEnd, RemoveMedia, RetractMembership
<1>9. ASSUME NEW c \in Calls, Watch(c) PROVE Moves
  BY <1>0, <1>1, <1>9 DEF Watch, WatchStale, WatchParticipant, WatchFails, WatchAbsent
<1>10. CASE Handlers
  <2>1. ASSUME NEW u, NEW room, UserJoins(u, room) \/ UserLeaves(u, room) PROVE Moves
    BY <1>0, <1>1, <2>1 DEF UserJoins, UserLeaves, TryEnd, Newest, ActiveIn, Active
  <2>2. ASSUME NEW p \in pend, HandlerEnds(p) PROVE Moves
    BY <1>0, <1>1, <2>2 DEF HandlerEnds, TypeOK, PendingEnds
  <2>3. QED
    BY <1>0, <1>10, <2>1, <2>2 DEF Handlers, Decline
<1>11. CASE WatchList \/ UNCHANGED vars
  BY <1>0, <1>11 DEF WatchList, vars
<1>12. QED
  BY <1>2, <1>3, <1>4, <1>5, <1>6, <1>7, <1>8, <1>9, <1>10, <1>11 DEF Next, Owner

(* A bridged row stays one until the call ends.                             *)
LEMMA BridgedUntilEnd ==
  ASSUME TypeOK, RowFollowsOwner, [Next]_vars, NEW d \in Calls, row[d].state = "bridged"
  PROVE  row'[d].state = "bridged" \/ Ending(d)
<1>0. row \in [Calls -> Rows]
  BY DEF TypeOK
<1>1. CASE UNCHANGED row
  BY <1>1
<1>2. CASE InsertsRow
  <2>1. PICK c \in Calls, u \in Users \cup {NoUser} : pc[c] = "insert" /\ InsertRow(c, u, late)
    BY <1>2 DEF InsertsRow
  <2>2. c # d
    BY <2>1 DEF RowFollowsOwner, Early
  <2>3. QED
    BY <1>0, <2>1, <2>2 DEF InsertRow
<1>3. CASE AnswersRow
  BY <1>0, <1>3 DEF AnswersRow, AnswerRow, Rows
<1>4. CASE TransitionsRow
  BY <1>0, <1>4 DEF TransitionsRow, TransitionRow, Rows
<1>5. CASE EndsRow
  BY <1>0, <1>5 DEF EndsRow, EndRow, Ending, Rows
<1>6. CASE EndAllRows
  BY <1>0, <1>6 DEF EndAllRows, Active, Ending, Rows
<1>7. QED
  BY <1>1, <1>2, <1>3, <1>4, <1>5, <1>6, RowStep

(* While the table answers, a leg that is up is never without a holder.     *)
LEMMA ControlStep ==
  ASSUME "db" \notin Faults, IInv, ControlInv, [Next]_vars
  PROVE  ControlInv'
<1>0. TypeOK /\ Roles /\ RowFollowsOwner /\ UpIsKept /\ NothingWhileDown /\ TypeOK'
  BY StepIInv DEF IInv, ControlInv
<1>1. (\A d \in Calls : HolderMove(d)) /\ NothingWhileDown'
  BY <1>0, HolderMoves
<1>2. UpIsKept'
  BY <1>1 DEF HolderMove, UpIsKept
<1>3. ASSUME NEW d \in legs'
      PROVE  \/ pc'[d] = "transition" \/ row'[d].state = "bridged"
             \/ td'[d] \in {"signal", "media"}
  <2>1. d \in Calls
    BY <1>0, <1>3 DEF TypeOK, Outbound
  <2>2. SUFFICES ASSUME pc'[d] # "transition"
                 PROVE  row'[d].state = "bridged" \/ td'[d] \in {"signal", "media"}
    OBVIOUS
  <2>3. /\ d \in legs
        /\ pc[d] = "transition" => row'[d].state = "bridged"
        /\ td[d] \in {"signal", "media"} => td'[d] \in {"signal", "media"}
    BY <1>1, <1>3, <2>1, <2>2 DEF HolderMove
  <2>4. CASE row[d].state = "bridged"
    <3>1. up # "down"
      BY <2>3 DEF ControlInv, NothingWhileDown
    <3>2. Ending(d) => td'[d] = "signal"
      BY <1>0, <2>1, <3>1, EndCauses DEF EndCause, Concludes, MayFail
    <3>3. QED
      BY <1>0, <2>1, <2>4, <3>2, BridgedUntilEnd
  <2>5. QED
    BY <2>3, <2>4 DEF ControlInv, KeptHasHolder
<1>4. KeptHasHolder'
  BY <1>3 DEF KeptHasHolder
<1>5. QED
  BY <1>1, <1>2, <1>4 DEF ControlInv

(* The control leg of an outbound call that is over and settled has been    *)
(* taken out of the map and sent its BYE, whoever ended the call at         *)
(* whichever point of its dialling and whatever else fails, the BYE itself  *)
(* included, as long as the call table answers: a transition that fails on  *)
(* a call already torn down leaves the leg to a teardown that has been.     *)
THEOREM EndedCallsHangUp ==
  ASSUME "db" \notin Faults
  PROVE  Spec => []EndedLegIsHungUp
<1>1. Init => ControlInv
  BY DEF Init, ControlInv, UpIsKept, KeptHasHolder, NothingWhileDown
<1>2. IInv /\ ControlInv /\ [Next]_vars => ControlInv'
  BY ControlStep
<1>3. IInv /\ ControlInv => EndedLegIsHungUp
  BY DEF IInv, Roles, InboundOnly, ControlInv, UpIsKept, KeptHasHolder, EndedLegIsHungUp,
         Settled, Ended, Outbound
<1>4. QED
  BY <1>1, <1>2, <1>3, Invariance, PTL DEF Spec

(* Where the SIP server takes every BYE, no leg of such a call is left up   *)
(* there: a failing BYE, which nobody repeats (endCallAs), is the one way   *)
(* besides a failing table for a callee to stay in an ended call.           *)
THEOREM EndedCallsLeaveNoLeg ==
  ASSUME "db" \notin Faults, "sip" \notin Faults
  PROVE  Spec => []EndedLegIsGone
<1> DEFINE NoneLeft == \A c \in Calls : leg[c] # "left"
<1>1. Init => ControlInv /\ NoneLeft
  BY DEF Init, ControlInv, UpIsKept, KeptHasHolder, NothingWhileDown
<1>2. IInv /\ ControlInv /\ NoneLeft /\ [Next]_vars => ControlInv' /\ NoneLeft'
  BY ControlStep, HolderMoves DEF IInv, ControlInv, HolderMove, MayFail
<1>3. IInv /\ ControlInv /\ NoneLeft => EndedLegIsGone
  BY DEF IInv, Roles, InboundOnly, ControlInv, UpIsKept, KeptHasHolder, EndedLegIsGone,
         Settled, Ended, Outbound
<1>4. QED
  BY <1>1, <1>2, <1>3, Invariance, PTL DEF Spec

------------------------------------------------------------------------------
(* What an ended call leaves behind *)

(* The labels at which an owner still publishes a membership, sends for     *)
(* livekit-sip or remembers a notification without a look at the row.       *)
SetUpLabels == {"publish", "notify", "remember", "bridge", "mark", "republish"}

(* The labels between the claim on a conference and the 200 it is for.      *)
AnswerLabels == {"bridge", "mark", "republish", "answer"}

(* Nobody ends a call inside its set-up, or between its claim and its 200:  *)
(* what the code would have to look at the row again for.                   *)
EndsOutsideSetUp == [][\A c \in Calls : Ending(c) => pc[c] \notin SetUpLabels]_vars

EndsOutsideAnswer == [][\A c \in Calls : Ending(c) => pc[c] \notin AnswerLabels]_vars

(* No End is carried out and reported to have failed: whoever ends a call   *)
(* is told so, and begins its teardown.  endCallAs returns the error of the *)
(* statement and tears nothing down, whatever became of the row.            *)
EndsAreTold == [][\A c \in Calls : Ending(c) => td'[c] = "signal"]_vars

(* An owner enters its set-up with its row and its claim with the          *)
(* conference, and does not come back from its return.                      *)
OwnerTurn(d) ==
  /\ pc[d] = "done" => pc'[d] = "done"
  /\ pc'[d] \in SetUpLabels => pc[d] \in SetUpLabels \cup {"insert"} \/ row'[d].state = "bridged"
  /\ pc'[d] \in AnswerLabels => pc[d] \in AnswerLabels \/ row'[d].state = "bridged"
  /\ pc'[d] = "notify" => pc[d] = "notify" \/ Rings(d)
  /\ pc'[d] = "remember" => pc[d] \in {"notify", "remember"}

(* Every step is such a turn of every owner.                                *)
LEMMA OwnerTurns ==
  ASSUME TypeOK, [Next]_vars
  PROVE  \A d \in Calls : OwnerTurn(d)
<1> DEFINE Turns == \A d \in Calls : OwnerTurn(d)
<1> USE DEF OwnerTurn, SetUpLabels, AnswerLabels, Goto, Return, waiters, matrix, ends, memory
<1>0. pc \in [Calls -> OwnerStates] /\ row \in [Calls -> Rows]
  BY DEF TypeOK
<1>1. ASSUME NEW c \in Calls, SetUp(c) PROVE Turns
  BY <1>0, <1>1 DEF SetUp, LookUp, Insert, PublishMembership, SendNotification,
     RememberNotification, AfterRinging
<1>2. ASSUME NEW c \in Calls, InboundOwner(c) PROVE Turns
  <2>1. ASSUME AnswerRow(c, joined[c]), AnswerWins(c) PROVE row'[c].state = "bridged"
    BY <1>0, <2>1 DEF AnswerRow, Rows
  <2>2. QED
    BY <1>0, <1>2, <2>1 DEF InboundOwner, AnswerInbound, RereadRefused, HearEnded, HearDecline,
       HearHangup, RingTimeout, HearShutdown, AnswerLeg, LeaveHeld
<1>3. ASSUME NEW c \in Calls, OutboundOwner(c) PROVE Turns
  <2>1. ASSUME TransitionRow(c), TransitionWins(c) PROVE row'[c].state = "bridged"
    BY <1>0, <2>1 DEF TransitionRow, Rows
  <2>2. QED
    BY <1>0, <1>3, <2>1 DEF OutboundOwner, SendInvite, Transition
<1>4. ASSUME NEW c \in Calls, Claimed(c) PROVE Turns
  BY <1>0, <1>4 DEF Claimed, CreateParticipant, MarkSeen, Republish, OwnerEnds, MediaFails
<1>5. ASSUME NEW c \in Calls, Environment(c) PROVE Turns
  BY <1>0, <1>5 DEF Environment, HandleInboundCall, StartDial, InviteAnswered, InviteRefused,
     LegEnds, ParticipantLeaves, RowGrowsLate, RowExpires
<1>6. CASE Process
  BY <1>0, <1>6 DEF Process, Stop, Crash, Start, Started, SweepStale
<1>7. ASSUME NEW c \in Calls, Teardown(c) \/ Watch(c) PROVE Turns
  BY <1>7 DEF Teardown, SignalEnd, RemoveMedia, RetractMembership,
     Watch, WatchStale, WatchParticipant, WatchFails, WatchAbsent
<1>8. CASE Handlers
  BY <1>8 DEF Handlers, UserJoins, UserLeaves, Decline, HandlerEnds
<1>9. CASE WatchList \/ UNCHANGED vars
  BY <1>9 DEF WatchList, vars
<1>10. QED
  BY <1>1, <1>2, <1>3, <1>4, <1>5, <1>6, <1>7, <1>8, <1>9 DEF Next, Owner

(* Past the end of the call an owner is not in its answer.                  *)
EndedPastAnswer == \A c \in Calls : Ended(c) => pc[c] \notin AnswerLabels

(* A 200 goes out on an ended call only if the call was ended between its   *)
(* claim and that 200 (answerInbound looks at neither the row nor the ended *)
(* channel in between); whatever fails, crashes or interleaves otherwise,   *)
(* no call "that teardown had already finished" is answered.                *)
THEOREM LateAnswerNeedsEndInAnswer == Spec /\ EndsOutsideAnswer => NoAnswerAfterEnd
<1>1. Init => EndedPastAnswer
  BY DEF Init, EndedPastAnswer, AnswerLabels
<1>2. ASSUME IInv, EndedPastAnswer, [Next]_vars,
             [\A c \in Calls : Ending(c) => pc[c] \notin AnswerLabels]_vars
      PROVE  EndedPastAnswer'
  <2> SUFFICES ASSUME NEW d \in Calls, Ended(d)' PROVE pc'[d] \notin AnswerLabels
    BY DEF EndedPastAnswer
  <2>1. OwnerTurn(d)
    BY <1>2, OwnerTurns DEF IInv
  <2>2. Ending(d) => pc[d] \notin AnswerLabels
    BY <1>2 DEF vars, Ending
  <2>3. QED
    BY <1>2, <2>1, <2>2 DEF OwnerTurn, EndedPastAnswer, Ended, Ending
<1>3. ASSUME IInv, EndedPastAnswer, [Next]_vars, NEW c \in Inbound,
             leg[c] = "ringing", leg'[c] = "answered"
      PROVE  ~Ended(c)
  <2>1. c \in Calls /\ MediaMove(c)
    BY <1>3, MediaMoves DEF IInv
  <2>2. pc[c] = "answer"
    BY <1>3, <2>1 DEF MediaMove, Answered
  <2>3. QED
    BY <1>3, <2>1, <2>2 DEF EndedPastAnswer, AnswerLabels
<1>4. IInv /\ EndedPastAnswer /\ [Next]_vars =>
        [\A c \in Inbound : leg[c] = "ringing" /\ leg'[c] = "answered" => ~Ended(c)]_vars
  BY <1>3
<1>5. QED
  BY <1>1, <1>2, <1>4, Invariance, PTL DEF Spec, EndsOutsideAnswer, NoAnswerAfterEnd

------------------------------------------------------------------------------
(* A leg without a final response *)

(* The labels before a claim: nobody else bridges a call.                   *)
Unclaimed == {"publish", "notify", "remember", "wait", "reread", "dial", "invite", "transition"}

UnclaimedIsNotUp == \A c \in Calls : pc[c] \in Unclaimed => row[c].state # "bridged"

(* An owner that gives its inbound leg up has answered it, rejected it or   *)
(* found it gone; only a refused membership is still to be rejected.        *)
Told == {"held", "endPlain", "endDeclined", "endFailed"}

LegIsTold == \A c \in Inbound : pc[c] \in Told => leg[c] # "ringing"

(* How an owner comes to give its leg up, and how a leg is dropped.         *)
DropMove(d) ==
  /\ pc'[d] \in Unclaimed => pc[d] \in Unclaimed \cup {"insert"}
  /\ d \in Inbound /\ pc'[d] \in Told => leg'[d] # "ringing"
  /\ d \in Inbound /\ leg'[d] = "dropped" =>
       leg[d] = "dropped" \/ (pc[d] = "reread" /\ row[d].state # "ringing")

(* Every step is such a move, while the call table and the SIP server do    *)
(* not fail a request.                                                      *)
LEMMA DropMoves ==
  ASSUME "db" \notin Faults, "sip" \notin Faults, TypeOK, Roles, LegIsTold, [Next]_vars
  PROVE  \A d \in Calls : DropMove(d)
<1> DEFINE Moves == \A d \in Calls : DropMove(d)
<1> USE DEF DropMove, Unclaimed, Told, LegIsTold, Goto, Return, Reject, Release, TakeLeg,
            RequestFails, RequestRejects, HangupCuts, MayFail,
            Finished, matrix, media, waiters, memory, clock, ends, process
<1>0. leg \in [Calls -> LegStates] /\ pc \in [Calls -> OwnerStates]
  BY DEF TypeOK
<1>1. ASSUME NEW c \in Calls, SetUp(c) PROVE Moves
  BY <1>0, <1>1 DEF SetUp, LookUp, Insert, PublishMembership, SendNotification,
     RememberNotification, AfterRinging
<1>2. ASSUME NEW c \in Calls, InboundOwner(c) PROVE Moves
  BY <1>0, <1>2 DEF InboundOwner, AnswerInbound, RereadRefused, HearEnded, HearDecline,
     HearHangup, RingTimeout, HearShutdown, AnswerLeg, LeaveHeld
<1>3. ASSUME NEW c \in Calls, OutboundOwner(c) PROVE Moves
  BY <1>0, <1>3 DEF OutboundOwner, SendInvite, Transition, Roles, InboundOnly, OutboundOnly
<1>4. ASSUME NEW c \in Calls, Claimed(c) PROVE Moves
  <2>1. ASSUME CreateParticipant(c) \/ MarkSeen(c) PROVE Moves
    BY <1>0, <2>1 DEF CreateParticipant, MarkSeen, MediaFails, Cancelled
  <2>2. ASSUME Republish(c) \/ OwnerEnds(c) PROVE Moves
    BY <1>0, <2>2 DEF Republish, OwnerEnds
  <2>3. QED
    BY <1>4, <2>1, <2>2 DEF Claimed
<1>5. ASSUME NEW c \in Calls, Environment(c) PROVE Moves
  BY <1>0, <1>5 DEF Environment, HandleInboundCall, StartDial, InviteAnswered, InviteRefused,
     LegEnds, ParticipantLeaves, RowGrowsLate, RowExpires, Roles, OutboundOnly
<1>6. CASE Process
  BY <1>0, <1>6 DEF Process, Stop, Crash, Start, Started, SweepStale
<1>7. ASSUME NEW c \in Calls, Teardown(c) \/ Watch(c) PROVE Moves
  BY <1>0, <1>7 DEF Teardown, SignalEnd, RemoveMedia, RetractMembership,
     Watch, WatchStale, WatchParticipant, WatchFails, WatchAbsent
<1>8. CASE Handlers
  BY <1>8 DEF Handlers, UserJoins, UserLeaves, Decline, HandlerEnds
<1>9. CASE WatchList \/ UNCHANGED vars
  BY <1>9 DEF WatchList, vars
<1>10. QED
  BY <1>1, <1>2, <1>3, <1>4, <1>5, <1>6, <1>7, <1>8, <1>9 DEF Next, Owner

(* Only the statements of a call's own owner bridge it.                     *)
LEMMA UnclaimedStep ==
  ASSUME IInv, UnclaimedIsNotUp, [Next]_vars
  PROVE  \A d \in Calls : row'[d].state = "bridged" =>
           row[d].state = "bridged" \/ pc'[d] \in {"bridge", "endFailed"}
<1>0. TypeOK /\ pc \in [Calls -> OwnerStates] /\ row \in [Calls -> Rows]
  BY DEF IInv, TypeOK
<1>1. CASE InsertsRow
  BY <1>0, <1>1 DEF InsertsRow, InsertRow
<1>2. CASE AnswersRow
  BY <1>0, <1>2 DEF AnswersRow, AnswerRow, Rows
<1>3. CASE TransitionsRow
  BY <1>0, <1>3 DEF TransitionsRow, TransitionRow, Rows
<1>4. CASE EndsRow
  BY <1>0, <1>4 DEF EndsRow, EndRow, Rows
<1>5. CASE EndAllRows
  BY <1>0, <1>5 DEF EndAllRows, Active, Rows
<1>6. QED
  BY <1>0, <1>1, <1>2, <1>3, <1>4, <1>5, RowStep

(* A leg is left without a final response only by an owner whose claim was  *)
(* refused because its call had been ended.                                 *)
DroppedOnRefusal ==
  [][\A c \in Inbound : leg[c] # "dropped" /\ leg'[c] = "dropped" =>
       pc[c] = "reread" /\ Ended(c)]_vars

(* Of all the ways an inbound call can end, before, in and after its claim, *)
(* a refused claim on an ended call is the only one that breaks "every      *)
(* failure here ends with a definitive status rather than a dangling leg"   *)
(* (HandleInboundCall), unless a statement or the 200 itself fails.         *)
THEOREM DanglingNeedsRefusal ==
  ASSUME "db" \notin Faults, "sip" \notin Faults
  PROVE  Spec => DroppedOnRefusal
<1> DEFINE Inv == UnclaimedIsNotUp /\ LegIsTold
<1>1. Init => Inv
  BY DEF Init, UnclaimedIsNotUp, LegIsTold, Unclaimed, Told
<1>2. ASSUME IInv, Inv, [Next]_vars PROVE Inv'
  <2>1. \A d \in Calls : DropMove(d)
    BY <1>2, DropMoves DEF IInv
  <2>2. LegIsTold'
    BY <2>1 DEF LegIsTold, DropMove
  <2>3. UnclaimedIsNotUp'
    <3> SUFFICES ASSUME NEW d \in Calls, pc'[d] \in Unclaimed PROVE row'[d].state # "bridged"
      BY DEF UnclaimedIsNotUp
    <3>1. pc[d] \in Unclaimed \cup {"insert"}
      BY <2>1 DEF DropMove
    <3>2. row[d].state # "bridged"
      BY <1>2, <3>1 DEF IInv, RowFollowsOwner, Early, UnclaimedIsNotUp
    <3>3. pc'[d] \notin {"bridge", "endFailed"}
      BY DEF Unclaimed
    <3>4. QED
      BY <1>2, <3>2, <3>3, UnclaimedStep
  <2>4. QED
    BY <2>2, <2>3
<1>3. ASSUME IInv, Inv, [Next]_vars, NEW c \in Inbound, leg[c] # "dropped", leg'[c] = "dropped"
      PROVE  pc[c] = "reread" /\ Ended(c)
  <2>1. c \in Calls /\ DropMove(c)
    BY <1>3, DropMoves DEF IInv
  <2>2. pc[c] = "reread" /\ row[c].state # "ringing"
    BY <1>3, <2>1 DEF DropMove
  <2>3. row[c].state \notin {"bridged", "none"}
    BY <1>3, <2>1, <2>2 DEF UnclaimedIsNotUp, Unclaimed, IInv, RowFollowsOwner, Early
  <2>4. row[c].state \in RowStates
    BY <1>3, <2>1 DEF IInv, TypeOK, Rows
  <2>5. QED
    BY <2>2, <2>3, <2>4 DEF RowStates, Ended
<1>4. IInv /\ Inv /\ [Next]_vars =>
        [\A c \in Inbound : leg[c] # "dropped" /\ leg'[c] = "dropped" =>
           pc[c] = "reread" /\ Ended(c)]_vars
  BY <1>3
<1>5. QED
  BY <1>1, <1>2, <1>4, Invariance, PTL DEF Spec, DroppedOnRefusal

(* Without a crash the process does not go through a start.                 *)
NeverDown == up \in {"up", "stopping"} /\ sweep = {}

(* An end has begun a teardown and has not met the owner in its set-up.     *)
EndedIsTornDown == \A c \in Calls : Ended(c) => td[c] # "none" /\ pc[c] \notin SetUpLabels

(* What an ended call still has, its teardown has still to take away: the   *)
(* participant, ...                                                         *)
PartIsRemoved == \A c \in part : Ended(c) => td[c] \in {"signal", "media"}

(* ... the membership, ...                                                  *)
MemberIsRetracted == \A c \in member : Ended(c) => td[c] \in {"signal", "media", "member"}

(* ... and the ring notification, which it has to know to redact it.        *)
RingIsRedacted ==
  \A c \in Calls : ring[c] = "live" =>
    IF Ended(c) THEN td[c] = "signal" /\ c \in notifies
                ELSE c \in notifies \/ pc[c] = "remember"

(* How a step of a bridge that does not crash changes these: each is set by *)
(* the owner in its set-up, and taken away by its step of the teardown.     *)
LeftoverMove(d) ==
  /\ d \in part' => d \in part \/ pc[d] = "bridge"
  /\ d \in member' => d \in member \/ pc[d] \in SetUpLabels
  /\ ring'[d] = "live" => ring[d] = "live" \/ (pc[d] = "notify" /\ pc'[d] = "remember")
  /\ pc[d] = "remember" => pc'[d] = "remember" \/ d \in notifies'
  /\ d \in notifies => d \in notifies' \/ td[d] = "signal"

(* How its teardown goes on.                                                *)
TeardownMove(d) ==
  /\ td[d] # "none" => td'[d] # "none"
  /\ td[d] = "signal" =>
       (td'[d] = "signal" /\ (d \in notifies => d \in notifies')) \/ SignalEnd(d)
  /\ td[d] = "media" => td'[d] = "media" \/ RemoveMedia(d)
  /\ td[d] = "member" => td'[d] = "member" \/ RetractMembership(d)

(* Every step is such a move ...                                            *)
LEMMA LeftoverMoves ==
  ASSUME "crash" \notin Events, TypeOK, [Next]_vars
  PROVE  \A d \in Calls : LeftoverMove(d)
<1> DEFINE Moves == \A d \in Calls : LeftoverMove(d)
<1> USE DEF LeftoverMove, SetUpLabels, Goto, Return, matrix, media, waiters, memory, clock, ends, process
<1>0. /\ pc \in [Calls -> OwnerStates]
      /\ ring \in [Calls -> {"none", "live", "lost", "redacted"}]
  BY DEF TypeOK
<1>1. ASSUME NEW c \in Calls, SetUp(c) PROVE Moves
  BY <1>0, <1>1 DEF SetUp, LookUp, Insert, PublishMembership, SendNotification,
     RememberNotification, AfterRinging
<1>2. ASSUME NEW c \in Calls, InboundOwner(c) PROVE Moves
  BY <1>0, <1>2 DEF InboundOwner, AnswerInbound, RereadRefused, HearEnded, HearDecline,
     HearHangup, RingTimeout, HearShutdown, AnswerLeg, LeaveHeld
<1>3. ASSUME NEW c \in Calls, OutboundOwner(c) PROVE Moves
  BY <1>0, <1>3 DEF OutboundOwner, SendInvite, Transition
<1>4. ASSUME NEW c \in Calls, Claimed(c) PROVE Moves
  BY <1>0, <1>4 DEF Claimed, CreateParticipant, MarkSeen, Republish, OwnerEnds, MediaFails
<1>5. ASSUME NEW c \in Calls, Environment(c) PROVE Moves
  BY <1>0, <1>5 DEF Environment, HandleInboundCall, StartDial, InviteAnswered, InviteRefused,
     LegEnds, ParticipantLeaves, RowGrowsLate, RowExpires
<1>6. CASE Process
  BY <1>0, <1>6 DEF Process, Stop, Crash, Start, Started, SweepStale, Happens
<1>7. ASSUME NEW c \in Calls, Teardown(c) \/ Watch(c) PROVE Moves
  BY <1>0, <1>7 DEF Teardown, SignalEnd, RemoveMedia, RetractMembership,
     Watch, WatchStale, WatchParticipant, WatchFails, WatchAbsent
<1>8. CASE Handlers
  BY <1>8 DEF Handlers, UserJoins, UserLeaves, Decline, HandlerEnds
<1>9. CASE WatchList \/ UNCHANGED vars
  BY <1>9 DEF WatchList, vars
<1>10. QED
  BY <1>1, <1>2, <1>3, <1>4, <1>5, <1>6, <1>7, <1>8, <1>9 DEF Next, Owner

(* ... and such a step of the teardown.                                     *)
LEMMA TeardownMoves ==
  ASSUME "crash" \notin Events, TypeOK, TeardownFollowsEnd, [Next]_vars
  PROVE  \A d \in Calls : TeardownMove(d)
<1> DEFINE Moves == \A d \in Calls : TeardownMove(d)
<1>0. td \in [Calls -> {"none", "signal", "media", "member", "done"}]
  BY DEF TypeOK
<1>1. CASE UNCHANGED <<td, notifies>>
  BY <1>1 DEF TeardownMove
<1>2. ASSUME NEW c \in Calls, NEW kind, NEW state, TryEnd(c, kind, state), UNCHANGED notifies
      PROVE  Moves
  <2>1. EndWins(c) => td[c] = "none"
    BY DEF EndWins, TeardownFollowsEnd
  <2>2. QED
    BY <1>0, <1>2, <2>1 DEF TryEnd, EndUntold, EndCall, ends, TeardownMove
<1>3. ASSUME NEW c \in Calls, SignalEnd(c) PROVE Moves
  <2>1. /\ td[c] = "signal" /\ td'[c] = "media"
        /\ \A d \in Calls \ {c} : td'[d] = td[d] /\ (d \in notifies => d \in notifies')
    BY <1>0, <1>3 DEF SignalEnd
  <2>2. QED
    BY <1>3, <2>1 DEF TeardownMove
<1>4. ASSUME NEW c \in Calls, RemoveMedia(c) PROVE Moves
  <2>1. /\ td[c] = "media" /\ td'[c] = "member" /\ notifies' = notifies
        /\ \A d \in Calls \ {c} : td'[d] = td[d]
    BY <1>0, <1>4 DEF RemoveMedia
  <2>2. QED
    BY <1>4, <2>1 DEF TeardownMove
<1>5. ASSUME NEW c \in Calls, RetractMembership(c) PROVE Moves
  <2>1. /\ td[c] = "member" /\ td'[c] = "done" /\ notifies' = notifies
        /\ \A d \in Calls \ {c} : td'[d] = td[d]
    BY <1>0, <1>5 DEF RetractMembership, memory
  <2>2. QED
    BY <1>5, <2>1 DEF TeardownMove
<1> USE DEF memory, ends
<1>6. ASSUME NEW c \in Calls, SetUp(c) PROVE Moves
  <2>1. ASSUME LookUp(c) PROVE Moves
    BY <1>1, <1>2, <2>1 DEF LookUp, TryEnd, Newest, ActiveIn, Active
  <2>2. ASSUME RememberNotification(c) PROVE Moves
    BY <2>2 DEF RememberNotification, TeardownMove
  <2>3. QED
    BY <1>1, <1>6, <2>1, <2>2 DEF SetUp, Insert, PublishMembership, SendNotification
<1>7. ASSUME NEW c \in Calls, InboundOwner(c) \/ OutboundOwner(c) PROVE Moves
  BY <1>1, <1>7 DEF InboundOwner, AnswerInbound, RereadRefused, HearEnded, HearDecline,
     HearHangup, RingTimeout, HearShutdown, AnswerLeg, LeaveHeld,
     OutboundOwner, SendInvite, Transition
<1>8. ASSUME NEW c \in Calls, Claimed(c) PROVE Moves
  BY <1>1, <1>2, <1>8 DEF Claimed, CreateParticipant, MarkSeen, Republish, OwnerEnds
<1>9. ASSUME NEW c \in Calls, Watch(c) PROVE Moves
  BY <1>1, <1>2, <1>9 DEF Watch, WatchStale, WatchParticipant, WatchFails, WatchAbsent
<1>10. CASE Handlers
  <2>1. ASSUME NEW u, NEW room, UserJoins(u, room) \/ UserLeaves(u, room) PROVE Moves
    BY <1>1, <1>2, <2>1 DEF UserJoins, UserLeaves, TryEnd, Newest, ActiveIn, Active
  <2>2. ASSUME NEW p \in pend, HandlerEnds(p) PROVE Moves
    BY <1>2, <2>2 DEF HandlerEnds, TypeOK, PendingEnds
  <2>3. QED
    BY <1>1, <1>10, <2>1, <2>2 DEF Handlers, Decline
<1>11. ASSUME NEW c \in Calls, Environment(c) PROVE Moves
  BY <1>1, <1>11 DEF Environment, HandleInboundCall, StartDial, InviteAnswered, InviteRefused,
     LegEnds, ParticipantLeaves, RowGrowsLate, RowExpires
<1>12. CASE Process \/ WatchList \/ UNCHANGED vars
  BY <1>1, <1>12 DEF Process, Stop, Crash, Start, Started, SweepStale, WatchList, vars, Happens
<1>13. QED
  BY <1>3, <1>4, <1>5, <1>6, <1>7, <1>8, <1>9, <1>10, <1>11, <1>12 DEF Next, Owner, Teardown

(* No step brings the process down without a crash.                         *)
LEMMA NeverDownStep ==
  ASSUME "crash" \notin Events, NeverDown, [Next]_vars
  PROVE  NeverDown'
<1> USE DEF NeverDown, process
<1>1. ASSUME NEW c \in Calls, Owner(c) PROVE NeverDown'
  BY <1>1 DEF Owner, SetUp, LookUp, Insert, PublishMembership, SendNotification,
     RememberNotification, InboundOwner, AnswerInbound, RereadRefused, HearEnded, HearDecline,
     HearHangup, RingTimeout, HearShutdown, AnswerLeg, LeaveHeld, OutboundOwner, SendInvite,
     Transition, Claimed, CreateParticipant, MarkSeen, Republish, OwnerEnds
<1>2. ASSUME NEW c \in Calls, Teardown(c) \/ Watch(c) \/ Environment(c) PROVE NeverDown'
  BY <1>2 DEF Teardown, SignalEnd, RemoveMedia, RetractMembership, Watch, WatchStale,
     WatchParticipant, WatchFails, WatchAbsent, Environment, HandleInboundCall, StartDial,
     InviteAnswered, InviteRefused, LegEnds, ParticipantLeaves, RowGrowsLate, RowExpires
<1>3. CASE Handlers \/ WatchList \/ UNCHANGED vars
  BY <1>3 DEF Handlers, UserJoins, UserLeaves, Decline, HandlerEnds, WatchList, vars
<1>4. CASE Process
  BY <1>4 DEF Process, Stop, Crash, Start, Started, SweepStale, Happens
<1>5. QED
  BY <1>1, <1>2, <1>3, <1>4 DEF Next

(* What holds of an ended call as long as nobody ends one in its set-up.    *)
TornDownInv == NeverDown /\ EndedIsTornDown

(* What a step does that ends no call in its set-up and begins the teardown *)
(* of every call it ends.                                                   *)
CarefulNext ==
  /\ [Next]_vars
  /\ \A c \in Calls : Ending(c) => pc[c] \notin SetUpLabels /\ td'[c] = "signal"

(* The teardown begins with the end and meets no owner in its set-up.       *)
LEMMA TornDownStep ==
  ASSUME "crash" \notin Events, IInv, TornDownInv, CarefulNext
  PROVE  /\ TornDownInv'
         /\ \A d \in Calls : Ending(d) => td'[d] = "signal"
<1>0. TypeOK /\ Roles /\ RowFollowsOwner /\ TeardownFollowsEnd /\ NeverDown /\ [Next]_vars
  BY DEF IInv, TornDownInv, CarefulNext
<1>1. NeverDown'
  BY <1>0, NeverDownStep
<1>2. ASSUME NEW d \in Calls, Ending(d) PROVE td'[d] = "signal"
  BY <1>2 DEF CarefulNext
<1>3. ASSUME NEW d \in Calls, Ended(d)' PROVE td'[d] # "none" /\ pc'[d] \notin SetUpLabels
  <2>1. OwnerTurn(d) /\ TeardownMove(d) /\ RowMove(d)
    BY <1>0, OwnerTurns, TeardownMoves, RowMoves
  <2>2. row'[d].state # "bridged"
    BY <1>3 DEF Ended
  <2>3. CASE Ended(d)
    <3>1. td[d] # "none" /\ pc[d] \notin SetUpLabels /\ pc[d] # "insert"
      BY <1>0, <2>3 DEF TornDownInv, EndedIsTornDown, RowFollowsOwner, Early, Ended
    <3>2. QED
      BY <2>1, <2>2, <3>1 DEF OwnerTurn, TeardownMove
  <2>4. CASE ~Ended(d)
    <3>1. Ending(d)
      BY <1>3, <2>4 DEF Ended, Ending
    <3>2. row[d].state # "none"
      BY <1>3, <2>1 DEF RowMove, Ended
    <3>3. pc[d] \notin SetUpLabels /\ pc[d] # "insert"
      BY <1>0, <3>1, <3>2 DEF CarefulNext, RowFollowsOwner, Early
    <3>4. QED
      BY <1>2, <2>1, <2>2, <3>1, <3>3 DEF OwnerTurn
  <2>5. QED
    BY <2>3, <2>4
<1>4. QED
  BY <1>1, <1>2, <1>3 DEF TornDownInv, EndedIsTornDown

(* The participant of an ended call is still to be removed, ...             *)
LEMMA PartStep ==
  ASSUME "crash" \notin Events, "livekit" \notin Faults,
         IInv, TornDownInv, PartIsRemoved, CarefulNext
  PROVE  PartIsRemoved'
<1> SUFFICES ASSUME NEW d \in part', Ended(d)' PROVE td'[d] \in {"signal", "media"}
  BY DEF PartIsRemoved
<1>0. TypeOK /\ TeardownFollowsEnd /\ [Next]_vars /\ TypeOK' /\ d \in Calls
  BY StepIInv DEF IInv, CarefulNext, TypeOK
<1>1. LeftoverMove(d) /\ TeardownMove(d)
  BY <1>0, LeftoverMoves, TeardownMoves
<1>2. CASE ~Ended(d)
  BY <1>0, <1>2, TornDownStep DEF Ended, Ending
<1>3. CASE Ended(d)
  <2>1. d \in part
    BY <1>0, <1>1, <1>3 DEF LeftoverMove, TornDownInv, EndedIsTornDown, SetUpLabels
  <2>2. td[d] \in {"signal", "media"}
    BY <1>3, <2>1 DEF PartIsRemoved
  <2>3. ~RemoveMedia(d)
    BY DEF RemoveMedia, MayFail
  <2>4. SignalEnd(d) => td'[d] = "media"
    BY <1>0 DEF SignalEnd, TypeOK
  <2>5. QED
    BY <1>1, <2>2, <2>3, <2>4 DEF TeardownMove
<1>4. QED
  BY <1>2, <1>3

(* ... its membership still to be retracted, ...                            *)
LEMMA MemberStep ==
  ASSUME "crash" \notin Events, "matrix" \notin Faults,
         IInv, TornDownInv, MemberIsRetracted, CarefulNext
  PROVE  MemberIsRetracted'
<1> SUFFICES ASSUME NEW d \in member', Ended(d)' PROVE td'[d] \in {"signal", "media", "member"}
  BY DEF MemberIsRetracted
<1>0. TypeOK /\ TeardownFollowsEnd /\ [Next]_vars /\ TypeOK' /\ d \in Calls
  BY StepIInv DEF IInv, CarefulNext, TypeOK
<1>1. LeftoverMove(d) /\ TeardownMove(d)
  BY <1>0, LeftoverMoves, TeardownMoves
<1>2. CASE ~Ended(d)
  BY <1>0, <1>2, TornDownStep DEF Ended, Ending
<1>3. CASE Ended(d)
  <2>1. d \in member
    BY <1>0, <1>1, <1>3 DEF LeftoverMove, TornDownInv, EndedIsTornDown
  <2>2. td[d] \in {"signal", "media", "member"}
    BY <1>3, <2>1 DEF MemberIsRetracted
  <2>3. ~RetractMembership(d)
    BY DEF RetractMembership, MayFail
  <2>4. (SignalEnd(d) => td'[d] = "media") /\ (RemoveMedia(d) => td'[d] = "member")
    BY <1>0 DEF SignalEnd, RemoveMedia, TypeOK
  <2>5. QED
    BY <1>1, <2>2, <2>3, <2>4 DEF TeardownMove
<1>4. QED
  BY <1>2, <1>3

(* ... and its ring notification still known and to be redacted.            *)
LEMMA RingStep ==
  ASSUME "crash" \notin Events, "matrix" \notin Faults,
         IInv, TornDownInv, RingIsRedacted, CarefulNext
  PROVE  RingIsRedacted'
<1> SUFFICES ASSUME NEW d \in Calls, ring'[d] = "live"
             PROVE  IF Ended(d)' THEN td'[d] = "signal" /\ d \in notifies'
                                 ELSE d \in notifies' \/ pc'[d] = "remember"
  BY DEF RingIsRedacted
<1>0. TypeOK /\ TeardownFollowsEnd /\ [Next]_vars /\ Roles /\ RowFollowsOwner
  BY DEF IInv, CarefulNext
<1>1. LeftoverMove(d) /\ TeardownMove(d) /\ RowMove(d)
  BY <1>0, LeftoverMoves, TeardownMoves, RowMoves
<1>2. CASE Ended(d)
  <2>1. ring[d] = "live"
    BY <1>1, <1>2 DEF LeftoverMove, TornDownInv, EndedIsTornDown, SetUpLabels
  <2>2. td[d] = "signal" /\ d \in notifies
    BY <1>2, <2>1 DEF RingIsRedacted
  <2>3. ~SignalEnd(d)
    BY <1>0, <2>2 DEF SignalEnd, MayFail, TypeOK
  <2>4. QED
    BY <1>1, <1>2, <2>2, <2>3 DEF TeardownMove, RowMove, Ended
<1>3. CASE ~Ended(d)
  <2>1. td[d] = "none"
    BY <1>0, <1>3 DEF TeardownFollowsEnd, Ended
  <2>2. CASE ~Ended(d)'
    BY <1>1, <1>3, <2>1, <2>2 DEF LeftoverMove, RingIsRedacted
  <2>3. CASE Ended(d)'
    <3>1. Ending(d) /\ td'[d] = "signal" /\ pc[d] \notin SetUpLabels
      BY <1>3, <2>3, TornDownStep DEF Ended, Ending, CarefulNext
    <3>2. ring[d] = "live" /\ d \in notifies
      BY <1>1, <1>3, <3>1 DEF LeftoverMove, RingIsRedacted, SetUpLabels
    <3>3. QED
      BY <1>1, <2>1, <2>3, <3>1, <3>2 DEF LeftoverMove
  <2>4. QED
    BY <2>2, <2>3
<1>4. QED
  BY <1>2, <1>3

(* The steps of a behaviour in which nobody ends a call in its set-up, nor  *)
(* unknowingly.                                                             *)
LEMMA CarefulStep ==
  /\ [Next]_vars
  /\ [\A c \in Calls : Ending(c) => pc[c] \notin SetUpLabels]_vars
  /\ [\A c \in Calls : Ending(c) => td'[c] = "signal"]_vars
  => CarefulNext
BY DEF CarefulNext, Ending, vars

(* Of the calls that are over and settled none has a participant left in    *)
(* LiveKit, whoever ended it (an owner, a leave, a decline, the watcher, a  *)
(* stale row's finder), if LiveKit answers: "nothing else removes it"       *)
(* (endCallAs) bites in two windows only, an end in the set-up, and an End  *)
(* that was carried out and reported to have failed.                        *)
THEOREM OrphanNeedsEndInSetUp ==
  ASSUME "crash" \notin Events, "livekit" \notin Faults
  PROVE  Spec /\ EndsOutsideSetUp /\ EndsAreTold => []NoOrphanParticipant
<1> DEFINE Inv == TornDownInv /\ PartIsRemoved
<1>1. Init => Inv
  BY DEF Init, TornDownInv, NeverDown, EndedIsTornDown, PartIsRemoved, Ended, NoRow
<1>2. IInv /\ Inv /\ CarefulNext => Inv'
  BY TornDownStep, PartStep
<1>3. Inv => NoOrphanParticipant
  BY DEF TornDownInv, EndedIsTornDown, PartIsRemoved, NoOrphanParticipant, Settled
<1>4. QED
  BY <1>1, <1>2, <1>3, CarefulStep, Invariance, PTL DEF Spec, EndsOutsideSetUp, EndsAreTold

(* If Matrix answers too, nothing at all is left behind.                    *)
THEOREM LeftoverNeedsEndInSetUp ==
  ASSUME "crash" \notin Events, "livekit" \notin Faults, "matrix" \notin Faults
  PROVE  Spec /\ EndsOutsideSetUp /\ EndsAreTold => []EndedIsClean
<1> DEFINE Inv == TornDownInv /\ PartIsRemoved /\ MemberIsRetracted /\ RingIsRedacted
<1>1. Init => Inv
  BY DEF Init, TornDownInv, NeverDown, EndedIsTornDown, PartIsRemoved, MemberIsRetracted,
         RingIsRedacted, Ended, NoRow
<1>2. IInv /\ Inv /\ CarefulNext => Inv'
  BY TornDownStep, PartStep, MemberStep, RingStep
<1>3. Inv => EndedIsClean
  BY DEF TornDownInv, EndedIsTornDown, PartIsRemoved, MemberIsRetracted, RingIsRedacted,
         EndedIsClean, Settled
<1>4. QED
  BY <1>1, <1>2, <1>3, CarefulStep, Invariance, PTL DEF Spec, EndsOutsideSetUp, EndsAreTold

------------------------------------------------------------------------------
(* An environment in which only owners end calls that are set up            *)

(* Users join and decline, callers and participants hang up, the bridge is  *)
(* told to stop; nobody declines a call that a command places.              *)
UsersOnly ==
  /\ Events \subseteq {"join", "decline", "hangup", "depart", "stop"}
  /\ "decline" \notin Events \/ Commanded = {}

(* No row grows stale, the watcher does not run, and a decision to end a    *)
(* call is only made for one whose owner has returned: an owner that waits  *)
(* hears a decline itself.                                                  *)
OwnersDecide ==
  /\ late = {} /\ expired = {} /\ \A c \in Calls : watch[c] = "idle"
  /\ \A p \in pend : pc[p.call] = "done"

OnlyRinging == \A c \in Calls : pc[c] \in {"notify", "remember"} \/ c \in notifies => Rings(c)

(* Every step leaves the decision there.                                    *)
LEMMA OwnersDecideStep ==
  ASSUME UsersOnly, IInv, OwnersDecide, OnlyRinging, [Next]_vars
  PROVE  OwnersDecide' /\ OnlyRinging'
<1> DEFINE Decided == /\ late' = {} /\ expired' = {} /\ \A c \in Calls : watch'[c] = "idle"
                      /\ \A p \in pend' : p \in pend \/ pc[p.call] = "done"
                      /\ \A c \in notifies' : c \in notifies \/ pc[c] = "remember"
<1> USE DEF matrix, media, waiters, memory, clock, ends, process
<1>0. TypeOK /\ Roles /\ RowFollowsOwner /\ TypeOK' /\ \A d \in Calls : OwnerTurn(d)
  BY StepIInv, OwnerTurns DEF IInv
<1>1. ASSUME NEW c \in Calls, Owner(c) PROVE Decided
  BY <1>1 DEF OwnersDecide, Owner, SetUp, LookUp, Insert, PublishMembership, SendNotification,
     RememberNotification, InboundOwner, AnswerInbound, RereadRefused, HearEnded, HearDecline,
     HearHangup, RingTimeout, HearShutdown, AnswerLeg, LeaveHeld, OutboundOwner, SendInvite,
     Transition, Claimed, CreateParticipant, MarkSeen, Republish, OwnerEnds
<1>2. ASSUME NEW c \in Calls, Teardown(c) \/ Watch(c) PROVE Decided
  BY <1>2 DEF OwnersDecide, Teardown, SignalEnd, RemoveMedia, RetractMembership, Watch, WatchStale,
     WatchParticipant, WatchFails, WatchAbsent
<1>3. ASSUME NEW c \in Calls, Environment(c) PROVE Decided
  BY <1>3 DEF OwnersDecide, UsersOnly, Happens, Environment, HandleInboundCall, StartDial,
     InviteAnswered, InviteRefused, LegEnds, ParticipantLeaves, RowGrowsLate, RowExpires
<1>4. ASSUME Handlers PROVE Decided
  <2>1. ASSUME NEW c \in Calls, NEW u, Decline(u, c) PROVE Decided
    <3>1. CASE HasWaiters(c)
      BY <2>1, <3>1 DEF Decline, OwnersDecide
    <3>2. CASE ~HasWaiters(c)
      <4>1. c \in Inbound
        BY <2>1 DEF Decline, Happens, UsersOnly, OnlyRinging, Rings
      <4>2. row[c].state = "ringing"
        BY <2>1, <3>2 DEF Decline
      <4>3. pc[c] = "done"
        BY <1>0, <3>2, <4>1, <4>2 DEF HasWaiters, RowFollowsOwner, Early
      <4>4. QED
        BY <2>1, <3>2, <4>3 DEF Decline, OwnersDecide
    <3>3. QED
      BY <3>1, <3>2
  <2>2. ASSUME NEW u, NEW room, UserJoins(u, room) PROVE Decided
    BY <2>2 DEF UserJoins, OwnersDecide
  <2>3. ASSUME NEW u, NEW room, UserLeaves(u, room) PROVE Decided
    BY <2>3 DEF UserLeaves, UsersOnly, Happens
  <2>4. ASSUME NEW p \in pend, HandlerEnds(p) PROVE Decided
    BY <2>4 DEF HandlerEnds, OwnersDecide
  <2> HIDE DEF Decided
  <2>5. QED
    BY <1>4, <2>1, <2>2, <2>3, <2>4 DEF Handlers
<1>5. ASSUME Stop \/ Started \/ UNCHANGED vars PROVE Decided
  BY <1>5 DEF OwnersDecide, Stop, Started, vars
<1>6. ASSUME Crash \/ WatchList PROVE Decided
  BY <1>6 DEF UsersOnly, Happens, Crash, WatchList
<1>7. ASSUME Start PROVE Decided
  BY <1>7 DEF OwnersDecide, Start
<1>8. ASSUME NEW c \in Calls, SweepStale(c) PROVE Decided
  BY <1>8 DEF OwnersDecide, SweepStale
<1>9. Decided
  <2> HIDE DEF Decided
  <2> QED
    BY <1>1, <1>2, <1>3, <1>4, <1>5, <1>6, <1>7, <1>8 DEF Next, Process
<1>10. OwnersDecide'
  <2>1. ASSUME NEW p \in pend' PROVE pc'[p.call] = "done"
    <3>1. pc[p.call] = "done" /\ p.call \in Calls
      BY <1>0, <1>9, <2>1 DEF OwnersDecide, TypeOK, PendingEnds
    <3>2. QED
      BY <1>0, <3>1 DEF OwnerTurn
  <2>2. QED
    BY <1>9, <2>1 DEF OwnersDecide
<1>11. OnlyRinging'
  BY <1>0, <1>9 DEF OnlyRinging, OwnerTurn, Rings
<1>12. QED
  BY <1>10, <1>11

(* While users only join and decline, callers and participants hang up and  *)
(* the bridge stops, no call ends in its set-up ...                         *)
THEOREM OwnersEndOutsideSetUp ==
  ASSUME UsersOnly
  PROVE  Spec => EndsOutsideSetUp
<1> DEFINE Inv == NeverDown /\ OwnersDecide /\ OnlyRinging
<1>1. Init => Inv
  BY DEF Init, NeverDown, OwnersDecide, OnlyRinging
<1>2. "crash" \notin Events
  BY DEF UsersOnly
<1>3. IInv /\ Inv /\ [Next]_vars => Inv'
  BY <1>2, NeverDownStep, OwnersDecideStep
<1>4. ASSUME IInv, Inv, [Next]_vars, NEW c \in Calls, Ending(c) PROVE pc[c] \notin SetUpLabels
  <2>1. EndCause(c)
    BY <1>4, EndCauses DEF IInv
  <2>2. QED
    BY <1>4, <2>1 DEF EndCause, NeverDown, OwnersDecide, EndLabels, SetUpLabels
<1>5. IInv /\ Inv /\ [Next]_vars => [\A c \in Calls : Ending(c) => pc[c] \notin SetUpLabels]_vars
  BY <1>4
<1>6. QED
  BY <1>1, <1>3, <1>5, Invariance, PTL DEF Spec, EndsOutsideSetUp

(* ... so the errors of a call table or of the SIP server, at any statement *)
(* or request of any number of calls, leave nothing of an ended call        *)
(* behind: the row is "rolled back on every error path" (beginInboundCall). *)
(* Of the statements that are carried out and reported to have failed only  *)
(* an End is excepted, which is what the roll-back itself is.               *)
THEOREM ErrorsLeaveNothing ==
  ASSUME UsersOnly, "livekit" \notin Faults, "matrix" \notin Faults
  PROVE  Spec /\ EndsAreTold => []EndedIsClean
<1>1. "crash" \notin Events
  BY DEF UsersOnly
<1>2. Spec => EndsOutsideSetUp
  BY OwnersEndOutsideSetUp
<1>3. Spec /\ EndsOutsideSetUp /\ EndsAreTold => []EndedIsClean
  BY <1>1, LeftoverNeedsEndInSetUp
<1>4. QED
  BY <1>2, <1>3, PTL

------------------------------------------------------------------------------
(* Who ends a call that is up *)

(* A call that is up is somebody's.                                         *)
BridgedHasUser == \A c \in Calls : row[c].state = "bridged" => row[c].user # NoUser

(* A copy read while the call was up was read for its user, and stays right.*)
BridgedCopyIsTheirs ==
  \A p \in pend : p.state = "bridged" =>
    row[p.call].state \in {"bridged", "ended"} /\ p.by = row[p.call].user

(* A call that was up is so no more only by its end, which keeps its user;  *)
(* and nobody gets to it without one.                                       *)
LEMMA BridgedMoves ==
  ASSUME TypeOK, Roles, RowFollowsOwner, [Next]_vars, NEW d \in Calls
  PROVE  /\ row[d].state \in {"bridged", "ended"} =>
              row'[d].state \in {"bridged", "ended"} /\ row'[d].user = row[d].user
         /\ row'[d].state = "bridged" =>
              row'[d].user # NoUser \/ (row[d].state = "bridged" /\ row'[d].user = row[d].user)
<1>0. row \in [Calls -> Rows]
  BY DEF TypeOK
<1>1. CASE UNCHANGED row
  BY <1>1
<1>2. CASE InsertsRow
  BY <1>0, <1>2 DEF InsertsRow, InsertRow, RowFollowsOwner, Early, Rows
<1>3. CASE AnswersRow
  BY <1>0, <1>3, CallsAssumption DEF AnswersRow, AnswerRow, AnswerWins, Rows
<1>4. CASE TransitionsRow
  <2>1. PICK c \in Calls : pc[c] = "transition" /\ TransitionRow(c)
    BY <1>4 DEF TransitionsRow
  <2>2. row[c].user # NoUser
    BY <2>1 DEF Roles, RowFollowsOwner, InboundOnly, OutboundOnly, Early, Outbound
  <2>3. QED
    BY <1>0, <2>1, <2>2 DEF TransitionRow, TransitionWins, Rows
<1>5. CASE EndsRow
  BY <1>0, <1>5 DEF EndsRow, EndRow, EndWins, Rows
<1>6. CASE EndAllRows
  BY <1>0, <1>6 DEF EndAllRows, Active, Rows
<1>7. QED
  BY <1>1, <1>2, <1>3, <1>4, <1>5, <1>6, RowStep

(* What is decided on is decided on a copy that is right at that moment, by *)
(* somebody the call is not kept from.                                      *)
LEMMA PendMoves ==
  ASSUME TypeOK, [Next]_vars, NEW p \in pend' \ pend
  PROVE  /\ p.call \in Calls /\ UNCHANGED row
         /\ p.state = "ringing" \/ (p.state = row[p.call].state /\ row[p.call].user \in {NoUser, p.by})
<1> DEFINE Known ==
         /\ p.call \in Calls /\ UNCHANGED row
         /\ p.state = "ringing"
              \/ (p.state = row[p.call].state /\ row[p.call].user \in {NoUser, p.by})
<1>1. CASE UNCHANGED pend
  BY <1>1
<1>2. ASSUME NEW c \in Calls, Owner(c) \/ Teardown(c) \/ Watch(c) \/ Environment(c) PROVE Known
  BY <1>1, <1>2 DEF Owner, SetUp, LookUp, Insert, PublishMembership, SendNotification,
     RememberNotification, InboundOwner, AnswerInbound, RereadRefused, HearEnded, HearDecline,
     HearHangup, RingTimeout, HearShutdown, AnswerLeg, LeaveHeld, OutboundOwner, SendInvite,
     Transition, Claimed, CreateParticipant, MarkSeen, Republish, OwnerEnds, Teardown, SignalEnd,
     RemoveMedia, RetractMembership, Watch, WatchStale, WatchParticipant, WatchFails, WatchAbsent,
     Environment, HandleInboundCall, StartDial, InviteAnswered, InviteRefused, LegEnds,
     ParticipantLeaves, RowGrowsLate, RowExpires
<1>3. CASE Handlers
  <2>1. ASSUME NEW u, NEW room, UserJoins(u, room) PROVE Known
    BY <1>1, <2>1 DEF UserJoins
  <2>2. ASSUME NEW u, NEW room, UserLeaves(u, room) PROVE Known
    BY <1>1, <2>2 DEF UserLeaves, Newest, ActiveIn, Active
  <2>3. ASSUME NEW u, NEW c \in Calls, Decline(u, c) PROVE Known
    BY <1>1, <2>3 DEF Decline
  <2>4. ASSUME NEW q \in pend, HandlerEnds(q) PROVE Known
    BY <2>4 DEF HandlerEnds
  <2>5. QED
    BY <1>3, <2>1, <2>2, <2>3, <2>4 DEF Handlers
<1>4. CASE Process \/ WatchList \/ UNCHANGED vars
  BY <1>1, <1>4 DEF Process, Stop, Crash, Start, Started, SweepStale, WatchList, vars
<1>5. QED
  BY <1>2, <1>3, <1>4 DEF Next

(* A leave of somebody else ends a call that is up only by such a copy.     *)
BystanderHasOldCopy ==
  [][\A p \in pend :
       /\ p.kind = "plain" /\ p \notin pend'
       /\ Ending(p.call) /\ row[p.call].state = "bridged"
       => p.by = row[p.call].user \/ p.state = "ringing"]_vars

(* "Once a user is on the call, only their leave ends it" (onMatrixLeftCall)*)
(* holds of every leave that was decided on since: the one that was decided *)
(* on while the call rang, and lost a race against the claim of another     *)
(* user, is all there is to the divergence.                                 *)
THEOREM OnlyOldLeavesEndForOthers == Spec => BystanderHasOldCopy
<1> DEFINE Inv == BridgedHasUser /\ BridgedCopyIsTheirs
<1>1. Init => Inv
  BY DEF Init, NoRow, BridgedHasUser, BridgedCopyIsTheirs
<1>2. IInv /\ Inv /\ [Next]_vars => Inv'
  <2> SUFFICES ASSUME IInv, Inv, [Next]_vars PROVE Inv'
    OBVIOUS
  <2>1. BridgedHasUser'
    BY BridgedMoves DEF IInv, BridgedHasUser
  <2>2. ASSUME NEW p \in pend', p.state = "bridged"
        PROVE  row'[p.call].state \in {"bridged", "ended"} /\ p.by = row'[p.call].user
    <3>1. CASE p \in pend
      <4>1. p.call \in Calls
        BY <3>1 DEF IInv, TypeOK, PendingEnds
      <4>2. QED
        BY <2>2, <3>1, <4>1, BridgedMoves DEF IInv, BridgedCopyIsTheirs
    <3>2. CASE p \notin pend
      BY <2>2, <3>2, PendMoves DEF IInv, BridgedHasUser
    <3>3. QED
      BY <3>1, <3>2
  <2>3. QED
    BY <2>1, <2>2 DEF BridgedCopyIsTheirs
<1>3. IInv /\ Inv /\ [Next]_vars =>
        [\A p \in pend :
           /\ p.kind = "plain" /\ p \notin pend'
           /\ Ending(p.call) /\ row[p.call].state = "bridged"
           => p.by = row[p.call].user \/ p.state = "ringing"]_vars
  BY DEF IInv, TypeOK, PendingEnds, BridgedCopyIsTheirs
<1>4. QED
  BY <1>1, <1>2, <1>3, Invariance, PTL DEF Spec, BystanderHasOldCopy

(* Nobody is marked absent who is in the room, as long as nobody arrives.   *)
AbsentIsAway == \A c \in Calls : watch[c] = "absent" => c \notin part

ArrivalsOutsideChecks ==
  [][\A c \in Calls : c \in part' \ part => watch[c] # "absent"]_vars

(* A call becomes absent by an answer of LiveKit that has no participant.   *)
LEMMA WatchMoves ==
  ASSUME TypeOK, [Next]_vars
  PROVE  \A c \in Calls : watch'[c] = "absent" =>
           watch[c] = "absent" \/ (c \notin part /\ UNCHANGED part)
<1> DEFINE Moves == \A c \in Calls : watch'[c] = "absent" =>
                      watch[c] = "absent" \/ (c \notin part /\ UNCHANGED part)
<1>0. watch \in [Calls -> {"idle", "ringing", "bridged", "absent"}]
  BY DEF TypeOK
<1>1. CASE UNCHANGED watch
  BY <1>1
<1>2. ASSUME NEW c \in Calls, Owner(c) \/ Teardown(c) \/ Environment(c) PROVE Moves
  BY <1>1, <1>2 DEF Owner, SetUp, LookUp, Insert, PublishMembership, SendNotification,
     RememberNotification, InboundOwner, AnswerInbound, RereadRefused, HearEnded, HearDecline,
     HearHangup, RingTimeout, HearShutdown, AnswerLeg, LeaveHeld, OutboundOwner, SendInvite,
     Transition, Claimed, CreateParticipant, MarkSeen, Republish, OwnerEnds, Teardown, SignalEnd,
     RemoveMedia, RetractMembership, Environment, HandleInboundCall, StartDial, InviteAnswered,
     InviteRefused, LegEnds, ParticipantLeaves, RowGrowsLate, RowExpires
<1>3. ASSUME NEW c \in Calls, Watch(c) PROVE Moves
  <2>1. ASSUME WatchParticipant(c) PROVE Moves
    <3>1. /\ UNCHANGED part
          /\ watch' = [watch EXCEPT ![c] =
               IF watch[c] = "bridged" /\ c \notin part THEN "absent" ELSE "idle"]
      BY <2>1 DEF WatchParticipant, media
    <3>2. QED
      BY <1>0, <3>1
  <2>2. ASSUME WatchStale(c) \/ WatchFails(c) \/ WatchAbsent(c) PROVE Moves
    BY <1>0, <2>2 DEF WatchStale, WatchFails, WatchAbsent
  <2>3. QED
    BY <1>3, <2>1, <2>2 DEF Watch
<1>4. CASE Handlers
  BY <1>1, <1>4 DEF Handlers, UserJoins, UserLeaves, Decline, HandlerEnds
<1>5. CASE WatchList
  BY <1>5 DEF WatchList, Active
<1>6. CASE Process \/ UNCHANGED vars
  BY <1>1, <1>6 DEF Process, Stop, Crash, Start, Started, SweepStale, vars
<1>7. QED
  BY <1>2, <1>3, <1>4, <1>5, <1>6 DEF Next

(* A pass ends a call whose participant is in the room only if that one     *)
(* arrived within the pass, between the answer of LiveKit and the look at   *)
(* the seen map (checkParticipants).                                        *)
THEOREM WatcherErrsOnlyOnArrival ==
  Spec /\ ArrivalsOutsideChecks => WatcherEndsOnlyDeparted
<1>1. Init => AbsentIsAway
  BY DEF Init, AbsentIsAway
<1>2. ASSUME IInv, AbsentIsAway, [Next]_vars,
             [\A c \in Calls : c \in part' \ part => watch[c] # "absent"]_vars
      PROVE  AbsentIsAway'
  <2>1. TypeOK
    BY <1>2 DEF IInv
  <2>2. QED
    BY <1>2, <2>1, WatchMoves DEF AbsentIsAway, vars, media
<1>3. AbsentIsAway /\ [Next]_vars =>
        [\A c \in Calls : watch[c] = "absent" /\ watch'[c] = "idle" /\ Ending(c)
           => c \notin part]_vars
  BY DEF AbsentIsAway
<1>4. QED
  BY <1>1, <1>2, <1>3, Invariance, PTL DEF Spec, WatcherEndsOnlyDeparted, ArrivalsOutsideChecks
================================================================================
