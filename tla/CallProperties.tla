--------------------------- MODULE CallProperties ----------------------------
(***************************************************************************)
(* What the call subsystem is for, as properties of module Calls.  The     *)
(* comment of each names the code, comment or contract it is taken from.   *)
(***************************************************************************)
EXTENDS Calls

(* No goroutine has anything left to do for the call; one that holds an     *)
(* answered leg only waits for that leg to end, and returns.                *)
Settled(c) ==
  /\ pc[c] \in {"idle", "held", "done"}
  /\ td[c] \in {"none", "done"}
  /\ \A p \in pend : p.call # c

Ended(c) == row[c].state = "ended"

Answered(c) == leg[c] \in {"answered", "over"}

Ending(c) == row[c].state # "ended" /\ row'[c].state = "ended"

------------------------------------------------------------------------------
(* The claim on a conference *)

(* Of the inbound legs of one phone call at most one is up at a time: Answer *)
(* is a claim on the conference, in one statement (call.go, Answer).        *)
OneInboundBridged ==
  \A c, d \in Inbound :
    /\ ConferenceOf[c] = ConferenceOf[d]
    /\ row[c].state = "bridged" /\ row[d].state = "bridged"
    => c = d

(* "Nothing reaches LiveKit until a Matrix user joins" (HandleInboundCall): *)
(* a participant belongs to a call a user has claimed or dialled, and so    *)
(* does a 200.                                                              *)
MediaOnlyForClaimant ==
  \A c \in Calls : c \in part \/ Answered(c) => row[c].user # NoUser

(* "Media comes before the 200 so the caller is never connected to a        *)
(* conference nobody can hear" (answerInbound): while a call is up and its  *)
(* leg answered, livekit-sip is in the room.                                *)
AnsweredIsConnected ==
  \A c \in Inbound : leg[c] = "answered" /\ row[c].state = "bridged" => c \in part

(* "sends a 200 on at most one leg per conference" (README, SIP contract).  *)
OneAnswerPerConference ==
  \A c, d \in Inbound :
    ConferenceOf[c] = ConferenceOf[d] /\ Answered(c) /\ Answered(d) => c = d

(* "There is at most one per room" (call.go, the active-call queries).      *)
OneActivePerRoom ==
  \A c, d \in Active : RoomOf(c) = RoomOf(d) => c = d

------------------------------------------------------------------------------
(* Ending a call *)

(* "only the one that actually moved the row tears it down" (endCallAs): a  *)
(* call leaves one record, and none if it was discarded as stale.           *)
RecordedOnce ==
  \A c \in Calls :
    records[c] = IF td[c] = "done" /\ verdict[c] # "stale" THEN 1 ELSE 0

(* A call that is over and settled leaves nothing behind in its room or in  *)
(* LiveKit that the bridge knows of: the row is "rolled back on every error *)
(* path" (beginInboundCall) and teardown retracts the rest (endCallAs).     *)
EndedIsClean ==
  \A c \in Calls :
    Settled(c) /\ Ended(c) => c \notin member /\ c \notin part /\ ring[c] # "live"

(* "nothing else removes it" (endCallAs): of what a call leaves behind, the *)
(* participant is what keeps its caller in the conference.                  *)
NoOrphanParticipant == \A c \in Calls : Settled(c) /\ Ended(c) => c \notin part

(* The claim "is what makes this path the owner of the call -- answering    *)
(* first and recording it afterwards is how a call that teardown had        *)
(* already finished still got reported as answered" (answerInbound).        *)
NoAnswerAfterEnd ==
  [][\A c \in Inbound : leg[c] = "ringing" /\ leg'[c] = "answered" => ~Ended(c)]_vars

(* The control leg of a call that is over has been sent its BYE: the        *)
(* teardown hangs it up (endCallAs) or the dialling goroutine, having lost  *)
(* its transition, does (dial).  Whether that BYE succeeds is another       *)
(* matter: it is sent once, and a leg whose BYE failed is let go of.        *)
EndedLegIsHungUp ==
  \A c \in Outbound : Settled(c) /\ Ended(c) => leg[c] # "up" /\ c \notin legs

(* And the leg is gone, where the SIP server takes the BYE.                 *)
EndedLegIsGone ==
  \A c \in Outbound : Settled(c) /\ Ended(c) => leg[c] \notin {"up", "left"}

(* "every failure here ends with a definitive status rather than a dangling *)
(* leg" (HandleInboundCall).                                                *)
NoDanglingLeg == \A c \in Inbound : leg[c] # "dropped"

(* "a decline racing the callee picking up loses rather than tearing down a *)
(* live call" (declineOwnCall).                                             *)
DeclineSparesLiveCalls ==
  [][\A c \in Calls : Ending(c) /\ row[c].state = "bridged" => verdict'[c] # "declined"]_vars

(* "Once a user is on the call, only their leave ends it" (onMatrixLeft-    *)
(* Call): no leave of somebody else ends a call that is up.                 *)
OnlyTheirLeaveEnds ==
  [][\A p \in pend :
       /\ p.kind = "plain" /\ p \notin pend'
       /\ Ending(p.call) /\ row[p.call].state = "bridged"
       => p.by = row[p.call].user]_vars

(* The record and the counter are made from "the row as it was before it    *)
(* ended" (endCallAs): a call that was up is not reported as missed.        *)
AnsweredIsNotMissed ==
  [][\A c \in Calls : Ending(c) /\ row[c].state = "bridged"
       => verdict'[c] \notin {"missed", "elsewhere"}]_vars

(* "Absent before it was ever present means LiveKit has not caught up yet,  *)
(* not that the call ended" (checkParticipants): a pass ends no call whose  *)
(* participant is in the room.                                              *)
WatcherEndsOnlyDeparted ==
  [][\A c \in Calls : watch[c] = "absent" /\ watch'[c] = "idle" /\ Ending(c)
       => c \notin part]_vars

------------------------------------------------------------------------------
(* Progress *)

(* Every goroutine of the bridge runs on, timers fire, and the watcher polls. *)
OwnerFairness == \A c \in Calls : WF_vars(Owner(c)) /\ WF_vars(Teardown(c))

WatcherFairness == WF_vars(WatchList) /\ \A c \in Calls : WF_vars(Watch(c))

HandlerFairness == \A c \in Calls : WF_vars(\E p \in pend : p.call = c /\ HandlerEnds(p))

RestartFairness ==
  WF_vars(Start) /\ WF_vars(Started) /\ \A c \in Calls : WF_vars(SweepStale(c))

CancelFairness == \A c \in Calls : WF_vars(InviteCancelled(c))

AgeFairness == \A c \in Calls : WF_vars(RowGrowsLate(c))

FairSpec ==
  /\ Spec /\ OwnerFairness /\ WatcherFairness /\ HandlerFairness
  /\ RestartFairness /\ CancelFairness /\ AgeFairness

(* No leg rings for ever: a user, the caller, another end of the call or the *)
(* ring timeout releases it (waitForMatrix).                                *)
LegIsReleased == \A c \in Inbound : leg[c] = "ringing" ~> leg[c] # "ringing"

(* A call whose participant has left ends (runParticipantWatcher).          *)
DepartureEndsCall ==
  \A c \in Calls :
    row[c].state = "bridged" /\ pc[c] \in {"held", "done"} /\ c \notin part ~> Ended(c)

(* A row without an owner does not ring for ever, or no later call from the *)
(* same number could ring (activeCallByRoom, checkParticipants).            *)
OrphanRowIsDiscarded ==
  \A c \in Calls : row[c].state = "ringing" /\ pc[c] = "done" ~> Ended(c)

(* Without the context of the INVITE "a Matrix hangup during ringing is     *)
(* recorded but never reaches the SIP server" (inviteContext).              *)
HangupReachesPhone ==
  \A c \in Outbound : Ended(c) /\ leg[c] = "inviting" ~> leg[c] # "inviting"

(* What the last run left is swept at the start (sweepStaleMemberships).    *)
LastRunIsSwept ==
  \A c \in Calls : up = "down" /\ c \in Active ~> c \notin member /\ c \notin part

------------------------------------------------------------------------------
(* The table, whoever runs the statements, keeps its promise.               *)
Lifecycle == INSTANCE CallLifecycle WITH
  phase <- [c \in Calls |-> row[c].state],
  who <- [c \in Calls |-> row[c].user]

ImplementsLifecycle == Lifecycle!Spec
==============================================================================
