-------------------------------- MODULE Calls --------------------------------
(***************************************************************************)
(* The call subsystem (pkg/calls): the goroutine that owns each call, the  *)
(* Matrix event handlers, the participant watcher, the teardown that       *)
(* whoever ends a call runs, and stop, crash and restart of the bridge.    *)
(* An owner is the INVITE handler of an inbound leg or the goroutine that  *)
(* dials an outbound one.  One action is one stretch of code between two   *)
(* points where another goroutine can be observed: a statement on the call *)
(* table, a request to Matrix, LiveKit or the SIP server, or a channel.    *)
(***************************************************************************)
EXTENDS CallTable

CONSTANTS
  Commanded,   \* outbound calls placed with !dial, the others by call button
  MembersOf,   \* user -> the users in the portal rooms that user owns
  Faults,      \* services that may fail a request: "db", "matrix", "livekit", "sip"
  Events,      \* what the environment of this instance does, see EventKinds
  MaxCrashes   \* bound on the number of crashes

EventKinds == {"join", "leave", "decline", "hangup", "depart", "age",
               "watch", "stop", "crash"}

ASSUME CallsAssumption ==
  /\ Commanded \subseteq Calls \ Inbound
  /\ MembersOf \in [Users -> SUBSET Users]
  /\ Faults \subseteq {"db", "matrix", "livekit", "sip"}
  /\ Events \subseteq EventKinds
  /\ MaxCrashes \in Nat

VARIABLES
  member,    \* calls whose ghost RTC membership is in the room
  ring,      \* call -> its ring notification: "none", "live", "redacted", or
             \* "lost": in the room, though sending it was reported to have failed
  part,      \* calls whose livekit-sip participant is in the LiveKit room
  leg,       \* call -> its SIP control leg
  pc,        \* call -> where its owner goroutine is
  joined,    \* call -> the user buffered in its answer channel, or NoUser
  declined,  \* calls whose decline channel is closed
  ended,     \* calls whose ended channel is closed
  lost,      \* calls whose owner no longer listens to joins
  notifies,  \* calls the notification map knows
  seen,      \* calls whose participant the watcher has seen
  legs,      \* calls whose outbound leg is kept for teardown to hang up
  late,      \* calls created more than RingTimeout + ringSetupGrace ago
  expired,   \* calls bridged and not updated for MembershipExpiry
  pend,      \* ends decided by a handler and not carried out yet
  td,        \* call -> where the teardown of its only End winner is
  verdict,   \* call -> its outcome, "none" until it has been ended
  records,   \* call -> how many times its record was posted
  watch,     \* call -> what the watcher's current pass knows of it
  up,        \* the process: "up", "stopping", "down" or "starting"
  sweep,     \* calls the start-up sweep has still to tear down
  crashes    \* how many crashes there have been

matrix  == <<member, ring>>
media   == <<part, leg>>
waiters == <<joined, declined, ended, lost>>
memory  == <<notifies, seen, legs>>
clock   == <<late, expired>>
ends    == <<td, verdict, records>>
process == <<up, sweep, crashes>>

vars == <<row, matrix, media, pc, waiters, memory, clock, pend, ends, watch, process>>

OwnerStates == {"idle", "begin", "insert", "publish", "notify", "remember", "wait",
                "reread", "dial", "invite", "transition", "bridge", "mark",
                "republish", "answer", "held", "endPlain", "endDeclined",
                "endFailed", "endReject", "done"}

(* left: the bridge has sent its BYE and let go, and the BYE has failed.      *)
LegStates == {"none", "ringing", "answered", "rejected", "dropped", "gone", "over",
              "inviting", "up", "failed", "left"}

Outcomes == {"none", "stale", "failed", "elsewhere", "answered", "declined", "missed"}

Ends == {"plain", "declined", "failed", "quiet"}

PendingEnds == [call : Calls, kind : Ends, state : {"ringing", "bridged"}, by : Users]

TypeOK ==
  /\ row \in [Calls -> Rows]
  /\ member \subseteq Calls
  /\ ring \in [Calls -> {"none", "live", "lost", "redacted"}]
  /\ part \subseteq Calls
  /\ leg \in [Calls -> LegStates]
  /\ pc \in [Calls -> OwnerStates]
  /\ joined \in [Calls -> Users \cup {NoUser}]
  /\ declined \subseteq Inbound /\ ended \subseteq Calls /\ lost \subseteq Inbound
  /\ notifies \subseteq Calls /\ seen \subseteq Calls /\ legs \subseteq Outbound
  /\ late \subseteq Calls /\ expired \subseteq Calls
  /\ pend \subseteq PendingEnds
  /\ td \in [Calls -> {"none", "signal", "media", "member", "done"}]
  /\ verdict \in [Calls -> Outcomes]
  /\ records \in [Calls -> Nat]
  /\ watch \in [Calls -> {"idle", "ringing", "bridged", "absent"}]
  /\ up \in {"up", "stopping", "down", "starting"}
  /\ sweep \subseteq Calls
  /\ crashes \in Nat

Init ==
  /\ row = [c \in Calls |-> NoRow]
  /\ member = {} /\ part = {}
  /\ ring = [c \in Calls |-> "none"]
  /\ leg = [c \in Calls |-> "none"]
  /\ pc = [c \in Calls |-> "idle"]
  /\ joined = [c \in Calls |-> NoUser]
  /\ declined = {} /\ ended = {} /\ lost = {}
  /\ notifies = {} /\ seen = {} /\ legs = {}
  /\ late = {} /\ expired = {}
  /\ pend = {}
  /\ td = [c \in Calls |-> "none"]
  /\ verdict = [c \in Calls |-> "none"]
  /\ records = [c \in Calls |-> 0]
  /\ watch = [c \in Calls |-> "idle"]
  /\ up = "up" /\ sweep = {} /\ crashes = 0

------------------------------------------------------------------------------
(* Helpers *)

Happens(kind) == kind \in Events

MayFail(service) == service \in Faults

Rings(c) == c \in Inbound \cup Commanded

(* The leg has begun releasing, or has been given its final response.       *)
Finished(c) == leg[c] \in {"rejected", "dropped", "gone", "over", "failed"}

(* The requests of an inbound leg run on a context that is cancelled with   *)
(* the leg: one that is begun after that is not carried out.                *)
Cancelled(c) == c \in Inbound /\ Finished(c)

(* A bridge that stops cancels the contexts of all its inbound legs.        *)
RequestMayFail(c, service) ==
  MayFail(service) \/ Cancelled(c) \/ (c \in Inbound /\ up = "stopping")

(* The caller hangs up while a request of the leg is under way.             *)
HangupCuts(c) ==
  /\ Happens("hangup") /\ c \in Inbound /\ leg[c] = "ringing"
  /\ leg' = [leg EXCEPT ![c] = "gone"]

(* A request fails, and may yet have been carried out unless its context    *)
(* was cancelled before.                                                    *)
RequestFails(c, service) ==
  (RequestMayFail(c, service) /\ UNCHANGED leg) \/ HangupCuts(c)

(* The channels of an inbound call live as long as its handler; an outbound *)
(* call has only an ended channel, and only while its INVITE is pending.    *)
HasWaiters(c) == c \in Inbound /\ pc[c] \notin {"idle", "done"}

HasEndedChannel(c) == HasWaiters(c) \/ (c \in Outbound /\ pc[c] = "invite")

(* Mistaken: a ringing row is never given up on.                            *)
StaleOnlyBridged(c, state) == state = "bridged" /\ c \in expired

(* callIsStale                                                              *)
Stale(c, state) ==
  \/ state = "ringing" /\ c \in late
  \/ state = "bridged" /\ c \in expired

Goto(c, label) == pc' = [pc EXCEPT ![c] = label]

(* forgetWaiters                                                            *)
Forget(c) ==
  /\ joined' = [joined EXCEPT ![c] = NoUser]
  /\ declined' = declined \ {c} /\ ended' = ended \ {c} /\ lost' = lost \ {c}

(* The owner returns, and the deferred forgetWaiters runs.                  *)
Return(c) == Goto(c, "done") /\ Forget(c)

Reject(c) == leg' = [leg EXCEPT ![c] = IF @ = "ringing" THEN "rejected" ELSE @]

(* A failed request for which the leg is rejected.                          *)
RequestRejects(c, service) ==
  (RequestMayFail(c, service) /\ Reject(c)) \/ HangupCuts(c)

(* The INVITE handler returns and its deferred finish closes the leg: with  *)
(* no final response if none was sent.                                      *)
Release(c) ==
  leg' = [leg EXCEPT ![c] = CASE @ = "ringing" -> "dropped"
                              [] @ = "answered" -> "over"
                              [] OTHER -> @]

(* Mistaken: an unanswered call is labelled with the way it was ended.      *)
EndIsOutcome(kind, state) == IF state = "bridged" THEN "answered" ELSE kind

(* callOutcome                                                              *)
Outcome(kind, state) ==
  IF kind = "quiet" THEN "stale"
  ELSE IF kind = "failed" THEN "failed"
  ELSE IF state = "bridged" THEN "answered"
  ELSE IF kind = "declined" THEN "declined"
  ELSE "missed"

(* Mistaken: the leg is forgotten and not hung up.                          *)
TakeLegSilently(c) == legs' = legs \ {c} /\ UNCHANGED leg

(* takeLeg and the Hangup of the leg it returns, which is let go of whether *)
(* or not the BYE succeeds: a failed one is logged and nobody repeats it.   *)
TakeLeg(c) ==
  /\ legs' = legs \ {c}
  /\ \/ c \notin legs /\ UNCHANGED leg
     \/ c \in legs /\ leg' = [leg EXCEPT ![c] = "gone"]
     \/ c \in legs /\ MayFail("sip") /\ leg' = [leg EXCEPT ![c] = "left"]

(* endCallAs up to its compare-and-swap: only the winner tears the call     *)
(* down.  state is what the caller's copy of the row says.                  *)
EndCall(c, kind, state) ==
  /\ EndRow(c)
  /\ IF EndWins(c)
     THEN /\ td' = [td EXCEPT ![c] = "signal"]
          /\ verdict' = [verdict EXCEPT ![c] = Outcome(kind, state)]
     ELSE UNCHANGED <<td, verdict>>
  /\ UNCHANGED records

(* The statement was carried out and reported as failed: the row is ended,  *)
(* and nothing is torn down.                                                *)
EndUntold(c) == MayFail("db") /\ EndRow(c) /\ UNCHANGED ends

(* The statement may fail, carried out or not.                              *)
TryEnd(c, kind, state) ==
  \/ EndCall(c, kind, state)
  \/ EndUntold(c)
  \/ MayFail("db") /\ UNCHANGED <<row, ends>>

------------------------------------------------------------------------------
(* The owner of a call: set-up, common to both directions *)

(* HandleInboundCall, up to and with the lookup of the recipient: the leg   *)
(* rings, or is refused for a conference, room or recipient that has none.  *)
HandleInboundCall(c) ==
  /\ up = "up"
  /\ c \in Inbound /\ pc[c] = "idle"
  /\ \/ leg' = [leg EXCEPT ![c] = "ringing"] /\ Goto(c, "begin")
     \/ leg' = [leg EXCEPT ![c] = "rejected"] /\ Goto(c, "done")
  /\ UNCHANGED <<row, matrix, part, waiters, memory, clock, pend, ends, watch, process>>

(* dial and Dial: a membership in a room with no call, or !dial.            *)
StartDial(c) ==
  /\ up = "up"
  /\ c \in Outbound /\ pc[c] = "idle"
  /\ Goto(c, "begin")
  /\ UNCHANGED <<row, matrix, media, waiters, memory, clock, pend, ends, watch, process>>

(* activeCallByConference and activeCallByRoom: a call in progress refuses  *)
(* this one, unless its row is stale and is discarded.  A discard that      *)
(* fails, at the End or at the membership, refuses it too.  The row this    *)
(* call will have is not there yet.                                         *)
LookUp(c) ==
  /\ pc[c] = "begin"
  /\ \/ /\ ~Cancelled(c) /\ ActiveIn(RoomOf(c)) = {}
        /\ Goto(c, "insert")
        /\ UNCHANGED <<row, leg, ends>>
     \/ \E d \in Newest(ActiveIn(RoomOf(c))) :
          /\ ~Cancelled(c)
          /\ \/ /\ ~Stale(d, row[d].state)
                /\ Goto(c, "done") /\ Reject(c)
                /\ UNCHANGED <<row, ends>>
             \/ /\ Stale(d, row[d].state)
                /\ EndCall(d, "quiet", row[d].state)
                /\ Goto(c, "insert")
                /\ UNCHANGED leg
             \/ /\ Stale(d, row[d].state)
                /\ EndUntold(d) \/ (MayFail("matrix") /\ EndCall(d, "quiet", row[d].state))
                /\ Goto(c, "done") /\ Reject(c)
     \/ /\ RequestRejects(c, "db")
        /\ Goto(c, "done")
        /\ UNCHANGED <<row, ends>>
  /\ UNCHANGED <<matrix, part, waiters, memory, clock, pend, watch, process>>

(* A failed INSERT may have been committed: its row then has no owner.      *)
Insert(c) ==
  /\ pc[c] = "insert"
  /\ LET Stored == \E u \in IF c \in Inbound THEN {NoUser} ELSE MembersOf[ReceiverOf[c]] :
                     InsertRow(c, u, late)
     IN \/ ~Cancelled(c) /\ Stored /\ Goto(c, "publish") /\ UNCHANGED leg
        \/ /\ \/ RequestRejects(c, "matrix") /\ UNCHANGED row
              \/ RequestRejects(c, "db") /\ (UNCHANGED row \/ (~Cancelled(c) /\ Stored))
           /\ Goto(c, "done")
  /\ UNCHANGED <<matrix, part, waiters, memory, clock, pend, ends, watch, process>>

(* The ghost membership goes out before the phone or the room rings; a call *)
(* without one is rolled back.                                              *)
PublishMembership(c) ==
  /\ pc[c] = "publish"
  /\ \/ /\ ~Cancelled(c) /\ member' = member \cup {c}
        /\ Goto(c, IF Rings(c) THEN "notify" ELSE "dial")
        /\ UNCHANGED leg
     \/ /\ RequestFails(c, "matrix")
        /\ UNCHANGED member \/ (~Cancelled(c) /\ member' = member \cup {c})
        /\ Goto(c, IF c \in Inbound THEN "endReject" ELSE "endFailed")
  /\ UNCHANGED <<row, ring, part, waiters, memory, clock, pend, ends, watch, process>>

AfterRinging(c) == IF c \in Inbound THEN "wait" ELSE "dial"

(* publishRingNotification; a failed one is not a failed call, and is not   *)
(* remembered even if it has reached the room.                              *)
SendNotification(c) ==
  /\ pc[c] = "notify"
  /\ \/ /\ ~Cancelled(c) /\ ring' = [ring EXCEPT ![c] = "live"]
        /\ Goto(c, "remember") /\ UNCHANGED leg
     \/ /\ RequestFails(c, "matrix")
        /\ UNCHANGED ring \/ (~Cancelled(c) /\ ring' = [ring EXCEPT ![c] = "lost"])
        /\ Goto(c, AfterRinging(c))
  /\ UNCHANGED <<row, member, part, waiters, memory, clock, pend, ends, watch, process>>

RememberNotification(c) ==
  /\ pc[c] = "remember"
  /\ notifies' = notifies \cup {c}
  /\ Goto(c, AfterRinging(c))
  /\ UNCHANGED <<row, matrix, media, waiters, seen, legs, clock, pend, ends, watch, process>>

------------------------------------------------------------------------------
(* The owner of an inbound leg: waitForMatrix and answerInbound *)

(* A join is taken off the channel and claims the conference in one         *)
(* statement, on a context of its own.  A failed statement ends the call    *)
(* and leaves the leg unsaid.                                               *)
AnswerInbound(c) ==
  /\ pc[c] = "wait" /\ joined[c] # NoUser /\ c \notin lost
  /\ \/ AnswerRow(c, joined[c]) /\ Goto(c, IF AnswerWins(c) THEN "bridge" ELSE "reread")
     \/ /\ MayFail("db") /\ Goto(c, "endFailed")
        /\ UNCHANGED row \/ AnswerRow(c, joined[c])
  /\ joined' = [joined EXCEPT ![c] = NoUser]
  /\ UNCHANGED <<matrix, media, declined, ended, lost, memory, clock, pend, ends, watch, process>>

(* The claim was refused: a row still ringing lost the conference to        *)
(* another leg and waits for the CANCEL, any other is over.                 *)
RereadRefused(c) ==
  /\ pc[c] = "reread"
  /\ \/ /\ row[c].state = "ringing"
        /\ lost' = lost \cup {c} /\ Goto(c, "wait")
        /\ UNCHANGED leg
        /\ UNCHANGED <<joined, declined, ended>>
     \/ /\ row[c].state # "ringing" \/ MayFail("db")
        /\ Return(c) /\ Release(c)
  /\ UNCHANGED <<row, matrix, part, memory, clock, pend, ends, watch, process>>

HearEnded(c) ==
  /\ pc[c] = "wait" /\ c \in ended
  /\ Reject(c) /\ Return(c)
  /\ UNCHANGED <<row, matrix, part, memory, clock, pend, ends, watch, process>>

(* The other ways out of waitForMatrix reject the leg, then end the call.   *)
HearDecline(c) ==
  /\ pc[c] = "wait" /\ c \in declined
  /\ Reject(c) /\ Goto(c, "endDeclined")
  /\ UNCHANGED <<row, matrix, part, waiters, memory, clock, pend, ends, watch, process>>

HearHangup(c) ==
  /\ pc[c] = "wait" /\ Finished(c)
  /\ Goto(c, "endPlain")
  /\ UNCHANGED <<row, matrix, media, waiters, memory, clock, pend, ends, watch, process>>

(* Mistaken: a leg that lost its conference rings on without a bound.       *)
RingTimeoutUnlessLost(c) ==
  /\ pc[c] = "wait" /\ c \notin lost
  /\ Reject(c) /\ Goto(c, "endPlain")
  /\ UNCHANGED <<row, matrix, part, waiters, memory, clock, pend, ends, watch, process>>

RingTimeout(c) ==
  /\ pc[c] = "wait"
  /\ Reject(c) /\ Goto(c, "endPlain")
  /\ UNCHANGED <<row, matrix, part, waiters, memory, clock, pend, ends, watch, process>>

HearShutdown(c) ==
  /\ pc[c] = "wait" /\ up = "stopping" /\ ~Finished(c)
  /\ Reject(c) /\ Goto(c, "endFailed")
  /\ UNCHANGED <<row, matrix, part, waiters, memory, clock, pend, ends, watch, process>>

(* leg.Answer: 200 OK on a leg that can still take it.  Without one, or on  *)
(* an offer that cannot be answered (488), the call has failed.             *)
AnswerLeg(c) ==
  /\ pc[c] = "answer"
  /\ \/ /\ leg[c] = "ringing"
        /\ leg' = [leg EXCEPT ![c] = "answered"]
        /\ Goto(c, "held")
     \/ /\ Finished(c)
        /\ Goto(c, "endFailed")
        /\ UNCHANGED leg
     \/ /\ MayFail("sip")
        /\ Reject(c) \/ UNCHANGED leg
        /\ Goto(c, "endFailed")
  /\ UNCHANGED <<row, matrix, part, waiters, memory, clock, pend, ends, watch, process>>

(* An answered leg is held until it or the bridge ends; the call goes on.   *)
LeaveHeld(c) ==
  /\ pc[c] = "held" /\ (Finished(c) \/ up = "stopping")
  /\ Release(c) /\ Return(c)
  /\ UNCHANGED <<row, matrix, part, memory, clock, pend, ends, watch, process>>

------------------------------------------------------------------------------
(* The owner of an outbound call: dial *)

(* inviteContext starts to listen for the end of the call, then the INVITE. *)
SendInvite(c) ==
  /\ pc[c] = "dial"
  /\ leg' = [leg EXCEPT ![c] = "inviting"]
  /\ Goto(c, "invite")
  /\ UNCHANGED <<row, matrix, part, waiters, memory, clock, pend, ends, watch, process>>

(* The SIP server answers; the leg is kept for the teardown to hang up.     *)
InviteAnswered(c) ==
  /\ pc[c] = "invite"
  /\ leg' = [leg EXCEPT ![c] = "up"]
  /\ legs' = legs \cup {c}
  /\ ended' = ended \ {c} /\ Goto(c, "transition")
  /\ UNCHANGED <<row, matrix, part, joined, declined, lost, notifies, seen, clock, pend, ends,
                 watch, process>>

InviteRefused(c) ==
  /\ pc[c] = "invite"
  /\ leg' = [leg EXCEPT ![c] = "failed"]
  /\ ended' = ended \ {c} /\ Goto(c, "endFailed")
  /\ UNCHANGED <<row, matrix, part, joined, declined, lost, memory, clock, pend, ends, watch, process>>

(* The ended channel cancels the context, which cancels the INVITE.         *)
InviteCancelled(c) == c \in ended /\ InviteRefused(c)

(* Winning ringing -> bridged makes this goroutine the owner of the call; a *)
(* loser takes its own leg down again.                                      *)
Transition(c) ==
  /\ pc[c] = "transition"
  /\ \/ /\ TransitionRow(c)
        /\ IF TransitionWins(c)
           THEN Goto(c, "bridge") /\ UNCHANGED <<leg, legs>>
           ELSE Goto(c, "done") /\ TakeLeg(c)
     \/ /\ MayFail("db") /\ Goto(c, "endFailed") /\ UNCHANGED <<leg, legs>>
        /\ UNCHANGED row \/ TransitionRow(c)
  /\ UNCHANGED <<matrix, part, waiters, notifies, seen, clock, pend, ends, watch, process>>

------------------------------------------------------------------------------
(* The owner of a claimed call: media, then the membership again *)

(* Mistaken: a call is answered whether or not it has media.                *)
MediaIsOptional(c, service) == MayFail(service) /\ Goto(c, "republish") /\ UNCHANGED leg

(* A failure with the caller gone is a hangup; with the caller there, the   *)
(* leg is rejected and the call has failed.                                 *)
MediaFails(c, service) ==
  \/ RequestMayFail(c, service) /\ ~Cancelled(c) /\ Goto(c, "endFailed") /\ Reject(c)
  \/ Cancelled(c) /\ Goto(c, "endPlain") /\ UNCHANGED leg
  \/ HangupCuts(c) /\ Goto(c, "endPlain")

(* bridgeMedia: the room, then livekit-sip's participant.  A request given  *)
(* up on may have been carried out.                                         *)
CreateParticipant(c) ==
  /\ pc[c] = "bridge"
  /\ \/ ~Cancelled(c) /\ part' = part \cup {c} /\ Goto(c, "mark") /\ UNCHANGED leg
     \/ /\ MediaFails(c, "livekit")
        /\ UNCHANGED part \/ (~Cancelled(c) /\ part' = part \cup {c})
  /\ UNCHANGED <<row, matrix, waiters, memory, clock, pend, ends, watch, process>>

(* Mistaken: only the watcher marks a participant as seen.                  *)
LeaveUnseen(c) ==
  /\ pc[c] = "mark"
  /\ expired' = expired \ {c} /\ Goto(c, "republish")
  /\ UNCHANGED <<row, matrix, media, waiters, memory, late, pend, ends, watch, process>>

(* The participant counts as seen from here, and the row is written back:   *)
(* the state it already has, unless it has been ended.                      *)
MarkSeen(c) ==
  /\ pc[c] = "mark"
  /\ seen' = seen \cup {c}
  /\ \/ ~Cancelled(c) /\ expired' = expired \ {c} /\ Goto(c, "republish") /\ UNCHANGED leg
     \/ /\ MediaFails(c, "db")
        /\ UNCHANGED expired \/ (~Cancelled(c) /\ expired' = expired \ {c})
  /\ UNCHANGED <<row, matrix, part, waiters, notifies, legs, late, pend, ends, watch, process>>

(* republishGhostMembership is not fatal.                                   *)
Republish(c) ==
  /\ pc[c] = "republish"
  /\ \/ ~Cancelled(c) /\ member' = member \cup {c} /\ UNCHANGED leg
     \/ /\ RequestFails(c, "matrix")
        /\ UNCHANGED member \/ (~Cancelled(c) /\ member' = member \cup {c})
  /\ Goto(c, IF c \in Inbound THEN "answer" ELSE "done")
  /\ UNCHANGED <<row, ring, part, waiters, memory, clock, pend, ends, watch, process>>

EndOf(label) == CASE label = "endPlain" -> "plain"
                  [] label = "endDeclined" -> "declined"
                  [] OTHER -> "failed"

(* The owner ends its own call and returns, whether or not it was the one   *)
(* that ended it.  Its copy of the row is up to date, since only an owner   *)
(* bridges its call, or was written by a statement reported as failed: the  *)
(* call is then recorded as failed, whatever the copy says.                 *)
OwnerEnds(c) ==
  /\ pc[c] \in {"endPlain", "endDeclined", "endFailed", "endReject"}
  /\ TryEnd(c, EndOf(pc[c]), row[c].state)
  /\ IF pc[c] = "endReject" THEN Reject(c) ELSE Release(c)
  /\ Return(c)
  /\ UNCHANGED <<matrix, part, memory, clock, pend, watch, process>>

------------------------------------------------------------------------------
(* Teardown: the rest of endCallAs, run by the winner of the End *)

(* A plain end of an unanswered inbound leg asks who answered elsewhere;    *)
(* then the waiting goroutine is told, and the ring is retracted.           *)
SignalEnd(c) ==
  /\ td[c] = "signal"
  /\ \/ verdict' = [verdict EXCEPT ![c] =
           IF @ = "missed" /\ c \in Inbound /\ AnsweredElsewhere(c) THEN "elsewhere" ELSE @]
     \/ MayFail("db") /\ UNCHANGED verdict
  /\ seen' = seen \ {c}
  /\ ended' = IF HasEndedChannel(c) THEN ended \cup {c} ELSE ended
  /\ notifies' = notifies \ {c}
  /\ \/ ring' = IF c \in notifies THEN [ring EXCEPT ![c] = "redacted"] ELSE ring
     \/ MayFail("matrix") /\ UNCHANGED ring
  /\ td' = [td EXCEPT ![c] = "media"]
  /\ UNCHANGED <<row, member, media, pc, joined, declined, lost, legs, clock, pend, records,
                 watch, process>>

(* Mistaken: the teardown leaves the participant in LiveKit.                *)
RemoveLegOnly(c) ==
  /\ td[c] = "media"
  /\ TakeLeg(c)
  /\ td' = [td EXCEPT ![c] = "member"]
  /\ UNCHANGED <<row, matrix, part, pc, waiters, notifies, seen, clock, pend, verdict, records,
                 watch, process>>

(* removeParticipant, then takeLeg and its Hangup.                          *)
RemoveMedia(c) ==
  /\ td[c] = "media"
  /\ \/ part' = part \ {c}
     \/ MayFail("livekit") /\ UNCHANGED part
  /\ TakeLeg(c)
  /\ td' = [td EXCEPT ![c] = "member"]
  /\ UNCHANGED <<row, matrix, pc, waiters, notifies, seen, clock, pend, verdict, records, watch, process>>

(* retractGhostMembership, then the record in the room.                     *)
RetractMembership(c) ==
  /\ td[c] = "member"
  /\ \/ member' = member \ {c}
     \/ MayFail("matrix") /\ UNCHANGED member
  /\ records' = IF verdict[c] = "stale" THEN records
                ELSE [records EXCEPT ![c] = @ + 1]
  /\ td' = [td EXCEPT ![c] = "done"]
  /\ UNCHANGED <<row, ring, media, pc, waiters, memory, clock, pend, verdict, watch, process>>

------------------------------------------------------------------------------
(* Matrix event handlers, each on a goroutine of its own *)

(* onMatrixJoinedCall in a room with a call in progress: a ringing one is   *)
(* told, if someone waits for it and no earlier join is still unread.  The  *)
(* lookup discards a stale row first.                                       *)
UserJoins(u, room) ==
  /\ up = "up" /\ Happens("join")
  /\ \E c \in Newest(ActiveIn(room)) :
     IF Stale(c, row[c].state)
     THEN TryEnd(c, "quiet", row[c].state) /\ UNCHANGED joined
     ELSE /\ row[c].state = "ringing" /\ HasWaiters(c) /\ joined[c] = NoUser
          /\ joined' = [joined EXCEPT ![c] = u]
          /\ UNCHANGED <<row, ends>>
  /\ UNCHANGED <<matrix, media, pc, declined, ended, lost, memory, clock, pend, watch, process>>

(* onMatrixLeftCall, up to its decision: a user nobody waits for hangs up   *)
(* only a call with no user of its own.  The decision is carried out later. *)
UserLeaves(u, room) ==
  /\ up = "up" /\ Happens("leave")
  /\ \E c \in Newest(ActiveIn(room)) :
     IF Stale(c, row[c].state)
     THEN TryEnd(c, "quiet", row[c].state) /\ UNCHANGED pend
     ELSE /\ row[c].user \in {NoUser, u}
          /\ pend' = pend \cup {[call |-> c, kind |-> "plain", state |-> row[c].state, by |-> u]}
          /\ UNCHANGED <<row, ends>>
  /\ UNCHANGED <<matrix, media, pc, waiters, memory, clock, watch, process>>

(* handleRtcDecline: the call its notification announced, if it is still    *)
(* remembered.  A goroutine waiting for the decline is told; without one    *)
(* declineOwnCall reads the row and decides.                                *)
Decline(u, c) ==
  /\ up = "up" /\ Happens("decline")
  /\ ring[c] # "none" /\ c \in notifies
  /\ IF HasWaiters(c)
     THEN declined' = declined \cup {c} /\ UNCHANGED pend
     ELSE /\ row[c].state = "ringing"
          /\ pend' = pend \cup {[call |-> c, kind |-> "declined", state |-> "ringing", by |-> u]}
          /\ UNCHANGED declined
  /\ UNCHANGED <<row, matrix, media, pc, joined, ended, lost, memory, clock, ends, watch, process>>

(* A handler that decided to end a call does, on the copy it read.          *)
HandlerEnds(p) ==
  /\ pend' = pend \ {p}
  /\ TryEnd(p.call, p.kind, p.state)
  /\ UNCHANGED <<matrix, media, pc, waiters, memory, clock, watch, process>>

------------------------------------------------------------------------------
(* The participant watcher: one pass at a time, one call at a time *)

WatchList ==
  /\ up = "up" /\ Happens("watch")
  /\ \A c \in Calls : watch[c] = "idle"
  /\ Active # {}
  /\ watch' = [c \in Calls |-> IF c \in Active THEN row[c].state ELSE "idle"]
  /\ UNCHANGED <<row, matrix, media, pc, waiters, memory, clock, pend, ends, process>>

(* The pass turns to the next call of its list.                             *)
Turn == \A d \in Calls : watch[d] # "absent"

(* endIfStale on the row as it was listed.                                  *)
WatchStale(c) ==
  /\ Turn
  /\ watch[c] \in {"ringing", "bridged"} /\ Stale(c, watch[c])
  /\ TryEnd(c, "quiet", watch[c])
  /\ watch' = [watch EXCEPT ![c] = "idle"]
  /\ UNCHANGED <<matrix, media, pc, waiters, memory, clock, pend, process>>

(* ParticipantPresent: a present participant counts as seen, an absent one  *)
(* is looked up in the seen map next; a ringing call has none.              *)
WatchParticipant(c) ==
  /\ Turn
  /\ watch[c] \in {"ringing", "bridged"} /\ ~Stale(c, watch[c])
  /\ watch' = [watch EXCEPT ![c] =
       IF @ = "bridged" /\ c \notin part THEN "absent" ELSE "idle"]
  /\ seen' = IF watch[c] = "bridged" /\ c \in part THEN seen \cup {c} ELSE seen
  /\ UNCHANGED <<row, matrix, media, pc, waiters, notifies, legs, clock, pend, ends, process>>

(* LiveKit did not answer: try again in the next pass.                      *)
WatchFails(c) ==
  /\ MayFail("livekit")
  /\ Turn /\ watch[c] = "bridged"
  /\ watch' = [watch EXCEPT ![c] = "idle"]
  /\ UNCHANGED <<row, matrix, media, pc, waiters, memory, clock, pend, ends, process>>

WatchAbsent(c) ==
  /\ watch[c] = "absent"
  /\ watch' = [watch EXCEPT ![c] = "idle"]
  /\ IF c \in seen THEN TryEnd(c, "plain", "bridged") ELSE UNCHANGED <<row, ends>>
  /\ UNCHANGED <<matrix, media, pc, waiters, memory, clock, pend, process>>

------------------------------------------------------------------------------
(* The callers, the SIP server, LiveKit and the clock *)

(* CANCEL or BYE: the caller gives up, the SIP server cancels a leg that    *)
(* lost, or the dialplan hangs up an answered leg.                          *)
LegEnds(c) ==
  /\ Happens("hangup")
  /\ leg[c] \in {"ringing", "answered", "up"}
  /\ leg' = [leg EXCEPT ![c] = IF @ = "answered" THEN "over" ELSE "gone"]
  /\ UNCHANGED <<row, matrix, part, pc, waiters, memory, clock, pend, ends, watch, process>>

(* livekit-sip leaves the LiveKit room: the phone call is over.             *)
ParticipantLeaves(c) ==
  /\ Happens("depart")
  /\ c \in part
  /\ part' = part \ {c}
  /\ UNCHANGED <<row, matrix, leg, pc, waiters, memory, clock, pend, ends, watch, process>>

(* callIsStale: time passes a row's bound.                                  *)
RowGrowsLate(c) ==
  /\ Happens("age")
  /\ row[c].state # "none" /\ c \notin late
  /\ late' = late \cup {c}
  /\ UNCHANGED <<row, matrix, media, pc, waiters, memory, expired, pend, ends, watch, process>>

RowExpires(c) ==
  /\ Happens("age")
  /\ row[c].state = "bridged" /\ c \in late /\ c \notin expired
  /\ expired' = expired \cup {c}
  /\ UNCHANGED <<row, matrix, media, pc, waiters, memory, late, pend, ends, watch, process>>

------------------------------------------------------------------------------
(* The process *)

Stop ==
  /\ Happens("stop") /\ up = "up"
  /\ up' = "stopping"
  /\ UNCHANGED <<row, matrix, media, pc, waiters, memory, clock, pend, ends, watch, sweep, crashes>>

(* Everything in memory is gone, the teardowns under way too; the call      *)
(* table, the Matrix rooms and LiveKit keep what they have.                 *)
Crash ==
  /\ Happens("crash") /\ crashes < MaxCrashes /\ up # "down"
  /\ up' = "down" /\ crashes' = crashes + 1 /\ sweep' = {}
  /\ pc' = [c \in Calls |-> IF pc[c] = "idle" THEN "idle" ELSE "done"]
  /\ leg' = [c \in Calls |-> CASE leg[c] \in {"ringing", "inviting", "up"} -> "gone"
                               [] leg[c] = "answered" -> "over"
                               [] OTHER -> leg[c]]
  /\ joined' = [c \in Calls |-> NoUser]
  /\ declined' = {} /\ ended' = {} /\ lost' = {}
  /\ notifies' = {} /\ seen' = {} /\ legs' = {}
  /\ pend' = {}
  /\ td' = [c \in Calls |-> IF td[c] = "done" THEN "done" ELSE "none"]
  /\ watch' = [c \in Calls |-> "idle"]
  /\ UNCHANGED <<row, matrix, part, clock, verdict, records>>

(* Mistaken: the rows are ended before they are listed.                     *)
StartEndsFirst ==
  /\ up = "down"
  /\ EndAllRows
  /\ sweep' = {c \in Calls : row'[c].state \in {"ringing", "bridged"}}
  /\ up' = "starting"
  /\ UNCHANGED <<matrix, media, pc, waiters, memory, clock, pend, ends, watch, crashes>>

(* Start: list the calls of the last run, end their rows, ...               *)
Start ==
  /\ up = "down"
  /\ sweep' = Active
  /\ EndAllRows
  /\ up' = "starting"
  /\ UNCHANGED <<matrix, media, pc, waiters, memory, clock, pend, ends, watch, crashes>>

(* ... and sweep what they left behind, before the handlers are registered. *)
SweepStale(c) ==
  /\ up = "starting" /\ c \in sweep
  /\ sweep' = sweep \ {c}
  /\ part' = part \ {c} \/ (MayFail("livekit") /\ UNCHANGED part)
  /\ member' = member \ {c} \/ (MayFail("matrix") /\ UNCHANGED member)
  /\ UNCHANGED <<row, ring, leg, pc, waiters, memory, clock, pend, ends, watch, up, crashes>>

Started ==
  /\ up = "starting" /\ sweep = {}
  /\ up' = "up"
  /\ UNCHANGED <<row, matrix, media, pc, waiters, memory, clock, pend, ends, watch, sweep, crashes>>

------------------------------------------------------------------------------
SetUp(c) ==
  \/ LookUp(c) \/ Insert(c) \/ PublishMembership(c)
  \/ SendNotification(c) \/ RememberNotification(c)

InboundOwner(c) ==
  \/ AnswerInbound(c) \/ RereadRefused(c) \/ HearEnded(c) \/ HearDecline(c)
  \/ HearHangup(c) \/ RingTimeout(c) \/ HearShutdown(c) \/ AnswerLeg(c) \/ LeaveHeld(c)

OutboundOwner(c) == SendInvite(c) \/ Transition(c)

Claimed(c) == CreateParticipant(c) \/ MarkSeen(c) \/ Republish(c) \/ OwnerEnds(c)

Owner(c) == SetUp(c) \/ InboundOwner(c) \/ OutboundOwner(c) \/ Claimed(c)

Teardown(c) == SignalEnd(c) \/ RemoveMedia(c) \/ RetractMembership(c)

Watch(c) == WatchStale(c) \/ WatchParticipant(c) \/ WatchFails(c) \/ WatchAbsent(c)

Handlers ==
  \/ \E c \in Calls : \E u \in MembersOf[ReceiverOf[c]] :
       UserJoins(u, RoomOf(c)) \/ UserLeaves(u, RoomOf(c)) \/ Decline(u, c)
  \/ \E p \in pend : HandlerEnds(p)

Environment(c) ==
  \/ HandleInboundCall(c) \/ StartDial(c) \/ InviteAnswered(c) \/ InviteRefused(c)
  \/ LegEnds(c) \/ ParticipantLeaves(c) \/ RowGrowsLate(c) \/ RowExpires(c)

Process == Stop \/ Crash \/ Start \/ Started \/ \E c \in Calls : SweepStale(c)

Next ==
  \/ \E c \in Calls : Owner(c) \/ Teardown(c) \/ Watch(c) \/ Environment(c)
  \/ Handlers \/ WatchList \/ Process

Spec == Init /\ [][Next]_vars
==============================================================================
