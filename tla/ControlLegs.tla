---------------------------- MODULE ControlLegs ----------------------------
(***************************************************************************)
(* The control legs of calls (pkg/siptransport/call.go).  Two goroutines   *)
(* meet on a leg: its owner, which is the INVITE handler of an inbound leg *)
(* and the caller of Invite and Hangup of an outbound one, and the one     *)
(* sipgo runs the dialog's state callback on.  Either may release the leg; *)
(* one does, and whoever waits for the leg must find out why it ended.     *)
(* The dialogs of sipgo and the SIP server are external.                   *)
(***************************************************************************)
EXTENDS Naturals, SipEndpoint

CONSTANTS
  InLegs,    \* legs the SIP server may offer
  OutLegs    \* legs the bridge may place

ASSUME LegsAssumption == InLegs \cap OutLegs = {}

Legs    == InLegs \cup OutLegs
Threads == {"owner", "callback"}

VARIABLES
  owner,      \* leg -> where its owner is
  dialog,     \* leg -> "none", "early", "confirmed" or "ended"
  hooked,     \* legs whose dialog will tell them of its end
  committed,  \* legs that have begun releasing: closed, or once, in the code
  cancelled,  \* legs whose handler's context finish has cancelled
  release,    \* leg -> thread -> how many steps of finish it has still to make
  over,       \* leg -> how often its done channel has been closed
  status,     \* leg -> the final response on the wire
  returned,   \* leg -> what Answer, or Invite, returned
  verdict     \* leg -> why its handler believes its context to have ended

resources == <<committed, cancelled, release, over>>
legVars   == <<owner, dialog, hooked, resources, status, returned, verdict>>

InPlaces  == {"idle", "hooking", "holding", "acking", "held", "returning", "done"}
OutPlaces == {"idle", "inviting", "acking", "hooking", "up", "done"}

LegsTypeOK ==
  /\ owner \in [Legs -> InPlaces \cup OutPlaces]
  /\ dialog \in [Legs -> {"none", "early", "confirmed", "ended"}]
  /\ hooked \subseteq Legs /\ committed \subseteq Legs /\ cancelled \subseteq InLegs
  /\ release \in [Legs -> [Threads -> 0..3]]
  /\ over \in [Legs -> 0..1]
  /\ status \in [Legs -> {"none", "ok", "failure", "unavailable"}]
  /\ returned \in [Legs -> {"none", "ok", "error"}]
  /\ verdict \in [Legs -> {"none", "hangup", "shutdown"}]

LegsInit ==
  /\ owner = [l \in Legs |-> "idle"]
  /\ dialog = [l \in Legs |-> "none"]
  /\ hooked = {} /\ committed = {} /\ cancelled = {}
  /\ release = [l \in Legs |-> [t \in Threads |-> 0]]
  /\ over = [l \in Legs |-> 0]
  /\ status = [l \in Legs |-> "none"]
  /\ returned = [l \in Legs |-> "none"]
  /\ verdict = [l \in Legs |-> "none"]

Goto(l, place) == owner' = [owner EXCEPT ![l] = place]

-----------------------------------------------------------------------------
(* finish: commit under the mutex, cancel the handler's context, close the *)
(* dialog and the done channel.                                            *)

(* Mistaken: the context dies before anyone can tell why.                  *)
CancelFirst == <<"cancel", "commit", "release">>

FinishSteps == <<"commit", "cancel", "release">>

At(l, t) ==
  IF release[l][t] = 0 THEN "nothing" ELSE FinishSteps[4 - release[l][t]]

Free(l, t) == At(l, t) = "nothing"

Finish(l, t) == release' = [release EXCEPT ![l][t] = 3]

(* Mistaken: every path releases the leg.                                  *)
AlwaysCommits(l) == TRUE

MayCommit(l) == l \notin committed

(* Who comes second to an inbound leg returns at once, who comes second to *)
(* an outbound one waits for the first (sync.Once).                        *)
FinishStep(l, t) ==
  /\ \/ /\ At(l, t) = "commit" /\ MayCommit(l)
        /\ committed' = committed \cup {l}
        /\ release' = [release EXCEPT ![l][t] = @ - 1]
        /\ UNCHANGED <<cancelled, over>>
     \/ /\ At(l, t) = "commit" /\ ~MayCommit(l)
        /\ l \in InLegs \/ over[l] > 0
        /\ release' = [release EXCEPT ![l][t] = 0]
        /\ UNCHANGED <<committed, cancelled, over>>
     \/ /\ At(l, t) = "cancel"
        /\ cancelled' = cancelled \cup ({l} \cap InLegs)
        /\ release' = [release EXCEPT ![l][t] = @ - 1]
        /\ UNCHANGED <<committed, over>>
     \/ /\ At(l, t) = "release"
        /\ over' = [over EXCEPT ![l] = @ + 1]
        /\ release' = [release EXCEPT ![l][t] = 0]
        /\ UNCHANGED <<committed, cancelled>>
  /\ UNCHANGED <<owner, dialog, hooked, status, returned, verdict>>

-----------------------------------------------------------------------------
(* What both kinds of leg have in common. *)

(* Mistaken: OnState, which tells only of what is still to come.           *)
HookFuture(l) == hooked' = hooked \cup {l} /\ UNCHANGED release

(* OnStateReplay: a dialog that has already ended tells its leg at once, on*)
(* the goroutine that registers.                                           *)
HookState(l) ==
  /\ hooked' = hooked \cup {l}
  /\ IF dialog[l] = "ended" THEN Finish(l, "owner") ELSE UNCHANGED release

(* CANCEL, BYE or the loss of the transaction.                             *)
FarEnds(l) ==
  /\ dialog[l] \in {"early", "confirmed"}
  /\ dialog' = [dialog EXCEPT ![l] = "ended"]
  /\ IF l \in hooked THEN Finish(l, "callback") ELSE UNCHANGED release
  /\ UNCHANGED <<owner, hooked, committed, cancelled, over, status, returned, verdict>>

-----------------------------------------------------------------------------
(* An inbound leg: handleInvite, and what HandleInboundCall makes of it.   *)

HandleInvite(l) ==
  /\ serving = "open" /\ owner[l] = "idle"
  /\ \/ /\ ~Handles("calls")
        /\ status' = [status EXCEPT ![l] = "unavailable"]
        /\ Goto(l, "done") /\ UNCHANGED dialog
     \/ /\ Handles("calls")
        /\ status' = [status EXCEPT ![l] = "failure"]
        /\ Goto(l, "done") /\ UNCHANGED dialog
     \/ /\ Handles("calls")
        /\ dialog' = [dialog EXCEPT ![l] = "early"]
        /\ Goto(l, "hooking") /\ UNCHANGED status
  /\ UNCHANGED <<hooked, resources, returned, verdict>>

(* Mistaken: the handler gets a goroutine of its own, and the deferred     *)
(* finish does not wait for it.                                            *)
RunHandlerDetached(l) ==
  /\ owner[l] = "hooking"
  /\ hooked' = hooked
  /\ Finish(l, "callback")
  /\ Goto(l, "holding")
  /\ UNCHANGED <<dialog, committed, cancelled, over, status, returned, verdict>>

(* The handler runs inline: the leg is released when it returns.           *)
RunHandler(l) ==
  /\ owner[l] = "hooking"
  /\ HookState(l)
  /\ Goto(l, "holding")
  /\ UNCHANGED <<dialog, committed, cancelled, over, status, returned, verdict>>

Holds(l, place) == owner[l] = place /\ Free(l, "owner")

(* A response to an INVITE that has already ended is an error and is not   *)
(* sent.                                                                   *)
Respond(l, response) ==
  status' = [status EXCEPT ![l] = IF dialog[l] = "early" THEN response ELSE @]

Reject(l) == Respond(l, "failure") /\ Finish(l, "owner") /\ Goto(l, "returning")

(* The ring time is over, the user declined, a step of the set-up failed.  *)
RejectLeg(l) ==
  /\ Holds(l, "holding")
  /\ Reject(l)
  /\ UNCHANGED <<dialog, hooked, committed, cancelled, over, returned, verdict>>

(* answerOver: the handler returns and has said nothing.                   *)
LetGo(l) ==
  /\ Holds(l, "holding")
  /\ Goto(l, "returning")
  /\ UNCHANGED <<dialog, hooked, resources, status, returned, verdict>>

(* The select of waitForMatrix finds the context ended, and asks Finished. *)
HearContext(l) ==
  /\ Holds(l, "holding")
  /\ l \in cancelled \/ closed
  /\ IF l \in committed
     THEN /\ verdict' = [verdict EXCEPT ![l] = "hangup"]
          /\ Goto(l, "returning") /\ UNCHANGED <<status, release>>
     ELSE /\ verdict' = [verdict EXCEPT ![l] = "shutdown"]
          /\ Reject(l)
  /\ UNCHANGED <<dialog, hooked, committed, cancelled, over, returned>>

(* The select finds Done closed.                                           *)
HearDone(l) ==
  /\ Holds(l, "holding")
  /\ over[l] > 0
  /\ verdict' = [verdict EXCEPT ![l] = "hangup"]
  /\ Goto(l, "returning")
  /\ UNCHANGED <<dialog, hooked, resources, status, returned>>

(* Answer: 488 for an offer without a common codec, or 200 and then a wait *)
(* for the ACK.                                                            *)
Answer(l) ==
  /\ Holds(l, "holding")
  /\ \/ /\ Reject(l)
        /\ returned' = [returned EXCEPT ![l] = "error"]
        /\ UNCHANGED dialog
     \/ /\ dialog[l] = "early"
        /\ Respond(l, "ok")
        /\ dialog' = [dialog EXCEPT ![l] = "confirmed"]
        /\ Goto(l, "acking") /\ UNCHANGED <<release, returned>>
     \/ /\ dialog[l] = "ended"
        /\ returned' = [returned EXCEPT ![l] = "error"]
        /\ Goto(l, "returning") /\ UNCHANGED <<dialog, status, release>>
  /\ UNCHANGED <<hooked, committed, cancelled, over, verdict>>

AnswerReturns(l, result, place) ==
  /\ returned' = [returned EXCEPT ![l] = result]
  /\ Goto(l, place)
  /\ UNCHANGED <<dialog, hooked, resources, status, verdict>>

(* Mistaken: the error of sipgo is passed on.                              *)
MissingAckFails(l) == owner[l] = "acking" /\ AnswerReturns(l, "error", "returning")

(* sipgo gives up on the ACK when the BYE overtakes it, or after its time. *)
(* The leg was answered all the same.                                      *)
MissingAck(l) == owner[l] = "acking" /\ AnswerReturns(l, "ok", "held")

ReceiveAck(l) ==
  /\ owner[l] = "acking" /\ dialog[l] = "confirmed"
  /\ AnswerReturns(l, "ok", "held")

(* An answered leg is held until it or the endpoint ends.                  *)
LeaveHeld(l) ==
  /\ Holds(l, "held")
  /\ over[l] > 0 \/ l \in cancelled \/ closed
  /\ Goto(l, "returning")
  /\ UNCHANGED <<dialog, hooked, resources, status, returned, verdict>>

HandlerReturns(l) ==
  /\ Holds(l, "returning")
  /\ Finish(l, "owner")
  /\ Goto(l, "done")
  /\ UNCHANGED <<dialog, hooked, committed, cancelled, over, status, returned, verdict>>

Inbound(l) ==
  \/ HandleInvite(l) \/ RunHandler(l)
  \/ Answer(l) \/ ReceiveAck(l) \/ MissingAck(l) \/ LeaveHeld(l)
  \/ RejectLeg(l) \/ LetGo(l) \/ HearContext(l) \/ HearDone(l)
  \/ HandlerReturns(l)

-----------------------------------------------------------------------------
(* An outbound leg: Invite and Hangup. *)

InviteFails(l) ==
  /\ returned' = [returned EXCEPT ![l] = "error"]
  /\ Goto(l, "done")
  /\ UNCHANGED <<hooked, committed, cancelled, over, status, verdict>>

WriteInvite(l) ==
  /\ Handles("calls") /\ owner[l] = "idle"
  /\ \/ /\ dialog' = [dialog EXCEPT ![l] = "early"]
        /\ Goto(l, "inviting")
        /\ UNCHANGED <<hooked, resources, status, returned, verdict>>
     \/ InviteFails(l) /\ UNCHANGED <<dialog, release>>

(* WaitAnswer: 200, after a challenge if there is one.                     *)
InviteAnswered(l) ==
  /\ owner[l] = "inviting" /\ dialog[l] = "early"
  /\ dialog' = [dialog EXCEPT ![l] = "confirmed"]
  /\ Goto(l, "acking")
  /\ UNCHANGED <<hooked, resources, status, returned, verdict>>

(* A failure status, no answer, a challenge without a password, or a hangup*)
(* while the phone rings, which cancels the INVITE.                        *)
InviteRefused(l) ==
  /\ owner[l] = "inviting"
  /\ dialog' = [dialog EXCEPT ![l] = "ended"]
  /\ Finish(l, "owner")
  /\ InviteFails(l)

(* The ACK may fail: the leg is let go of without a BYE.                   *)
SendAck(l) ==
  /\ l \in OutLegs /\ owner[l] = "acking"
  /\ \/ Goto(l, "hooking") /\ UNCHANGED <<hooked, resources, status, returned, verdict>>
     \/ Finish(l, "owner") /\ InviteFails(l)
  /\ UNCHANGED dialog

InviteReturns(l) ==
  /\ owner[l] = "hooking"
  /\ HookState(l)
  /\ returned' = [returned EXCEPT ![l] = "ok"]
  /\ Goto(l, "up")
  /\ UNCHANGED <<dialog, committed, cancelled, over, status, verdict>>

(* BYE, which may not get through, and then finish in any case.            *)
Hangup(l) ==
  /\ Holds(l, "up")
  /\ \/ /\ dialog[l] = "confirmed"
        /\ dialog' = [dialog EXCEPT ![l] = "ended"]
        /\ release' = [release EXCEPT ![l] = [t \in Threads |-> 3]]
     \/ UNCHANGED dialog /\ Finish(l, "owner")
  /\ Goto(l, "done")
  /\ UNCHANGED <<hooked, committed, cancelled, over, status, returned, verdict>>

Outbound(l) ==
  \/ WriteInvite(l) \/ InviteAnswered(l) \/ InviteRefused(l)
  \/ SendAck(l) \/ InviteReturns(l) \/ Hangup(l)

-----------------------------------------------------------------------------
(* What the call subsystem sees of a leg. *)
Phase(l) ==
  CASE owner[l] = "idle"                            -> "none"
    [] status[l] \in {"failure", "unavailable"}     -> "refused"
    [] returned[l] = "error" /\ l \in OutLegs       -> "refused"
    [] status[l] = "ok" \/ (l \in OutLegs /\ returned[l] = "ok") ->
         IF l \in committed THEN "over" ELSE "answered"
    [] OTHER -> IF l \in committed THEN "gone" ELSE "ringing"
=============================================================================
