------------------------------ MODULE SipProofs ------------------------------
(***************************************************************************)
(* The safety properties of SipTransport for every value of its constants: *)
(* any number of legs and texts, any lifetime of a registration.  Each of  *)
(* the parts that share the endpoint has an inductive invariant of its own. *)
(***************************************************************************)
EXTENDS SipTransport, TLAPS

Releasing(l, t) == release[l][t] \in {1, 2}

(* finish: who is past its commit is alone there, and the leg not yet over; *)
(* a context that was cancelled was cancelled after the commit.            *)
FinishInv ==
  \A l \in Legs :
    /\ \A t \in Threads : Releasing(l, t) => l \in committed /\ over[l] = 0
    /\ ~(Releasing(l, "owner") /\ Releasing(l, "callback"))
    /\ over[l] = 1 => l \in committed
    /\ l \in cancelled => l \in committed

Releases(l) == l \in committed \/ \E t \in Threads : release[l][t] # 0

(* An inbound leg: nothing is said or released before the handler runs, and *)
(* while it holds the leg only the end of the dialog releases it.          *)
InboundInv ==
  \A l \in InLegs :
    /\ owner[l] \in InPlaces
    /\ owner[l] \in {"idle", "hooking", "holding"} => status[l] = "none" /\ returned[l] = "none"
    /\ owner[l] = "acking" => status[l] = "ok" /\ returned[l] = "none"
    /\ returned[l] = "ok" => status[l] = "ok"
    /\ returned[l] = "error" => status[l] # "ok"
    /\ owner[l] \in {"idle", "hooking"} => l \notin hooked /\ ~Releases(l)
    /\ owner[l] = "holding" /\ Releases(l) => dialog[l] = "ended"
    /\ verdict[l] = "shutdown" => closed

(* An outbound leg is not released before Invite has made up its mind.     *)
OutboundInv ==
  \A l \in OutLegs :
    /\ owner[l] \in OutPlaces
    /\ status[l] = "none"
    /\ owner[l] \in OutPlaces \ {"up", "done"} =>
         l \notin hooked /\ ~Releases(l) /\ returned[l] = "none"
    /\ owner[l] \in {"acking", "hooking"} \/ returned[l] = "ok" =>
         dialog[l] \in {"confirmed", "ended"}

LegsInv == LegsTypeOK /\ FinishInv /\ InboundInv /\ OutboundInv

(* A text that waits for its answer has been accepted only if the answer   *)
(* says so.                                                                *)
MessagesInv ==
  /\ MessagesTypeOK
  /\ \A m \in Sent :
       /\ accepted[m] \in {0, 1}
       /\ wire[m] = "accept" \/ request[m] = "sent" => accepted[m] = 1
       /\ wire[m] \in {"request", "challenge", "refuse"} \/ request[m] = "idle" => accepted[m] = 0
       /\ request[m] \in {"sent", "idle"} => wire[m] = "nothing"

(* What may pass before a registered bridge hears of its registration, at  *)
(* most.                                                                   *)
Remaining ==
  CASE loop = "waiting"   -> clock + 2 * Transaction
    [] loop = "register"  -> clock + Transaction
    [] OTHER              -> clock

(* While the registrar has not forgotten the bridge its binding outlasts   *)
(* that; a bridge that was forgotten hears of it in time.                  *)
RegisteredInv ==
  registered /\ ~stopped =>
    /\ loop \in Asking \cup {"waiting"}
    /\ forgotten = 0 /\ answer # "ok" => binding + Lag >= Expiry + Remaining
    /\ forgotten > 0 => forgotten + Remaining <= Lag + 1
    /\ binding > 0 => forgotten = 0

AnswerInv ==
  /\ answer # "none" => loop \in Asking
  /\ answer = "challenge" => loop = "register"
  /\ answer = "ok" => (forgotten = 0 /\ binding = Expiry) \/ (forgotten = 1 /\ binding = 0)
  /\ loop = "waiting" => clock <= Refresh
  /\ loop \in Asking => clock <= Transaction
  /\ loop \in {"off", "ended"} => clock = 0

RegistrationInv == RegistrationTypeOK /\ AnswerInv /\ RegisteredInv

IInv == EndpointTypeOK /\ LegsInv /\ MessagesInv /\ RegistrationInv /\ traffic \in Traffics

-----------------------------------------------------------------------------
(* The steps of finish, in the order of the code.                          *)
LEMMA AtPlace ==
  ASSUME LegsTypeOK, NEW l \in Legs, NEW t \in Threads
  PROVE  /\ At(l, t) = "nothing" <=> release[l][t] = 0
         /\ At(l, t) = "commit" <=> release[l][t] = 3
         /\ At(l, t) = "cancel" <=> release[l][t] = 2
         /\ At(l, t) = "release" <=> release[l][t] = 1
<1>1. release[l][t] \in 0..3
  BY DEF LegsTypeOK
<1>2. CASE release[l][t] = 0
  BY <1>2 DEF At
<1>3. CASE release[l][t] = 1
  BY <1>3 DEF At, FinishSteps
<1>4. CASE release[l][t] = 2
  BY <1>4 DEF At, FinishSteps
<1>5. CASE release[l][t] = 3
  BY <1>5 DEF At, FinishSteps
<1> QED
  BY <1>1, <1>2, <1>3, <1>4, <1>5

(* A leg that does not change keeps its invariant.                         *)
LEMMA LegsStutter ==
  ASSUME LegsInv, UNCHANGED legVars, closed => closed'
  PROVE  LegsInv'
<1>1. UNCHANGED <<owner, dialog, hooked, committed, cancelled, release, over, status,
                  returned, verdict>>
  BY DEF legVars, resources
<1>2. LegsTypeOK'
  BY <1>1 DEF LegsInv, LegsTypeOK
<1>3. FinishInv'
  BY <1>1 DEF LegsInv, FinishInv, Releasing
<1>4. InboundInv'
  BY <1>1 DEF LegsInv, InboundInv, Releases
<1>5. OutboundInv'
  BY <1>1 DEF LegsInv, OutboundInv, Releases
<1> QED
  BY <1>2, <1>3, <1>4, <1>5 DEF LegsInv

-----------------------------------------------------------------------------
(* What a leg shows to the call subsystem, from one step to the next.      *)
PhaseStep(was, is) ==
  Promise!Begins(was, is) \/ Promise!IsAnswered(was, is) \/ Promise!Ends(was, is) \/ is = was

LegsStep == LegsInv' /\ \A k \in Legs : PhaseStep(Phase(k), Phase(k)')

(* A leg shows no more than its owner, its responses and its commitment.   *)
LEMMA OtherPhases ==
  ASSUME NEW k \in Legs, owner'[k] = owner[k], status'[k] = status[k], returned'[k] = returned[k],
         k \in committed <=> k \in committed'
  PROVE  Phase(k)' = Phase(k)
BY DEF Phase

(* A step of finish: the leg is over when the one that committed is through.*)
LEMMA FinishStepKeeps ==
  ASSUME LegsInv, UNCHANGED closed, NEW l \in Legs, NEW t \in Threads, FinishStep(l, t)
  PROVE  LegsStep
<1>1. At(l, t) # "nothing" /\ release[l][t] # 0
  BY AtPlace DEF FinishStep, LegsInv
<1>2. LegsTypeOK'
  <2> USE DEF LegsInv
  <2>1. release[l] \in [Threads -> 0..3] /\ release[l][t] \in 1..3
    BY <1>1 DEF LegsTypeOK
  <2>2. PICK n \in 0..3 : release' = [release EXCEPT ![l] = [@ EXCEPT ![t] = n]]
    BY <2>1 DEF FinishStep
  <2>3. release' \in [Legs -> [Threads -> 0..3]]
    BY <2>1, <2>2 DEF LegsTypeOK
  <2>4. over' \in [Legs -> 0..1]
    <3>1. CASE At(l, t) = "release"
      <4>1. over[l] = 0
        BY <3>1, AtPlace DEF FinishInv, Releasing
      <4>2. over' = [over EXCEPT ![l] = 1]
        BY <3>1, <4>1 DEF FinishStep
      <4> QED
        BY <4>2 DEF LegsTypeOK
    <3>2. CASE At(l, t) # "release"
      BY <3>2 DEF FinishStep, LegsTypeOK
    <3> QED
      BY <3>1, <3>2
  <2>5. committed' \subseteq Legs /\ cancelled' \subseteq InLegs
    BY DEF FinishStep, LegsTypeOK
  <2> QED
    BY <2>3, <2>4, <2>5 DEF FinishStep, LegsTypeOK
<1>3. FinishInv'
  BY AtPlace DEF FinishStep, MayCommit, LegsInv, LegsTypeOK, FinishInv, Releasing, Threads
<1>4. InboundInv'
  BY <1>1 DEF FinishStep, LegsInv, LegsTypeOK, InboundInv, Releases, Legs
<1>5. OutboundInv'
  BY <1>1 DEF FinishStep, LegsInv, LegsTypeOK, OutboundInv, Releases, Legs
<1>6. ASSUME NEW k \in Legs PROVE PhaseStep(Phase(k), Phase(k)')
  <2> USE DEF LegsInv, FinishStep, LegsTypeOK, PhaseStep
  <2>1. CASE k # l
    BY <2>1, OtherPhases
  <2>2. CASE k = l
    BY <2>2, AtPlace DEF InboundInv, OutboundInv, Phase, Promise!Begins,
       Promise!IsAnswered, Promise!Ends, MayCommit, Legs
  <2> QED
    BY <2>1, <2>2
<1> QED
  BY <1>2, <1>3, <1>4, <1>5, <1>6 DEF LegsInv, LegsStep

(* An INVITE is answered at once, or gets a leg and a handler.             *)
LEMMA HandleInviteKeeps ==
  ASSUME LegsInv, UNCHANGED closed, NEW l \in InLegs, HandleInvite(l)
  PROVE  LegsStep
<1> USE LegsAssumption DEF LegsInv, HandleInvite, Goto, resources, Legs, Threads
<1>1. LegsTypeOK'
  BY DEF LegsTypeOK, InPlaces, OutPlaces
<1>2. FinishInv'
  BY DEF LegsTypeOK, FinishInv, Releasing
<1>3. InboundInv'
  BY DEF LegsTypeOK, FinishInv, InboundInv, Releases, InPlaces
<1>4. OutboundInv'
  BY DEF LegsTypeOK, OutboundInv, Releases, OutPlaces
<1>5. ASSUME NEW k \in Legs PROVE PhaseStep(Phase(k), Phase(k)')
  <2>1. CASE k # l
    BY <2>1, OtherPhases DEF LegsTypeOK, PhaseStep
  <2>2. CASE k = l
    BY <2>2 DEF LegsTypeOK, InPlaces, OutPlaces, InboundInv, OutboundInv, Releases,
       Phase, PhaseStep, Promise!Begins, Promise!IsAnswered, Promise!Ends
  <2> QED
    BY <2>1, <2>2
<1> QED
  BY <1>1, <1>2, <1>3, <1>4, <1>5 DEF LegsStep

(* The handler starts, told at once of a caller who is already gone.       *)
LEMMA RunHandlerKeeps ==
  ASSUME LegsInv, UNCHANGED closed, NEW l \in InLegs, RunHandler(l)
  PROVE  LegsStep
<1> USE LegsAssumption DEF LegsInv, RunHandler, HookState, Finish, Goto, resources, Legs,
      Threads
<1>1. LegsTypeOK'
  BY DEF LegsTypeOK, InPlaces, OutPlaces
<1>2. FinishInv'
  BY DEF LegsTypeOK, FinishInv, Releasing
<1>3. InboundInv'
  BY DEF LegsTypeOK, FinishInv, InboundInv, Releases, InPlaces
<1>4. OutboundInv'
  BY DEF LegsTypeOK, OutboundInv, Releases, OutPlaces
<1>5. ASSUME NEW k \in Legs PROVE PhaseStep(Phase(k), Phase(k)')
  <2>1. CASE k # l
    BY <2>1, OtherPhases DEF LegsTypeOK, PhaseStep
  <2>2. CASE k = l
    BY <2>2 DEF LegsTypeOK, InPlaces, OutPlaces, InboundInv, OutboundInv, Releases,
       Phase, PhaseStep, Promise!Begins, Promise!IsAnswered, Promise!Ends
  <2> QED
    BY <2>1, <2>2
<1> QED
  BY <1>1, <1>2, <1>3, <1>4, <1>5 DEF LegsStep

(* The handler gives a failure, which a living INVITE is sent.             *)
LEMMA RejectLegKeeps ==
  ASSUME LegsInv, UNCHANGED closed, NEW l \in InLegs, RejectLeg(l)
  PROVE  LegsStep
<1> USE LegsAssumption DEF LegsInv, RejectLeg, Holds, Free, Reject, Respond, Finish,
      Goto, resources, Legs, Threads
<1>1. LegsTypeOK'
  BY DEF LegsTypeOK, InPlaces, OutPlaces
<1>2. FinishInv'
  BY DEF LegsTypeOK, FinishInv, Releasing
<1>3. InboundInv'
  BY AtPlace DEF LegsTypeOK, FinishInv, InboundInv, Releases, InPlaces
<1>4. OutboundInv'
  BY AtPlace DEF LegsTypeOK, OutboundInv, Releases, OutPlaces
<1>5. ASSUME NEW k \in Legs PROVE PhaseStep(Phase(k), Phase(k)')
  <2>1. CASE k # l
    BY <2>1, OtherPhases DEF LegsTypeOK, PhaseStep
  <2>2. CASE k = l
    BY <2>2, AtPlace DEF LegsTypeOK, InPlaces, OutPlaces, InboundInv, OutboundInv, Releases,
       Phase, PhaseStep, Promise!Begins, Promise!IsAnswered, Promise!Ends
  <2> QED
    BY <2>1, <2>2
<1> QED
  BY <1>1, <1>2, <1>3, <1>4, <1>5 DEF LegsStep

(* The handler returns without an answer.                                  *)
LEMMA LetGoKeeps ==
  ASSUME LegsInv, UNCHANGED closed, NEW l \in InLegs, LetGo(l)
  PROVE  LegsStep
<1> USE LegsAssumption DEF LegsInv, LetGo, Holds, Free, Goto, resources, Legs, Threads
<1>1. LegsTypeOK'
  BY DEF LegsTypeOK, InPlaces, OutPlaces
<1>2. FinishInv'
  BY DEF LegsTypeOK, FinishInv, Releasing
<1>3. InboundInv'
  BY AtPlace DEF LegsTypeOK, FinishInv, InboundInv, Releases, InPlaces
<1>4. OutboundInv'
  BY AtPlace DEF LegsTypeOK, OutboundInv, Releases, OutPlaces
<1>5. ASSUME NEW k \in Legs PROVE PhaseStep(Phase(k), Phase(k)')
  <2>1. CASE k # l
    BY <2>1, OtherPhases DEF LegsTypeOK, PhaseStep
  <2>2. CASE k = l
    BY <2>2, AtPlace DEF LegsTypeOK, InPlaces, OutPlaces, InboundInv, OutboundInv, Releases,
       Phase, PhaseStep, Promise!Begins, Promise!IsAnswered, Promise!Ends
  <2> QED
    BY <2>1, <2>2
<1> QED
  BY <1>1, <1>2, <1>3, <1>4, <1>5 DEF LegsStep

(* The context has ended: with the leg, or else with the endpoint.         *)
LEMMA HearContextKeeps ==
  ASSUME LegsInv, UNCHANGED closed, NEW l \in InLegs, HearContext(l)
  PROVE  LegsStep
<1> USE LegsAssumption DEF LegsInv, HearContext, Holds, Free, Reject, Respond, Finish,
      Goto, resources, Legs, Threads
<1>1. LegsTypeOK'
  BY DEF LegsTypeOK, InPlaces, OutPlaces
<1>2. FinishInv'
  BY DEF LegsTypeOK, FinishInv, Releasing
<1>3. InboundInv'
  BY AtPlace DEF LegsTypeOK, FinishInv, InboundInv, Releases, InPlaces
<1>4. OutboundInv'
  BY AtPlace DEF LegsTypeOK, OutboundInv, Releases, OutPlaces
<1>5. ASSUME NEW k \in Legs PROVE PhaseStep(Phase(k), Phase(k)')
  <2>1. CASE k # l
    BY <2>1, OtherPhases DEF LegsTypeOK, PhaseStep
  <2>2. CASE k = l
    BY <2>2, AtPlace DEF LegsTypeOK, InPlaces, OutPlaces, InboundInv, OutboundInv, Releases,
       Phase, PhaseStep, Promise!Begins, Promise!IsAnswered, Promise!Ends
  <2> QED
    BY <2>1, <2>2
<1> QED
  BY <1>1, <1>2, <1>3, <1>4, <1>5 DEF LegsStep

(* The leg is over.                                                        *)
LEMMA HearDoneKeeps ==
  ASSUME LegsInv, UNCHANGED closed, NEW l \in InLegs, HearDone(l)
  PROVE  LegsStep
<1> USE LegsAssumption DEF LegsInv, HearDone, Holds, Free, Goto, resources, Legs, Threads
<1>1. LegsTypeOK'
  BY DEF LegsTypeOK, InPlaces, OutPlaces
<1>2. FinishInv'
  BY DEF LegsTypeOK, FinishInv, Releasing
<1>3. InboundInv'
  BY AtPlace DEF LegsTypeOK, FinishInv, InboundInv, Releases, InPlaces
<1>4. OutboundInv'
  BY AtPlace DEF LegsTypeOK, OutboundInv, Releases, OutPlaces
<1>5. ASSUME NEW k \in Legs PROVE PhaseStep(Phase(k), Phase(k)')
  <2>1. CASE k # l
    BY <2>1, OtherPhases DEF LegsTypeOK, PhaseStep
  <2>2. CASE k = l
    BY <2>2, AtPlace DEF LegsTypeOK, InPlaces, OutPlaces, InboundInv, OutboundInv, Releases,
       Phase, PhaseStep, Promise!Begins, Promise!IsAnswered, Promise!Ends
  <2> QED
    BY <2>1, <2>2
<1> QED
  BY <1>1, <1>2, <1>3, <1>4, <1>5 DEF LegsStep

(* A 200 goes out only while the dialog is early, so to a leg not released.*)
LEMMA AnswerKeeps ==
  ASSUME LegsInv, UNCHANGED closed, NEW l \in InLegs, Answer(l)
  PROVE  LegsStep
<1> USE LegsAssumption DEF LegsInv, Answer, Holds, Free, Reject, Respond, Finish, Goto,
      resources, Legs, Threads
<1>1. LegsTypeOK'
  BY SMTT(30) DEF LegsTypeOK, InPlaces, OutPlaces
<1>2. FinishInv'
  BY DEF LegsTypeOK, FinishInv, Releasing
<1>3. InboundInv'
  BY AtPlace DEF LegsTypeOK, FinishInv, InboundInv, Releases, InPlaces
<1>4. OutboundInv'
  BY AtPlace DEF LegsTypeOK, OutboundInv, Releases, OutPlaces
<1>5. ASSUME NEW k \in Legs PROVE PhaseStep(Phase(k), Phase(k)')
  <2>1. CASE k # l
    BY <2>1, OtherPhases DEF LegsTypeOK, PhaseStep
  <2>2. CASE k = l
    BY <2>2, AtPlace DEF LegsTypeOK, InPlaces, OutPlaces, InboundInv, OutboundInv, Releases,
       Phase, PhaseStep, Promise!Begins, Promise!IsAnswered, Promise!Ends
  <2> QED
    BY <2>1, <2>2
<1> QED
  BY <1>1, <1>2, <1>3, <1>4, <1>5 DEF LegsStep

(* The ACK: Answer succeeds.                                               *)
LEMMA ReceiveAckKeeps ==
  ASSUME LegsInv, UNCHANGED closed, NEW l \in InLegs, ReceiveAck(l)
  PROVE  LegsStep
<1> USE LegsAssumption DEF LegsInv, ReceiveAck, AnswerReturns, Goto, resources, Legs, Threads
<1>1. LegsTypeOK'
  BY DEF LegsTypeOK, InPlaces, OutPlaces
<1>2. FinishInv'
  BY DEF LegsTypeOK, FinishInv, Releasing
<1>3. InboundInv'
  BY DEF LegsTypeOK, FinishInv, InboundInv, Releases, InPlaces
<1>4. OutboundInv'
  BY DEF LegsTypeOK, OutboundInv, Releases, OutPlaces
<1>5. ASSUME NEW k \in Legs PROVE PhaseStep(Phase(k), Phase(k)')
  <2>1. CASE k # l
    BY <2>1, OtherPhases DEF LegsTypeOK, PhaseStep
  <2>2. CASE k = l
    BY <2>2 DEF LegsTypeOK, InPlaces, OutPlaces, InboundInv, OutboundInv, Releases,
       Phase, PhaseStep, Promise!Begins, Promise!IsAnswered, Promise!Ends
  <2> QED
    BY <2>1, <2>2
<1> QED
  BY <1>1, <1>2, <1>3, <1>4, <1>5 DEF LegsStep

(* No ACK: Answer succeeds all the same.                                   *)
LEMMA MissingAckKeeps ==
  ASSUME LegsInv, UNCHANGED closed, NEW l \in InLegs, MissingAck(l)
  PROVE  LegsStep
<1> USE LegsAssumption DEF LegsInv, MissingAck, AnswerReturns, Goto, resources, Legs, Threads
<1>1. LegsTypeOK'
  BY DEF LegsTypeOK, InPlaces, OutPlaces
<1>2. FinishInv'
  BY DEF LegsTypeOK, FinishInv, Releasing
<1>3. InboundInv'
  BY DEF LegsTypeOK, FinishInv, InboundInv, Releases, InPlaces
<1>4. OutboundInv'
  BY DEF LegsTypeOK, OutboundInv, Releases, OutPlaces
<1>5. ASSUME NEW k \in Legs PROVE PhaseStep(Phase(k), Phase(k)')
  <2>1. CASE k # l
    BY <2>1, OtherPhases DEF LegsTypeOK, PhaseStep
  <2>2. CASE k = l
    BY <2>2 DEF LegsTypeOK, InPlaces, OutPlaces, InboundInv, OutboundInv, Releases,
       Phase, PhaseStep, Promise!Begins, Promise!IsAnswered, Promise!Ends
  <2> QED
    BY <2>1, <2>2
<1> QED
  BY <1>1, <1>2, <1>3, <1>4, <1>5 DEF LegsStep

(* An answered leg ends.                                                   *)
LEMMA LeaveHeldKeeps ==
  ASSUME LegsInv, UNCHANGED closed, NEW l \in InLegs, LeaveHeld(l)
  PROVE  LegsStep
<1> USE LegsAssumption DEF LegsInv, LeaveHeld, Holds, Free, Goto, resources, Legs, Threads
<1>1. LegsTypeOK'
  BY DEF LegsTypeOK, InPlaces, OutPlaces
<1>2. FinishInv'
  BY DEF LegsTypeOK, FinishInv, Releasing
<1>3. InboundInv'
  BY AtPlace DEF LegsTypeOK, FinishInv, InboundInv, Releases, InPlaces
<1>4. OutboundInv'
  BY AtPlace DEF LegsTypeOK, OutboundInv, Releases, OutPlaces
<1>5. ASSUME NEW k \in Legs PROVE PhaseStep(Phase(k), Phase(k)')
  <2>1. CASE k # l
    BY <2>1, OtherPhases DEF LegsTypeOK, PhaseStep
  <2>2. CASE k = l
    BY <2>2, AtPlace DEF LegsTypeOK, InPlaces, OutPlaces, InboundInv, OutboundInv, Releases,
       Phase, PhaseStep, Promise!Begins, Promise!IsAnswered, Promise!Ends
  <2> QED
    BY <2>1, <2>2
<1> QED
  BY <1>1, <1>2, <1>3, <1>4, <1>5 DEF LegsStep

(* The deferred finish.                                                    *)
LEMMA HandlerReturnsKeeps ==
  ASSUME LegsInv, UNCHANGED closed, NEW l \in InLegs, HandlerReturns(l)
  PROVE  LegsStep
<1> USE LegsAssumption DEF LegsInv, HandlerReturns, Holds, Free, Finish, Goto, resources,
      Legs, Threads
<1>1. LegsTypeOK'
  BY DEF LegsTypeOK, InPlaces, OutPlaces
<1>2. FinishInv'
  BY DEF LegsTypeOK, FinishInv, Releasing
<1>3. InboundInv'
  BY AtPlace DEF LegsTypeOK, FinishInv, InboundInv, Releases, InPlaces
<1>4. OutboundInv'
  BY AtPlace DEF LegsTypeOK, OutboundInv, Releases, OutPlaces
<1>5. ASSUME NEW k \in Legs PROVE PhaseStep(Phase(k), Phase(k)')
  <2>1. CASE k # l
    BY <2>1, OtherPhases DEF LegsTypeOK, PhaseStep
  <2>2. CASE k = l
    BY <2>2, AtPlace DEF LegsTypeOK, InPlaces, OutPlaces, InboundInv, OutboundInv, Releases,
       Phase, PhaseStep, Promise!Begins, Promise!IsAnswered, Promise!Ends
  <2> QED
    BY <2>1, <2>2
<1> QED
  BY <1>1, <1>2, <1>3, <1>4, <1>5 DEF LegsStep

(* Invite begins, or cannot.                                               *)
LEMMA WriteInviteKeeps ==
  ASSUME LegsInv, UNCHANGED closed, NEW l \in OutLegs, WriteInvite(l)
  PROVE  LegsStep
<1> USE LegsAssumption DEF LegsInv, WriteInvite, InviteFails, Goto, resources, Legs, Threads
<1>1. LegsTypeOK'
  BY DEF LegsTypeOK, InPlaces, OutPlaces
<1>2. FinishInv'
  BY DEF LegsTypeOK, FinishInv, Releasing
<1>3. InboundInv'
  BY DEF LegsTypeOK, FinishInv, InboundInv, Releases, InPlaces
<1>4. OutboundInv'
  BY DEF LegsTypeOK, OutboundInv, Releases, OutPlaces
<1>5. ASSUME NEW k \in Legs PROVE PhaseStep(Phase(k), Phase(k)')
  <2>1. CASE k # l
    BY <2>1, OtherPhases DEF LegsTypeOK, PhaseStep
  <2>2. CASE k = l
    BY <2>2 DEF LegsTypeOK, InPlaces, OutPlaces, InboundInv, OutboundInv, Releases,
       Phase, PhaseStep, Promise!Begins, Promise!IsAnswered, Promise!Ends
  <2> QED
    BY <2>1, <2>2
<1> QED
  BY <1>1, <1>2, <1>3, <1>4, <1>5 DEF LegsStep

(* The 200 to the INVITE.                                                  *)
LEMMA InviteAnsweredKeeps ==
  ASSUME LegsInv, UNCHANGED closed, NEW l \in OutLegs, InviteAnswered(l)
  PROVE  LegsStep
<1> USE LegsAssumption DEF LegsInv, InviteAnswered, Goto, resources, Legs, Threads
<1>1. LegsTypeOK'
  BY DEF LegsTypeOK, InPlaces, OutPlaces
<1>2. FinishInv'
  BY DEF LegsTypeOK, FinishInv, Releasing
<1>3. InboundInv'
  BY DEF LegsTypeOK, FinishInv, InboundInv, Releases, InPlaces
<1>4. OutboundInv'
  BY DEF LegsTypeOK, OutboundInv, Releases, OutPlaces
<1>5. ASSUME NEW k \in Legs PROVE PhaseStep(Phase(k), Phase(k)')
  <2>1. CASE k # l
    BY <2>1, OtherPhases DEF LegsTypeOK, PhaseStep
  <2>2. CASE k = l
    BY <2>2 DEF LegsTypeOK, InPlaces, OutPlaces, InboundInv, OutboundInv, Releases,
       Phase, PhaseStep, Promise!Begins, Promise!IsAnswered, Promise!Ends
  <2> QED
    BY <2>1, <2>2
<1> QED
  BY <1>1, <1>2, <1>3, <1>4, <1>5 DEF LegsStep

(* The INVITE fails, and the leg is released before it ever was up.        *)
LEMMA InviteRefusedKeeps ==
  ASSUME LegsInv, UNCHANGED closed, NEW l \in OutLegs, InviteRefused(l)
  PROVE  LegsStep
<1> USE LegsAssumption DEF LegsInv, InviteRefused, InviteFails, Finish, Goto, resources,
      Legs, Threads
<1>1. LegsTypeOK'
  BY DEF LegsTypeOK, InPlaces, OutPlaces
<1>2. FinishInv'
  BY DEF LegsTypeOK, FinishInv, Releasing
<1>3. InboundInv'
  BY DEF LegsTypeOK, FinishInv, InboundInv, Releases, InPlaces
<1>4. OutboundInv'
  BY DEF LegsTypeOK, OutboundInv, Releases, OutPlaces
<1>5. ASSUME NEW k \in Legs PROVE PhaseStep(Phase(k), Phase(k)')
  <2>1. CASE k # l
    BY <2>1, OtherPhases DEF LegsTypeOK, PhaseStep
  <2>2. CASE k = l
    BY <2>2 DEF LegsTypeOK, InPlaces, OutPlaces, InboundInv, OutboundInv, Releases,
       Phase, PhaseStep, Promise!Begins, Promise!IsAnswered, Promise!Ends
  <2> QED
    BY <2>1, <2>2
<1> QED
  BY <1>1, <1>2, <1>3, <1>4, <1>5 DEF LegsStep

(* The ACK, or its failure.                                                *)
LEMMA SendAckKeeps ==
  ASSUME LegsInv, UNCHANGED closed, NEW l \in OutLegs, SendAck(l)
  PROVE  LegsStep
<1> USE LegsAssumption DEF LegsInv, SendAck, InviteFails, Finish, Goto, resources, Legs, Threads
<1>1. LegsTypeOK'
  BY DEF LegsTypeOK, InPlaces, OutPlaces
<1>2. FinishInv'
  BY DEF LegsTypeOK, FinishInv, Releasing
<1>3. InboundInv'
  BY DEF LegsTypeOK, FinishInv, InboundInv, Releases, InPlaces
<1>4. OutboundInv'
  BY DEF LegsTypeOK, OutboundInv, Releases, OutPlaces
<1>5. ASSUME NEW k \in Legs PROVE PhaseStep(Phase(k), Phase(k)')
  <2>1. CASE k # l
    BY <2>1, OtherPhases DEF LegsTypeOK, PhaseStep
  <2>2. CASE k = l
    BY <2>2 DEF LegsTypeOK, InPlaces, OutPlaces, InboundInv, OutboundInv, Releases,
       Phase, PhaseStep, Promise!Begins, Promise!IsAnswered, Promise!Ends
  <2> QED
    BY <2>1, <2>2
<1> QED
  BY <1>1, <1>2, <1>3, <1>4, <1>5 DEF LegsStep

(* The leg is up, and told at once of a dialog already over.               *)
LEMMA InviteReturnsKeeps ==
  ASSUME LegsInv, UNCHANGED closed, NEW l \in OutLegs, InviteReturns(l)
  PROVE  LegsStep
<1> USE LegsAssumption DEF LegsInv, InviteReturns, HookState, Finish, Goto, resources,
      Legs, Threads
<1>1. LegsTypeOK'
  BY DEF LegsTypeOK, InPlaces, OutPlaces
<1>2. FinishInv'
  BY DEF LegsTypeOK, FinishInv, Releasing
<1>3. InboundInv'
  BY DEF LegsTypeOK, FinishInv, InboundInv, Releases, InPlaces
<1>4. OutboundInv'
  BY DEF LegsTypeOK, OutboundInv, Releases, OutPlaces
<1>5. ASSUME NEW k \in Legs PROVE PhaseStep(Phase(k), Phase(k)')
  <2>1. CASE k # l
    BY <2>1, OtherPhases DEF LegsTypeOK, PhaseStep
  <2>2. CASE k = l
    BY <2>2 DEF LegsTypeOK, InPlaces, OutPlaces, InboundInv, OutboundInv, Releases,
       Phase, PhaseStep, Promise!Begins, Promise!IsAnswered, Promise!Ends
  <2> QED
    BY <2>1, <2>2
<1> QED
  BY <1>1, <1>2, <1>3, <1>4, <1>5 DEF LegsStep

(* BYE, or not, and finish.                                                *)
LEMMA HangupKeeps ==
  ASSUME LegsInv, UNCHANGED closed, NEW l \in OutLegs, Hangup(l)
  PROVE  LegsStep
<1> USE LegsAssumption DEF LegsInv, Hangup, Holds, Free, Finish, Goto, resources, Legs, Threads
<1>1. LegsTypeOK'
  BY DEF LegsTypeOK, InPlaces, OutPlaces
<1>2. FinishInv'
  BY DEF LegsTypeOK, FinishInv, Releasing
<1>3. InboundInv'
  BY AtPlace DEF LegsTypeOK, FinishInv, InboundInv, Releases, InPlaces
<1>4. OutboundInv'
  BY AtPlace DEF LegsTypeOK, OutboundInv, Releases, OutPlaces
<1>5. ASSUME NEW k \in Legs PROVE PhaseStep(Phase(k), Phase(k)')
  <2>1. CASE k # l
    BY <2>1, OtherPhases DEF LegsTypeOK, PhaseStep
  <2>2. CASE k = l
    BY <2>2, AtPlace DEF LegsTypeOK, InPlaces, OutPlaces, InboundInv, OutboundInv, Releases,
       Phase, PhaseStep, Promise!Begins, Promise!IsAnswered, Promise!Ends
  <2> QED
    BY <2>1, <2>2
<1> QED
  BY <1>1, <1>2, <1>3, <1>4, <1>5 DEF LegsStep

(* The far end is gone: whoever listens is told.                           *)
LEMMA FarEndsKeeps ==
  ASSUME LegsInv, UNCHANGED closed, NEW l \in Legs, FarEnds(l)
  PROVE  LegsStep
<1> USE LegsAssumption DEF LegsInv, FarEnds, Finish, resources, Legs, Threads
<1>1. LegsTypeOK'
  BY DEF LegsTypeOK, InPlaces, OutPlaces
<1>2. FinishInv'
  BY DEF LegsTypeOK, FinishInv, Releasing
<1>3. InboundInv'
  BY DEF LegsTypeOK, FinishInv, InboundInv, Releases, InPlaces
<1>4. OutboundInv'
  BY DEF LegsTypeOK, OutboundInv, Releases, OutPlaces
<1>5. ASSUME NEW k \in Legs PROVE PhaseStep(Phase(k), Phase(k)')
  <2>1. CASE k # l
    BY <2>1, OtherPhases DEF LegsTypeOK, PhaseStep
  <2>2. CASE k = l
    BY <2>2 DEF LegsTypeOK, InPlaces, OutPlaces, InboundInv, OutboundInv, Releases,
       Phase, PhaseStep, Promise!Begins, Promise!IsAnswered, Promise!Ends
  <2> QED
    BY <2>1, <2>2
<1> QED
  BY <1>1, <1>2, <1>3, <1>4, <1>5 DEF LegsStep

-----------------------------------------------------------------------------
(* Texts and the registration. *)
(* The server accepts a request once: it is then no longer under way.      *)
LEMMA ServerAnswersKeeps ==
  ASSUME MessagesInv, NEW m \in Sent, ServerAnswers(m)
  PROVE  MessagesInv'
<1>1. accepted[m] = 0 /\ request[m] \notin {"idle", "sent"} /\ UNCHANGED <<request, reply>>
  BY DEF MessagesInv, ServerAnswers
<1> DEFINE Wires == {"nothing", "request", "challenge", "accept", "refuse"}
<1>2. accepted \in [Sent -> Nat] /\ wire \in [Sent -> Wires]
  BY DEF MessagesInv, MessagesTypeOK
<1>3. CASE /\ wire' = [wire EXCEPT ![m] = "accept"]
           /\ accepted' = [accepted EXCEPT ![m] = @ + 1]
  <2>1. accepted[m] + 1 = 1
    BY <1>1
  <2>2. accepted' = [accepted EXCEPT ![m] = 1]
    BY <1>3, <2>1, Zenon
  <2>3. accepted' \in [Sent -> Nat] /\ wire' \in [Sent -> Wires]
    BY <1>2, <1>3, <2>2
  <2>4. accepted'[m] = 1 /\ wire'[m] = "accept"
    BY <1>2, <1>3, <2>2
  <2>5. \A n \in Sent \ {m} : accepted'[n] = accepted[n] /\ wire'[n] = wire[n]
    BY <1>2, <1>3, <2>2
  <2> QED
    BY <1>1, <1>2, <2>3, <2>4, <2>5 DEF MessagesInv, MessagesTypeOK
<1>4. CASE /\ \E what \in {"challenge", "refuse"} : wire' = [wire EXCEPT ![m] = what]
           /\ UNCHANGED accepted
  <2>1. wire' \in [Sent -> Wires]
    BY <1>2, <1>4
  <2>2. wire'[m] \in {"challenge", "refuse"}
    BY <1>2, <1>4
  <2>3. \A n \in Sent \ {m} : wire'[n] = wire[n]
    BY <1>2, <1>4
  <2> QED
    BY <1>1, <1>2, <1>4, <2>1, <2>2, <2>3 DEF MessagesInv, MessagesTypeOK
<1> QED
  BY <1>3, <1>4 DEF ServerAnswers

(* A text is sent again only after a challenge, so when it was not accepted.*)
LEMMA TextOutKeeps ==
  ASSUME MessagesInv, NEW m \in Sent, TextOut(m)
  PROVE  MessagesInv'
<1> USE DEF MessagesInv, MessagesTypeOK, Waiting
<1>1. ASSUME NEW place \in Waiting \cup {"sent", "failed"},
             NEW what \in {"nothing", "request", "challenge", "accept", "refuse"},
             Becomes(m, place, what),
             request[m] # "idle" \/ accepted[m] = 0,
             place = "sent" => accepted[m] = 1 /\ what = "nothing",
             what # "nothing" => what = wire[m] \/ (what = "request" /\ accepted[m] = 0)
      PROVE  MessagesInv'
  <2>1. MessagesTypeOK'
    BY <1>1 DEF Becomes
  <2>2. ASSUME NEW n \in Sent
        PROVE  /\ accepted'[n] \in {0, 1}
               /\ wire'[n] = "accept" \/ request'[n] = "sent" => accepted'[n] = 1
               /\ wire'[n] \in {"request", "challenge", "refuse"} \/ request'[n] = "idle"
                    => accepted'[n] = 0
               /\ request'[n] \in {"sent", "idle"} => wire'[n] = "nothing"
    BY <1>1 DEF Becomes
  <2> QED
    BY <2>1, <2>2
<1>2. CASE SendMessage(m)
  BY <1>1, <1>2 DEF SendMessage
<1>3. CASE Challenged(m)
  <2>1. request[m] # "idle" /\ accepted[m] = 0
    BY <1>3 DEF Challenged
  <2>2. Becomes(m, "second", "request") \/ Becomes(m, "failed", "nothing")
    BY <1>3 DEF Challenged
  <2> QED
    BY <1>1, <2>1, <2>2
<1>4. CASE Answered(m)
  <2>1. request[m] # "idle"
    BY <1>4 DEF Answered
  <2>2. (accepted[m] = 1 /\ Becomes(m, "sent", "nothing")) \/ Becomes(m, "failed", "nothing")
    BY <1>4 DEF Answered
  <2> QED
    BY <1>1, <2>1, <2>2
<1>5. CASE Unanswered(m)
  <2>1. wire[m] \in {"nothing", "request", "challenge", "accept", "refuse"}
    OBVIOUS
  <2> QED
    BY <1>1, <1>5, <2>1 DEF Unanswered
<1>6. CASE ServerAnswers(m)
  BY <1>6, ServerAnswersKeeps
<1> QED
  BY <1>2, <1>3, <1>4, <1>5, <1>6 DEF TextOut

(* A text in leaves those that go out alone.                               *)
LEMMA TextInKeeps ==
  ASSUME MessagesInv, NEW m \in Received, TextIn(m)
  PROVE  MessagesInv'
<1>1. PICK what \in {"handling", "not allowed", "not text", "rejected", "error", "ok"} :
        Replies(m, what)
  BY DEF TextIn, HandleMessage, MessageHandled
<1>2. MessagesTypeOK'
  BY <1>1 DEF MessagesInv, MessagesTypeOK, Replies
<1> QED
  BY <1>1, <1>2 DEF MessagesInv, Replies

(* The refresh is at half the lifetime.                                    *)
LEMMA RegistrationNumbers ==
  /\ Refresh \in Nat /\ 2 * Refresh <= Expiry
  /\ Lag \in Nat /\ Lag = Refresh + 2 * Transaction
  /\ Expiry \in Nat /\ Expiry > 0 /\ Transaction \in Nat /\ MaxFaults \in Nat
BY RegistrationAssumption DEF Refresh, Lag

(* A step of the loop or the registrar, or a tick.                         *)
LEMMA RegistrationStep ==
  ASSUME RegistrationInv, RegistrationNext, UNCHANGED endpoint, EndpointTypeOK
  PROVE  RegistrationInv'
<1> USE RegistrationNumbers DEF RegistrationInv, endpoint
<1>1. RegistrationTypeOK'
  <2> USE DEF RegistrationTypeOK, Asking, Goes, Fault, AnswerInv
  <2>1. CASE StartLoop
    BY <2>1 DEF StartLoop
  <2>2. CASE RegistrarAnswers
    BY <2>2 DEF RegistrarAnswers
  <2>3. CASE Registered
    BY <2>3 DEF Registered
  <2>4. CASE Authorize
    BY <2>4 DEF Authorize
  <2>5. CASE RegisterFails
    <3>1. faults' \in 0..MaxFaults
      BY <2>5 DEF RegisterFails
    <3>2. clock' \in {0, Refresh} /\ loop' \in {"ended", "waiting"} /\ answer' = "none"
      BY <2>5 DEF RegisterFails, Fails
    <3>3. clock' \in 0..(Expiry + Transaction)
      BY <3>2
    <3>4. registered' = FALSE /\ UNCHANGED <<binding, forgotten>>
      BY <2>5 DEF RegisterFails, Fails
    <3> QED
      BY <3>1, <3>2, <3>3, <3>4
  <2>6. CASE RefreshDue
    BY <2>6 DEF RefreshDue
  <2>7. CASE Deregister
    BY <2>7 DEF Deregister
  <2>8. CASE RegistrarForgets
    BY <2>8 DEF RegistrarForgets
  <2>9. CASE Tick
    BY <2>9 DEF Tick
  <2> QED
    BY <2>1, <2>2, <2>3, <2>4, <2>5, <2>6, <2>7, <2>8, <2>9 DEF RegistrationNext
<1>2. AnswerInv'
  <2> USE DEF RegistrationTypeOK, Asking, Goes, AnswerInv
  <2>1. CASE StartLoop
    BY <2>1 DEF StartLoop
  <2>2. CASE RegistrarAnswers
    BY <2>2 DEF RegistrarAnswers
  <2>3. CASE Registered
    BY <2>3 DEF Registered
  <2>4. CASE Authorize
    BY <2>4 DEF Authorize
  <2>5. CASE RegisterFails
    BY <2>5 DEF RegisterFails, Fails
  <2>6. CASE RefreshDue
    BY <2>6 DEF RefreshDue
  <2>7. CASE Deregister
    BY <2>7 DEF Deregister
  <2>8. CASE RegistrarForgets
    BY <2>8 DEF RegistrarForgets
  <2>9. CASE Tick
    BY <2>9 DEF Tick, Due
  <2> QED
    BY <2>1, <2>2, <2>3, <2>4, <2>5, <2>6, <2>7, <2>8, <2>9 DEF RegistrationNext
<1>3. RegisteredInv'
  <2> USE DEF RegistrationTypeOK, Asking, Goes, AnswerInv, RegisteredInv, Remaining
  <2>1. CASE StartLoop
    BY <2>1 DEF StartLoop
  <2>2. CASE RegistrarAnswers
    BY <2>2 DEF RegistrarAnswers
  <2>3. CASE Registered
    BY <2>3 DEF Registered
  <2>4. CASE Authorize
    BY <2>4 DEF Authorize
  <2>5. CASE RegisterFails
    BY <2>5 DEF RegisterFails, Fails
  <2>6. CASE RefreshDue
    BY <2>6 DEF RefreshDue
  <2>7. CASE Deregister
    BY <2>7 DEF Deregister
  <2>8. CASE RegistrarForgets
    BY <2>8 DEF RegistrarForgets
  <2>9. CASE Tick
    BY <2>9 DEF Tick, Due
  <2> QED
    BY <2>1, <2>2, <2>3, <2>4, <2>5, <2>6, <2>7, <2>8, <2>9 DEF RegistrationNext
<1> QED
  BY <1>1, <1>2, <1>3

(* The endpoint's end is final.                                            *)
LEMMA EndpointKeeps ==
  ASSUME EndpointTypeOK, EndpointNext
  PROVE  EndpointTypeOK' /\ (closed => closed') /\ (stopped => stopped')
BY DEF EndpointTypeOK, EndpointNext, SetHandlers, Listen, StopEndpoint, CloseEndpoint, ServeReturns

(* Texts that do not change keep their invariant.                          *)
LEMMA MessagesStutter ==
  ASSUME MessagesInv, UNCHANGED messageVars
  PROVE  MessagesInv'
BY DEF MessagesInv, MessagesTypeOK, messageVars, Waiting

(* So does a registration that does not, as only the context's end matters.*)
LEMMA RegistrationStutter ==
  ASSUME RegistrationInv, UNCHANGED registrationVars, stopped => stopped', EndpointTypeOK'
  PROVE  RegistrationInv'
<1>1. UNCHANGED <<loop, answer, clock, registered, binding, forgotten, faults>>
  BY DEF registrationVars
<1>2. RegistrationTypeOK' /\ AnswerInv'
  BY <1>1 DEF RegistrationInv, RegistrationTypeOK, AnswerInv
<1>3. Remaining' = Remaining
  BY <1>1 DEF Remaining
<1>4. RegisteredInv'
  BY <1>1, <1>3 DEF RegistrationInv, RegisteredInv
<1> QED
  BY <1>2, <1>4 DEF RegistrationInv

-----------------------------------------------------------------------------
(* The whole endpoint. *)
(* An inbound leg keeps the invariants and the promise.                    *)
LEMMA InboundKeeps ==
  ASSUME LegsInv, UNCHANGED closed, NEW l \in InLegs, Inbound(l)
  PROVE  LegsStep
BY HandleInviteKeeps, RunHandlerKeeps, RejectLegKeeps, LetGoKeeps, HearContextKeeps,
   HearDoneKeeps, AnswerKeeps, ReceiveAckKeeps, MissingAckKeeps, LeaveHeldKeeps,
   HandlerReturnsKeeps DEF Inbound

(* So does an outbound one.                                                *)
LEMMA OutboundKeeps ==
  ASSUME LegsInv, UNCHANGED closed, NEW l \in OutLegs, Outbound(l)
  PROVE  LegsStep
BY WriteInviteKeeps, InviteAnsweredKeeps, InviteRefusedKeeps, SendAckKeeps, InviteReturnsKeeps,
   HangupKeeps DEF Outbound

(* The invariants hold when the bridge starts.                             *)
LEMMA Initially == Init => IInv
<1> SUFFICES ASSUME Init PROVE IInv
  OBVIOUS
<1> USE DEF Init
<1>1. EndpointTypeOK
  BY DEF EndpointInit, EndpointTypeOK
<1>2. LegsTypeOK
  BY DEF LegsInit, LegsTypeOK, InPlaces, OutPlaces
<1>3. FinishInv
  BY DEF LegsInit, FinishInv, Releasing, Threads
<1>4. InboundInv
  BY DEF LegsInit, InboundInv, Releases, InPlaces, Legs
<1>5. OutboundInv
  BY DEF LegsInit, OutboundInv, Releases, OutPlaces, Legs
<1>6. MessagesInv
  BY DEF MessagesInit, MessagesInv, MessagesTypeOK, Waiting
<1>7. RegistrationTypeOK
  <2>1. 0 \in 0..(Expiry + Transaction) /\ 0 \in 0..Expiry /\ 0 \in 0..(Lag + 2)
    BY RegistrationNumbers
  <2>2. 0 \in 0..MaxFaults
    BY RegistrationNumbers
  <2> QED
    BY <2>1, <2>2 DEF RegistrationInit, RegistrationTypeOK
<1>8. AnswerInv /\ RegisteredInv
  BY RegistrationNumbers DEF RegistrationInit, AnswerInv, RegisteredInv, Asking
<1> QED
  BY <1>1, <1>2, <1>3, <1>4, <1>5, <1>6, <1>7, <1>8 DEF IInv, LegsInv, RegistrationInv

(* Every step keeps the invariants of all four parts, and shows the call   *)
(* subsystem a step of the promise on every leg.                           *)
LEMMA StepKeeps ==
  ASSUME IInv, [Next]_vars
  PROVE  IInv' /\ \A k \in Legs : PhaseStep(Phase(k), Phase(k)')
<1> USE DEF IInv
<1>0. UNCHANGED legVars => \A k \in Legs : PhaseStep(Phase(k), Phase(k)')
  BY DEF legVars, resources, Phase, PhaseStep
<1>1. UNCHANGED endpoint => EndpointTypeOK' /\ UNCHANGED <<closed, stopped>>
  BY DEF endpoint, EndpointTypeOK
<1>2. CASE UNCHANGED vars
  BY <1>0, <1>1, <1>2, LegsStutter, MessagesStutter, RegistrationStutter DEF vars
<1>3. CASE OfEndpoint(EndpointNext)
  BY <1>0, <1>3, EndpointKeeps, LegsStutter, MessagesStutter, RegistrationStutter DEF OfEndpoint
<1>4. ASSUME NEW l \in Legs, OfLegs(FarEnds(l)) \/ \E t \in Threads : OfLegs(FinishStep(l, t))
      PROVE  IInv' /\ \A k \in Legs : PhaseStep(Phase(k), Phase(k)')
  BY <1>1, <1>4, FarEndsKeeps, FinishStepKeeps, MessagesStutter,
     RegistrationStutter DEF OfLegs, LegsStep
<1>5. CASE \/ \E m \in traffic \cap Sent : OfTexts(TextOut(m))
           \/ \E m \in traffic \cap Received : OfTexts(TextIn(m))
  BY <1>0, <1>1, <1>5, TextOutKeeps, TextInKeeps, LegsStutter, RegistrationStutter DEF OfTexts
<1>6. CASE OfRegistration(RegistrationNext)
  BY <1>0, <1>1, <1>6, RegistrationStep, LegsStutter, MessagesStutter DEF OfRegistration
<1>7. ASSUME NEW l \in InLegs, OfLegs(Inbound(l))
      PROVE  IInv' /\ \A k \in Legs : PhaseStep(Phase(k), Phase(k)')
  BY <1>1, <1>7, InboundKeeps, MessagesStutter, RegistrationStutter DEF OfLegs, LegsStep
<1>8. ASSUME NEW l \in OutLegs, OfLegs(Outbound(l))
      PROVE  IInv' /\ \A k \in Legs : PhaseStep(Phase(k), Phase(k)')
  BY <1>1, <1>8, OutboundKeeps, MessagesStutter, RegistrationStutter DEF OfLegs, LegsStep
<1> QED
  BY <1>2, <1>3, <1>4, <1>5, <1>6, <1>7, <1>8 DEF Next, Legs

(* The invariants hold of every behaviour of call.go, message.go and        *)
(* transport.go.                                                            *)
THEOREM Invariance == Spec => []IInv
<1>1. IInv /\ [Next]_vars => IInv'
  BY StepKeeps
<1> QED
  BY Initially, <1>1, PTL DEF Spec

(* Type correctness of the endpoint and of all that runs on it.            *)
THEOREM TypeCorrect == Spec => []TypeOK
<1>1. IInv => TypeOK
  BY DEF IInv, LegsInv, MessagesInv, RegistrationInv, TypeOK
<1> QED
  BY Invariance, <1>1, PTL

(* A leg's handler takes its context's end for the bridge's own shutdown   *)
(* only when the endpoint was closed (finish and Finished in call.go).     *)
THEOREM ShutdownTold == Spec => []ShutdownIsTold
<1>1. IInv => ShutdownIsTold
  BY DEF IInv, LegsInv, InboundInv, ShutdownIsTold
<1> QED
  BY Invariance, <1>1, PTL

(* Answer and Invite return what was said on the wire (call.go).           *)
THEOREM AnswersAreTrue == Spec => []AnswerTellsTheTruth
<1>1. IInv => AnswerTellsTheTruth
  BY DEF IInv, LegsInv, InboundInv, OutboundInv, AnswerTellsTheTruth
<1> QED
  BY Invariance, <1>1, PTL

(* However requests and answers are lost, doWithDigest never has a text    *)
(* accepted twice, and SendMessage never reports a text sent that was not  *)
(* accepted (message.go, transport.go).                                    *)
THEOREM SentAreAccepted == Spec => []SentMeansAccepted
<1>1. IInv => SentMeansAccepted
  BY DEF IInv, MessagesInv, SentMeansAccepted
<1> QED
  BY Invariance, <1>1, PTL

(* registerLoop keeps the bridge bound, whatever the lifetime, if half of  *)
(* it and two requests that go unanswered fit in one lifetime.             *)
THEOREM RegisteredBound ==
  ASSUME Lag < Expiry
  PROVE  Spec => []RegisteredIsBound
<1>1. IInv => RegisteredIsBound
  <2> SUFFICES ASSUME IInv, registered, binding = 0, ~stopped
               PROVE  forgotten \in 1..(Lag + 1)
    BY DEF RegisteredIsBound
  <2>1. Remaining \in Nat
    BY RegistrationNumbers DEF IInv, RegistrationInv, RegistrationTypeOK, Remaining
  <2>2. forgotten \in Nat /\ forgotten # 0
    BY <2>1, RegistrationNumbers
       DEF IInv, RegistrationInv, RegistrationTypeOK, AnswerInv, RegisteredInv
  <2> QED
    BY <2>1, <2>2, RegistrationNumbers DEF IInv, RegistrationInv, RegisteredInv
<1> QED
  BY Invariance, <1>1, PTL

(* The legs of call.go keep the promise the call subsystem relies on: one  *)
(* final answer, given to a living leg, and no life after the end.         *)
THEOREM KeepsLegPromise == Spec => ImplementsLegPromise
<1>1. Init => Promise!Init
  BY DEF Init, LegsInit, Promise!Init, Phase, Legs
<1>2. IInv /\ [Next]_vars => [Promise!Next]_[l \in Legs |-> Phase(l)]
  <2> SUFFICES ASSUME IInv, [Next]_vars
               PROVE  Promise!Next
    OBVIOUS
  <2> QED
    BY StepKeeps DEF Promise!Next, PhaseStep
<1> QED
  BY Invariance, <1>1, <1>2, PTL DEF Spec, ImplementsLegPromise, Promise!Spec
=============================================================================
