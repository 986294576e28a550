---------------------------- MODULE SipTransport ----------------------------
(***************************************************************************)
(* The SIP endpoint with everything that runs on it: control legs, texts   *)
(* in and out, and the registration.  They share the endpoint's life and   *)
(* nothing else, so an instance lists the traffics it puts together.       *)
(***************************************************************************)
EXTENDS ControlLegs, SipMessages, Registration

CONSTANT Traffics   \* each a set of legs, of texts and of "registration"

Everything == Legs \cup Sent \cup Received \cup {"registration"}

ASSUME TrafficsAssumption == Traffics \subseteq SUBSET Everything

VARIABLE traffic    \* the one of Traffics this behaviour has

vars == <<endpoint, legVars, messageVars, registrationVars, traffic>>

TypeOK ==
  /\ EndpointTypeOK /\ LegsTypeOK /\ MessagesTypeOK /\ RegistrationTypeOK
  /\ traffic \in Traffics

Init ==
  /\ EndpointInit /\ LegsInit /\ MessagesInit /\ RegistrationInit
  /\ traffic \in Traffics

(* A step of one part leaves the others as they are.                       *)
OfEndpoint(A) ==
  A /\ UNCHANGED <<legVars, messageVars, registrationVars, traffic>>
OfLegs(A) ==
  A /\ UNCHANGED <<endpoint, messageVars, registrationVars, traffic>>
OfTexts(A) ==
  A /\ UNCHANGED <<endpoint, legVars, registrationVars, traffic>>
OfRegistration(A) ==
  "registration" \in traffic /\ A /\ UNCHANGED <<endpoint, legVars, messageVars, traffic>>

Next ==
  \/ OfEndpoint(EndpointNext)
  \/ \E l \in traffic \cap InLegs : OfLegs(Inbound(l))
  \/ \E l \in traffic \cap OutLegs : OfLegs(Outbound(l))
  \/ \E l \in traffic \cap Legs :
       OfLegs(FarEnds(l)) \/ \E t \in Threads : OfLegs(FinishStep(l, t))
  \/ \E m \in traffic \cap Sent : OfTexts(TextOut(m))
  \/ \E m \in traffic \cap Received : OfTexts(TextIn(m))
  \/ OfRegistration(RegistrationNext)

(* Goroutines run, an ACK is sent, a failed INVITE returns.  Nothing is    *)
(* assumed of the far end, and nothing of how long a handler holds a leg.  *)
LegsFair ==
  /\ \A l \in Legs, t \in Threads : WF_vars(OfLegs(FinishStep(l, t)))
  /\ \A l \in InLegs : WF_vars(OfLegs(RunHandler(l)))
  /\ \A l \in OutLegs :
       /\ WF_vars(OfLegs(InviteReturns(l)))
       /\ WF_vars(OfLegs(SendAck(l)))
       /\ WF_vars(OfLegs(dialog[l] = "ended" /\ InviteRefused(l)))

(* The loop runs, time passes, and a request is answered or times out.     *)
RegistrationFair ==
  /\ WF_vars(OfRegistration(StartLoop))
  /\ WF_vars(OfRegistration(RegistrarAnswers))
  /\ WF_vars(OfRegistration(Registered))
  /\ WF_vars(OfRegistration(Authorize))
  /\ WF_vars(OfRegistration(RegisterFails))
  /\ WF_vars(OfRegistration(RefreshDue))
  /\ WF_vars(OfRegistration(Tick))

Spec == Init /\ [][Next]_vars /\ LegsFair /\ RegistrationFair

-----------------------------------------------------------------------------
(* Whoever the end of a leg's context wakes learns why it ended: a leg is  *)
(* taken to have been cut off by the bridge's own end only when that is so,*)
(* and not when the caller hung up (Finished, call.go).                    *)
ShutdownIsTold == \A l \in InLegs : verdict[l] = "shutdown" => closed

(* Answer succeeds exactly if the caller has been sent a 200, whichever of *)
(* ACK and BYE comes first, and Invite only for a leg that was answered.   *)
AnswerTellsTheTruth ==
  /\ \A l \in InLegs :
       /\ returned[l] = "ok" => status[l] = "ok"
       /\ returned[l] = "error" => status[l] # "ok"
  /\ \A l \in OutLegs : returned[l] = "ok" => dialog[l] \in {"confirmed", "ended"}

(* The end of a dialog reaches its leg, even if it came before the leg was *)
(* listening or while another goroutine was releasing it.                  *)
EndedLegIsReleased ==
  \A l \in Legs : dialog[l] = "ended" ~> over[l] = 1

(* What the call subsystem relies on in a leg.                             *)
Promise == INSTANCE LegPromise WITH leg <- [l \in Legs |-> Phase(l)]
ImplementsLegPromise == Promise!Spec

(* A text is accepted by the SIP server at most once, and has been if      *)
(* SendMessage says so, whatever is lost on the way (doWithDigest).        *)
SentMeansAccepted ==
  \A m \in Sent : accepted[m] <= 1 /\ (request[m] = "sent" => accepted[m] = 1)

(* The bridge thinks itself registered and is not only if the registrar has*)
(* forgotten it, and finds out within one refresh and its requests.        *)
RegisteredIsBound ==
  registered /\ binding = 0 /\ ~stopped => forgotten \in 1..(Lag + 1)

(* A registration that was refused, lost or forgotten is made again.       *)
RegistrationRecovers ==
  loop # "off" ~> (registered /\ binding > 0) \/ stopped
=============================================================================
