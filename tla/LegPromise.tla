----------------------------- MODULE LegPromise -----------------------------
(***************************************************************************)
(* What the call subsystem may rely on in its control legs, inbound and    *)
(* outbound (the interfaces InboundLeg and OutboundLeg): a leg gets at most*)
(* one final answer, an answered leg was answered while it lived, and a leg*)
(* that is over stays over.  Module ControlLegs, the SIP side, keeps the   *)
(* promise; module Calls, which uses the legs, assumes no more than that.  *)
(***************************************************************************)
CONSTANT Legs

VARIABLE leg

Init == leg = [l \in Legs |-> "none"]

(* An INVITE arrives, or is sent. *)
Begins(was, is) == was = "none" /\ is \in {"ringing", "refused"}

(* One final answer, given or received. *)
IsAnswered(was, is) == was = "ringing" /\ is \in {"answered", "refused"}

(* CANCEL or BYE, or the handler lets go of the leg. *)
Ends(was, is) ==
  \/ was = "ringing" /\ is = "gone"
  \/ was = "answered" /\ is = "over"

(* Several legs may end at once, when the process does. *)
Next ==
  \A l \in Legs :
    LET was == leg[l]
        is  == leg'[l]
    IN Begins(was, is) \/ IsAnswered(was, is) \/ Ends(was, is) \/ is = was

Spec == Init /\ [][Next]_leg
=============================================================================
