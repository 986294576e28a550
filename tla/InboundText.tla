----------------------------- MODULE InboundText ------------------------------
(***************************************************************************)
(* What the durable inbound path promises a sender (ADR-0018): a text is   *)
(* received once, answered at most once, and lands in Matrix at most once; *)
(* and a sender who waits for each 200 before sending the next text to the *)
(* same portal sees them land in that order.  A text that had to be        *)
(* spooled is not held to the order.  How the promise is kept is module    *)
(* InboundQueue.                                                           *)
(***************************************************************************)
CONSTANTS Texts, PortalOf

VARIABLES
  answer,   \* text -> "none", "200" or "500"
  ordered,  \* the texts answered from the table, which later texts follow
  prior,    \* text -> the ordered texts of its portal when it was received
  received, \* the texts received so far
  landed    \* the texts in Matrix

vars == <<answer, ordered, prior, received, landed>>

Init ==
  /\ answer = [t \in Texts |-> "none"]
  /\ prior = [t \in Texts |-> {}]
  /\ ordered = {} /\ received = {} /\ landed = {}

Receive(t) ==
  /\ t \notin received
  /\ received' = received \cup {t}
  /\ prior' = [prior EXCEPT ![t] = {o \in ordered : PortalOf[o] = PortalOf[t]}]
  /\ UNCHANGED <<answer, ordered, landed>>

(* The answer is the last word the SIP server gets about the text.          *)
Respond(t) ==
  /\ t \in received /\ answer[t] = "none"
  /\ \/ answer' = [answer EXCEPT ![t] = "200"] /\ ordered' \in {ordered, ordered \cup {t}}
     \/ answer' = [answer EXCEPT ![t] = "500"] /\ UNCHANGED ordered
  /\ UNCHANGED <<prior, received, landed>>

Land(t) ==
  /\ t \in received \ landed
  /\ prior[t] \subseteq landed
  /\ landed' = landed \cup {t}
  /\ UNCHANGED <<answer, ordered, prior, received>>

Next == \E t \in Texts : Receive(t) \/ Respond(t) \/ Land(t)

Spec == Init /\ [][Next]_vars
==============================================================================
