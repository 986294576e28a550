---------------------------- MODULE SipMessages ----------------------------
(***************************************************************************)
(* Texts as SIP MESSAGE requests (pkg/siptransport/message.go, the digest  *)
(* retry in transport.go).  A text out is one request, or two when the SIP *)
(* server challenges the first; requests and answers may be lost.  A text  *)
(* in is answered by the handler's verdict.  The SIP server, and within a  *)
(* transaction sipgo's retransmission, are external.                       *)
(***************************************************************************)
EXTENDS Naturals, SipEndpoint

CONSTANTS
  Sent,       \* texts the bridge sends
  Received    \* texts the SIP server sends

VARIABLES
  request,    \* text sent -> where SendMessage is
  wire,       \* text sent -> what is under way between bridge and server
  accepted,   \* text sent -> how often the server has accepted it
  reply       \* text received -> where handleMessage is, or its final status

messageVars == <<request, wire, accepted, reply>>

Waiting == {"first", "second"}

MessagesTypeOK ==
  /\ request \in [Sent -> Waiting \cup {"idle", "sent", "failed"}]
  /\ wire \in [Sent -> {"nothing", "request", "challenge", "accept", "refuse"}]
  /\ accepted \in [Sent -> Nat]
  /\ reply \in [Received -> {"none", "handling", "not allowed", "not text", "rejected", "error", "ok"}]

MessagesInit ==
  /\ request = [m \in Sent |-> "idle"]
  /\ wire = [m \in Sent |-> "nothing"]
  /\ accepted = [m \in Sent |-> 0]
  /\ reply = [m \in Received |-> "none"]

Becomes(m, place, what) ==
  /\ request' = [request EXCEPT ![m] = place]
  /\ wire' = [wire EXCEPT ![m] = what]
  /\ UNCHANGED <<accepted, reply>>

(* A request over the packet limit is refused before it is sent.           *)
SendMessage(m) ==
  /\ Handles("texts") /\ request[m] = "idle"
  /\ Becomes(m, "first", "request") \/ Becomes(m, "failed", "nothing")

(* The server challenges a request without credentials, if it challenges at*)
(* all; one it answers with success it has accepted.                       *)
ServerAnswers(m) ==
  /\ wire[m] = "request"
  /\ \E answer \in {"challenge", "accept", "refuse"} :
       /\ wire' = [wire EXCEPT ![m] = answer]
       /\ accepted' = IF answer = "accept" THEN [accepted EXCEPT ![m] = @ + 1] ELSE accepted
  /\ UNCHANGED <<request, reply>>

(* doWithDigest: a challenge is answered once, with a new transaction.     *)
Challenged(m) ==
  /\ request[m] = "first" /\ wire[m] = "challenge"
  /\ IF Password
     THEN Becomes(m, "second", "request") \/ Becomes(m, "failed", "nothing")
     ELSE Becomes(m, "failed", "nothing")

Answered(m) ==
  /\ request[m] \in Waiting
  /\ \/ wire[m] = "accept" /\ Becomes(m, "sent", "nothing")
     \/ wire[m] = "refuse" /\ Becomes(m, "failed", "nothing")
     \/ request[m] = "second" /\ wire[m] = "challenge" /\ Becomes(m, "failed", "nothing")

(* Mistaken: the second attempt is made whatever became of the first.      *)
RetryUnanswered(m) ==
  /\ request[m] \in Waiting
  /\ Becomes(m, IF request[m] = "first" THEN "second" ELSE "failed", "request")

(* The request or its answer is lost or late, or the caller's context ends.*)
(* The server may still come to accept the request.                        *)
Unanswered(m) ==
  /\ request[m] \in Waiting
  /\ Becomes(m, "failed", wire[m]) \/ Becomes(m, "failed", "nothing")

Replies(m, what) ==
  /\ reply' = [reply EXCEPT ![m] = what]
  /\ UNCHANGED <<request, wire, accepted>>

(* handleMessage, up to the handler. *)
HandleMessage(m) ==
  /\ serving = "open" /\ reply[m] = "none"
  /\ IF Handles("texts") THEN Replies(m, "not text") \/ Replies(m, "handling")
                         ELSE Replies(m, "not allowed")

(* The handler's verdict: success, an error with a status of its own from  *)
(* 300 to 699, or any other error, such as the end of its 32 seconds.      *)
MessageHandled(m) ==
  /\ reply[m] = "handling"
  /\ \E what \in {"ok", "rejected", "error"} : Replies(m, what)

TextOut(m) ==
  SendMessage(m) \/ ServerAnswers(m) \/ Challenged(m) \/ Answered(m) \/ Unanswered(m)

TextIn(m) == HandleMessage(m) \/ MessageHandled(m)
=============================================================================
