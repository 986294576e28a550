---------------------------- MODULE Registration ----------------------------
(***************************************************************************)
(* The bridge's registration with the SIP server (registerLoop and         *)
(* register in pkg/siptransport/transport.go), in discrete time.  The      *)
(* registrar is external: it binds the bridge for the time it asked for,   *)
(* may challenge, refuse, lose a request or an answer, and may forget.     *)
(***************************************************************************)
EXTENDS Naturals, SipEndpoint

CONSTANTS
  RegisterEnabled,  \* sip.register.enabled
  Expiry,           \* the lifetime asked for, in ticks
  Transaction,      \* how long a request may wait for its answer, in ticks
  MaxFaults         \* bound on what the registrar does wrong

ASSUME RegistrationAssumption ==
  /\ RegisterEnabled \in BOOLEAN
  /\ Expiry \in Nat \ {0} /\ Transaction \in Nat /\ MaxFaults \in Nat

(* Mistaken: refreshed when it is due to expire.                           *)
RefreshAtExpiry == Expiry

(* Refreshed at half its lifetime. *)
Refresh == Expiry \div 2

\* What the reading of the loop's flag may be late by: a wait for the timer,
\* and then a request and the one that answers its challenge.
Lag == Refresh + 2 * Transaction

VARIABLES
  loop,        \* where registerLoop is
  answer,      \* what the registrar has said to its request
  clock,       \* ticks left until the timer fires, or the request times out
  registered,  \* Transport.registered
  binding,     \* ticks the registrar will still know the bridge for
  forgotten,   \* ticks since the registrar forgot the bridge, at most Lag + 1
  faults       \* what has gone wrong so far

registrationVars == <<loop, answer, clock, registered, binding, forgotten, faults>>

Asking == {"register", "authorize"}

RegistrationTypeOK ==
  /\ loop \in Asking \cup {"off", "waiting", "ended"}
  /\ answer \in {"none", "ok", "challenge", "refused"}
  /\ clock \in 0..(Expiry + Transaction)
  /\ registered \in BOOLEAN
  /\ binding \in 0..Expiry
  /\ forgotten \in 0..(Lag + 2)
  /\ faults \in 0..MaxFaults

RegistrationInit ==
  /\ loop = "off"
  /\ answer = "none"
  /\ clock = 0
  /\ registered = FALSE
  /\ binding = 0
  /\ forgotten = 0
  /\ faults = 0

Goes(place, time) ==
  /\ loop' = place /\ clock' = time /\ answer' = "none"

Fault == faults < MaxFaults /\ faults' = faults + 1

(* serve starts the loop; without registration it returns at once.         *)
StartLoop ==
  /\ RegisterEnabled /\ serving = "open" /\ loop = "off"
  /\ Goes("register", Transaction)
  /\ UNCHANGED <<registered, binding, forgotten, faults>>

(* The registrar takes the request and binds the bridge, or challenges it  *)
(* once, or refuses it.                                                    *)
RegistrarAnswers ==
  /\ loop \in Asking /\ answer = "none"
  /\ \/ answer' = "ok" /\ binding' = Expiry /\ forgotten' = 0 /\ UNCHANGED faults
     \/ answer' = "challenge" /\ loop = "register" /\ UNCHANGED <<binding, forgotten, faults>>
     \/ answer' = "refused" /\ Fault /\ UNCHANGED <<binding, forgotten>>
  /\ UNCHANGED <<loop, clock, registered>>

Registered ==
  /\ loop \in Asking /\ answer = "ok"
  /\ registered' = TRUE
  /\ Goes("waiting", Refresh)
  /\ UNCHANGED <<binding, forgotten, faults>>

(* retryWithDigest. *)
Authorize ==
  /\ Password /\ answer = "challenge"
  /\ Goes("authorize", Transaction)
  /\ UNCHANGED <<registered, binding, forgotten, faults>>

(* Mistaken: the first failure ends the loop.                              *)
FailsForGood ==
  /\ registered' = FALSE
  /\ Goes("ended", 0)
  /\ UNCHANGED <<binding, forgotten>>

Fails ==
  /\ registered' = FALSE
  /\ IF stopped THEN Goes("ended", 0) ELSE Goes("waiting", Refresh)
  /\ UNCHANGED <<binding, forgotten>>

(* A refusal, a loss of the request or its answer, the end of the context. *)
RegisterFails ==
  /\ loop \in Asking
  /\ \/ answer = "refused" /\ UNCHANGED faults
     \/ answer = "challenge" /\ ~Password /\ UNCHANGED faults
     \/ clock = 0 /\ Fault
     \/ stopped /\ UNCHANGED faults
  /\ Fails

(* The timer fires and the loop goes round.                                *)
RefreshDue ==
  /\ loop = "waiting" /\ clock = 0
  /\ Goes("register", Transaction)
  /\ UNCHANGED <<registered, binding, forgotten, faults>>

(* The context ends the loop's wait: a REGISTER that expires at once, whose*)
(* answer nobody reads, and which Close may overtake.                      *)
Deregister ==
  /\ loop = "waiting" /\ stopped
  /\ binding' \in {0, binding}
  /\ Goes("ended", 0)
  /\ UNCHANGED <<registered, forgotten, faults>>

RegistrarForgets ==
  /\ binding > 0
  /\ Fault
  /\ binding' = 0 /\ forgotten' = 1
  /\ UNCHANGED <<loop, answer, clock, registered>>

\* A wait that is over, and an answer that has come, are taken up in the tick.
Due ==
  \/ loop = "waiting" /\ clock = 0
  \/ loop \in Asking /\ (clock = 0 \/ answer # "none")

Tick ==
  /\ ~Due
  /\ clock' = IF clock > 0 THEN clock - 1 ELSE 0
  /\ binding' = IF binding > 0 THEN binding - 1 ELSE 0
  /\ forgotten' = IF forgotten \in 1..(Lag + 1) THEN forgotten + 1 ELSE forgotten
  /\ UNCHANGED <<loop, answer, registered, faults>>

RegistrationNext ==
  \/ StartLoop \/ RegistrarAnswers \/ Registered \/ Authorize \/ RegisterFails
  \/ RefreshDue \/ Deregister \/ RegistrarForgets \/ Tick
=============================================================================
