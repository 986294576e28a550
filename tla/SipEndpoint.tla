---------------------------- MODULE SipEndpoint ----------------------------
(***************************************************************************)
(* The life of the bridge's SIP endpoint (pkg/siptransport/transport.go,   *)
(* started and stopped by pkg/connector/connector.go): handlers are set,   *)
(* the listener opens, the bridge's context ends, the endpoint is closed.  *)
(* Modules ControlLegs, SipMessages and Registration run on it.            *)
(***************************************************************************)
CONSTANT Password   \* whether sip.register.password is set

ASSUME PasswordAssumption == Password \in BOOLEAN

VARIABLES
  features, \* the features that are on, of "calls" and "texts"
  wired,    \* OnInvite and OnMessage have been called for them
  serving,  \* the listener: "not yet", "open" or "over"
  stopped,  \* the context of Run has ended
  closed    \* Close has run, and with it every handler's parent context

endpoint == <<features, wired, serving, stopped, closed>>

Features == {"calls", "texts"}

EndpointTypeOK ==
  /\ features \subseteq Features
  /\ wired \in BOOLEAN /\ stopped \in BOOLEAN /\ closed \in BOOLEAN
  /\ serving \in {"not yet", "open", "over"}

EndpointInit ==
  /\ features \in SUBSET Features
  /\ wired = FALSE
  /\ serving = "not yet"
  /\ stopped = FALSE
  /\ closed = FALSE

(* connector.Start sets the handlers of the features that are on.          *)
SetHandlers ==
  /\ ~wired
  /\ wired' = TRUE
  /\ UNCHANGED <<serving, stopped, closed>>

(* Run, which Start calls last.  The listener may also fail to bind.       *)
Listen ==
  /\ wired /\ serving = "not yet" /\ ~stopped
  /\ serving' \in {"open", "over"}
  /\ UNCHANGED <<wired, stopped, closed>>

(* SIPConnector.Stop ends the context of Run.                              *)
StopEndpoint ==
  /\ serving # "not yet" /\ ~stopped
  /\ stopped' = TRUE
  /\ UNCHANGED <<wired, serving, closed>>

(* The goroutine of serve that waits for that context closes the endpoint. *)
CloseEndpoint ==
  /\ stopped /\ ~closed
  /\ closed' = TRUE
  /\ UNCHANGED <<wired, serving, stopped>>

(* serve returns: the endpoint was closed, or the listener broke.          *)
ServeReturns ==
  /\ serving = "open"
  /\ serving' = "over"
  /\ UNCHANGED <<wired, stopped, closed>>

EndpointNext ==
  /\ SetHandlers \/ Listen \/ StopEndpoint \/ CloseEndpoint \/ ServeReturns
  /\ UNCHANGED features

(* Whether the request of a feature finds its handler.                     *)
Handles(feature) == wired /\ feature \in features
=============================================================================
