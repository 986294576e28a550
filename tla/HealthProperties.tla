--------------------------- MODULE HealthProperties ---------------------------
(***************************************************************************)
(* What the trunk reconciler and the bridge state are for: the properties  *)
(* of Trunk and BridgeHealth.                                              *)
(***************************************************************************)
EXTENDS BridgeHealth

\* Every variable of both modules holds a value of its type; a reporter sends
\* only what it has looked up logins for, and a login is told of nothing that
\* is not a state callHealth.state can compute, or the empty one.
TypeOK ==
  /\ TrunkTypeOK
  /\ endpoint \in {"starting", "listening", "stopped", "unbound"}
  /\ accepts \in BOOLEAN /\ registered \in BOOLEAN
  /\ probed \in {"none", "200", "503"}
  /\ sipDown \in BOOLEAN /\ trunkErr \in TrunkErrors \cup {""}
  /\ last \in States \cup {Empty} /\ reported \in BOOLEAN
  /\ reported <=> last # Empty
  /\ cached \subseteq Logins /\ connected \subseteq cached
  /\ reading \in [Reporters -> Readings]
  /\ news \in [Reporters -> States \cup {Empty}]
  /\ tell \in [Reporters -> SUBSET Logins]
  /\ phase \in [Reporters -> {"idle", "lookup", "send"}]
  /\ \A r \in Reporters : phase[r] = "send" <=> tell[r] # {}
  /\ told \in [Logins -> States \cup {Empty, "none"}]

-------------------------------------------------------------------------------
\* The fault that really is there, as the settings of calls.notices let it show.
TrunkFault == IF configured THEN "" ELSE "unconfigured"
Truth ==
  CASE ~Ready /\ SIPDownNotice -> "sip_down"
    [] (Ready \/ ~SIPDownNotice) /\ TrunkFault # "" /\ TrunkNotice -> TrunkFault
    [] OTHER -> "connected"

\* The recorded state comes to agree with the endpoint and the trunk and stays
\* with them: a late or overlapping report delays that and never prevents it
\* (callHealth.changed, health.go:62-77, and its three callers).  Then the
\* reporters fall silent, though the poll and the reconciler go on.
RecordedIsTrue ==
  <>[](reported /\ last = Truth /\ \A r \in Reporters : phase[r] = "idle")

\* Once a readiness probe was answered 200 no later one is answered 503, and no
\* probe is answered 200 before the listener was bound: a registration that
\* drops does not take the bridge out of service (readinessHandler).  All the
\* while the types hold.
ReadinessLatches ==
  /\ []TypeOK
  /\ [][ /\ probed = "200" => probed' = "200"
         /\ probed' = "200" => endpoint' \in {"listening", "stopped"} ]_vars

-------------------------------------------------------------------------------
\* The first state a login is sent is a state, never the empty BridgeState
\* ("this is the first state the login ever has", client.go:51-53).
FirstStateIsReal == \A l \in Logins : told[l] # Empty

\* Whatever step records a new state, that state is on its way to every login
\* that has been told of an earlier one ("report sends a bridge state that
\* actually changed, to every login", connector.go:188).
ChangeIsForEveryone ==
  [][ last' # last =>
        \A l \in {m \in Logins : told[m] # "none"} : \E r \in Reporters :
          news'[r] = last' /\ (phase'[r] = "lookup" \/ l \in tell'[r]) ]_vars

\* With no report under way every login that was told a state was last told the
\* recorded one ("watchSIPHealth keeps the bridge state in step with the
\* endpoint", connector.go:165).
ToldIsRecorded ==
  (\A r \in Reporters : phase[r] = "idle" /\ reading[r] = "none") =>
    \A l \in connected : told[l] \in {last, Empty}
================================================================================
