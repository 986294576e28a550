----------------------------- MODULE BridgeHealth -----------------------------
(***************************************************************************)
(* How the bridge tells its logins whether it can carry a call             *)
(* (pkg/connector/health.go and its callers): the SIP endpoint and its     *)
(* registration, the poll of it, the trunk reconciler of Trunk, and the    *)
(* logins that connect.  Each of them records a fact under the mutex of    *)
(* callHealth and sends what came of it after the unlock.                  *)
(* bridgev2's cache of logins and its state queues are external.           *)
(***************************************************************************)
EXTENDS Trunk

CONSTANTS
  Logins,           \* the logins that may appear
  Registers,        \* sip.register.enabled
  SIPDownNotice,    \* calls.notices.sip_down
  TrunkNotice       \* calls.notices.trunk_missing

ASSUME HealthAssumption ==
  /\ Registers \in BOOLEAN
  /\ SIPDownNotice \in BOOLEAN /\ TrunkNotice \in BOOLEAN
  /\ Logins \cap {"watcher", "reconciler"} = {}

VARIABLES
  endpoint,   \* the listener: "starting", "listening", "stopped" or "unbound"
  accepts,    \* whether the SIP server would accept a REGISTER
  registered,
  probed,     \* the readiness endpoint's last answer, "none" before the first
  sipDown, trunkErr, last, reported,  \* the fields of callHealth
  cached,     \* logins bridgev2 has loaded
  connected,  \* logins whose Connect has begun
  reading,    \* reporter -> what it found the endpoint to be and not recorded
  news,       \* reporter -> the state it has yet to send
  tell,       \* reporter -> the logins it has yet to send it to
  phase,      \* reporter -> "idle", "lookup" of the logins, or "send"
  told        \* login -> the last state sent to it, "none" before the first

sipVars    == <<endpoint, accepts, registered, probed>>
facts      == <<sipDown, trunkErr, last, reported>>
loginVars  == <<cached, connected>>
sending    == <<news, tell, phase, told>>
vars       == <<trunkVars, sipVars, facts, loginVars, reading, sending>>

Reporters == {"watcher", "reconciler"} \cup Logins
Readings  == {"none", "up", "down"}

\* A bridge state: a transient disconnect over the endpoint, or over the trunk
\* with the error in its message, or connected.
States    == {"connected", "sip_down"} \cup TrunkErrors

\* The zero BridgeState that goes with "nothing has changed".
Empty     == "empty"

Init ==
  /\ TrunkInit
  /\ endpoint = "starting" /\ accepts \in BOOLEAN /\ registered = FALSE
  /\ probed = "none"
  /\ sipDown = FALSE /\ trunkErr = "" /\ last = Empty /\ reported = FALSE
  /\ cached = {} /\ connected = {}
  /\ reading = [r \in Reporters |-> "none"]
  /\ news = [r \in Reporters |-> Empty] /\ tell = [r \in Reporters |-> {}]
  /\ phase = [r \in Reporters |-> "idle"]
  /\ told = [l \in Logins |-> "none"]

-------------------------------------------------------------------------------
\* The SIP endpoint.  Its server is started once, may fail to bind or stop
\* serving, and is not started again.

Ready == endpoint = "listening" /\ (Registers => registered)

Serve ==
  /\ \/ endpoint = "starting" /\ endpoint' = "listening" /\ UNCHANGED spent
     \/ endpoint = "starting" /\ Disturb("serve") /\ endpoint' = "unbound"
     \/ endpoint = "listening" /\ Disturb("serve") /\ endpoint' = "stopped"
  /\ UNCHANGED <<livekit, configured, trunkID, trunkPushed, reconciler, target, outcome>>
  /\ UNCHANGED <<accepts, registered, probed, facts, loginVars, reading, sending>>

\* One pass of registerLoop, which outlives the listener.
Register ==
  /\ Registers /\ endpoint \in {"listening", "stopped"}
  /\ registered' = accepts
  /\ UNCHANGED <<trunkVars, endpoint, accepts, probed, facts, loginVars, reading, sending>>

Registrar ==
  /\ Disturb("registrar") /\ accepts' = ~accepts
  /\ UNCHANGED <<livekit, configured, trunkID, trunkPushed, reconciler, target, outcome>>
  /\ UNCHANGED <<endpoint, registered, probed, facts, loginVars, reading, sending>>

\* Mistaken: readiness follows the endpoint.
ProbeWithoutLatch ==
  /\ probed' = IF Ready THEN "200" ELSE "503"
  /\ UNCHANGED <<trunkVars, endpoint, accepts, registered, facts, loginVars, reading, sending>>

\* The readiness endpoint, which latches.
Probe ==
  /\ probed' = IF probed = "200" \/ Ready THEN "200" ELSE "503"
  /\ UNCHANGED <<trunkVars, endpoint, accepts, registered, facts, loginVars, reading, sending>>

-------------------------------------------------------------------------------
\* callHealth.

Implied(down, err) ==
  IF down /\ SIPDownNotice THEN "sip_down"
  ELSE IF err # "" /\ TrunkNotice THEN err
  ELSE "connected"

\* Whether the facts imply a state that is not the last one recorded.
Differs(state) == ~(reported /\ state = last)

\* Record both facts, and keep the state they imply if it is a change.
Record(down, err) ==
  LET state == Implied(down, err) IN
  /\ sipDown' = down /\ trunkErr' = err
  /\ IF Differs(state) THEN last' = state /\ reported' = TRUE
                       ELSE UNCHANGED <<last, reported>>

RecordSIP(down)  == Record(down, trunkErr)
\* Mistaken: only the failures of the reconciler are recorded.
RecordTrunkFailure(err) == Record(sipDown, IF err = "" THEN trunkErr ELSE err)

RecordTrunk(err) == Record(sipDown, err)

\* report: nothing to do without a change, else look up the logins to tell.
Announce(r, state) ==
  IF Differs(state)
  THEN /\ news' = [news EXCEPT ![r] = state]
       /\ phase' = [phase EXCEPT ![r] = "lookup"]
       /\ UNCHANGED <<tell, told>>
  ELSE UNCHANGED sending

LookUp(r) ==
  /\ phase[r] = "lookup"
  /\ tell' = [tell EXCEPT ![r] = cached]
  /\ phase' = [phase EXCEPT ![r] = IF cached = {} THEN "idle" ELSE "send"]
  /\ UNCHANGED <<trunkVars, sipVars, facts, loginVars, reading, news, told>>

Send(r) == \E l \in tell[r] :
  /\ phase[r] = "send"
  /\ told' = [told EXCEPT ![l] = news[r]]
  /\ tell' = [tell EXCEPT ![r] = @ \ {l}]
  /\ phase' = [phase EXCEPT ![r] = IF tell[r] = {l} THEN "idle" ELSE "send"]
  /\ UNCHANGED <<trunkVars, sipVars, facts, loginVars, reading, news>>

-------------------------------------------------------------------------------
\* The reporters.  The endpoint is asked before the mutex is taken.

Ask(r) ==
  /\ reading[r] = "none" /\ phase[r] = "idle"
  /\ reading' = [reading EXCEPT ![r] = IF Ready THEN "up" ELSE "down"]

WatcherAsks ==
  /\ Ask("watcher")
  /\ UNCHANGED <<trunkVars, sipVars, facts, loginVars, sending>>

WatcherRecords ==
  /\ reading["watcher"] # "none"
  /\ LET down == reading["watcher"] = "down" IN
       RecordSIP(down) /\ Announce("watcher", Implied(down, trunkErr))
  /\ reading' = [reading EXCEPT !["watcher"] = "none"]
  /\ UNCHANGED <<trunkVars, sipVars, loginVars>>

\* bridgev2 loads a login and then connects it.
Load(l) ==
  /\ l \notin cached /\ cached' = cached \cup {l}
  /\ UNCHANGED <<trunkVars, sipVars, facts, connected, reading, sending>>

ConnectAsks(l) ==
  /\ l \in cached \ connected /\ Ask(l)
  /\ connected' = connected \cup {l}
  /\ UNCHANGED <<trunkVars, sipVars, facts, cached, sending>>

\* Connect sends the state it is handed, to its own login, changed or not.
ConnectRecords(l) ==
  /\ reading[l] # "none"
  /\ LET down  == reading[l] = "down"
         state == Implied(down, trunkErr)
     IN  /\ RecordSIP(down)
         /\ news' = [news EXCEPT ![l] = IF Differs(state) THEN state ELSE Empty]
  /\ tell' = [tell EXCEPT ![l] = {l}]
  /\ phase' = [phase EXCEPT ![l] = "send"]
  /\ reading' = [reading EXCEPT ![l] = "none"]
  /\ UNCHANGED <<trunkVars, sipVars, loginVars, told>>

\* The reconciler of Trunk, with its outcome reported.
ReconcilerWorks ==
  /\ Reconcile /\ phase["reconciler"] = "idle"
  /\ UNCHANGED <<sipVars, facts, loginVars, reading, sending>>

ReconcilerReports ==
  /\ Report
  /\ RecordTrunk(outcome) /\ Announce("reconciler", Implied(sipDown, outcome))
  /\ UNCHANGED <<sipVars, loginVars, reading>>

LiveKitDisturbed ==
  /\ TrunkDisturbed
  /\ UNCHANGED <<sipVars, facts, loginVars, reading, sending>>

-------------------------------------------------------------------------------
Connects(l) == ConnectAsks(l) \/ ConnectRecords(l)
Sends(r)    == LookUp(r) \/ Send(r)
Watches     == WatcherAsks \/ WatcherRecords
Reconciles  == ReconcilerWorks \/ ReconcilerReports

Next ==
  \/ Serve \/ Register \/ Registrar \/ Probe
  \/ Watches \/ Reconciles \/ LiveKitDisturbed
  \/ \E l \in Logins : Load(l) \/ Connects(l)
  \/ \E r \in Reporters : Sends(r)

Spec == Init /\ [][Next]_vars

\* Timers fire and goroutines run; nothing has to go wrong, and a login need
\* not appear.
Fairness ==
  /\ WF_vars(Serve /\ endpoint' # "stopped") /\ WF_vars(Register)
  /\ WF_vars(Watches) /\ WF_vars(Reconciles)
  /\ \A l \in Logins : WF_vars(Connects(l))
  /\ \A r \in Reporters : WF_vars(Sends(r))

FairSpec == Spec /\ Fairness
================================================================================
