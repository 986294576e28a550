--------------------------------- MODULE Trunk ---------------------------------
(***************************************************************************)
(* The trunk reconciler (pkg/calls/trunk.go) against a LiveKit that may    *)
(* lose the outbound trunk, restore an old one, leave the password out of  *)
(* what it lists, fail a request, or carry one out and lose the answer.    *)
(* LiveKit is external.  Of the trunks it lists only the first under the   *)
(* wanted name is ever looked at, so that one is all the model keeps.      *)
(***************************************************************************)
EXTENDS Naturals

CONSTANTS
  LiveKits,         \* the versions considered: whether they withhold passwords
  Disturbances,     \* what may go wrong, see Disturb and its uses
  MaxDisturbances   \* bound on how often

ASSUME TrunkAssumption ==
  /\ LiveKits \subseteq BOOLEAN
  /\ MaxDisturbances \in Nat

VARIABLES
  stored,      \* the trunk under the wanted name, or NoTrunk
  issued,      \* how many trunk IDs LiveKit has given out
  withholds,   \* whether its version leaves auth_password out of a List
  configured,  \* whether trunk_address is set
  trunkID,     \* the cached ID, 0 while there is none
  trunkPushed, \* whether this process has pushed the wanted spec
  reconciler,  \* "idle", "update", "create" or "report"
  target,      \* the ID the update in progress names
  outcome,     \* where the last reconcile failed, "" if it did not
  spent        \* how many disturbances there have been

livekit   == <<stored, issued, withholds>>
trunkVars == <<livekit, configured, trunkID, trunkPushed, reconciler, target, outcome, spent>>

Passwords == {"wanted", "other", "blank"}
Trunks    == [id : Nat, settings : {"wanted", "other"}, password : Passwords]
NoTrunk   == [id |-> 0, settings |-> "other", password |-> "blank"]

\* The trunk the config asks for, under a given ID.
Wanted(i) == [id |-> i, settings |-> "wanted", password |-> "wanted"]

TrunkErrors == {"unconfigured", "list", "update", "create"}

\* What a List shows of the trunk's password, and where the two copies differ.
Shown(t) == IF withholds THEN "blank" ELSE t.password
Diff(t)  == (IF t.settings # "wanted" THEN {"settings"} ELSE {})
              \cup (IF Shown(t) # "wanted" THEN {"auth_password"} ELSE {})

\* Mistaken: a blank password is always drift.
NeverExcused(t) == FALSE

\* A blank password is the only difference, and the spec has been pushed.
Excused(t) == Diff(t) = {"auth_password"} /\ Shown(t) = "blank" /\ trunkPushed

TrunkInit ==
  /\ stored \in {NoTrunk} \cup {[Wanted(1) EXCEPT !.password = p] : p \in Passwords}
  /\ issued = 1 /\ withholds \in LiveKits /\ configured \in BOOLEAN
  /\ trunkID = 0 /\ trunkPushed = FALSE
  /\ reconciler = "idle" /\ target = 0 /\ outcome = "" /\ spent = 0

Disturb(d) ==
  /\ d \in Disturbances /\ spent < MaxDisturbances
  /\ spent' = spent + 1

Finish(err) == reconciler' = "report" /\ outcome' = err

\* The reconcile up to its write, or to its end if there is nothing to write.
ReconcileList ==
  /\ reconciler = "idle"
  /\ \/ /\ ~configured /\ Finish("unconfigured")
        /\ UNCHANGED <<trunkID, trunkPushed, target, spent>>
     \/ /\ configured /\ Disturb("request") /\ Finish("list")
        /\ UNCHANGED <<trunkID, trunkPushed, target>>
     \/ /\ configured /\ stored = NoTrunk
        /\ reconciler' = "create"
        /\ UNCHANGED <<trunkID, trunkPushed, target, outcome, spent>>
     \/ /\ configured /\ stored # NoTrunk
        /\ trunkID' = stored.id
        /\ \/ /\ Diff(stored) = {} /\ Finish("")
              /\ trunkPushed' = TRUE /\ UNCHANGED target
           \/ /\ Excused(stored) /\ Finish("")
              /\ UNCHANGED <<trunkPushed, target>>
           \/ /\ Diff(stored) # {} /\ ~Excused(stored)
              /\ reconciler' = "update" /\ target' = stored.id
              /\ UNCHANGED <<trunkPushed, outcome>>
        /\ UNCHANGED spent
  /\ UNCHANGED <<livekit, configured>>

\* The write succeeded: its trunk is cached and the spec counts as pushed.
Written(i) == trunkID' = i /\ trunkPushed' = TRUE /\ Finish("") /\ UNCHANGED spent

\* Mistaken: the spec counts as pushed before the write is known to succeed.
FailedPushed(op) == Finish(op) /\ trunkPushed' = TRUE /\ UNCHANGED trunkID

\* The write failed, or its answer was lost.
Failed(op) == Finish(op) /\ UNCHANGED <<trunkID, trunkPushed>>

\* UpdateSIPOutboundTrunk replaces the object and keeps its ID, if it is there.
ReconcileUpdate ==
  /\ reconciler = "update"
  /\ \/ /\ stored.id = target /\ stored' = Wanted(target)
        /\ Written(target) \/ (Disturb("answer") /\ Failed("update"))
     \/ /\ \/ stored.id # target /\ UNCHANGED spent
           \/ Disturb("request")
        /\ Failed("update") /\ UNCHANGED stored
  /\ UNCHANGED <<issued, withholds, configured, target>>

\* CreateSIPOutboundTrunk adds a trunk.  One that appeared since the List may
\* stand before it or after it in the next.
ReconcileCreate ==
  /\ reconciler = "create"
  /\ \/ /\ issued' = issued + 1
        /\ stored' \in {Wanted(issued'), stored} \ {NoTrunk}
        /\ Written(issued') \/ (Disturb("answer") /\ Failed("create"))
     \/ /\ Disturb("request") /\ Failed("create") /\ UNCHANGED <<stored, issued>>
  /\ UNCHANGED <<withholds, configured, target>>

\* The outcome is handed on, whatever it is, and the timer is awaited.
Report ==
  /\ reconciler = "report" /\ reconciler' = "idle"
  /\ UNCHANGED <<livekit, configured, trunkID, trunkPushed, target, outcome, spent>>

\* Redis restarts without its data, or with an old snapshot that holds a trunk
\* from before the credentials were configured.
RedisRestart ==
  /\ stored # NoTrunk
  /\ \/ Disturb("lost") /\ stored' = NoTrunk
     \/ Disturb("snapshot") /\ stored' = [Wanted(1) EXCEPT !.password = "blank"]
  /\ UNCHANGED <<issued, withholds, configured, trunkID, trunkPushed, reconciler, target, outcome>>

\* Somebody edits the trunk; a password that is not listed hides the edit.
Edit ==
  /\ stored # NoTrunk
  /\ \/ Disturb("settings") /\ stored' = [stored EXCEPT !.settings = "other"]
     \/ /\ Disturb(IF withholds THEN "hidden password" ELSE "password")
        /\ stored' = [stored EXCEPT !.password = "other"]
  /\ UNCHANGED <<issued, withholds, configured, trunkID, trunkPushed, reconciler, target, outcome>>

\* The bridge restarts, with the same config or with a new password in it, with
\* trunk_address or without.
BridgeRestart ==
  /\ Disturb("restart") /\ configured' \in BOOLEAN
  /\ \/ UNCHANGED stored
     \/ stored.password = "wanted" /\ stored' = [stored EXCEPT !.password = "other"]
  /\ trunkID' = 0 /\ trunkPushed' = FALSE
  /\ reconciler' = "idle" /\ target' = 0 /\ outcome' = ""
  /\ UNCHANGED <<issued, withholds>>

\* What the reconciler does of its own, apart from handing on the outcome.
Reconcile   == ReconcileList \/ ReconcileUpdate \/ ReconcileCreate
TrunkDisturbed == RedisRestart \/ Edit

TrunkNext == Reconcile \/ Report \/ TrunkDisturbed \/ BridgeRestart

TrunkSpec     == TrunkInit /\ [][TrunkNext]_trunkVars
FairTrunkSpec == TrunkSpec /\ WF_trunkVars(Reconcile) /\ WF_trunkVars(Report)

TrunkTypeOK ==
  /\ stored \in Trunks /\ issued \in Nat \ {0} /\ withholds \in BOOLEAN /\ configured \in BOOLEAN
  /\ stored # NoTrunk => stored.id \in 1 .. issued
  /\ trunkID \in 0 .. issued /\ target \in 0 .. issued
  /\ trunkPushed \in BOOLEAN
  /\ reconciler \in {"idle", "update", "create", "report"}
  /\ reconciler = "update" => target # 0
  /\ outcome \in TrunkErrors \cup {""}
  /\ spent \in 0 .. MaxDisturbances

--------------------------------------------------------------------------------
\* The trunk is settled: LiveKit holds it as the config has it, and the cached
\* ID is its ID.
TrunkSettled ==
  /\ stored.settings = "wanted" /\ stored.password = "wanted"
  /\ trunkID = stored.id

\* After the last disturbance the trunk is settled for good, whatever was lost,
\* edited in the open, half done or forgotten before (reconcileTrunk, trunk.go:71-125).
TrunkRecovers == <>[]configured => <>[]TrunkSettled

\* The reconciler stops writing: a password LiveKit does not list is not taken
\* for drift at every tick (the check of trunkPushed, trunk.go:92-96).
WritesEnd == <>[](reconciler \notin {"update", "create"})
================================================================================
