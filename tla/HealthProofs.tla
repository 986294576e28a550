----------------------------- MODULE HealthProofs ------------------------------
(***************************************************************************)
(* Theorems about the trunk reconciler and the bridge state, for any logins*)
(* and settings and any number of disturbances: when a password that       *)
(* LiveKit does not list may be taken for the wanted one, that readiness   *)
(* latches, and that the recorded state is the one its facts imply.        *)
(***************************************************************************)
EXTENDS HealthProperties, TLAPS

USE TrunkAssumption, HealthAssumption

------------------------------------------------------------------------------
(* The trunks a step may store *)

LEMMA WantedTrunk ==
  ASSUME NEW i \in Nat
  PROVE  Wanted(i) \in Trunks /\ Wanted(i).id = i /\ Wanted(i).password = "wanted"
BY DEF Wanted, Trunks, Passwords

LEMMA MissingTrunk == NoTrunk \in Trunks /\ NoTrunk.id = 0 /\ NoTrunk.password = "blank"
BY DEF NoTrunk, Trunks, Passwords

LEMMA FirstTrunk ==
  ASSUME NEW p \in Passwords
  PROVE  LET t == [Wanted(1) EXCEPT !.password = p] IN
         t \in Trunks /\ t.id = 1 /\ t.password = p
BY DEF Wanted, Trunks

LEMMA OtherPassword ==
  ASSUME NEW t \in Trunks
  PROVE  LET u == [t EXCEPT !.password = "other"] IN
         u \in Trunks /\ u.id = t.id /\ u.password = "other"
BY DEF Trunks, Passwords

LEMMA OtherSettings ==
  ASSUME NEW t \in Trunks
  PROVE  LET u == [t EXCEPT !.settings = "other"] IN
         u \in Trunks /\ u.id = t.id /\ u.password = t.password
BY DEF Trunks

------------------------------------------------------------------------------
(* What each step of the reconciler and of its environment changes *)

Spends == spent' = spent \/ (spent < MaxDisturbances /\ spent' = spent + 1)

(* A disturbance of another part counts too.                                *)
DisturbedElsewhere ==
  /\ Spends
  /\ UNCHANGED <<livekit, configured, trunkID, trunkPushed, reconciler, target, outcome>>

TrunkStep == TrunkNext \/ DisturbedElsewhere

LEMMA StepsSpend == ASSUME TrunkStep PROVE Spends
<1>1. ASSUME ReconcileList PROVE Spends
  BY <1>1, Zenon DEF ReconcileList, Spends, Disturb
<1>2. ASSUME ReconcileUpdate PROVE Spends
  BY <1>2, Zenon DEF ReconcileUpdate, Written, Spends, Disturb
<1>3. ASSUME ReconcileCreate PROVE Spends
  BY <1>3, Zenon DEF ReconcileCreate, Written, Spends, Disturb
<1>4. ASSUME RedisRestart \/ Edit \/ BridgeRestart PROVE Spends
  BY <1>4, Zenon DEF RedisRestart, Edit, BridgeRestart, Spends, Disturb
<1>5. ASSUME Report \/ DisturbedElsewhere PROVE Spends
  BY <1>5, Zenon DEF Report, DisturbedElsewhere, Spends
<1>6. QED
  BY <1>1, <1>2, <1>3, <1>4, <1>5, Zenon DEF TrunkStep, TrunkNext, Reconcile, TrunkDisturbed

LEMMA ListEffect ==
  ASSUME ReconcileList
  PROVE  /\ UNCHANGED <<stored, issued, withholds, configured>>
         /\ trunkID' = trunkID \/ (stored # NoTrunk /\ trunkID' = stored.id)
         /\ target' = target \/ (stored # NoTrunk /\ target' = stored.id)
         /\ trunkPushed' = trunkPushed
              \/ (stored # NoTrunk /\ Diff(stored) = {} /\ trunkPushed' = TRUE)
         /\ reconciler' \in {"update", "create", "report"}
         /\ reconciler' = "update" => stored # NoTrunk /\ target' = stored.id
         /\ reconciler' = "create" => stored = NoTrunk
         /\ outcome' = outcome \/ outcome' \in TrunkErrors \cup {""}
BY Zenon DEF ReconcileList, Finish, livekit, TrunkErrors

LEMMA UpdateEffect ==
  ASSUME ReconcileUpdate
  PROVE  /\ UNCHANGED <<issued, withholds, configured, target>>
         /\ reconciler = "update" /\ reconciler' = "report"
         /\ \/ stored.id = target /\ stored' = Wanted(target) /\ trunkPushed' = TRUE
            \/ /\ stored' = stored \/ (stored.id = target /\ stored' = Wanted(target))
               /\ trunkPushed' = trunkPushed
         /\ trunkID' = trunkID \/ trunkID' = target
         /\ outcome' \in TrunkErrors \cup {""}
BY Zenon DEF ReconcileUpdate, Written, Failed, Finish, TrunkErrors

LEMMA CreateEffect ==
  ASSUME ReconcileCreate
  PROVE  /\ UNCHANGED <<withholds, configured, target>>
         /\ reconciler = "create" /\ reconciler' = "report"
         /\ \/ UNCHANGED <<stored, issued, trunkID, trunkPushed>>
            \/ /\ issued' = issued + 1
               /\ stored' = Wanted(issued') \/ (stored # NoTrunk /\ stored' = stored)
               /\ UNCHANGED <<trunkID, trunkPushed>> \/ (trunkID' = issued' /\ trunkPushed' = TRUE)
         /\ outcome' \in TrunkErrors \cup {""}
BY Zenon DEF ReconcileCreate, Written, Failed, Finish, TrunkErrors

(* All that the environment leaves alone.                                   *)
RestOfTrunk ==
  <<issued, withholds, configured, trunkID, trunkPushed, reconciler, target, outcome>>

(* Disturbances that put another password where it is not seen: an old      *)
(* snapshot of the trunk, and an edit of a password that is not listed.     *)
Snapshots   == "snapshot" \in Disturbances
HiddenEdits == "hidden password" \in Disturbances

LEMMA EnvironmentEffect ==
  ASSUME RedisRestart \/ Edit, stored \in Trunks
  PROVE  /\ UNCHANGED RestOfTrunk
         /\ stored # NoTrunk /\ stored' \in Trunks
         /\ \/ stored' = NoTrunk
            \/ Snapshots /\ stored'.id = 1
            \/ stored'.id = stored.id /\ stored'.password = stored.password
            \/ /\ HiddenEdits \/ ~withholds
               /\ stored'.id = stored.id /\ stored'.password = "other"
<1>1. "blank" \in Passwords
  BY DEF Passwords
<1>2. ASSUME RedisRestart
      PROVE  /\ stored # NoTrunk
             /\ \/ stored' = NoTrunk
                \/ Snapshots /\ stored' = [Wanted(1) EXCEPT !.password = "blank"]
             /\ UNCHANGED RestOfTrunk
  BY <1>2, Zenon DEF RedisRestart, Disturb, Snapshots, RestOfTrunk
<1>3. ASSUME Edit
      PROVE  /\ stored # NoTrunk
             /\ \/ stored' = [stored EXCEPT !.settings = "other"]
                \/ /\ HiddenEdits \/ ~withholds
                   /\ stored' = [stored EXCEPT !.password = "other"]
             /\ UNCHANGED RestOfTrunk
  BY <1>3, Zenon DEF Edit, Disturb, HiddenEdits, RestOfTrunk
<1>4. CASE RedisRestart
  BY <1>1, <1>2, <1>4, FirstTrunk, MissingTrunk, Zenon
<1>5. CASE Edit
  BY <1>3, <1>5, OtherPassword, OtherSettings, Zenon
<1>6. QED
  BY <1>4, <1>5

LEMMA RestartEffect ==
  ASSUME BridgeRestart, stored \in Trunks
  PROVE  /\ UNCHANGED <<issued, withholds>> /\ configured' \in BOOLEAN
         /\ trunkID' = 0 /\ trunkPushed' = FALSE
         /\ reconciler' = "idle" /\ target' = 0 /\ outcome' = ""
         /\ stored' \in Trunks /\ stored'.id = stored.id
         /\ stored = NoTrunk => stored' = NoTrunk
<1>1. /\ UNCHANGED <<issued, withholds>> /\ configured' \in BOOLEAN
      /\ trunkID' = 0 /\ trunkPushed' = FALSE
      /\ reconciler' = "idle" /\ target' = 0 /\ outcome' = ""
      /\ \/ stored' = stored
         \/ stored.password = "wanted" /\ stored' = [stored EXCEPT !.password = "other"]
  BY Zenon DEF BridgeRestart
<1>2. stored = NoTrunk => stored.password # "wanted"
  BY MissingTrunk
<1>3. QED
  BY <1>1, <1>2, OtherPassword, Zenon

------------------------------------------------------------------------------
(* Types *)

KnownTrunk ==
  /\ stored \in Trunks /\ issued \in Nat \ {0}
  /\ stored # NoTrunk => stored.id \in 1 .. issued

KnownIDs == trunkID \in 0 .. issued /\ target \in 0 .. issued

(* No trunk has an ID that was not given out, whatever is lost, restored,   *)
(* edited or written to it.                                                 *)
LEMMA TrunkStepKnown ==
  ASSUME KnownTrunk, KnownIDs, reconciler = "update" => target # 0, TrunkStep
  PROVE  KnownTrunk' /\ KnownIDs'
<1>1. /\ stored \in Trunks /\ issued \in Nat /\ 1 <= issued
      /\ stored # NoTrunk => stored.id \in Nat /\ 1 <= stored.id /\ stored.id <= issued
      /\ trunkID \in Nat /\ trunkID <= issued /\ target \in Nat /\ target <= issued
  BY DEF KnownTrunk, KnownIDs
<1> SUFFICES /\ stored' \in Trunks /\ issued' \in Nat /\ 1 <= issued'
             /\ stored' # NoTrunk => stored'.id \in Nat /\ 1 <= stored'.id /\ stored'.id <= issued'
             /\ trunkID' \in Nat /\ trunkID' <= issued' /\ target' \in Nat /\ target' <= issued'
  BY DEF KnownTrunk, KnownIDs
<1>2. CASE ReconcileList
  BY <1>1, <1>2, ListEffect
<1>3. CASE ReconcileUpdate
  <2>1. Wanted(target) \in Trunks /\ Wanted(target).id = target
    BY <1>1, WantedTrunk
  <2>2. stored.id = target /\ target # 0 => stored # NoTrunk
    BY MissingTrunk
  <2>3. /\ issued' = issued /\ target' = target
        /\ stored' = stored \/ (stored.id = target /\ stored' = Wanted(target))
        /\ trunkID' = trunkID \/ trunkID' = target
        /\ target # 0
    BY <1>3, UpdateEffect, Zenon
  <2>4. QED
    BY <1>1, <2>1, <2>2, <2>3
<1>4. CASE ReconcileCreate
  <2>1. issued' = issued + 1 =>
          /\ Wanted(issued') \in Trunks /\ Wanted(issued').id = issued' /\ issued' \in Nat
          /\ 1 <= issued' /\ issued <= issued'
    BY <1>1, WantedTrunk
  <2>2. /\ target' = target
        /\ \/ stored' = stored /\ issued' = issued /\ trunkID' = trunkID
           \/ /\ issued' = issued + 1
              /\ stored' = Wanted(issued') \/ (stored # NoTrunk /\ stored' = stored)
              /\ trunkID' = trunkID \/ trunkID' = issued'
    BY <1>4, CreateEffect, Zenon
  <2>3. QED
    BY <1>1, <2>1, <2>2
<1>5. CASE RedisRestart \/ Edit
  <2>1. /\ issued' = issued /\ trunkID' = trunkID /\ target' = target
        /\ stored # NoTrunk /\ stored' \in Trunks
        /\ stored' = NoTrunk \/ stored'.id = 1 \/ stored'.id = stored.id
    BY <1>1, <1>5, EnvironmentEffect, Zenon DEF RestOfTrunk
  <2>2. QED
    BY <1>1, <2>1
<1>6. CASE BridgeRestart
  <2>1. /\ issued' = issued /\ trunkID' = 0 /\ target' = 0
        /\ stored' \in Trunks /\ stored'.id = stored.id
        /\ stored = NoTrunk => stored' = NoTrunk
    BY <1>1, <1>6, RestartEffect, Zenon
  <2>2. QED
    BY <1>1, <2>1
<1>7. CASE Report \/ DisturbedElsewhere
  BY <1>1, <1>7 DEF Report, DisturbedElsewhere, livekit
<1>8. QED
  BY <1>2, <1>3, <1>4, <1>5, <1>6, <1>7, Zenon
     DEF TrunkStep, TrunkNext, Reconcile, TrunkDisturbed

Controls ==
  /\ withholds \in BOOLEAN /\ configured \in BOOLEAN /\ trunkPushed \in BOOLEAN
  /\ reconciler \in {"idle", "update", "create", "report"}
  /\ reconciler = "update" => target # 0
  /\ outcome \in TrunkErrors \cup {""}

LEMMA TrunkStepControls ==
  ASSUME KnownTrunk, Controls, TrunkStep
  PROVE  Controls'
<1>1. stored \in Trunks /\ (stored # NoTrunk => stored.id # 0)
  BY DEF KnownTrunk
<1>2. CASE ReconcileList
  BY <1>1, <1>2, ListEffect, Zenon DEF Controls
<1>3. CASE ReconcileUpdate
  BY <1>3, UpdateEffect, Zenon DEF Controls
<1>4. CASE ReconcileCreate
  BY <1>4, CreateEffect, Zenon DEF Controls
<1>5. CASE RedisRestart \/ Edit
  BY <1>1, <1>5, EnvironmentEffect, Zenon DEF Controls, RestOfTrunk
<1>6. CASE BridgeRestart
  BY <1>1, <1>6, RestartEffect, Zenon DEF Controls
<1>7. CASE Report
  BY <1>7, Zenon DEF Report, Controls, livekit
<1>8. CASE DisturbedElsewhere
  BY <1>8, Zenon DEF DisturbedElsewhere, Controls, livekit
<1>9. QED
  BY <1>2, <1>3, <1>4, <1>5, <1>6, <1>7, <1>8, Zenon
     DEF TrunkStep, TrunkNext, Reconcile, TrunkDisturbed

LEMMA TrunkTypeParts ==
  TrunkTypeOK <=> KnownTrunk /\ KnownIDs /\ Controls /\ spent \in 0 .. MaxDisturbances
BY Zenon DEF TrunkTypeOK, KnownTrunk, KnownIDs, Controls

LEMMA TrunkTypeStep ==
  ASSUME TrunkTypeOK, TrunkStep
  PROVE  TrunkTypeOK'
<1>1. KnownTrunk /\ KnownIDs /\ Controls /\ spent \in 0 .. MaxDisturbances
  BY TrunkTypeParts
<1>2. KnownTrunk' /\ KnownIDs' /\ Controls'
  BY <1>1, TrunkStepKnown, TrunkStepControls DEF Controls
<1>3. Spends
  BY StepsSpend
<1>4. spent' \in 0 .. MaxDisturbances
  BY <1>1, <1>3, TrunkAssumption DEF Spends
<1>5. QED
  BY <1>2, <1>4, Zenon DEF TrunkTypeOK, KnownTrunk, KnownIDs, Controls

LEMMA TrunkTypeInit == TrunkInit => TrunkTypeOK
<1> SUFFICES ASSUME TrunkInit PROVE TrunkTypeOK
  OBVIOUS
<1>1. stored \in Trunks /\ (stored # NoTrunk => stored.id = 1)
  <2>1. CASE stored = NoTrunk
    BY <2>1, MissingTrunk, Zenon
  <2>2. CASE stored # NoTrunk
    <3>1. PICK p \in Passwords : stored = [Wanted(1) EXCEPT !.password = p]
      BY <2>2, Zenon DEF TrunkInit
    <3>2. QED
      BY <3>1, FirstTrunk, Zenon
  <2>3. QED
    BY <2>1, <2>2
<1>2. /\ issued = 1 /\ withholds \in BOOLEAN /\ configured \in BOOLEAN
      /\ trunkID = 0 /\ trunkPushed = FALSE
      /\ reconciler = "idle" /\ target = 0 /\ outcome = "" /\ spent = 0
  BY TrunkAssumption, Zenon DEF TrunkInit
<1>3. Controls
  BY <1>2, Zenon DEF Controls
<1>4. issued = 1 /\ trunkID = 0 /\ target = 0 /\ spent = 0
  BY <1>2, Zenon
<1>5. KnownTrunk /\ KnownIDs /\ spent \in 0 .. MaxDisturbances
  BY <1>1, <1>4, TrunkAssumption DEF KnownTrunk, KnownIDs
<1>6. QED
  BY <1>3, <1>5, TrunkTypeParts

(* Every variable of the reconciler keeps its type: no trunk has an ID that *)
(* LiveKit has not given out, no update is without a target, and the cached *)
(* ID is one that was given out (reconcileTrunk).                           *)
THEOREM TrunkTypeCorrect == TrunkSpec => []TrunkTypeOK
<1>1. TrunkTypeOK /\ [TrunkNext]_trunkVars => TrunkTypeOK'
  <2> SUFFICES ASSUME TrunkTypeOK, [TrunkNext]_trunkVars PROVE TrunkTypeOK'
    OBVIOUS
  <2>1. TrunkStep
    BY Zenon DEF TrunkStep, DisturbedElsewhere, Spends, trunkVars
  <2>2. QED
    BY <2>1, TrunkTypeStep
<1>2. QED
  BY <1>1, TrunkTypeInit, PTL DEF TrunkSpec

------------------------------------------------------------------------------
(* The password that is not listed *)

(* A trunk is created only for want of one.                                 *)
CreatesOnlyMissing == reconciler = "create" => stored = NoTrunk

(* What a process that has pushed the spec knows of the password: it is the *)
(* wanted one where LiveKit withholds it, and is there where it does not.   *)
PushedIsKnown ==
  trunkPushed /\ stored # NoTrunk =>
    /\ withholds => stored.password = "wanted"
    /\ ~withholds => stored.password # "blank"

PasswordInv == CreatesOnlyMissing /\ PushedIsKnown

(* A blank password that is excused stands for the wanted one.              *)
ExcusedIsWanted == stored # NoTrunk /\ Excused(stored) => stored.password = "wanted"

(* A trunk that LiveKit lists as the wanted one is one whose password it    *)
(* lists.                                                                   *)
LEMMA ListedIsWanted ==
  ASSUME Diff(stored) = {}
  PROVE  ~withholds /\ stored.password = "wanted"
<1>1. Shown(stored) = "wanted"
  BY Zenon DEF Diff
<1>2. QED
  BY <1>1 DEF Shown

(* No step makes an excuse for another password, unless Redis restores an   *)
(* old trunk or somebody edits a password that is not listed.               *)
LEMMA PasswordStep ==
  ASSUME ~Snapshots, ~HiddenEdits,
         TrunkTypeOK, PasswordInv, TrunkStep
  PROVE  PasswordInv'
<1>n. stored \in Trunks /\ issued \in Nat /\ target \in Nat
  <2>1. issued \in Nat \ {0} /\ target \in 0 .. issued /\ stored \in Trunks
    BY Zenon DEF TrunkTypeOK
  <2>2. QED
    BY <2>1
<1>0. CreatesOnlyMissing /\ PushedIsKnown
  BY Zenon DEF PasswordInv
<1> SUFFICES CreatesOnlyMissing' /\ PushedIsKnown'
  BY Zenon DEF PasswordInv
<1> USE DEF CreatesOnlyMissing, PushedIsKnown
<1>1. CASE ReconcileList
  <2>1. /\ stored' = stored /\ withholds' = withholds
        /\ trunkPushed' = trunkPushed \/ Diff(stored) = {}
        /\ reconciler' = "create" => stored = NoTrunk
    BY <1>1, ListEffect, Zenon
  <2>2. CASE trunkPushed' = trunkPushed
    BY <1>0, <2>1, <2>2, Zenon
  <2>3. CASE Diff(stored) = {}
    <3>1. ~withholds /\ stored.password = "wanted"
      BY <2>3, ListedIsWanted
    <3>2. QED
      BY <2>1, <3>1, Zenon
  <2>4. QED
    BY <2>1, <2>2, <2>3, Zenon
<1>2. CASE ReconcileUpdate
  <2>1. Wanted(target).password = "wanted"
    BY <1>n, WantedTrunk, Zenon
  <2>2. /\ (stored' = stored /\ trunkPushed' = trunkPushed) \/ stored' = Wanted(target)
        /\ withholds' = withholds /\ reconciler' = "report"
    BY <1>2, UpdateEffect, Zenon
  <2>3. QED
    BY <1>0, <2>1, <2>2
<1>3. CASE ReconcileCreate
  <2>1. issued' = issued + 1 => Wanted(issued').password = "wanted"
    <3>1. issued + 1 \in Nat
      BY <1>n
    <3>2. QED
      BY <3>1, WantedTrunk, Zenon
  <2>2. QED
    BY <1>0, <1>3, <2>1, CreateEffect, Zenon
<1>4. CASE RedisRestart \/ Edit
  <2>1. /\ withholds' = withholds /\ trunkPushed' = trunkPushed /\ reconciler' = reconciler
        /\ stored # NoTrunk
    BY <1>n, <1>4, EnvironmentEffect, Zenon DEF RestOfTrunk
  <2>2. \/ stored' = NoTrunk
        \/ stored'.id = 1 /\ Snapshots
        \/ stored'.password = stored.password
        \/ ~withholds /\ stored'.password = "other"
    BY <1>n, <1>4, EnvironmentEffect, Zenon DEF RestOfTrunk
  <2>3. QED
    BY <1>0, <2>1, <2>2
<1>5. CASE BridgeRestart
  BY <1>n, <1>5, RestartEffect, Zenon
<1>6. CASE Report
  BY <1>0, <1>6, Zenon DEF Report, livekit
<1>7. CASE DisturbedElsewhere
  BY <1>0, <1>7, Zenon DEF DisturbedElsewhere, livekit
<1>8. QED
  BY <1>1, <1>2, <1>3, <1>4, <1>5, <1>6, <1>7, Zenon
     DEF TrunkStep, TrunkNext, Reconcile, TrunkDisturbed

LEMMA PasswordInit == TrunkInit => PasswordInv
BY Zenon DEF TrunkInit, PasswordInv, CreatesOnlyMissing, PushedIsKnown

LEMMA KnownIsExcused == PasswordInv => ExcusedIsWanted
<1> SUFFICES ASSUME PasswordInv, stored # NoTrunk, Excused(stored)
             PROVE  stored.password = "wanted"
  BY DEF ExcusedIsWanted
<1>1. Shown(stored) = "blank" /\ trunkPushed
  BY DEF Excused
<1>2. CASE withholds
  BY <1>1, <1>2 DEF PasswordInv, PushedIsKnown
<1>3. CASE ~withholds
  BY <1>1, <1>3 DEF PasswordInv, PushedIsKnown, Shown
<1>4. QED
  BY <1>2, <1>3

(* The check of trunkPushed is sound (trunk.go:92-96): whatever is lost,    *)
(* edited in the open, half done or restarted, a trunk whose blank password *)
(* is let pass has the wanted one, as long as no old trunk comes back and   *)
(* nobody edits a password that is not listed.                              *)
THEOREM ExcuseIsSound ==
  ASSUME ~Snapshots, ~HiddenEdits
  PROVE  TrunkSpec => []ExcusedIsWanted
<1> DEFINE Inv == TrunkTypeOK /\ PasswordInv
<1>1. TrunkInit => Inv
  BY TrunkTypeInit, PasswordInit
<1>2. Inv /\ [TrunkNext]_trunkVars => Inv'
  <2> SUFFICES ASSUME Inv, [TrunkNext]_trunkVars PROVE Inv'
    OBVIOUS
  <2>1. TrunkStep
    BY Zenon DEF TrunkStep, DisturbedElsewhere, Spends, trunkVars
  <2>2. QED
    BY <2>1, TrunkTypeStep, PasswordStep
<1>3. Inv => ExcusedIsWanted
  BY KnownIsExcused
<1>4. QED
  BY <1>1, <1>2, <1>3, PTL DEF TrunkSpec

------------------------------------------------------------------------------
(* The bridge: the reconciler within it, and its endpoint *)

(* The bridge's steps are the reconciler's, but for its restart, or none.   *)
LEMMA BridgeTakesTrunkSteps == ASSUME [Next]_vars PROVE TrunkStep
<1>1. CASE Serve \/ Registrar
  BY <1>1, Zenon DEF Serve, Registrar, Disturb, TrunkStep, DisturbedElsewhere, Spends
<1>2. CASE UNCHANGED trunkVars
  BY <1>2, Zenon DEF TrunkStep, DisturbedElsewhere, Spends, trunkVars
<1>3. CASE Reconciles \/ LiveKitDisturbed
  BY <1>3, Zenon
     DEF Reconciles, ReconcilerWorks, ReconcilerReports, LiveKitDisturbed, TrunkStep, TrunkNext
<1>4. CASE Register \/ Probe \/ Watches
  BY <1>2, <1>4, Zenon DEF Register, Probe, Watches, WatcherAsks, WatcherRecords
<1>5. ASSUME NEW l \in Logins, Load(l) \/ Connects(l) PROVE TrunkStep
  BY <1>2, <1>5, Zenon DEF Load, Connects, ConnectAsks, ConnectRecords
<1>6. ASSUME NEW r \in Reporters, Sends(r) PROVE TrunkStep
  BY <1>2, <1>6, Zenon DEF Sends, LookUp, Send
<1>7. CASE UNCHANGED vars
  BY <1>2, <1>7, Zenon DEF vars
<1>8. QED
  BY <1>1, <1>3, <1>4, <1>5, <1>6, <1>7, Zenon DEF Next

(* A 200 of the readiness endpoint is of an endpoint that has been bound.   *)
EndpointInv ==
  /\ endpoint \in {"starting", "listening", "stopped", "unbound"}
  /\ accepts \in BOOLEAN /\ registered \in BOOLEAN
  /\ probed \in {"none", "200", "503"}
  /\ probed = "200" => endpoint \in {"listening", "stopped"}

(* Only four steps touch the endpoint.                                      *)
LEMMA EndpointMoves ==
  ASSUME [Next]_vars
  PROVE  Serve \/ Register \/ Registrar \/ Probe \/ UNCHANGED sipVars
<1>1. CASE Watches \/ Reconciles \/ LiveKitDisturbed
  BY <1>1, Zenon DEF Watches, WatcherAsks, WatcherRecords, Reconciles, ReconcilerWorks,
                     ReconcilerReports, LiveKitDisturbed
<1>2. ASSUME NEW l \in Logins, Load(l) \/ Connects(l) PROVE UNCHANGED sipVars
  BY <1>2, Zenon DEF Load, Connects, ConnectAsks, ConnectRecords
<1>3. ASSUME NEW r \in Reporters, Sends(r) PROVE UNCHANGED sipVars
  BY <1>3, Zenon DEF Sends, LookUp, Send
<1>4. CASE UNCHANGED vars
  BY <1>4, Zenon DEF vars
<1>5. QED
  BY <1>1, <1>2, <1>3, <1>4, Zenon DEF Next

(* Readiness latches, and a bound endpoint never becomes an unbound one.    *)
LEMMA EndpointStep ==
  ASSUME EndpointInv, [Next]_vars
  PROVE  EndpointInv' /\ (probed = "200" => probed' = "200")
<1>1. CASE Serve
  BY <1>1, Zenon DEF Serve, EndpointInv
<1>2. CASE Register
  <2>1. registered' \in BOOLEAN
    BY <1>2, Zenon DEF Register, EndpointInv
  <2>2. QED
    BY <1>2, <2>1, Zenon DEF Register, EndpointInv
<1>3. CASE Registrar
  BY <1>3, Zenon DEF Registrar, EndpointInv
<1>4. CASE Probe
  <2>1. UNCHANGED <<endpoint, accepts, registered>>
    BY <1>4, Zenon DEF Probe
  <2>2. \/ probed' = "503" /\ probed # "200"
        \/ probed' = "200" /\ (probed = "200" \/ endpoint = "listening")
    BY <1>4, Zenon DEF Probe, Ready
  <2>3. QED
    BY <2>1, <2>2, Zenon DEF EndpointInv
<1>5. CASE UNCHANGED sipVars
  BY <1>5, Zenon DEF sipVars, EndpointInv
<1>6. QED
  BY <1>1, <1>2, <1>3, <1>4, <1>5, EndpointMoves, Zenon

------------------------------------------------------------------------------
(* The recorded state *)

(* Once there is one, the last recorded state is the one the two recorded   *)
(* facts imply; before that no fact has been recorded.                      *)
RecordedIsImplied ==
  IF reported THEN last = Implied(sipDown, trunkErr)
              ELSE last = Empty /\ ~sipDown /\ trunkErr = ""

FactsOK ==
  /\ sipDown \in BOOLEAN /\ trunkErr \in TrunkErrors \cup {""}
  /\ reported \in BOOLEAN
  /\ RecordedIsImplied

LEMMA ImpliedIsState ==
  ASSUME NEW down \in BOOLEAN, NEW err \in TrunkErrors \cup {""}
  PROVE  Implied(down, err) \in States /\ Implied(down, err) # Empty
<1>1. CASE down /\ SIPDownNotice
  BY <1>1, Zenon DEF Implied, States, Empty
<1>2. CASE ~(down /\ SIPDownNotice) /\ err # "" /\ TrunkNotice
  <2>1. Implied(down, err) = err
    BY <1>2, Zenon DEF Implied
  <2>2. QED
    BY <1>2, <2>1, Zenon DEF States, Empty, TrunkErrors
<1>3. CASE ~(down /\ SIPDownNotice) /\ ~(err # "" /\ TrunkNotice)
  BY <1>3, Zenon DEF Implied, States, Empty
<1>4. QED
  BY <1>1, <1>2, <1>3, Zenon

Records == \E down \in BOOLEAN, err \in TrunkErrors \cup {""} : Record(down, err)

LEMMA RecordKeepsFacts ==
  ASSUME FactsOK, Records
  PROVE  FactsOK'
<1>1. PICK down \in BOOLEAN, err \in TrunkErrors \cup {""} : Record(down, err)
  BY Zenon DEF Records
<1>2. sipDown' = down /\ trunkErr' = err
  BY <1>1, Zenon DEF Record
<1>3. CASE Differs(Implied(down, err))
  <2>1. last' = Implied(down, err) /\ reported' = TRUE
    BY <1>1, <1>3, Zenon DEF Record
  <2>2. Implied(down, err) = Implied(sipDown, trunkErr)'
    BY <1>2, Zenon DEF Implied
  <2>3. QED
    BY <1>2, <2>1, <2>2, Zenon DEF FactsOK, RecordedIsImplied
<1>4. CASE ~Differs(Implied(down, err))
  <2>1. reported /\ last = Implied(down, err) /\ last' = last /\ reported' = reported
    BY <1>1, <1>4, Zenon DEF Record, Differs
  <2>2. Implied(down, err) = Implied(sipDown, trunkErr)'
    BY <1>2, Zenon DEF Implied
  <2>3. QED
    BY <1>2, <2>1, <2>2, Zenon DEF FactsOK, RecordedIsImplied
<1>5. QED
  BY <1>3, <1>4

(* Every step that touches the facts records both.                          *)
LEMMA StepsRecord ==
  ASSUME TrunkTypeOK, FactsOK, [Next]_vars
  PROVE  Records \/ UNCHANGED facts
<1>0. outcome \in TrunkErrors \cup {""} /\ trunkErr \in TrunkErrors \cup {""} /\ sipDown \in BOOLEAN
  BY Zenon DEF TrunkTypeOK, FactsOK
<1>1. CASE Serve \/ Register \/ Registrar \/ Probe \/ LiveKitDisturbed
  BY <1>1, Zenon DEF Serve, Register, Registrar, Probe, LiveKitDisturbed
<1>2. CASE Watches
  <2>1. (reading["watcher"] = "down") \in BOOLEAN
    BY Zenon
  <2>2. QED
    BY <1>0, <1>2, <2>1, Zenon DEF Watches, WatcherAsks, WatcherRecords, RecordSIP, Records
<1>3. CASE Reconciles
  BY <1>0, <1>3, Zenon
     DEF Reconciles, ReconcilerWorks, ReconcilerReports, RecordTrunk, Records
<1>4. ASSUME NEW l \in Logins, Load(l) \/ Connects(l) PROVE Records \/ UNCHANGED facts
  <2>1. (reading[l] = "down") \in BOOLEAN
    BY Zenon
  <2>2. QED
    BY <1>0, <1>4, <2>1, Zenon
       DEF Load, Connects, ConnectAsks, ConnectRecords, RecordSIP, Records
<1>5. ASSUME NEW r \in Reporters, Sends(r) PROVE UNCHANGED facts
  BY <1>5, Zenon DEF Sends, LookUp, Send
<1>6. CASE UNCHANGED vars
  BY <1>6, Zenon DEF vars
<1>7. QED
  BY <1>1, <1>2, <1>3, <1>4, <1>5, <1>6, Zenon DEF Next

LEMMA FactsStep ==
  ASSUME TrunkTypeOK, FactsOK, [Next]_vars
  PROVE  FactsOK'
<1>1. CASE UNCHANGED facts
  BY <1>1, Zenon DEF facts, FactsOK, RecordedIsImplied, Implied
<1>2. QED
  BY <1>1, RecordKeepsFacts, StepsRecord, Zenon

------------------------------------------------------------------------------
(* The reports *)

(* Whoever has read the endpoint, or reconciled, has nothing left to send:  *)
(* a reporter is one goroutine.                                             *)
ReportsInv ==
  /\ cached \subseteq Logins /\ connected \subseteq cached
  /\ reading \in [Reporters -> Readings]
  /\ news \in [Reporters -> States \cup {Empty}]
  /\ tell \in [Reporters -> SUBSET Logins]
  /\ phase \in [Reporters -> {"idle", "lookup", "send"}]
  /\ told \in [Logins -> States \cup {Empty, "none"}]
  /\ \A r \in Reporters : phase[r] = "send" <=> tell[r] # {}
  /\ \A r \in Reporters : reading[r] # "none" => phase[r] = "idle"
  /\ reading["reconciler"] = "none"
  /\ reconciler # "idle" => phase["reconciler"] = "idle"

LEMMA ReporterNames ==
  /\ "watcher" \in Reporters /\ "reconciler" \in Reporters /\ Logins \subseteq Reporters
  /\ "reconciler" \notin Logins /\ "watcher" \notin Logins /\ "watcher" # "reconciler"
BY HealthAssumption, Zenon DEF Reporters

(* The endpoint is asked, by a reporter that is at rest.                    *)
Asks(r) ==
  /\ r # "reconciler" /\ phase[r] = "idle"
  /\ \E x \in Readings \ {"none"} : reading' = [reading EXCEPT ![r] = x]
  /\ UNCHANGED <<cached, news, tell, phase, told>>

(* A report: of a change if there is one.                                   *)
Announces(r) ==
  /\ phase[r] = "idle"
  /\ reading' = [reading EXCEPT ![r] = "none"]
  /\ \/ last' = last /\ UNCHANGED <<news, tell, phase, told>>
     \/ /\ last' \in States /\ UNCHANGED <<tell, told>>
        /\ news' = [news EXCEPT ![r] = last']
        /\ phase' = [phase EXCEPT ![r] = "lookup"]
  /\ UNCHANGED <<cached, connected>>

(* Connect's first report, to its own login.                                *)
Greets(l) ==
  /\ reading[l] # "none" /\ reading' = [reading EXCEPT ![l] = "none"]
  /\ \E n \in States \cup {Empty} :
       /\ news' = [news EXCEPT ![l] = n]
       /\ (n = Empty /\ last' = last) \/ n = last'
  /\ tell' = [tell EXCEPT ![l] = {l}]
  /\ phase' = [phase EXCEPT ![l] = "send"]
  /\ UNCHANGED <<cached, connected, told>>

LEMMA StatesRecorded ==
  ASSUME FactsOK, NEW down \in BOOLEAN, NEW err \in TrunkErrors \cup {""}, Record(down, err),
         NEW r
  PROVE  /\ Implied(down, err) \in States
         /\ IF Differs(Implied(down, err)) THEN last' = Implied(down, err) ELSE last' = last
         /\ Announce(r, Implied(down, err)) =>
              \/ last' = last /\ UNCHANGED <<news, tell, phase, told>>
              \/ /\ last' \in States /\ UNCHANGED <<tell, told>>
                 /\ news' = [news EXCEPT ![r] = last']
                 /\ phase' = [phase EXCEPT ![r] = "lookup"]
<1>1. Implied(down, err) \in States
  BY ImpliedIsState
<1>2. IF Differs(Implied(down, err)) THEN last' = Implied(down, err) ELSE last' = last
  BY Zenon DEF Record
<1>3. QED
  BY <1>1, <1>2, Zenon DEF Announce, sending

LEMMA WatcherMoves ==
  ASSUME TrunkTypeOK, FactsOK, ReportsInv, Watches
  PROVE  (Asks("watcher") /\ UNCHANGED <<connected, last>>) \/ Announces("watcher")
<1>1. ASSUME WatcherAsks PROVE Asks("watcher") /\ UNCHANGED <<connected, last>>
  <2>1. (IF Ready THEN "up" ELSE "down") \in Readings \ {"none"}
    BY Zenon DEF Readings
  <2>2. QED
    BY <1>1, <2>1, ReporterNames, Zenon
       DEF WatcherAsks, Ask, Asks, loginVars, sending, facts
<1>2. ASSUME WatcherRecords PROVE Announces("watcher")
  <2>1. /\ reading["watcher"] # "none" /\ reading' = [reading EXCEPT !["watcher"] = "none"]
        /\ UNCHANGED <<cached, connected>>
    BY <1>2, Zenon DEF WatcherRecords, loginVars
  <2>2. phase["watcher"] = "idle"
    BY <2>1, ReporterNames, Zenon DEF ReportsInv
  <2>3. PICK down \in BOOLEAN : Record(down, trunkErr) /\ Announce("watcher", Implied(down, trunkErr))
    <3>1. (reading["watcher"] = "down") \in BOOLEAN
      BY Zenon
    <3>2. QED
      BY <1>2, <3>1, Zenon DEF WatcherRecords, RecordSIP
  <2>4. trunkErr \in TrunkErrors \cup {""}
    BY Zenon DEF FactsOK
  <2>5. QED
    BY <2>1, <2>2, <2>3, <2>4, StatesRecorded, Zenon DEF Announces
<1>3. QED
  BY <1>1, <1>2, Zenon DEF Watches

LEMMA ReconcilerMoves ==
  ASSUME TrunkTypeOK, FactsOK, ReportsInv, ReconcilerReports
  PROVE  Announces("reconciler") /\ reconciler' = "idle"
<1>1. /\ reconciler = "report" /\ reconciler' = "idle" /\ UNCHANGED <<cached, connected, reading>>
      /\ Record(sipDown, outcome) /\ Announce("reconciler", Implied(sipDown, outcome))
  BY Zenon DEF ReconcilerReports, Report, RecordTrunk, loginVars
<1>2. phase["reconciler"] = "idle" /\ reading["reconciler"] = "none" /\ reading \in [Reporters -> Readings]
  BY <1>1, Zenon DEF ReportsInv
<1>3. reading' = [reading EXCEPT !["reconciler"] = "none"]
  BY <1>1, <1>2, ReporterNames
<1>4. sipDown \in BOOLEAN /\ outcome \in TrunkErrors \cup {""}
  BY Zenon DEF FactsOK, TrunkTypeOK
<1>5. QED
  BY <1>1, <1>2, <1>3, <1>4, StatesRecorded, Zenon DEF Announces

LEMMA ConnectMoves ==
  ASSUME TrunkTypeOK, FactsOK, ReportsInv, NEW l \in Logins, Connects(l)
  PROVE  \/ /\ l \in cached /\ connected' = connected \cup {l}
            /\ Asks(l) /\ last' = last
         \/ Greets(l)
<1>1. ASSUME ConnectAsks(l)
      PROVE  l \in cached /\ connected' = connected \cup {l} /\ Asks(l) /\ last' = last
  <2>1. (IF Ready THEN "up" ELSE "down") \in Readings \ {"none"}
    BY Zenon DEF Readings
  <2>2. QED
    BY <1>1, <2>1, ReporterNames, Zenon DEF ConnectAsks, Ask, Asks, sending, facts
<1>2. ASSUME ConnectRecords(l) PROVE Greets(l)
  <2>1. PICK down \in BOOLEAN :
          /\ Record(down, trunkErr)
          /\ news' = [news EXCEPT ![l] = IF Differs(Implied(down, trunkErr))
                                         THEN Implied(down, trunkErr) ELSE Empty]
    <3>1. (reading[l] = "down") \in BOOLEAN
      BY Zenon
    <3>2. QED
      BY <1>2, <3>1, Zenon DEF ConnectRecords, RecordSIP
  <2>2. trunkErr \in TrunkErrors \cup {""}
    BY Zenon DEF FactsOK
  <2>3. \E n \in States \cup {Empty} :
          /\ news' = [news EXCEPT ![l] = n]
          /\ (n = Empty /\ last' = last) \/ n = last'
    BY <2>1, <2>2, StatesRecorded, Zenon
  <2>4. QED
    BY <1>2, <2>3, Zenon DEF ConnectRecords, Greets, loginVars
<1>3. QED
  BY <1>1, <1>2, Zenon DEF Connects

(* A login is loaded.                                                       *)
Loads(l) ==
  /\ cached' = cached \cup {l}
  /\ UNCHANGED <<connected, reading, news, tell, phase, told, last>>

Quiet ==
  /\ UNCHANGED <<cached, connected, reading, news, tell, phase, told, last>>
  /\ reconciler' = reconciler \/ phase["reconciler"] = "idle"

(* What a step of the bridge does to its reports.                           *)
LEMMA ReportMoves ==
  ASSUME TrunkTypeOK, FactsOK, ReportsInv, [Next]_vars
  PROVE  \/ \E r \in Reporters : /\ Asks(r) /\ UNCHANGED <<last, reconciler>>
                                 /\ connected' = connected
                                      \/ (r \in cached /\ connected' = connected \cup {r})
         \/ \E r \in Reporters \ Logins : /\ Announces(r)
                                          /\ (r # "reconciler" /\ reconciler' = reconciler)
                                               \/ reconciler' = "idle"
         \/ \E l \in Logins : Greets(l) /\ reconciler' = reconciler
         \/ \E l \in Logins : Loads(l) /\ reconciler' = reconciler
         \/ \E r \in Reporters : LookUp(r) \/ Send(r)
         \/ Quiet
<1> DEFINE Moves ==
         \/ \E r \in Reporters : /\ Asks(r) /\ UNCHANGED <<last, reconciler>>
                                 /\ connected' = connected
                                      \/ (r \in cached /\ connected' = connected \cup {r})
         \/ \E r \in Reporters \ Logins : /\ Announces(r)
                                          /\ (r # "reconciler" /\ reconciler' = reconciler)
                                               \/ reconciler' = "idle"
         \/ \E l \in Logins : Greets(l) /\ reconciler' = reconciler
         \/ \E l \in Logins : Loads(l) /\ reconciler' = reconciler
         \/ \E r \in Reporters : LookUp(r) \/ Send(r)
         \/ Quiet
<1>1. ASSUME Watches PROVE Moves
  <2>1. reconciler' = reconciler
    BY <1>1, Zenon DEF Watches, WatcherAsks, WatcherRecords, trunkVars
  <2>2. QED
    BY <1>1, <2>1, WatcherMoves, ReporterNames, Zenon
<1>2. ASSUME Reconciles PROVE Moves
  <2>1. ASSUME ReconcilerWorks PROVE Quiet
    BY <2>1, Zenon DEF ReconcilerWorks, Quiet, facts, loginVars, sending
  <2>2. QED
    BY <1>2, <2>1, ReconcilerMoves, ReporterNames, Zenon DEF Reconciles
<1>3. ASSUME NEW l \in Logins, Load(l) PROVE Moves
  <2>1. Loads(l) /\ reconciler' = reconciler
    BY <1>3, Zenon DEF Load, Loads, trunkVars, facts, sending
  <2>2. QED
    BY <2>1, Zenon
<1>4. ASSUME NEW l \in Logins, Connects(l) PROVE Moves
  <2>1. reconciler' = reconciler
    BY <1>4, Zenon DEF Connects, ConnectAsks, ConnectRecords, trunkVars
  <2>2. QED
    BY <1>4, <2>1, ConnectMoves, ReporterNames, Zenon
<1>5. ASSUME NEW r \in Reporters, Sends(r) PROVE Moves
  BY <1>5, Zenon DEF Sends
<1>6. ASSUME LiveKitDisturbed PROVE Quiet
  BY <1>6, Zenon
     DEF LiveKitDisturbed, TrunkDisturbed, RedisRestart, Edit, Quiet, facts, loginVars, sending
<1>7. ASSUME Serve \/ Register \/ Registrar \/ Probe PROVE Quiet
  BY <1>7, Zenon
     DEF Serve, Register, Registrar, Probe, Quiet, facts, loginVars, sending, trunkVars
<1>8. ASSUME UNCHANGED vars PROVE Quiet
  BY <1>8, Zenon DEF vars, trunkVars, Quiet, facts, loginVars, sending
<1>9. QED
  BY <1>1, <1>2, <1>3, <1>4, <1>5, <1>6, <1>7, <1>8, Zenon DEF Next

LEMMA ReportsStep ==
  ASSUME TrunkTypeOK, FactsOK, ReportsInv, [Next]_vars
  PROVE  ReportsInv'
<1> USE DEF ReportsInv
<1>1. ASSUME NEW r \in Reporters, Asks(r), UNCHANGED <<last, reconciler>>,
             connected' = connected \/ (r \in cached /\ connected' = connected \cup {r})
      PROVE  ReportsInv'
  BY <1>1, ReporterNames DEF Asks, Readings
<1>2. ASSUME NEW r \in Reporters \ Logins, Announces(r),
             (r # "reconciler" /\ reconciler' = reconciler) \/ reconciler' = "idle"
      PROVE  ReportsInv'
  BY <1>2, ReporterNames DEF Announces, Readings
<1>3. ASSUME NEW l \in Logins, Greets(l), reconciler' = reconciler
      PROVE  ReportsInv'
  BY <1>3, ReporterNames DEF Greets, Readings
<1>4. ASSUME NEW l \in Logins, Loads(l), reconciler' = reconciler
      PROVE  ReportsInv'
  BY <1>4, ReporterNames DEF Loads
<1>5. ASSUME NEW r \in Reporters, LookUp(r) \/ Send(r)
      PROVE  ReportsInv'
  <2>1. CASE LookUp(r)
    <3>1. /\ phase[r] = "lookup" /\ tell' = [tell EXCEPT ![r] = cached]
          /\ phase' = [phase EXCEPT ![r] = IF cached = {} THEN "idle" ELSE "send"]
          /\ UNCHANGED <<cached, connected, reading, news, told, reconciler>>
      BY <2>1, Zenon DEF LookUp, loginVars, trunkVars
    <3>2. QED
      BY <3>1, ReporterNames
  <2>2. CASE Send(r)
    <3>1. PICK l \in tell[r] :
            /\ phase[r] = "send" /\ told' = [told EXCEPT ![l] = news[r]]
            /\ tell' = [tell EXCEPT ![r] = tell[r] \ {l}]
            /\ phase' = [phase EXCEPT ![r] = IF tell[r] = {l} THEN "idle" ELSE "send"]
            /\ UNCHANGED <<cached, connected, reading, news, reconciler>>
      BY <2>2, Zenon DEF Send, loginVars, trunkVars
    <3>2. QED
      BY <3>1, ReporterNames
  <2>3. QED
    BY <1>5, <2>1, <2>2
<1>6. CASE Quiet
  BY <1>6 DEF Quiet
<1>7. QED
  BY <1>1, <1>2, <1>3, <1>4, <1>5, <1>6, ReportMoves, Zenon

------------------------------------------------------------------------------
(* Theorems about the bridge *)

HealthInv == TrunkTypeOK /\ EndpointInv /\ FactsOK /\ ReportsInv

LEMMA HealthInit == Init => HealthInv
<1> SUFFICES ASSUME Init PROVE HealthInv
  OBVIOUS
<1>1. TrunkTypeOK
  BY TrunkTypeInit, Zenon DEF Init
<1>2. EndpointInv
  BY Zenon DEF Init, EndpointInv
<1>3. FactsOK
  BY Zenon DEF Init, FactsOK, RecordedIsImplied
<1>4. /\ cached = {} /\ connected = {} /\ reconciler = "idle"
      /\ reading = [r \in Reporters |-> "none"]
      /\ news = [r \in Reporters |-> Empty] /\ tell = [r \in Reporters |-> {}]
      /\ phase = [r \in Reporters |-> "idle"]
      /\ told = [l \in Logins |-> "none"]
  BY Zenon DEF Init, TrunkInit
<1>5. ReportsInv
  BY <1>4, ReporterNames DEF ReportsInv, Readings
<1>6. QED
  BY <1>1, <1>2, <1>3, <1>5, Zenon DEF HealthInv

LEMMA HealthStep == HealthInv /\ [Next]_vars => HealthInv'
<1> SUFFICES ASSUME HealthInv, [Next]_vars PROVE HealthInv'
  OBVIOUS
<1>1. TrunkTypeOK /\ EndpointInv /\ FactsOK /\ ReportsInv
  BY Zenon DEF HealthInv
<1>2. QED
  BY <1>1, BridgeTakesTrunkSteps, TrunkTypeStep, EndpointStep, FactsStep, ReportsStep, Zenon
     DEF HealthInv

LEMMA HealthInvariant == Spec => []HealthInv
BY HealthInit, HealthStep, PTL DEF Spec

LEMMA HealthTypes == HealthInv => TypeOK
<1> SUFFICES ASSUME HealthInv PROVE TypeOK
  OBVIOUS
<1>1. TrunkTypeOK /\ EndpointInv /\ FactsOK /\ ReportsInv
  BY Zenon DEF HealthInv
<1>2. last \in States \cup {Empty} /\ (reported <=> last # Empty)
  <2>1. Implied(sipDown, trunkErr) \in States /\ Implied(sipDown, trunkErr) # Empty
    BY <1>1, ImpliedIsState, Zenon DEF FactsOK
  <2>2. QED
    BY <1>1, <2>1, Zenon DEF FactsOK, RecordedIsImplied
<1>3. QED
  BY <1>1, <1>2, Zenon DEF TypeOK, EndpointInv, FactsOK, ReportsInv

(* Once a readiness probe was answered 200 no later one is answered 503, and*)
(* no probe is answered 200 before the listener was bound                   *)
(* (readinessHandler): whatever the registration, the trunk and the reports *)
(* do meanwhile.                                                            *)
THEOREM ReadinessIsLatched == Spec => ReadinessLatches
<1>1. HealthInv => TypeOK
  BY HealthTypes
<1>2. HealthInv /\ HealthInv' /\ [Next]_vars =>
        [ /\ probed = "200" => probed' = "200"
          /\ probed' = "200" => endpoint' \in {"listening", "stopped"} ]_vars
  BY EndpointStep, Zenon DEF HealthInv, EndpointInv
<1>3. QED
  BY <1>1, <1>2, HealthInvariant, PTL DEF Spec, ReadinessLatches

(* The recorded state is never one of other facts than the recorded ones    *)
(* (callHealth.state, callHealth.changed): the watcher, the reconciler and  *)
(* the logins record theirs in any order, and a fact that is overtaken      *)
(* leaves no state behind.  Before the first record there is no fact.       *)
THEOREM RecordedStateIsImplied == Spec => []RecordedIsImplied
<1>1. HealthInv => RecordedIsImplied
  BY Zenon DEF HealthInv, FactsOK
<1>2. QED
  BY <1>1, HealthInvariant, PTL

(* What the logins do changes nothing of it: the excuse is sound in the     *)
(* bridge as well.                                                          *)
THEOREM BridgeExcuseIsSound ==
  ASSUME ~Snapshots, ~HiddenEdits
  PROVE  Spec => []ExcusedIsWanted
<1>1. Init => PasswordInv
  BY PasswordInit, Zenon DEF Init
<1>2. HealthInv /\ PasswordInv /\ [Next]_vars => PasswordInv'
  BY BridgeTakesTrunkSteps, PasswordStep, Zenon DEF HealthInv
<1>3. QED
  BY <1>1, <1>2, HealthInvariant, KnownIsExcused, PTL DEF Spec

------------------------------------------------------------------------------
(* What keeps a login informed *)

(* The two windows of the bridge state: a report that is sent while another *)
(* one is, and a Connect that is the first to see the endpoint change and   *)
(* tells its own login alone.                                               *)
OneSends ==
  \A r, q \in Reporters : phase[r] # "idle" /\ phase[q] # "idle" => r = q

ConnectsFindNothingNew ==
  [][\A l \in Logins : reading[l] # "none" /\ reading'[l] = "none" /\ last' # last
                         => connected = {l}]_vars

(* What is being sent is the last recorded state, or an empty one.          *)
NewsIsLast == \A r \in Reporters : phase[r] # "idle" => news[r] \in {last, Empty}

(* A login that has connected has been told the last recorded state, or an  *)
(* empty one, or will be.                                                   *)
OnItsWay ==
  \A l \in connected : reading[l] = "none" =>
    \/ told[l] \in {last, Empty}
    \/ \E r \in Reporters : news[r] \in {last, Empty} /\ (phase[r] = "lookup" \/ l \in tell[r])

LEMMA NewsStep ==
  ASSUME HealthInv, NewsIsLast, OneSends', [Next]_vars
  PROVE  NewsIsLast'
<1>0. TrunkTypeOK /\ FactsOK /\ ReportsInv
  BY Zenon DEF HealthInv
<1> USE DEF NewsIsLast, OneSends, ReportsInv
<1>1. ASSUME NEW r \in Reporters, Asks(r), last' = last PROVE NewsIsLast'
  BY <1>0, <1>1 DEF Asks
<1>2. ASSUME NEW r \in Reporters, Announces(r) PROVE NewsIsLast'
  BY <1>0, <1>2 DEF Announces
<1>3. ASSUME NEW l \in Logins, Greets(l) PROVE NewsIsLast'
  <2>1. l \in Reporters
    BY ReporterNames
  <2>2. QED
    BY <1>0, <1>3, <2>1 DEF Greets
<1>4. ASSUME NEW l \in Logins, Loads(l) PROVE NewsIsLast'
  BY <1>0, <1>4 DEF Loads
<1>5. ASSUME NEW r \in Reporters, LookUp(r) \/ Send(r) PROVE NewsIsLast'
  <2>1. /\ UNCHANGED <<news, last>> /\ phase[r] # "idle"
        /\ \E x \in {"idle", "send"} : phase' = [phase EXCEPT ![r] = x]
    BY <1>5, Zenon DEF LookUp, Send, facts
  <2>2. QED
    BY <1>0, <2>1
<1>6. CASE Quiet
  BY <1>0, <1>6 DEF Quiet
<1>7. QED
  BY <1>0, <1>1, <1>2, <1>3, <1>4, <1>5, <1>6, ReportMoves, Zenon

LEMMA OnItsWayStep ==
  ASSUME HealthInv, NewsIsLast, OnItsWay, OneSends', [Next]_vars,
         [\A l \in Logins : reading[l] # "none" /\ reading'[l] = "none" /\ last' # last
                              => connected = {l}]_vars
  PROVE  OnItsWay'
<1>0. TrunkTypeOK /\ FactsOK /\ ReportsInv
  BY Zenon DEF HealthInv
<1> USE DEF OnItsWay, ReportsInv
<1>1. ASSUME NEW r \in Reporters, Asks(r), last' = last,
             connected' = connected \/ (r \in cached /\ connected' = connected \cup {r})
      PROVE  OnItsWay'
  BY <1>0, <1>1 DEF Asks
<1>2. ASSUME NEW r \in Reporters \ Logins, Announces(r) PROVE OnItsWay'
  BY <1>0, <1>2 DEF Announces
<1>3. ASSUME NEW l \in Logins, Greets(l) PROVE OnItsWay'
  <2>1. l \in Reporters /\ phase[l] = "idle" /\ tell[l] = {}
    BY <1>0, <1>3, ReporterNames DEF Greets
  <2>2. last' # last => connected = {l}
    BY <1>0, <1>3, <2>1, Zenon DEF Greets, vars, facts
  <2>3. l \in tell'[l] /\ news'[l] \in {last', Empty}
    BY <1>0, <1>3, <2>1 DEF Greets
  <2>4. \A m \in connected \ {l} : OnItsWay /\ last' = last
    BY <2>2
  <2>5. QED
    BY <1>0, <1>3, <2>1, <2>3, <2>4 DEF Greets
<1>4. ASSUME NEW l \in Logins, Loads(l) PROVE OnItsWay'
  BY <1>0, <1>4 DEF Loads
<1>5. ASSUME NEW r \in Reporters, LookUp(r) PROVE OnItsWay'
  <2>1. /\ phase[r] = "lookup" /\ tell' = [tell EXCEPT ![r] = cached]
        /\ UNCHANGED <<cached, connected, reading, news, told, last>>
    BY <1>5, Zenon DEF LookUp, loginVars, facts
  <2>2. news[r] \in {last, Empty}
    BY <2>1 DEF NewsIsLast
  <2>3. QED
    BY <1>0, <2>1, <2>2
<1>6. ASSUME NEW r \in Reporters, Send(r) PROVE OnItsWay'
  <2>1. PICK l \in tell[r] :
          /\ phase[r] = "send" /\ told' = [told EXCEPT ![l] = news[r]]
          /\ tell' = [tell EXCEPT ![r] = tell[r] \ {l}]
          /\ phase' = [phase EXCEPT ![r] = IF tell[r] = {l} THEN "idle" ELSE "send"]
          /\ UNCHANGED <<cached, connected, reading, news, last>>
    BY <1>6, Zenon DEF Send, loginVars, facts
  <2>2. news[r] \in {last, Empty}
    BY <2>1 DEF NewsIsLast
  <2>3. QED
    BY <1>0, <2>1, <2>2
<1>7. CASE Quiet
  BY <1>0, <1>7 DEF Quiet
<1>8. QED
  BY <1>0, <1>1, <1>2, <1>3, <1>4, <1>5, <1>6, <1>7, ReportMoves, Zenon

(* "watchSIPHealth keeps the bridge state in step with the endpoint"        *)
(* (connector.go:165): for any number of logins, loaded and connected at    *)
(* any time, a login is left with an old state only if two reports were     *)
(* sent at once, or if a Connect was the first to see a change.             *)
THEOREM OldStateNeedsOverlapOrConnect ==
  Spec /\ []OneSends /\ ConnectsFindNothingNew => []ToldIsRecorded
<1>1. Init => NewsIsLast /\ OnItsWay
  <2>1. ASSUME Init PROVE phase = [r \in Reporters |-> "idle"] /\ connected = {}
    BY <2>1, Zenon DEF Init
  <2>2. QED
    BY <2>1 DEF NewsIsLast, OnItsWay
<1>2. HealthInv /\ NewsIsLast /\ OneSends' /\ [Next]_vars => NewsIsLast'
  BY NewsStep
<1>3. HealthInv /\ NewsIsLast /\ OnItsWay /\ OneSends' /\ [Next]_vars
        /\ [\A l \in Logins : reading[l] # "none" /\ reading'[l] = "none" /\ last' # last
                                => connected = {l}]_vars
      => OnItsWay'
  BY OnItsWayStep
<1>4. HealthInv /\ OnItsWay => ToldIsRecorded
  <2> SUFFICES ASSUME HealthInv, OnItsWay, NEW l \in connected,
                      \A r \in Reporters : phase[r] = "idle" /\ reading[r] = "none"
               PROVE  told[l] \in {last, Empty}
    BY DEF ToldIsRecorded
  <2>1. l \in Reporters /\ \A r \in Reporters : tell[r] = {} /\ phase[r] # "lookup"
    BY ReporterNames DEF HealthInv, ReportsInv
  <2>2. QED
    BY <2>1 DEF OnItsWay
<1>5. QED
  BY <1>1, <1>2, <1>3, <1>4, HealthInvariant, PTL DEF Spec, ConnectsFindNothingNew
================================================================================
