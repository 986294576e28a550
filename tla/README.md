# A TLA+ model of matrix-sip-bridge

matrix-sip-bridge connects a Matrix homeserver with a SIP server (Asterisk in
the reference deployment). A phone number is a Matrix user's portal room; texts
arrive as SIP MESSAGE and are written into that room; a phone call appears there
as a MatrixRTC call whose media runs over LiveKit, with livekit-sip as a
participant. The bridge is one Go process: it keeps a few tables of its own in
PostgreSQL, uses the bridgev2 framework for rooms, portals and logins, and talks
SIP, LiveKit's API and the Matrix client-server API.

These modules model the parts of that process in which several goroutines, a
database and four remote services have to agree. They were written from
the Go source; every definition that stands for code is listed with its lines in
`PROJECT.json` under `map`. "External" there means that the code is not in the
repository (bridgev2, LiveKit, the operating system) and is modelled from the
way this repository uses it.

## 1. Inventory

| Component | State it keeps | Operations | Interacts with | Modelled in |
|---|---|---|---|---|
| Call table, `pkg/database/call.go` | `sip_call`: state, user, conference, receiver, room, times | `Insert`, `Transition` and `Answer` and `End` (compare-and-swap statements), `EndAll`, active-call queries, `AnsweredElsewhere` | every path of the call subsystem | `CallTable`, `CallLifecycle` |
| Call subsystem, `pkg/calls/subsystem.go`, `membership.go`, `record.go`, `rtc.go`, `notification.go`, `livekit.go` | answer, decline and ended channels per call; kept legs; notifications sent; participants seen | `HandleInboundCall`, `dial`, Matrix membership and decline handlers, participant watcher, `endCallAs`, start-up sweep | call table; Matrix rooms (ghost membership, ring notification, record); LiveKit rooms; SIP legs | `Calls` |
| Control legs, `pkg/siptransport/call.go` | a leg's dialog, its done channel, its handler's context | `handleInvite`, `Answer`, `Reject`, `Invite`, `Hangup`, `finish` | call subsystem, SIP server, sipgo's dialogs | `ControlLegs`; `LegPromise` is what `Calls` relies on |
| Inbound texts, `pkg/inbound`, `pkg/database/inbound.go` | `sip_inbound_message`; the spool directory; delivery state per portal; the slots; the wake channel | `Persist`, `Drain`, `DeliverPass`, `deliverOne` | SIP handler above, bridgev2 below | `InboundText`, `InboundQueue` |
| Trunk reconciler, `pkg/calls/trunk.go` | cached trunk ID, fingerprint of the pushed spec | `reconcileTrunk` on a timer | LiveKit | `Trunk` |
| Bridge health, `pkg/connector/health.go`, `connector.go`, `client.go`, `readiness.go` | `callHealth`: SIP down, trunk error, last state; the readiness latch | `SIP`, `Trunk`, `report`, `Connect`, the readiness handler | SIP endpoint, trunk reconciler, bridgev2's logins | `BridgeHealth` |
| SIP endpoint, `pkg/siptransport/transport.go`, `message.go`, `config.go`, `sdp.go` | bound, closed, registered; requests under way | `Run`, `Close`, `registerLoop`, MESSAGE in and out, digest retry | SIP server | `SipEndpoint`, `SipMessages`, `Registration`, put together in `SipTransport`; what the health poll sees of it in `BridgeHealth` |
| Logins, `pkg/connector/logins.go`, `linemembers.go` | bridgev2's logins; line members | `ensure`, line member synchronisation | every request that names a user | `Logins`; the `ensure` of the migration in `Migration` |
| Migration and spaces, `pkg/connector/migrate.go`, `spaces.go` | portals, logins, `user_portal`, the default recipient; space entries in Matrix | `repairLineSpaces`, `migrateSharedLogin`, `lineParent` | bridgev2's database and Matrix | `Migration` |
| Portal rooms, `pkg/calls/matrixside.go`, `portaljoin.go`, `membership.go`, `recipients.go` | rooms known to be callable, cached state-key forms; in bridgev2 and Matrix the room, its members and its name | make, find and repair the room of a number, bring its user in, put up and take back a call's membership | logins, bridgev2, call subsystem | `PortalRooms` |
| Numbers and portal IDs, `pkg/phonenum` | none | E.164 parsing, portal ID codec | everywhere | not yet (section 9) |
| Dial commands and dial rooms, `pkg/connector/commands.go`, `dialroom.go` | none | `!dial`, a room of its own to dial from | `dial` | the origin of an outbound call in `Calls` |
| Chat info, names, `pkg/connector/client.go`, `pkg/calls/identity.go` | whether a user has named the room | answers to bridgev2, `HandleMatrixRoomName`, resyncs | bridgev2 | the name in `PortalRooms`; the other fields are constant |
| Database start-up, `main.go`, `pkg/database/database.go` | none | `waitForDB`, schema upgrades | PostgreSQL | not yet (section 9) |
| Call audit, `pkg/callaudit`, `cmd/callaudit` | a report | parses logs | none | no: outside the running bridge |
| Metrics, configuration, notices | counters, defaults | none that the program reads back | Prometheus | no |

What makes the code hard is the same in all of its parts:

- **Concurrency.** A call has an owner goroutine; Matrix events, the participant
  watcher, SIP and the teardown touch the same row and the same LiveKit room from
  other goroutines. The call table's compare-and-swap statements are what
  arbitrates; what surrounds them is check-then-act. A delivery pass works on a
  list it read before it took the lock. `callHealth` computes under its mutex and
  sends after the unlock.
- **Failure.** A failed statement or request may have been carried out. An error
  path has to undo what went before it, and it runs on a context that may be dead.
- **Crash and restart.** Rows, memberships, participants, spool files and
  half-moved portals outlive the process; what they mean was in memory.
- **Ordering and time.** Texts of one sender stay in order through failures; a
  ring has a bound; a row is stale after one; a timer may fire beside the event it
  was waiting for; a CANCEL may come before the leg listens, a BYE before the ACK; a
  registration runs out unless it is refreshed in time.
- **Other people's locks.** bridgev2 handles a portal's events one at a time under a
  lock of its own; calls repair and join the same room beside it.

What each part owes its users is what the properties in section 4 say. The
hazards behind them are in `PROJECT.json`, each at the line where it bites.

## 2. The modules

    CallTable ── Calls ── CallProperties ── MCCalls
                   │            └────────── CallsProofs ── CallEndProofs
                   └ implements CallLifecycle
    InboundQueue ── InboundProperties ── MCInboundQueue
          │                 └─────────── InboundProofs
          └ implements InboundText
    SipEndpoint ─┬─ ControlLegs ──┐
                 ├─ SipMessages ──┼─ SipTransport ── SipProofs
                 └─ Registration ─┘        └ implements LegPromise
    Logins ── PortalRooms ── MCPortalRooms
                   └──────── PortalRoomsProofs
    Trunk ── BridgeHealth ── HealthProperties ── HealthProofs
    Migration ── MigrationProperties ── MigrationProofs

A line stands for `EXTENDS`. The `*Properties` modules state what their component
is for (`SipTransport` and `PortalRooms` do so at their end), the `MC*` modules name
the model values of an instance where it needs functions of them, the `*Proofs`
modules hold theorems, and each `.cfg` is an instance. Beside a definition that models code
some modules carry a variant marked "Mistaken" that changes it the way a plausible
slip would. Nothing uses the variants; put in place of the definition, each must make TLC report the
property it is paired with in `PROJECT.json` ("mutants"). They are how one sees
that a property would notice.

### CallTable and Calls

`row[c]` is the row of call `c`. The guards of the three compare-and-swap
statements are operators (`TransitionWins`, `AnswerWins`, `EndWins`), because a
caller branches on the number of rows affected. `InsertRow` keeps what later
queries compare: the position in `created_at` order and the calls that were
already more than ring time and grace old.

`Calls` gives each call an owner with a program counter `pc`. For an inbound leg
that is the INVITE handler: `HandleInboundCall` (refusals included), `LookUp`
(`activeCallByConference`, with the discarding of a stale row), `Insert`,
`PublishMembership`, `SendNotification` and `RememberNotification`, then the
select of `waitForMatrix` (`AnswerInbound`, `HearEnded`, `HearDecline`,
`HearHangup`, `RingTimeout`, `HearShutdown`), the claim and its refusal
(`RereadRefused`), the media (`CreateParticipant`, `MarkSeen`, `Republish`),
`AnswerLeg` and `LeaveHeld`. For an outbound call it is the goroutine of `dial`:
`StartDial`, the same set-up, `SendInvite`, what the SIP server says to it, and
`Transition`. `OwnerEnds` stands for the error paths, each of which ends the call
in its own words.

One action is the stretch of code between two points at which another goroutine
can look: a statement, a request, a channel. So a handler that reads a row and
acts on it later is two actions: `UserLeaves` and `Decline` put what they decided
into `pend`, with the copy of the row they decided it on, and `HandlerEnds`
carries it out. A pass of the watcher is `WatchList` and then, for each call in
its list, `WatchStale` or `WatchParticipant` and `WatchAbsent`, with the answer of
LiveKit and the reading of the seen map apart. `EndCall` is `endCallAs` up to its
statement, and whoever wins it starts a teardown, `td`, in the order of the code:
outcome and signals, media and control leg, membership and record. In the code the
teardown runs on the goroutine that won; here it is a process of its own, which
differs only in that the winner may go on before it has finished.

`Happens` and `MayFail` switch the events and the failing services of an instance. The
statements and requests of an inbound leg's owner run on the context of its leg, which
`finish` cancels when the caller hangs up or the bridge stops. Whatever the owner begins
after that fails and is not carried out (`Cancelled`); a request under way meanwhile may
be cut off, carried out or not (`HangupCuts`). `finish` commits and cancels in two steps,
which are one here (`ControlLegs` has both). The error paths and the teardown run on
contexts of their own.

A failed statement or request may have been carried out where that leaves something
behind: `Insert`, `PublishMembership`, `CreateParticipant`, the notification (`ring` is
then `"lost"`, since nobody knows its event ID), and `End`. `endCallAs` returns at the
error, so an end that was committed all the same (`EndUntold`) has nobody to tear it
down. A teardown's BYE may fail as well: the leg is out of the map by then, the error is
only logged, and `leg` is `"left"` for good (`TakeLeg`, `subsystem.go:937-941`).

### InboundQueue

`handler[t]` follows the SIP handler of a text: the INSERT, or else the spool
(write and rename, then sync), then 200 or 500. The drainer lists the spool and
moves file after file into the table, oldest first: insert, then remove; an
unreadable file is set aside. The loop's pass is two actions, `ListHeads` before
the lock and `Spawn` under it: as many ready portals as there are slots, oldest
head first; a pass that runs out of slots stops where it is, and the delivery state
of a portal it did not come by is dropped unless a delivery is in flight. A delivery
lands or fails, deletes its row, forgets or backs off, and then makes its two
deferred calls, notify first and release last. A crash loses the memory, and a
file whose directory was not synced.

### ControlLegs, SipMessages, Registration and SipTransport

`SipEndpoint` is the life of the endpoint: handlers are set, the listener opens or
fails, the context of `Run` ends, `Close` follows. The three parts that run on it share
that and nothing else, which is why `SipTransport` puts them together by `traffic`: a
behaviour has the legs and texts of one of `Traffics`, and the registration if that lists
it. A step of one part leaves the others alone.

On a leg of `ControlLegs` two threads meet: its owner, and the goroutine on which sipgo
tells of the end of its dialog. Either may call `finish`, which is three steps in the
order of the code, `FinishSteps`: commit under the mutex, cancel the handler's context,
close done. An inbound leg's second caller returns at once, an outbound one's waits
(`sync.Once`). `owner[l]` is where `handleInvite` and the call subsystem's handler are,
or the callers of `Invite` and `Hangup`. `HookState` is `OnStateReplay`: a dialog that has
already ended tells its leg on the spot. `status` is the final response on the wire,
`returned` what `Answer` or `Invite` told its caller, and `verdict` what the handler
concluded from the end of its context.

`SipMessages` follows an outbound text through `doWithDigest`: `wire` is what is between
bridge and server, which may be lost at any point, and `accepted` what the server has
taken. An inbound text is the handler's verdict turned into a status. `Registration` is
`registerLoop` in ticks: a request, its challenge, the wait for half the expiry. The
registrar binds the bridge for what it asked for, and may refuse, lose or forget.

### Logins and PortalRooms

`Logins` follows the requests that name a user: the look at the table, the mutex, the
second look, the permission, `NewLogin` and `Connect`, with `logins` and `userRows` the
two tables, `creations` a count of what `NewLogin` has made in the behaviour, and
`connected` what this run has connected. A login by hand takes no mutex, line members
get theirs at the start.

`PortalRooms` extends it with the room of each user for one number. A call runs
`LookUpCall`, `FindRoom` (make it, take it, or read the description for a repair),
`UpdateInfo`, `JoinRoom`, `SettleKey` and `PublishMembership`, and in the end
`RetractMembership`; a text is delivered by bridgev2 (`DeliverText`). Under the portal's
lock bridgev2 handles names users have given (`HandleMatrixRoomName`), resyncs
(`GetChatInfo` to `UpdateInfo`, one action because the lock is held) and the resyncs a
connected login asks for. What the homeserver has is `rooms`, `callable`, `member`,
`title` and `membership`; `recorded` is the portal's row; `repaired`, `marked`, `version`,
`resyncs`, `reading`, `info` and `key` are memory and go with a crash. `Scenes` says
which requests, failures and freedoms a behaviour has.

### Trunk and BridgeHealth

`Trunk` is one reconcile after another: `ReconcileList` up to the decision,
`ReconcileUpdate` or `ReconcileCreate`, `Report`. Between them LiveKit may lose
or change the trunk. `withholds` is whether this LiveKit leaves the password out
of its lists, `trunkPushed` the fingerprint that excuses that.
`BridgeHealth` extends it with the endpoint, the registration, the latch of the
readiness endpoint, the facts of `callHealth`, and one reporter each for the
poll, the reconciler and every connecting login: ask the endpoint, record under
the mutex, look up the logins, send to one after the other. The bridge restarts
only in `Trunk`'s own run.

### Migration

The database (`portals`, `logins`, `flags`, `personal`, `recipient`) and the space
entries in Matrix (`listed`) outlive a start; `step`, `todo`, `skipped`, `mended`
and `dead` are the local variables of the start, which `Stop` ends between any
two statements. `Init` is every database of a bounded size that an earlier
version can have left: shared and owned portals, spaces with and without rooms,
the old shared login with and without a personal space, and up to `MaxLeft` rooms their
user has left (`left`). `Resync` is `resyncPortals` down to `lineParent` for one room,
after the logins have connected: with line spaces on, for a room whose user is in it or
invited, or whose members cannot be read, which invites them again.

## 3. Abstract specifications

- `CallLifecycle`: a call rings, may be taken or connected, and ends; it never
  goes back; whoever is on it stays on it; of the inbound legs of a conference at
  most one is up. `Calls` implements it with `phase` and `who` read off the rows
  (`ImplementsLifecycle`; proved, and model-checked for two calls of one room, where a
  transition meets an end. That the claim is exclusive is seen with two inbound legs, in
  `two_legs` as `OneInboundBridged`.)
- `InboundText`: a text is received, answered once and lands at most once, and not
  before the texts of its portal that were already answered from the table when it
  was received. `InboundQueue` implements it (`ImplementsPromise`; model-checked and
  proved).
- `LegPromise`: a leg begins, gets at most one final answer, is answered only while it
  lives, and once over stays over. `SipTransport` implements it with the phase of a leg
  read off status, result and release (`ImplementsLegPromise`; model-checked and
  proved). The states of `leg` in module `Calls` are these, told apart a
  little further (who refused, who hung up).

## 4. The runs

All runs are instances of the modules as they stand. Deadlock is not checked:
every instance stops when its calls, texts, disturbances or starts are used up.
The times are of two TLC workers.

| Run | Instance | Question | Size |
|---|---|---|---|
| `one_leg` | one inbound call, a room with two users; database, Matrix, LiveKit and SIP may fail; joins, leaves, declines, hangups, stale rows, the watcher, stop, one crash | Does anything reach LiveKit or get a 200 without a user on the call (`MediaOnlyForClaimant`), or a 200 without media (`AnsweredIsConnected`)? Is an ended call recorded exactly once, whoever ends it (`RecordedOnce`)? | 2.2 M states, 1 min |
| `two_legs` | two legs of one phone call in two users' rooms; joins, declines, hangups | Is at most one up (`OneInboundBridged`)? Is a settled, ended call gone from room and LiveKit (`EndedIsClean`)? Does every ringing leg stop ringing, the one that lost the conference too (`LegIsReleased`)? | 43 k, 15 s |
| `shared_room` | an inbound and a `!dial`led call in the same room; SIP may fail; leaves, hangups, stale rows | Do the types hold, and does the call table keep the life cycle its readers rely on (`ImplementsLifecycle`)? Is the control leg of an ended outbound call sent its BYE, whoever came first and whether or not it succeeds (`EndedLegIsHungUp`)? | 2.9 M, 2 min |
| `progress` | one inbound call, one crash | Does a call end whose participant has left, however short it was (`DepartureEndsCall`)? Is a ringing row without an owner discarded (`OrphanRowIsDiscarded`)? Does the next start clear what the last run left (`LastRunIsSwept`)? | 38 k, 20 s |
| `store` | two texts to one portal, two slots, spool, everything may fail, one crash | Is a text answered 200 never lost (`AcceptedIsStored`)? One delivery per portal (`OneInFlightPerPortal`), its state in place when it reads it back (`DeliveryHasState`), no more deliveries than slots (`TypeOK`), and `ImplementsPromise`? | 4.5 M up to symmetry, 3¼ min |
| `stuck` | two portals, failing deliveries, those of the second may hang for ever | Does the text of the first land (`AcceptedLands`)? | 60 k, 2½ min |
| `trunk` | LiveKits that show and that withhold passwords; six disturbances of six kinds | After the last, is the trunk right for good (`TrunkRecovers`), and does the writing end (`WritesEnd`)? | 8.6 k, 1 s |
| `reported` | one login, both notices on, one disturbance: a failed request, a lost trunk, a registrar that changes its mind, a listener that fails | Does the recorded state come to agree with the facts, and do the reports then end (`RecordedIsTrue`)? Does readiness latch, and not before the listener is bound (`ReadinessLatches`)? | 446 k, 1 min |
| `moved` | every old database of up to three portals, two users, two numbers, one room at most left by its user; two starts, the first stopped anywhere and failing | Is no room lost or given to the wrong login (`RoomsAreKept`), none deleted (`NothingIsDeleted`), no per-room state lost (`FlagsAreKept`)? Does an undisturbed start finish (`MigrationEnds`) with every room its user is in or invited to listed in its own line's space (`RoomsInTheirLine`)? | 865 k, 2¼ min |
| `sip` | three traffics over the whole life of the endpoint: an inbound leg and a text in, an outbound leg and a text out, the registration and a text out; requests, answers and ACKs lost, refused or challenged, two registrar faults | Is a leg released once (`TypeOK`) and whenever its dialog ends (`EndedLegIsReleased`), and does whoever it wakes learn why (`ShutdownIsTold`)? Is what `Answer` and `Invite` return true (`AnswerTellsTheTruth`), and is the call subsystem promised no more (`ImplementsLegPromise`)? Is a text sent once, and only then reported as sent (`SentMeansAccepted`)? Is a bridge that says so registered (`RegisteredIsBound`), and again after a fault (`RegistrationRecovers`)? | 103 k, 20 s |
| `rooms` | eight scenes of two calls, a text, a login by hand and a text for a user who may not log in; two failures or crashes, two renames | Is a login made once and never for a refused user (`TypeOK`), and connected by whoever makes it (`LoginIsConnected`)? Does a name the user gave stay (`UserNameIsKept`), and the bridge's come back when they empty it (`NameComesBack`)? Is a membership taken back from the state key it stands at (`RetractedWherePublished`)? | 146 k, 1 min |
| `end_during_bridge` | one inbound call, joins and leaves, no faults | expected to violate `NoOrphanParticipant` (section 5) | 1 k |

### Why the bounds are enough

- The guards of the call table compare a call with the others of its conference
  or room, so two calls give every pairing: two legs of one phone call
  (`OwnRooms`), two calls in a room (`SameRoom`). A room has its owner, or its
  owner and one other user, which is what tells "their leave" from "a leave".
- One crash reaches every point of every path, and what it leaves is what the
  sweep and the stale rows are for. A second one is only interesting within the
  sweep itself (`crash_in_sweep`, section 5).
- The order of texts is a matter of two texts of one portal. Isolation is a matter
  of two portals. `store` has two slots for its one portal, so that the code and not the
  semaphore has to keep a second delivery of the portal out; they still run out,
  because a delivery that is over holds its slot until its deferred calls have run. One
  slot for two portals is `MCInbound_lost_wake.cfg` (section 5). `BatchSize` is left at the code's 500.
- `TrunkRecovers` is about the last disturbance; six are enough for every kind of
  it to follow any other, twice over for some.
- `moved` has the three portals that the rules of repair and migration compare:
  a space, another space of the line, and a room; or two rooms of one number. Every
  initial database within that bound is tried, with no room left by its user or any
  one of them: whether a room is resynced depends on nothing but itself.
- In `sip` the parts share only the life of the endpoint, so pairs of traffic reach
  every state of each part with every state of the other; legs do not interact. An
  expiry of eight ticks with a transaction of one leaves room between a refresh, its
  failure and the end of the binding, and two faults are a refusal and a loss, in
  either order, or a loss behind the registrar's back. `SipProofs` has no bounds.
- In `rooms` each scene joins the failures and freedoms that one part of the code
  handles: repairs of old rooms, leaves, renames with a restart, the reading of the
  version, overlapping calls with a restart, the creation of logins. All of them at
  once is the product of things that do not meet. Two faults are a failure and the
  crash after it. Two renames are a name and its withdrawal. Calls do not overlap in
  the scene in which a version cannot be read (section 5 says why).

The bounds are the constants `MaxCrashes`, `MaxDisturbances`, `MaxStarts`,
`MaxPortals`, `MaxLeft`, `MaxFaults`, `MaxRenames`, and the finite sets of calls, users, texts,
legs, portals, logins and numbers.

### Fairness

Liveness is checked under the fairness the code's scheduling gives, and no more:

- `CallProperties!FairSpec`: goroutines run on (`OwnerFairness`, the ring timeout
  of `waitForMatrix` included), the watcher polls, a handler that has decided
  carries its decision out, a start goes through its sweep, a cancelled INVITE
  ends, and rows grow old. Nothing is assumed of users, callers, the SIP server or
  LiveKit.
- `InboundProperties!FairSpec`: handlers, drainer and loop run on; a backoff ends;
  bridgev2's calls return for every portal that is not `Stuck`, and a service that
  may fail does not fail every time (strong fairness of its success). Nothing
  is assumed of the deliveries of a stuck portal. `TimelyNext` says that a backoff,
  a second or more, does not end before the deferred calls of the delivery it
  follows have run. Without it, what `MCInbound_lost_wake.cfg` shows would happen
  here, too, and the text would wait for the poll.
- `SipTransport!LegsFair` and `RegistrationFair`: a `finish` that has begun goes on, the
  handler of an accepted INVITE runs, an INVITE that has ended returns, an ACK is
  sent or fails; the REGISTER loop runs, time passes, and a request is answered or
  times out. Nothing is assumed of the far end of a leg, nor of how long the call
  subsystem holds one.
- `PortalRooms!Fairness`: goroutines of requests run up to their login, bridgev2
  handles the events it has, the sweep of a start goes on and the bridge is started
  again. Users may do nothing, and a call may last for ever.
- `Trunk` and `BridgeHealth`: the reconciler's timer and the poll fire, requests
  are answered or fail, a login that has been loaded connects, what has been recorded
  is sent. Disturbances and the arrival of logins are never fair.
- `Migration`: a start goes on until it is stopped. The last start of an instance
  is `Undisturbed`, and `MigrationEnds` and `RoomsInTheirLine` speak of behaviours
  that reach it: they say what one good start achieves, whatever the ones before it
  left. A resync is fair only for a room whose user is in it or invited, because the code
  queues no other; a room that its user has left may never be listed, and
  `RoomsInTheirLine` does not promise it.

## 5. Divergences met

While the code was modelled a number of places were found where it does
not do what its own comments or the README say. One is recorded as a run that must
end in a violation, with the quotation, in `PROJECT.json`:

- `end_during_bridge`: the leg rings, its user joins and the claim succeeds; then the user
  leaves while `CreateSIPParticipant` is under way, and the leg is as alive as before.
  The teardown removes a participant that is not there yet; the one that is
  created afterwards is removed by nobody, since the row has ended and the write
  of an ended row is not an error. "livekit-sip holds the SIP leg into the
  conference for as long as its participant exists, and nothing else removes
  it" (`subsystem.go:932-935`).

For the others the property is stated in the modules and the instance kept as a
`.cfg`; `tlc -config <cfg> <module>` shows the trace (where a `.cfg` has several properties, the
later ones' show without the ones before). They are not among the
runs of `PROJECT.json`, which are kept to a dozen.

| Instance | Property | What happens, and what the source says |
|---|---|---|
| `MCCalls_decline_race.cfg` | `DeclineSparesLiveCalls` | declineOwnCall checks for StateRinging on a row it read earlier and then runs End, whose guard is state <> 'ended' (database/call.go:116-119), so it ends a call that was bridged in between. calls/subsystem.go:1083-1084 says "endCallAs is a compare-and-swap, so a decline racing the callee picking up loses rather than tearing down a live call". |
| `MCCalls_leave_in_answer.cfg` | `OnlyTheirLeaveEnds` | onMatrixLeftCall compares the sender with the matrix_user of a row it read while the call still rang; by the time End runs another user may be on the call. calls/subsystem.go:1122 says "Once a user is on the call, only their leave ends it". |
| `MCCalls_leave_in_answer.cfg`, second property | `AnsweredIsNotMissed` | endCallAs classifies the call by the copy its caller read, which may be older than the answer: a call that was up is recorded and counted as missed. calls/subsystem.go:909-910 says of that copy that it is "The row as it was before it ended: End overwrites UpdatedAt and State, which are what say whether the call was answered and for how long". |
| `MCCalls_watch_race.cfg` | `WatcherEndsOnlyDeparted` | checkParticipants asks LiveKit first and the seen map after: a participant that joins, and is marked as seen by bridgeMedia, between the two is taken for one that has left. calls/subsystem.go:1520-1521 says "Absent before it was ever present means LiveKit has not caught up yet, not that the call ended". |
| `MCCalls_leave_in_answer.cfg`, third property | `NoAnswerAfterEnd` | Between the claim and leg.Answer the call can be ended by a leave; nothing looks at the row or the ended channel again and the leg gets its 200. calls/subsystem.go:582-584 says "The claim comes first and is what makes this path the owner of the call -- answering first and recording it afterwards is how a call that teardown had already finished still got reported as answered". |
| `MCCalls_end_before_invite.cfg` | `HangupReachesPhone` | The ended channel of an outbound call is created by inviteContext, after the row, the membership and the notification: a hangup before that signals nobody and the INVITE goes out on an ended call. calls/subsystem.go:791-794 says of a call without it "a Matrix hangup during ringing is recorded but never reaches the SIP server". |
| `MCCalls_double_dial.cfg` | `OneActivePerRoom` | The lookup of the call in progress and the INSERT are two statements, and no index of sip_call forbids two active rows: two joins of one room, or a join and !dial, both place a call. database/call.go:128-129 says "There is at most one per room". |
| `MCCalls_dangling_leg.cfg` | `NoDanglingLeg` | When the claim is refused because the call has just been ended, answerInbound returns answerOver and the handler returns without a final response for the leg. calls/subsystem.go:357-359 says "A branch of a parallel Dial() that never gets a final response is held until the transaction times out, so every failure here ends with a definitive status rather than a dangling leg". |
| `MCCalls_second_answer.cfg` | `OneAnswerPerConference` | The claim asks only that no other leg of the conference is bridged now: once the answered leg has ended, a leg that still rings can be claimed and answered. README.md:169-170 says "It sends a 200 on at most one leg per conference". |
| `MCCalls_crash_in_sweep.cfg` | `LastRunIsSwept` | Start ends all rows before it sweeps what they name, so a crash in between leaves memberships and participants that no later start lists. calls/membership.go:181-183 says "the memberships are reconciled once at startup against the call table, which after a restart lists exactly the calls that cannot still be running". |
| `MCInbound_lost_wake.cfg` | `SkippedIsWoken` | deliverOne defers its notify after the release of its slot, so that it runs before it. The loop can be woken, find no slot, and sleep; the release wakes nobody until the 30 s poll. inbound/queue.go:215 says "a finishing delivery wakes the loop". |
| `MCInbound_backoff.cfg` | `BackoffIsKept` | A pass that stops at the first head it has no slot for has not put the portals behind it into seen, and the clean-up drops their failures and retry time: a failing portal is retried at once and backs off from the start. inbound/queue.go:176-177 says "A portal whose message fails backs off exponentially". |
| `MCInbound_refused.cfg` | `RefusedDoesNotLand` | An INSERT whose answer was lost may have been committed; without a spool the text is refused, and delivered from its row all the same. connector/client.go:482-483 says "Returning an error makes the transport answer the MESSAGE with a failure status, so the far end knows the text did not land". |
| `Health_told.cfg` | `FirstStateIsReal` | Connect drops the second result of health.SIP and sends the first, which is the zero BridgeState whenever the recorded state has not changed - for every login but the first one at start-up, and for that one too if the reconciler was quicker. connector/client.go:51-52 says "Unconditionally, unlike every later report: this is the first state the login ever has". |
| `Health_told.cfg` without its `INVARIANTS` | `ChangeIsForEveryone` | A Connect that finds the endpoint changed records the new state as the last one sent and sends it to its own login alone; the poll then sees no change and the other logins keep the old state. connector/connector.go:188 says "report sends a bridge state that actually changed, to every login". |
| `Health_reordered.cfg` | `ToldIsRecorded` | The state is computed under the mutex of callHealth and sent after the unlock: two reporters may send in the opposite order, and the older state stays, because the comparison is with what was recorded. connector/connector.go:165 says "watchSIPHealth keeps the bridge state in step with the endpoint". |
| `Migration_dropped.cfg` | `DroppedIsUnlisted` | The row of the empty space is deleted before the receiver-less one is re-keyed and before its room is unlisted, and only a local variable remembers the room: a start stopped in between never unlists it, because the next one finds no stale row. README.md:417-418 says "it is listed in their personal space, and the replaced copy's entry there is removed". |
| `Migration_ambiguous.cfg` | `AmbiguousIsLeftAlone` | migrateSharedLogin, which runs next in the same start, moves every portal without a receiver that the default recipient has no room for, the space repairLineSpaces has just refused to assign included. connector/spaces.go:158-160 says "A space whose rooms belong to several receivers, or whose receiver's own space still has rooms, is left alone with a warning: there is no way to tell which one is meant". |
| `MCPortalRooms_divergences.cfg`, scene 1 | `UserNameIsKept` | The repair of an old room reads its description and then updates the portal outside the portal's lock (calls/matrixside.go:221-229): a name the user gives between the two is recorded and then overwritten. connector/client.go:244-247 says of a user's name that it is recorded "so that nothing the bridge later asserts [...] silently takes their name away again". |
| `MCPortalRooms_divergences.cfg` without its `PROPERTIES`, scene 2 | `RetractedWherePublished` | A failed read of the room's version is cached like an answer (calls/membership.go:221-243). With a restart between publishing and sweeping, the sweep reads the right form and takes back the membership from a key it does not stand at; two overlapping first reads do the same. calls/membership.go:222-223 says "The version of a room never changes [...] so the answer is cached for the subsystem's life". |

Smaller things the modules have as the code has them, and which no comment speaks
about, so that no property does either:

- A user's empty name and a new name in quick succession: the resync that the first one
  asked for may run after the second is in the room and before its event is handled.
- A login whose INSERT was carried out although it failed is not connected until the
  next start (`LoginIsConnected` excludes it by name).
- The room of a user who takes the name back and leaves stays without a name, if the bridge
  stops before it could resync it,
  until a start that finds them in the room.
- An ACK that fails after the 200 releases an outbound leg without a BYE: the SIP server
  keeps its side.
- An End that was committed although it failed leaves an ended row whose participant,
  membership and leg nobody handles, and a call without a record (`EndUntold`).
- A teardown's BYE that fails is not repeated: the callee stays in the conference until
  somebody hangs up (`EndedLegIsGone` is what fails to hold).
- A room that its user has left is not put into its line's space by any start, until a
  call or a text has invited them again.
- A registrar that grants less than the expiry asked for is not listened to; the
  refresh stays at half of what was asked.

The fix of a divergence would be made in the module first: the instance must then
pass, and the run becomes a regression check.

## 6. What is proved

Seven modules hold theorems; `tlapm` checks every step. None of them bounds anything:
sets are finite where the code counts, and otherwise arbitrary. Where a property holds
only under some faults or events the theorem says which in an `ASSUME`, and where it
fails in a window that section 5 shows, the theorem says that there is no other.

### CallsProofs

It proves about `Calls`, for any finite set of calls, any users,
conferences, rooms, faults, events and number of crashes:

| Theorem | Says |
|---|---|
| `Invariance` | `Spec => []IInv` |
| `TypeCorrect` | `Spec => []TypeOK` |
| `ConferenceClaimedOnce` | `Spec => []OneInboundBridged` |
| `NothingBeforeAJoin` | `Spec => []MediaOnlyForClaimant` |
| `OneRecordPerCall` | `Spec => []RecordedOnce` |
| `Implementation` | `Spec => ImplementsLifecycle` |

The assumptions are `CallTableAssumption` and `CallsAssumption`: the set of calls
is finite (positions in `created_at` order are cardinalities), the inbound calls
are calls, conferences and receivers are columns of every call, `NoUser` is no
user, and the switches are subsets of what they switch.

None of the three safety properties is inductive. `MediaOnlyForClaimant` fails to be
in a state whose owner is about to create a participant for a row nobody has claimed,
`OneInboundBridged` in one where an inbound owner is about to run the `Transition` of
`dial`, `RecordedOnce` in one where a call that is still up has been torn down. The
invariant `IInv` adds what rules such states out:

- `Roles`: an owner is only at labels of its own direction; an inbound leg never gets to
  the transition, a dialling goroutine never to the wait;
- `RowFollowsOwner`: there is no row until its owner inserts it, there is one from then
  on, a missing row has no user and an outbound row has one;
- `TeardownFollowsEnd`: only an ended row is torn down, which with the guard of `End`
  makes its winner unique and the record single;
- `ClaimantKnown`: while the owner is past the claim, its row has a user;
- `OneInboundBridged`, `MediaOnlyForClaimant`, `RecordedOnce` themselves.

The proof has a lemma per conjunct, each with a case per action. What many cases
share is stated once: the type lemmas for the statements of the call table; `RowStep`,
that every step leaves the table alone or runs one of five statements on it;
`OwnerMoves` and `RowMoves`, how labels and rows may change; `MediaMoves`. The
refinement proof uses `RowStep` as well: five statements against four abstract
actions and a stutter, the guard of `Answer`
being that of `Take`.

### CallEndProofs

About `Calls` again, in the same generality, and on top of `IInv`. Three of its theorems
are safety properties of runs, and the third of these four goes with the second:

| Theorem | Says |
|---|---|
| `AnsweredLegsAreConnected` | `Spec => []AnsweredIsConnected`, if participants do not depart of their own |
| `EndedCallsHangUp` | `Spec => []EndedLegIsHungUp`, if the call table answers: the leg is out of the map and has been sent its BYE, whatever becomes of that |
| `EndedCallsLeaveNoLeg` | `Spec => []EndedLegIsGone`, if the SIP server takes the BYE as well: nothing is left up there |
| `ErrorsLeaveNothing` | `Spec /\ EndsAreTold => []EndedIsClean` under `UsersOnly`, if LiveKit and Matrix answer |

`UsersOnly` says that users join and decline, callers and participants hang up and the
bridge stops, and that nobody declines a call placed by a command: no leaves, crashes,
watcher or stale rows. `EndsAreTold` is an action property: whoever ends a call is told
so and begins its teardown, that is, no End is committed and reported to have failed. All
the other statements may fail, carried out or not. The conditions are needed. TLC finds
`AnsweredIsConnected` violated with `"depart"` (until the watcher notices),
`EndedLegIsHungUp` with `"db"` among the faults and a leave (a `Transition` that fails
after the teardown has been leaves its leg in the map, an End that was committed although
it failed has no teardown), `EndedLegIsGone` with `"sip"` (a BYE that fails), and
`EndedIsClean` with a leave, with a failing LiveKit or Matrix, with a decline of a call
placed by a command, and with `"db"` where not all ends are told.

The others say where the windows of section 5 are, and that outside them the code does
what its comments promise:

| Theorem | Says |
|---|---|
| `OrphanNeedsEndInSetUp` | `Spec /\ EndsOutsideSetUp /\ EndsAreTold => []NoOrphanParticipant`, without crashes and if LiveKit answers |
| `LeftoverNeedsEndInSetUp` | `Spec /\ EndsOutsideSetUp /\ EndsAreTold => []EndedIsClean`, if Matrix answers as well |
| `OwnersEndOutsideSetUp` | `Spec => EndsOutsideSetUp` under `UsersOnly` |
| `LateAnswerNeedsEndInAnswer` | `Spec /\ EndsOutsideAnswer => NoAnswerAfterEnd` |
| `DanglingNeedsRefusal` | a leg is left without a final response only by a claim refused on an ended call, if the table and the leg answer |
| `OnlyOldCopiesMislabel` | a call that was up is recorded as missed or declined only by a handler that decided while it rang |
| `OnlyOldLeavesEndForOthers` | somebody else's leave ends a call that is up only if it was decided on while it rang |
| `WatcherErrsOnlyOnArrival` | `Spec /\ ArrivalsOutsideChecks => WatcherEndsOnlyDeparted` |

`EndsOutsideSetUp` is an action property: no step ends a call whose owner is between its
row and the end of `bridgeMedia` (its own error paths end it after they have left the
set-up); `EndsOutsideAnswer` is the same between the claim and the 200;
`ArrivalsOutsideChecks`, that no participant arrives between LiveKit's answer to the
watcher and the look at the seen map. The run `end_during_bridge`,
`MCCalls_leave_in_answer.cfg` and `MCCalls_watch_race.cfg` are behaviours that break them.
So something is left of an ended call in two windows only: an end in the set-up, and an
End that was committed although it failed. `CarefulNext` is what is left of `Next` without
either.

The invariants, each with a lemma on how a step moves what it is about:

- `ConnectedInv`: past `bridgeMedia` an owner has a participant until its call ends, and a
  leg is answered only while it is held;
- `ControlInv`: a leg that is up is in the map, and one in the map has a holder (the owner
  at its transition, a bridged row or a teardown under way). `EndedLegIsHungUp` alone
  says nothing of the calls that are about to end;
- `TornDownInv`, `PartIsRemoved`, `MemberIsRetracted`, `RingIsRedacted`: an ended call is
  torn down or being torn down, and what its teardown is past is gone and not made again;
- `VerdictFollowsEnd` with `EndCauses`: every end is the owner's, a handler's, the
  watcher's, a stale row's or a start's, and the first three name the copy they go by;
- `BridgedCopyIsTheirs`: a copy read while the call was up names its user, for good;
- `EndedPastAnswer`, `LegIsTold`, `AbsentIsAway` for the remaining three.

### InboundProofs

About `InboundQueue`, for any finite set of texts, any portals, parallelism, batch size,
faults and crashes: `Invariance`, `TypeCorrect` (with the bound on deliveries),
`AcceptedStaysStored`, `OneFlight` (`OneInFlightPerPortal`), `DeliveryFindsState` (`DeliveryHasState`),
`LandInOrder` (`SentInOrder`) and `KeepsPromise` (`ImplementsPromise`). The
assumption is `InboundAssumption`. The invariant beside the types:

- `TimesInv`: texts are stamped one after the other, and whatever is stored, listed,
  delivered or answered has been received;
- `StoredInv`: a text is in its handler's hands, in a store or in the room; a file that
  is about to be removed has its row, a row that has been deleted its message;
- `OrderInv`: what a text must follow was answered from the table before it came, and
  has landed once the text heads its portal;
- `FlightInv`: one delivery per portal, and one head.

That a pass starts no more deliveries than there are slots is an argument about
cardinalities: the ranks of the earliest `n` of a set of texts differ, so they are at most
`n` (`EarliestBounded`). `OrderInv` is what the refinement rests on: a head is
the oldest row of its portal, and what was answered from the table stays there until
it has landed.

Three more theorems say of the divergences of section 5 by which steps alone they come
about:

| Theorem | Says |
|---|---|
| `LostWakeNeedsLateRelease` | `Spec /\ SkipsAwaitANotify => []SkippedIsWoken` |
| `LandingNeedsFalseFailure` | `Spec /\ FailuresStoreNothing => []RefusedDoesNotLand` |
| `ForgettingNeedsBlindPass` | `Spec /\ PassesSeeAll => BackoffIsKept` |

- `SkipsAwaitANotify`: no pass stops short while every slot is held by a delivery that has
  woken the loop already. This is the one window, so a release before the notify would
  close it. The proof needs the converse of `EarliestBounded`, that a pass that leaves a
  head behind has filled the slots (`EarliestFills`), which rests on `OldestOf`, the
  library's theorem that the natural numbers are well ordered. `SkipInv` adds to the
  property that the flag is set only while the loop sleeps.
- `FailuresStoreNothing`: no failed INSERT of a handler was committed, and no directory fails
  to sync after the rename. `NowhereInv`: a text not stored yet, or refused, is in
  no store, list or delivery, nor in the room. The second half is a window of its
  own: a spooled text can be refused and then drained.
- `PassesSeeAll`: a pass comes by all heads, is given all of them (`BatchSize` may cut the
  list), starts none whose row was deleted since it was listed, and no failed deletion was
  carried out. `SeenInv`: a failing portal has a row or a delivery about to forget it, and
  is busy or in the list of the pass under way. Only the first of the four makes the
  bridge retry too soon a text it still has.

TLC finds each property violated when any of these conditions is dropped.

### SipProofs

About `SipTransport`, for any legs, texts, traffics, expiry and transaction time:
`Invariance`, `TypeCorrect` (a done channel is closed at most once), `ShutdownTold`,
`AnswersAreTrue`, `SentAreAccepted`, `RegisteredBound` and `KeepsLegPromise`. The
assumptions are those of the modules; `RegisteredBound` adds `Lag < Expiry`,
that half the expiry and two transactions fit into the lifetime. Without it a refresh
may come too late whatever the loop does; the default expiry meets it. The parts have an
invariant each, since a step of one leaves the others alone:

- `FinishInv`: whoever is past the commit of `finish` is alone there, and a cancelled
  context was cancelled after the commit, from which `ShutdownIsTold` follows;
- `InboundInv`, `OutboundInv`: what has been said, returned and released at each place
  of an owner; a leg still held is being released only because its dialog has ended;
- `MessagesInv`: an unanswered request has not been accepted more than once, and one
  that is challenged or refused not at all;
- `RegisteredInv`: while nothing was forgotten, the binding outlasts what may pass
  before the loop hears of its registration (`Remaining`).

`KeepsLegPromise` maps each step of each leg to a step of `LegPromise` or a stutter; its
steps are simultaneous over legs, because the end of the process ends several.

### MigrationProofs

About `Migration`, for any users, numbers and portals, any rooms left by their users, line
spaces on or off, any faults and any number of starts: `Invariance`, `NothingGoes` (`NothingIsDeleted`, the references of the
tables included), `RoomsStay` (`RoomsAreKept`) and `FlagsStay` (`FlagsAreKept`). The
assumption is `MigrationAssumption`. `Init` is every database with the layout of an
earlier version, of any size up to `MaxPortals`. The invariant beside the types:

- `StepInv`: what a step of the start takes for granted of the ones before it, above all
  that the old login has given its personal space away before it is deleted;
- `NumbersInv`: a number that has a portal without a receiver has a room in each of its
  others, so that re-keying never lets a room make way;
- `FlagsInv`: before the old login goes its flags have been copied.

`WithoutOK` and `ReKeyedOK` say what the deletion and the re-keying of a row do to the
references of the table, and each action has a lemma that it keeps the invariant, the rooms
and the flags.

### PortalRoomsProofs

About `PortalRooms` and the `Logins` it extends, for any users, requests, members, scenes,
renames and faults, under `LoginsAssumption` and `PortalRoomsAssumption`:

| Theorem | Says |
|---|---|
| `Invariance` | `Spec => []IInv` |
| `TypeCorrect` | `Spec => []TypeOK`: no login or user row for who may not log in, at most one login made by `NewLogin` per user |
| `NameKept` | `Spec => UserNameIsKept`, if no scene has both `"old"` and `"rename"` |
| `RetractionMeets` | `Spec => []RetractedWherePublished`, if every scene with `"version"` has neither `"overlap"` nor `"crash"` |

The conditions of the last two are what the two scenes of `MCPortalRooms_divergences.cfg`
break (section 5), and all scenes of the run `rooms` meet them: nothing else that a scene
may have makes the two properties fail. The invariant beside the types:

- `LoginInv`: who is between `locked` and `create` holds the mutex, and at `create` the
  user has a row and `NewLogin` has not made a login yet. Without it `creations` could
  reach two;
- `AtInv`: a bridge that is down has nobody in the middle of anything, and nothing is
  `stale` unless it has crashed;
- `RoomInv`: a member, a title or a name given needs a room;
- `NameInv`: while nobody renames a room, the description that a repair has read still
  says whose the name is;
- `KeyInv`: where the version can be read every key is the right one (`ReadInv`); where
  calls of a user do not overlap and nothing crashes, the call that is up has the key that
  is cached, right or not (`OrderlyInv`, which needs `OneCaller`).

`RoomMoves`, `InRowMoves` and `KeysMove` say what a step that touches only a room, only a
call's place or only its keys preserves; each action then has a lemma of its own.

### HealthProofs

About `Trunk` and `BridgeHealth`, for any logins, settings, versions of LiveKit and
disturbances in any number, under `TrunkAssumption` and `HealthAssumption`:

| Theorem | Says |
|---|---|
| `TrunkTypeCorrect` | `TrunkSpec => []TrunkTypeOK`: no ID that was not given out, no update without a target |
| `ExcuseIsSound`, `BridgeExcuseIsSound` | a blank password that is excused stands for the wanted one (`ExcusedIsWanted`), if no old trunk comes back (`Snapshots`) and nobody edits a password that is not listed (`HiddenEdits`) |
| `ReadinessIsLatched` | `Spec => ReadinessLatches`, the types of the whole bridge state included |
| `RecordedStateIsImplied` | the last recorded state is the one the two recorded facts imply |
| `OldStateNeedsOverlapOrConnect` | `Spec /\ []OneSends /\ ConnectsFindNothingNew => []ToldIsRecorded` |

The run `trunk` excludes the same two disturbances, which no reader of the list can
see (section 8); the excuse is why a LiveKit that withholds passwords is not written to
at every tick, and `ExcuseIsSound` that it is not paid for with a wrong password.
`ToldIsRecorded` is what `Health_reordered.cfg` violates. `OneSends`, that no two reports
are under way at once, and `ConnectsFindNothingNew`, that a Connect is not the first to
see a change unless nobody else is connected, name the two windows: TLC finds it violated
under either alone, and the theorem says that there is no third.

The invariants: `PushedIsKnown` (a process that has pushed the spec knows the password:
the wanted one where it is withheld, not blank where it is not) with `CreatesOnlyMissing`;
`EndpointInv`; `FactsOK`; `ReportsInv` (whoever has read the endpoint or reconciled has
nothing left to send, without which `TypeOK` is not inductive); `NewsIsLast` and
`OnItsWay` (a connected login has been told the last state, or a report has it for them).
`BridgeTakesTrunkSteps` carries what is proved of `Trunk` over to the bridge: its steps are
steps of the reconciler or disturbances elsewhere.

## 7. What is only model-checked

Liveness, which needs fairness and `ENABLED`: `LegIsReleased`, `DepartureEndsCall`,
`OrphanRowIsDiscarded`, `LastRunIsSwept`, `AcceptedLands`, `TrunkRecovers`, `WritesEnd`,
`RecordedIsTrue`, `MigrationEnds`, `RoomsInTheirLine`, `EndedLegIsReleased`,
`RegistrationRecovers`, `LoginIsConnected`, `NameComesBack`. Every safety and action
property of a run is stated by a theorem.

## 8. What is not modelled, and why

Within the modelled components:

- **Calls.** Headers, SDP, dialogs and codecs; the text of records and notices;
  room creation and invitations before the lookup; metrics. `!dial`'s own replies.
  The teardown is a process of its own and not the rest of the goroutine that won
  (section 2). Times are events: a row "grows late", "expires", a ring times out.
- **SipTransport.** Parsing, SDP, digests and transports are outcomes. sipgo's
  retransmission within a transaction is external. Provisional responses change
  nothing the bridge reads.
- **Logins and PortalRooms.** One number, so one room per user. The spaces and dial
  rooms of lines. Of a description the name; power levels as whether calls are
  allowed. Notifications that are not redacted lapse by themselves. A text that was accepted
  is delivered in the end (`InboundQueue`).
- **InboundQueue.** Equal receive times and clocks that step; row IDs; what a file
  that cannot be read contains; gauges; the end of the context in an orderly stop,
  after which the process is gone as after a crash. As many hanging portals as there are
  slots stop all deliveries, in the code as here: `stuck` has one, with two slots.
- **Trunk.** The fields other than the password are one, "settings". Of the trunks
  LiveKit lists only the first of the wanted name is kept. A password changed by hand
  where passwords are withheld, and the snapshot of a trunk from before the credentials
  were configured, are left out of `trunk`: no reader of the list can see the
  first, and the second is never repaired either, because `trunkPushed` is a fingerprint
  of the spec and not of the trunk it went to (`trunk.go:93`; add "snapshot"
  to `Disturbances` to see it).
- **BridgeHealth.** A listener that fails to bind or stops is not started again, as in
  the code. bridgev2's queue of states per login is taken to keep their order.
- **Migration.** One line. Users neither leave nor come back while a start runs, except
  that a resync invites them. The code queues a resync once per start; here it may be
  repeated, as if bridgev2 handled it in the end. bridgev2's cache of portals is taken to agree with its
  database; its creation of a personal space and the listing of a space made anew
  are not modelled. The moves of children that `reparentChildren` makes are
  the foreign key's. A failed removal of a space entry is only logged in the code and
  never tried again, so `moved` leaves it out.

Not modelled at all: LiveKit's REST client (`livekit.go`) is calls that succeed, fail or
are carried out although they failed; metrics, notices and configuration have no state
that the program reads back; the portal ID codec is a pure function on strings, for
which the repository has a table of tests; the start of the database is a retry loop
before anything else runs; the call audit is a log parser.

## 9. Plan

Done: `CallTable`, `Calls` with `CallLifecycle`, `CallsProofs` and `CallEndProofs`; `InboundQueue` with
`InboundText` and `InboundProofs`; `SipTransport` with `LegPromise` and `SipProofs`;
`Logins` and `PortalRooms` with `PortalRoomsProofs`; `Trunk` and `BridgeHealth` with `HealthProofs`; `Migration` with `MigrationProofs`.
In the order of what matters next:

1. **`Calls` on `ControlLegs`**: the composition, in which `leg` is no longer a variable
   of `Calls` but the phase of a leg of `ControlLegs`.
2. **The windows of the migration**, as `CallEndProofs` and `InboundProofs` have those of
   the calls and of the queue: that a room stays listed, or a space is taken from its
   rooms, only by the stop or the order of steps that section 5 shows.
3. **`PortalIDs`**: the portal ID codec, `portalIDForNumber` and `dialPortalID` as
   operators, checked against a reference definition: decoding inverts encoding, and no
   two numbers share a portal.
4. **Lines**: the spaces and dial rooms of several lines, `lineParent` beside calls.
5. **`StartUp`**: `waitForDB` and the order of the start, composed with the sweep of
   `Calls` and the first pass of `Migration`.
