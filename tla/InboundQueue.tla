----------------------------- MODULE InboundQueue -----------------------------
(***************************************************************************)
(* The durable path of an inbound text from SIP to Matrix (pkg/inbound):   *)
(* the SIP handler that persists it, in the table or else in the spool;    *)
(* the drainer that moves the spool into the table; the loop that starts   *)
(* deliveries; and the delivery goroutines.  bridgev2, which puts a text   *)
(* into a room and recognises one that is already there, is external.      *)
(***************************************************************************)
EXTENDS Naturals, FiniteSets

CONSTANTS
  Texts,        \* the texts a behaviour may receive, each with a UID of its own
  Portals,      \* login and portal ID, the key of the delivery state
  PortalOf,     \* the portal of each text
  MaxParallel,  \* maxParallel
  BatchSize,    \* batchSize
  HasSpool,     \* whether a spool directory is configured
  Faults,       \* what may fail: "insert" of a row, another "db" statement,
                \* "spool", "matrix"
  Stuck,        \* portals whose deliveries may hang for ever
  MaxCrashes    \* bound on the number of crashes

ASSUME InboundAssumption ==
  /\ IsFiniteSet(Texts)
  /\ PortalOf \in [Texts -> Portals]
  /\ MaxParallel \in Nat \ {0} /\ BatchSize \in Nat \ {0}
  /\ HasSpool \in BOOLEAN
  /\ Faults \subseteq {"insert", "db", "spool", "matrix"}
  /\ Stuck \subseteq Portals
  /\ MaxCrashes \in Nat

VARIABLES
  handler,   \* text -> where the SIP handler that received it is
  answer,    \* text -> the final response it got
  at,        \* text -> its receive time, 0 while not received
  prior,     \* text -> the texts of its portal already answered from the table
  ordered,   \* the texts answered from the table
  table,     \* the rows of sip_inbound_message
  spool,     \* the files waiting in the spool directory
  bad,       \* the files set aside
  landed,    \* the texts in Matrix
  drain,     \* the drainer: "idle", "insert" or "remove"
  files,     \* what is left of the list of the drainer's pass
  loop,      \* the delivery loop: "list", "spawn" or "sleep"
  heads,     \* the heads its pass has read
  skipped,   \* whether its last pass stopped short for want of a slot
  known,     \* portals with a portalState
  busy,      \* those with a delivery in flight
  failing,   \* those with failures
  resting,   \* those whose backoff has not ended
  flight,    \* text -> where its delivery is
  notifying, \* deliveries that are done but for their two deferred calls
  releasing, \* deliveries that still hold their slot and nothing else
  wake,      \* whether the wake channel holds a token
  crashes

sip     == <<handler, answer, at, prior, ordered>>
drainer == <<drain, files>>
pass    == <<loop, heads, skipped>>
state   == <<known, busy, failing, resting>>
slots   == <<notifying, releasing>>

vars == <<sip, table, spool, bad, landed, drainer, pass, state, flight, slots, wake, crashes>>

InFlight == {t \in Texts : flight[t] # "none"}

InUse == Cardinality(InFlight) + notifying + releasing

FreeSlots == MaxParallel - InUse

(* The types; and the semaphore admits at most maxParallel deliveries.      *)
TypeOK ==
  /\ handler \in [Texts -> {"none", "insert", "spool", "sync", "notify", "done"}]
  /\ answer \in [Texts -> {"none", "200", "500"}]
  /\ at \in [Texts -> Nat]
  /\ prior \in [Texts -> SUBSET Texts]
  /\ ordered \subseteq Texts /\ table \subseteq Texts /\ landed \subseteq Texts
  /\ spool \subseteq Texts /\ bad \subseteq Texts
  /\ drain \in {"idle", "insert", "remove"} /\ files \subseteq Texts
  /\ loop \in {"list", "spawn", "sleep"} /\ heads \subseteq Texts
  /\ skipped \in BOOLEAN /\ wake \in BOOLEAN
  /\ known \subseteq Portals /\ busy \subseteq Portals
  /\ failing \subseteq Portals /\ resting \subseteq Portals
  /\ flight \in [Texts -> {"none", "deliver", "delete", "forget", "fail"}]
  /\ notifying \in Nat /\ releasing \in Nat /\ crashes \in Nat
  /\ InUse \in 0..MaxParallel

Init ==
  /\ handler = [t \in Texts |-> "none"]
  /\ answer = [t \in Texts |-> "none"]
  /\ at = [t \in Texts |-> 0]
  /\ prior = [t \in Texts |-> {}]
  /\ ordered = {} /\ table = {} /\ spool = {} /\ bad = {} /\ landed = {}
  /\ drain = "idle" /\ files = {}
  /\ loop = "list" /\ heads = {} /\ skipped = FALSE /\ wake = FALSE
  /\ known = {} /\ busy = {} /\ failing = {} /\ resting = {}
  /\ flight = [t \in Texts |-> "none"]
  /\ notifying = 0 /\ releasing = 0 /\ crashes = 0

------------------------------------------------------------------------------
(* Helpers *)

MayFail(service) == service \in Faults

Received == {t \in Texts : at[t] # 0}

Oldest(S) == {t \in S : \A o \in S : at[t] <= at[o]}

(* Mistaken: the head of a portal is its latest text.                       *)
LatestHeads ==
  {t \in table : \A o \in table : PortalOf[o] = PortalOf[t] => at[t] >= at[o]}

(* headInboundQuery: the earliest-received row of each portal, ...          *)
HeadRows ==
  {t \in table : \A o \in table : PortalOf[o] = PortalOf[t] => at[t] <= at[o]}

(* ... and the earliest BatchSize of them.                                  *)
Earliest(S, n) == {t \in S : Cardinality({o \in S : at[o] < at[t]}) < n}

(* INSERT ... ON CONFLICT (uid) DO NOTHING.  A failed one may be committed. *)
InsertRow(t) == table' = table \cup {t}

InsertFails(t) == MayFail("insert") /\ (InsertRow(t) \/ UNCHANGED table)

HandlerAt(t, label) == handler' = [handler EXCEPT ![t] = label]

FlightAt(t, label) == flight' = [flight EXCEPT ![t] = label]

Answer(t, code) == answer' = [answer EXCEPT ![t] = code]

------------------------------------------------------------------------------
(* The SIP handler: handleInboundMessage and Persist *)

(* Stamped with the time of receipt, after the refusals that store nothing. *)
Receive(t) ==
  /\ handler[t] = "none"
  /\ HandlerAt(t, "insert")
  /\ at' = [at EXCEPT ![t] = Cardinality(Received) + 1]
  /\ prior' = [prior EXCEPT ![t] = {o \in ordered : PortalOf[o] = PortalOf[t]}]
  /\ UNCHANGED <<answer, ordered, table, spool, bad, landed, drainer, pass, state, flight,
                 slots, wake, crashes>>

(* The table takes the text, or else the spool, or else nobody.             *)
PersistRow(t) ==
  /\ handler[t] = "insert"
  /\ \/ InsertRow(t) /\ HandlerAt(t, "notify") /\ UNCHANGED answer
     \/ /\ InsertFails(t)
        /\ IF HasSpool THEN HandlerAt(t, "spool") /\ UNCHANGED answer
                       ELSE HandlerAt(t, "done") /\ Answer(t, "500")
  /\ UNCHANGED <<at, prior, ordered, spool, bad, landed, drainer, pass, state, flight,
                 slots, wake, crashes>>

Notify(t) ==
  /\ handler[t] = "notify"
  /\ wake' = TRUE /\ Answer(t, "200") /\ ordered' = ordered \cup {t}
  /\ HandlerAt(t, "done")
  /\ UNCHANGED <<at, prior, table, spool, bad, landed, drainer, pass, state, flight,
                 slots, crashes>>

(* Spool.Write up to the rename, which makes the file visible, ...          *)
SpoolWrite(t) ==
  /\ handler[t] = "spool"
  /\ \/ spool' = spool \cup {t} /\ HandlerAt(t, "sync") /\ UNCHANGED answer
     \/ MayFail("spool") /\ HandlerAt(t, "done") /\ Answer(t, "500") /\ UNCHANGED spool
  /\ UNCHANGED <<at, prior, ordered, table, bad, landed, drainer, pass, state, flight,
                 slots, wake, crashes>>

(* ... and the sync of the directory, which makes it durable.               *)
SpoolSync(t) ==
  /\ handler[t] = "sync"
  /\ \/ Answer(t, "200")
     \/ MayFail("spool") /\ Answer(t, "500")
  /\ HandlerAt(t, "done")
  /\ UNCHANGED <<at, prior, ordered, table, spool, bad, landed, drainer, pass, state, flight,
                 slots, wake, crashes>>

------------------------------------------------------------------------------
(* The drainer: Drain *)

DrainList ==
  /\ drain = "idle" /\ spool # {}
  /\ files' = spool /\ drain' = "insert"
  /\ UNCHANGED <<sip, table, spool, bad, landed, pass, state, flight, slots, wake, crashes>>

NextFile(rest) == IF rest = {} THEN "idle" ELSE "insert"

(* Mistaken: the file is removed before its row is inserted.                *)
DrainRemovesFirst(t) ==
  /\ drain = "insert" /\ t \in Oldest(files)
  /\ InsertRow(t) \/ InsertFails(t)
  /\ spool' = spool \ {t} /\ files' = files \ {t} /\ drain' = NextFile(files \ {t})
  /\ UNCHANGED <<sip, bad, landed, pass, state, flight, slots, wake, crashes>>

(* The oldest file of the list: an unreadable one is set aside; a failing   *)
(* INSERT ends the pass.                                                    *)
DrainInsert(t) ==
  /\ drain = "insert" /\ t \in Oldest(files)
  /\ \/ InsertRow(t) /\ drain' = "remove" /\ UNCHANGED <<files, spool, bad>>
     \/ InsertFails(t) /\ drain' = "idle" /\ files' = {} /\ UNCHANGED <<spool, bad>>
     \/ /\ MayFail("spool")
        /\ \/ spool' = spool \ {t} /\ bad' = bad \cup {t}
           \/ UNCHANGED <<spool, bad>>
        /\ files' = files \ {t} /\ drain' = NextFile(files \ {t})
        /\ UNCHANGED table
  /\ UNCHANGED <<sip, landed, pass, state, flight, slots, wake, crashes>>

(* A file that cannot be removed is found drained by the next pass.         *)
DrainRemove(t) ==
  /\ drain = "remove" /\ t \in Oldest(files)
  /\ \/ spool' = spool \ {t} /\ wake' = TRUE
     \/ MayFail("spool") /\ UNCHANGED <<spool, wake>>
  /\ files' = files \ {t} /\ drain' = NextFile(files \ {t})
  /\ UNCHANGED <<sip, table, bad, landed, pass, state, flight, slots, crashes>>

------------------------------------------------------------------------------
(* The delivery loop: DeliverPass and deliverLoop *)

(* Heads is read before the lock is taken.                                  *)
ListHeads ==
  /\ loop = "list"
  /\ \/ heads' = Earliest(HeadRows, BatchSize) /\ loop' = "spawn"
     \/ MayFail("db") /\ heads' = {} /\ loop' = "sleep"
  /\ UNCHANGED <<sip, table, spool, bad, landed, drainer, skipped, state, flight, slots,
                 wake, crashes>>

Ready == {t \in heads : PortalOf[t] \notin busy \cup resting}

(* The rest of the pass, under the lock.  It stops at the head it has no    *)
(* slot for, and drops the states of the portals it did not come by, but    *)
(* for the kept ones.                                                       *)
Start(started, kept) ==
  /\ loop = "spawn"
  /\ flight' = [t \in Texts |-> IF t \in started THEN "deliver" ELSE flight[t]]
  /\ busy' = busy \cup {PortalOf[t] : t \in started}
  /\ LET reached == {t \in heads : \A r \in Ready \ started : at[t] <= at[r]}
     IN known' = {PortalOf[t] : t \in reached} \cup kept
  /\ failing' = failing \cap known'
  /\ resting' = resting \cap known'
  /\ skipped' = (started # Ready)
  /\ heads' = {} /\ loop' = "sleep"
  /\ UNCHANGED <<sip, table, spool, bad, landed, drainer, slots, wake, crashes>>

(* Mistaken: deliveries are started without asking for a slot.              *)
SpawnUnbounded == Start(Ready, known \cap busy)

(* Mistaken: a delivery is started only when no other is running.           *)
SpawnSerially ==
  Start(IF InFlight = {} THEN Earliest(Ready, 1) ELSE {}, known \cap busy)

(* Mistaken: the state of a portal with a delivery in flight is dropped.    *)
SpawnDropsBusy == Start(Earliest(Ready, FreeSlots), {})

(* As many of the heads of idle and rested portals as there are slots,      *)
(* oldest first.                                                            *)
Spawn == Start(Earliest(Ready, FreeSlots), known \cap busy)

Wake ==
  /\ loop = "sleep" /\ wake
  /\ wake' = FALSE /\ loop' = "list" /\ skipped' = FALSE
  /\ UNCHANGED <<sip, table, spool, bad, landed, drainer, heads, state, flight, slots, crashes>>

(* The poll interval, or the end of the backoff the pass found soonest.     *)
Poll ==
  /\ loop = "sleep"
  /\ loop' = "list" /\ skipped' = FALSE
  /\ UNCHANGED <<sip, table, spool, bad, landed, drainer, heads, state, flight, slots,
                 wake, crashes>>

BackoffEnds(p) ==
  /\ p \in resting
  /\ resting' = resting \ {p}
  /\ UNCHANGED <<sip, table, spool, bad, landed, drainer, pass, known, busy, failing, flight,
                 slots, wake, crashes>>

------------------------------------------------------------------------------
(* A delivery: deliverOne *)

(* bridgev2 puts the text into the room, recognises it as already there by  *)
(* its message ID, or fails, possibly after the text got through.           *)
DeliverLands(t) ==
  /\ flight[t] = "deliver"
  /\ landed' = landed \cup {t}
  /\ FlightAt(t, "delete")
  /\ UNCHANGED <<sip, table, spool, bad, drainer, pass, state, slots, wake, crashes>>

DeliverFails(t) ==
  /\ flight[t] = "deliver" /\ MayFail("matrix")
  /\ landed' \in {landed, landed \cup {t}}
  /\ FlightAt(t, "fail")
  /\ UNCHANGED <<sip, table, spool, bad, drainer, pass, state, slots, wake, crashes>>

DeleteRow(t) ==
  /\ flight[t] = "delete"
  /\ \/ table' = table \ {t} /\ FlightAt(t, "forget")
     \/ MayFail("db") /\ table' \in {table, table \ {t}} /\ FlightAt(t, "fail")
  /\ UNCHANGED <<sip, spool, bad, landed, drainer, pass, state, slots, wake, crashes>>

ForgetState(t) ==
  /\ flight[t] = "forget"
  /\ LET p == PortalOf[t] IN
       /\ known' = known \ {p} /\ busy' = busy \ {p}
       /\ failing' = failing \ {p} /\ resting' = resting \ {p}
  /\ FlightAt(t, "none") /\ notifying' = notifying + 1
  /\ UNCHANGED <<sip, table, spool, bad, landed, drainer, pass, releasing, wake, crashes>>

(* Mistaken: a failed portal stays marked as having a delivery in flight.   *)
BackOffBusy(t) ==
  /\ flight[t] = "fail"
  /\ failing' = failing \cup {PortalOf[t]} /\ resting' = resting \cup {PortalOf[t]}
  /\ FlightAt(t, "none") /\ notifying' = notifying + 1
  /\ UNCHANGED <<sip, table, spool, bad, landed, drainer, pass, known, busy, releasing,
                 wake, crashes>>

BackOff(t) ==
  /\ flight[t] = "fail"
  /\ LET p == PortalOf[t] IN
       /\ busy' = busy \ {p}
       /\ failing' = failing \cup {p} /\ resting' = resting \cup {p}
  /\ FlightAt(t, "none") /\ notifying' = notifying + 1
  /\ UNCHANGED <<sip, table, spool, bad, landed, drainer, pass, known, releasing, wake, crashes>>

(* The deferred calls run last first: the loop is woken, and the slot is    *)
(* given back.                                                              *)
DeferredNotify ==
  /\ notifying > 0
  /\ notifying' = notifying - 1 /\ releasing' = releasing + 1
  /\ wake' = TRUE
  /\ UNCHANGED <<sip, table, spool, bad, landed, drainer, pass, state, flight, crashes>>

DeferredRelease ==
  /\ releasing > 0
  /\ releasing' = releasing - 1
  /\ UNCHANGED <<sip, table, spool, bad, landed, drainer, pass, state, flight, notifying,
                 wake, crashes>>

------------------------------------------------------------------------------
(* The process dies and starts again: what is in memory is gone, and so may *)
(* be a file whose directory has not been synced.                           *)
Crash ==
  /\ crashes < MaxCrashes /\ crashes' = crashes + 1
  /\ handler' = [t \in Texts |-> IF handler[t] = "none" THEN "none" ELSE "done"]
  /\ \E gone \in SUBSET {t \in Texts : handler[t] = "sync"} : spool' = spool \ gone
  /\ drain' = "idle" /\ files' = {}
  /\ loop' = "list" /\ heads' = {} /\ skipped' = FALSE /\ wake' = FALSE
  /\ known' = {} /\ busy' = {} /\ failing' = {} /\ resting' = {}
  /\ flight' = [t \in Texts |-> "none"] /\ notifying' = 0 /\ releasing' = 0
  /\ UNCHANGED <<answer, at, prior, ordered, table, bad, landed>>

Handler(t) == PersistRow(t) \/ Notify(t) \/ SpoolWrite(t) \/ SpoolSync(t)

Drainer == DrainList \/ \E t \in Texts : DrainInsert(t) \/ DrainRemove(t)

Loop == ListHeads \/ Spawn \/ Wake \/ Poll

Delivery(t) ==
  DeliverLands(t) \/ DeliverFails(t) \/ DeleteRow(t) \/ ForgetState(t) \/ BackOff(t)

Deferred == DeferredNotify \/ DeferredRelease

Next ==
  \/ \E t \in Texts : Receive(t) \/ Handler(t) \/ Delivery(t)
  \/ Drainer \/ Loop \/ Deferred
  \/ \E p \in Portals : BackoffEnds(p)
  \/ Crash

Spec == Init /\ [][Next]_vars
==============================================================================
