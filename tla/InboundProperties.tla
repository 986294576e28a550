--------------------------- MODULE InboundProperties ---------------------------
(***************************************************************************)
(* What the inbound path is for, as properties of module InboundQueue.     *)
(***************************************************************************)
EXTENDS InboundQueue

(* "Answering 200 means the text is stored" (ADR-0018): wherever the        *)
(* process dies, a text answered 200 is in the table, in the spool, set     *)
(* aside, or in Matrix (Persist, Drain, deliverOne).                        *)
AcceptedIsStored ==
  \A t \in Texts : answer[t] = "200" => t \in table \cup spool \cup bad \cup landed

(* "Only a portal's oldest message is ever in flight" (DeliverPass): at     *)
(* most one delivery per portal, and its portal is marked busy for as long. *)
OneInFlightPerPortal ==
  /\ \A t, o \in InFlight : PortalOf[t] = PortalOf[o] => t = o
  /\ busy = {PortalOf[t] : t \in InFlight}

(* The state a delivery reads back without asking whether it is there is    *)
(* there (deliverOne: st := q.portals[key]).                                *)
DeliveryHasState == \A t \in InFlight : PortalOf[t] \in known

(* A sender who waits for each 200 sees his texts land in order: no text    *)
(* lands before one of its portal that was answered from the table when it  *)
(* was received ("order is kept per portal", DeliverPass).                  *)
SentInOrder == \A t \in Texts : t \in landed => prior[t] \subseteq landed

(* "A finishing delivery wakes the loop" (DeliverPass): when a pass stopped *)
(* for want of a slot and the loop sleeps, either a wake-up is waiting or a *)
(* delivery has still to send one.                                          *)
SkippedIsWoken ==
  loop = "sleep" /\ skipped => wake \/ InFlight # {} \/ notifying > 0

(* "A portal whose message fails backs off exponentially" (DeliverPass): a  *)
(* portal's failures are forgotten when its message is delivered or the     *)
(* process restarts, and not before.                                        *)
BackoffIsKept ==
  [][\A p \in failing \ failing' :
       crashes' # crashes \/ \E t \in Texts : flight[t] = "forget" /\ PortalOf[t] = p]_vars

(* "Returning an error makes the transport answer the MESSAGE with a        *)
(* failure status, so the far end knows the text did not land"              *)
(* (handleInboundMessage).                                                  *)
RefusedDoesNotLand == \A t \in Texts : answer[t] = "500" => t \notin landed

------------------------------------------------------------------------------
(* Progress *)

(* Goroutines run on and timers fire; ...                                   *)
BridgeFairness ==
  /\ \A t \in Texts : WF_vars(Handler(t))
  /\ WF_vars(Drainer) /\ WF_vars(Loop) /\ WF_vars(Deferred)
  /\ \A p \in Portals : SF_vars(BackoffEnds(p) /\ notifying = 0 /\ releasing = 0)

(* ... the database, if it fails, does not fail every time; ...             *)
DatabaseFairness ==
  /\ SF_vars(ListHeads /\ loop' = "spawn")
  /\ \A t \in Texts : /\ SF_vars(DrainInsert(t) /\ drain' = "remove")
                      /\ SF_vars(DeleteRow(t) /\ flight'[t] = "forget")

(* ... and nor does bridgev2 for a portal that is not stuck, for which      *)
(* every call of it returns.                                                *)
MatrixFairness ==
  \A t \in Texts : PortalOf[t] \notin Stuck =>
    WF_vars(Delivery(t)) /\ SF_vars(DeliverLands(t))

(* A backoff lasts a second or more, which is ample for a delivery to make  *)
(* its deferred calls: a portal does not come back from its backoff to find *)
(* the slot of its own last delivery still taken.                           *)
TimelyNext ==
  Next /\ ((\E p \in Portals : BackoffEnds(p)) => notifying = 0 /\ releasing = 0)

FairSpec ==
  Init /\ [][TimelyNext]_vars /\ BridgeFairness /\ DatabaseFairness /\ MatrixFairness

(* A text answered 200 lands in Matrix in the end, unless its own portal is *)
(* stuck: "a stuck portal holds back only itself" (DeliverPass).            *)
AcceptedLands ==
  \A t \in Texts : answer[t] = "200" /\ PortalOf[t] \notin Stuck ~> t \in landed

------------------------------------------------------------------------------
(* The queue keeps the promise made to senders.                             *)
Promise == INSTANCE InboundText WITH received <- Received

ImplementsPromise == Promise!Spec
==============================================================================
