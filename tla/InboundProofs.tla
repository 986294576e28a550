----------------------------- MODULE InboundProofs -----------------------------
(***************************************************************************)
(* The inbound path for any number of texts and portals, any parallelism,  *)
(* and any number of crashes: its types and the bound of the semaphore, no *)
(* accepted text is lost, one delivery per portal, order, and that the     *)
(* path implements the promise of module InboundText.  Then the windows: by *)
(* what steps alone the loop may miss a wake-up, a refused text land, and a *)
(* portal's failures be forgotten.                                         *)
(***************************************************************************)
EXTENDS InboundProperties, FiniteSetTheorems, FunctionTheorems, WellFoundedInduction, TLAPS

Kept == table \cup spool \cup bad \cup landed

(* Texts are stamped one after the other, and what is stored, listed,      *)
(* delivered or answered has been received.                                *)
TimesInv ==
  /\ \A t \in Texts : at[t] <= Cardinality(Received)
  /\ \A t, o \in Received : at[t] = at[o] => t = o
  /\ \A t \in Texts : handler[t] = "none" <=> t \notin Received
  /\ table \cup spool \cup files \cup heads \cup InFlight \cup ordered \cup landed
       \subseteq Received

(* A handler answers last, and a text is in the hands of its handler, in a *)
(* store, or in the room; the file a drainer is about to remove, and the   *)
(* row a delivery has deleted, are stored elsewhere.                       *)
StoredInv ==
  /\ \A t \in Texts : handler[t] # "done" => answer[t] = "none"
  /\ \A t \in Texts : handler[t] = "notify" \/ t \in ordered => t \in table \cup landed
  /\ \A t \in Texts : handler[t] = "sync" \/ answer[t] = "200" => t \in Kept
  /\ drain = "remove" => Oldest(files) \subseteq table \cup landed
  /\ \A t \in Texts : flight[t] \in {"delete", "forget"} => t \in landed

(* What a text must follow came earlier and was answered from the table, so *)
(* when the text is the head of its portal all of that has landed.         *)
OrderInv ==
  /\ \A t \in Texts : \A o \in prior[t] :
       t \in Received /\ o \in ordered /\ PortalOf[o] = PortalOf[t] /\ at[o] < at[t]
  /\ \A t \in heads \cup InFlight \cup landed : prior[t] \subseteq landed

(* The heads of a pass are of different portals, and so are the deliveries.*)
FlightInv ==
  /\ OneInFlightPerPortal
  /\ busy \subseteq known
  /\ \A t, o \in heads : PortalOf[t] = PortalOf[o] => t = o

IInv == TypeOK /\ TimesInv /\ StoredInv /\ OrderInv /\ FlightInv

------------------------------------------------------------------------------
(* What has been received is finite, and so is what is in flight.          *)
LEMMA FiniteTexts ==
  /\ IsFiniteSet(Received) /\ Cardinality(Received) \in Nat
  /\ IsFiniteSet(InFlight) /\ Cardinality(InFlight) \in Nat
<1>1. Received \in SUBSET Texts /\ InFlight \in SUBSET Texts
  BY DEF Received, InFlight
<1> QED
  BY <1>1, InboundAssumption, FS_Subset, FS_CardinalityType

(* The texts of S before t are counted.                                    *)
LEMMA Ranked ==
  ASSUME TypeOK, NEW S, S \subseteq Texts, NEW t \in S
  PROVE  LET before == {o \in S : at[o] < at[t]} IN
         /\ IsFiniteSet(before) /\ Cardinality(before) \in Nat
         /\ \A r \in S : at[r] > at[t] =>
              Cardinality({o \in S : at[o] < at[r]}) > Cardinality(before)
<1> DEFINE B(x) == {o \in S : at[o] < at[x]}
<1>1. ASSUME NEW r \in S PROVE IsFiniteSet(B(r)) /\ Cardinality(B(r)) \in Nat
  <2>1. B(r) \in SUBSET Texts
    OBVIOUS
  <2> QED
    BY <2>1, InboundAssumption, FS_Subset, FS_CardinalityType
<1>2. ASSUME NEW r \in S, at[r] > at[t] PROVE Cardinality(B(r)) > Cardinality(B(t))
  <2>1. B(t) \in SUBSET B(r) /\ t \in B(r) /\ t \notin B(t)
    BY <1>2 DEF TypeOK
  <2>2. B(t) # B(r)
    BY <2>1
  <2>3. Cardinality(B(t)) <= Cardinality(B(r)) /\ Cardinality(B(r)) # Cardinality(B(t))
    BY <1>1, <2>1, <2>2, FS_Subset
  <2> QED
    BY <1>1, <2>3
<1> QED
  BY <1>1, <1>2

(* The earliest n of S come before the rest of it.                         *)
LEMMA EarliestFirst ==
  ASSUME TypeOK, NEW S, S \subseteq Texts, NEW n \in Nat,
         NEW t \in Earliest(S, n), NEW r \in S \ Earliest(S, n)
  PROVE  at[t] <= at[r]
<1>1. at[t] \in Nat /\ at[r] \in Nat /\ t \in S
  BY DEF TypeOK, Earliest
<1>2. Cardinality({o \in S : at[o] < at[t]}) < n /\ ~(Cardinality({o \in S : at[o] < at[r]}) < n)
  BY DEF Earliest
<1>3. SUFFICES ASSUME at[t] > at[r] PROVE FALSE
  BY <1>1
<1>4. Cardinality({o \in S : at[o] < at[t]}) > Cardinality({o \in S : at[o] < at[r]})
  BY <1>1, <1>3, Ranked
<1>5. Cardinality({o \in S : at[o] < at[t]}) \in Nat
      /\ Cardinality({o \in S : at[o] < at[r]}) \in Nat
  BY <1>1, Ranked
<1> QED
  BY <1>2, <1>4, <1>5

(* They are at most n, as their ranks differ.                              *)
LEMMA EarliestBounded ==
  ASSUME TypeOK, NEW S, S \subseteq Texts, \A t, o \in S : at[t] = at[o] => t = o, NEW n \in Nat
  PROVE  IsFiniteSet(Earliest(S, n)) /\ Cardinality(Earliest(S, n)) <= n
<1> DEFINE E == Earliest(S, n)
           rank == [t \in E |-> Cardinality({o \in S : at[o] < at[t]})]
<1>1. \A t \in E : t \in S /\ rank[t] \in 0..(n - 1)
  <2> SUFFICES ASSUME NEW t \in E PROVE t \in S /\ rank[t] \in 0..(n - 1)
    OBVIOUS
  <2>1. t \in S /\ rank[t] < n
    BY DEF Earliest
  <2>2. rank[t] \in Nat
    BY <2>1, Ranked
  <2> QED
    BY <2>1, <2>2
<1>2. rank \in [E -> 0..(n - 1)]
  BY <1>1
<1>3. ASSUME NEW t \in E, NEW r \in E, at[r] > at[t] PROVE rank[r] # rank[t]
  <2>1. t \in S /\ r \in S
    BY <1>1
  <2>2. Cardinality({o \in S : at[o] < at[t]}) \in Nat
      /\ Cardinality({o \in S : at[o] < at[r]}) \in Nat
    BY <2>1, Ranked
  <2>3. Cardinality({o \in S : at[o] < at[r]}) > Cardinality({o \in S : at[o] < at[t]})
    BY <1>3, <2>1, Ranked
  <2> QED
    BY <2>2, <2>3
<1>4. ASSUME NEW t \in E, NEW r \in E, rank[t] = rank[r] PROVE t = r
  <2>1. at[t] \in Nat /\ at[r] \in Nat /\ t \in S /\ r \in S
    BY <1>1 DEF TypeOK
  <2>2. ~(at[r] > at[t]) /\ ~(at[t] > at[r])
    BY <1>3, <1>4
  <2> QED
    BY <2>1, <2>2
<1> HIDE DEF rank
<1>5. rank \in Injection(E, 0..(n - 1))
  BY <1>2, <1>4, Fun_IsInj
<1>6. IsFiniteSet(0..(n - 1)) /\ Cardinality(0..(n - 1)) = n
  BY FS_Interval
<1> QED
  BY <1>5, <1>6, FS_Injection

(* A text is stamped last, and follows what was answered from the table before.*)
LEMMA ReceiveKeeps ==
  ASSUME IInv, NEW t \in Texts, Receive(t)
  PROVE  IInv'
<1> USE InboundAssumption DEF IInv, Receive, HandlerAt,
      sip, drainer, pass, state, slots
<1> DEFINE n == Cardinality(Received)
<1>0. n \in Nat /\ t \notin Received /\ Received' = Received \cup {t}
      /\ Cardinality(Received') = n + 1 /\ at'[t] = n + 1
  <2>1. n \in Nat /\ t \notin Received
    BY FiniteTexts DEF TimesInv
  <2>2. at' = [at EXCEPT ![t] = n + 1] /\ at'[t] = n + 1
    BY DEF TypeOK
  <2>3. Received' = Received \cup {t}
    <3>1. \A o \in Texts : at'[o] # 0 <=> at[o] # 0 \/ o = t
      BY <2>1, <2>2 DEF TypeOK
    <3> QED
      BY <3>1 DEF Received
  <2> QED
    BY <2>1, <2>2, <2>3, FiniteTexts, FS_AddElement
<1>9. at' = [at EXCEPT ![t] = n + 1]
  OBVIOUS
<1> HIDE DEF n
<1>1. TypeOK'
  <2>1. InUse' = InUse
    BY DEF InUse, InFlight
  <2>2. at' \in [Texts -> Nat]
    BY <1>0, <1>9 DEF TypeOK
  <2>3. prior' \in [Texts -> SUBSET Texts]
    BY DEF TypeOK
  <2> QED
    BY <2>1, <2>2, <2>3 DEF TypeOK
<1>2. TimesInv'
  <2>1. \A o \in Texts : at[o] \in Nat /\ at[o] <= n /\ (o # t => at'[o] = at[o])
    BY <1>9 DEF n, TypeOK, TimesInv
  <2>2. \A o \in Texts : at'[o] <= n + 1
    BY <1>0, <2>1
  <2>3. \A o, r \in Received' : at'[o] = at'[r] => o = r
    BY <1>0, <2>1 DEF TimesInv, Received
  <2>4. \A o \in Texts : handler'[o] = "none" <=> o \notin Received'
    BY <1>0 DEF TypeOK, TimesInv
  <2>5. InFlight' = InFlight
    BY DEF InFlight
  <2> QED
    BY <1>0, <2>2, <2>3, <2>4, <2>5 DEF TimesInv
<1>3. StoredInv'
  BY DEF TypeOK, StoredInv, Kept, Oldest, TimesInv, Received
<1>4. OrderInv'
  <2>1. \A o \in Texts : at[o] \in Nat /\ at[o] <= n /\ (o # t => at'[o] = at[o])
    BY <1>9 DEF n, TypeOK, TimesInv
  <2>2. prior' = [prior EXCEPT ![t] = {o \in ordered : PortalOf[o] = PortalOf[t]}]
    OBVIOUS
  <2>3. ASSUME NEW r \in Texts, NEW o \in prior'[r]
        PROVE  r \in Received' /\ o \in ordered' /\ PortalOf[o] = PortalOf[r] /\ at'[o] < at'[r]
    <3>1. CASE r = t
      <4>1. o \in ordered /\ PortalOf[o] = PortalOf[t]
        BY <2>2, <3>1 DEF TypeOK
      <4>2. o \in Texts /\ o # t
        BY <1>0, <4>1 DEF TypeOK, TimesInv
      <4> QED
        BY <1>0, <2>1, <3>1, <4>1, <4>2
    <3>2. CASE r # t
      <4>1. o \in prior[r]
        BY <2>2, <3>2 DEF TypeOK
      <4>2. o \in ordered /\ r \in Received /\ PortalOf[o] = PortalOf[r] /\ at[o] < at[r]
        BY <4>1 DEF OrderInv
      <4>3. o \in Texts /\ o # t
        BY <1>0, <4>2 DEF TypeOK, TimesInv
      <4> QED
        BY <1>0, <2>1, <3>2, <4>2, <4>3
    <3> QED
      BY <3>1, <3>2
  <2>4. t \notin heads \cup InFlight \cup landed
    BY <1>0 DEF TimesInv
  <2>5. \A r \in Texts : r # t => prior'[r] = prior[r]
    BY <2>2 DEF TypeOK
  <2>6. InFlight' = InFlight /\ heads \cup InFlight \cup landed \subseteq Texts
    BY DEF InFlight, TypeOK
  <2> QED
    BY <2>3, <2>4, <2>5, <2>6 DEF OrderInv
<1>5. FlightInv'
  BY DEF TypeOK, FlightInv, OneInFlightPerPortal, InFlight
<1> QED
  BY <1>1, <1>2, <1>3, <1>4, <1>5

(* The row, the spool, or a failure.                                       *)
LEMMA PersistRowKeeps ==
  ASSUME IInv, NEW t \in Texts, PersistRow(t)
  PROVE  IInv'
<1> USE InboundAssumption DEF IInv, PersistRow, HandlerAt, InsertRow, InsertFails, Answer,
      sip, drainer, pass, state, slots
<1>1. TypeOK'
  <2>1. InUse' \in 0..MaxParallel
    BY DEF TypeOK, InUse, InFlight
  <2> QED
    BY <2>1 DEF TypeOK
<1>2. TimesInv'
  BY DEF TypeOK, TimesInv, Received, InFlight
<1>3. StoredInv'
  BY DEF TypeOK, StoredInv, Kept, Oldest, TimesInv, Received
<1>4. OrderInv'
  BY DEF TypeOK, OrderInv, InFlight, Received
<1>5. FlightInv'
  BY DEF TypeOK, FlightInv, OneInFlightPerPortal, InFlight
<1> QED
  BY <1>1, <1>2, <1>3, <1>4, <1>5

(* A 200 for a text in the table, or already delivered.                    *)
LEMMA NotifyKeeps ==
  ASSUME IInv, NEW t \in Texts, Notify(t)
  PROVE  IInv'
<1> USE InboundAssumption DEF IInv, Notify, HandlerAt, Answer,
      sip, drainer, pass, state, slots
<1>1. TypeOK'
  <2>1. InUse' \in 0..MaxParallel
    BY DEF TypeOK, InUse, InFlight
  <2> QED
    BY <2>1 DEF TypeOK
<1>2. TimesInv'
  BY DEF TypeOK, TimesInv, Received, InFlight
<1>3. StoredInv'
  BY DEF TypeOK, StoredInv, Kept, Oldest, TimesInv, Received
<1>4. OrderInv'
  BY DEF TypeOK, OrderInv, InFlight, Received
<1>5. FlightInv'
  BY DEF TypeOK, FlightInv, OneInFlightPerPortal, InFlight
<1> QED
  BY <1>1, <1>2, <1>3, <1>4, <1>5

(* The file is there, and not yet answered for.                            *)
LEMMA SpoolWriteKeeps ==
  ASSUME IInv, NEW t \in Texts, SpoolWrite(t)
  PROVE  IInv'
<1> USE InboundAssumption DEF IInv, SpoolWrite, HandlerAt, Answer,
      sip, drainer, pass, state, slots
<1>1. TypeOK'
  <2>1. InUse' \in 0..MaxParallel
    BY DEF TypeOK, InUse, InFlight
  <2> QED
    BY <2>1 DEF TypeOK
<1>2. TimesInv'
  BY DEF TypeOK, TimesInv, Received, InFlight
<1>3. StoredInv'
  BY DEF TypeOK, StoredInv, Kept, Oldest, TimesInv, Received
<1>4. OrderInv'
  BY DEF TypeOK, OrderInv, InFlight, Received
<1>5. FlightInv'
  BY DEF TypeOK, FlightInv, OneInFlightPerPortal, InFlight
<1> QED
  BY <1>1, <1>2, <1>3, <1>4, <1>5

(* A 200 for a text in the spool, or drained.                              *)
LEMMA SpoolSyncKeeps ==
  ASSUME IInv, NEW t \in Texts, SpoolSync(t)
  PROVE  IInv'
<1> USE InboundAssumption DEF IInv, SpoolSync, HandlerAt, Answer,
      sip, drainer, pass, state, slots
<1>1. TypeOK'
  <2>1. InUse' \in 0..MaxParallel
    BY DEF TypeOK, InUse, InFlight
  <2> QED
    BY <2>1 DEF TypeOK
<1>2. TimesInv'
  BY DEF TypeOK, TimesInv, Received, InFlight
<1>3. StoredInv'
  BY DEF TypeOK, StoredInv, Kept, Oldest, TimesInv, Received
<1>4. OrderInv'
  BY DEF TypeOK, OrderInv, InFlight, Received
<1>5. FlightInv'
  BY DEF TypeOK, FlightInv, OneInFlightPerPortal, InFlight
<1> QED
  BY <1>1, <1>2, <1>3, <1>4, <1>5

(* A pass of the drainer begins.                                           *)
LEMMA DrainListKeeps ==
  ASSUME IInv, DrainList
  PROVE  IInv'
<1> USE InboundAssumption DEF IInv, DrainList,
      sip, drainer, pass, state, slots
<1>1. TypeOK'
  <2>1. InUse' \in 0..MaxParallel
    BY DEF TypeOK, InUse, InFlight
  <2> QED
    BY <2>1 DEF TypeOK
<1>2. TimesInv'
  BY DEF TypeOK, TimesInv, Received, InFlight
<1>3. StoredInv'
  BY DEF TypeOK, StoredInv, Kept, Oldest, TimesInv, Received
<1>4. OrderInv'
  BY DEF TypeOK, OrderInv, InFlight, Received
<1>5. FlightInv'
  BY DEF TypeOK, FlightInv, OneInFlightPerPortal, InFlight
<1> QED
  BY <1>1, <1>2, <1>3, <1>4, <1>5

(* The oldest file: its row, the end of the pass, or the file set aside.   *)
LEMMA DrainInsertKeeps ==
  ASSUME IInv, NEW t \in Texts, DrainInsert(t)
  PROVE  IInv'
<1> USE InboundAssumption DEF IInv, DrainInsert, InsertRow, InsertFails, NextFile, Oldest,
      sip, drainer, pass, state, slots
<1>1. TypeOK'
  <2>1. InUse' \in 0..MaxParallel
    BY DEF TypeOK, InUse, InFlight
  <2> QED
    BY <2>1 DEF TypeOK
<1>2. TimesInv'
  BY DEF TypeOK, TimesInv, Received, InFlight
<1>3. StoredInv'
  BY DEF TypeOK, StoredInv, Kept, Oldest, TimesInv, Received
<1>4. OrderInv'
  BY DEF TypeOK, OrderInv, InFlight, Received
<1>5. FlightInv'
  BY DEF TypeOK, FlightInv, OneInFlightPerPortal, InFlight
<1> QED
  BY <1>1, <1>2, <1>3, <1>4, <1>5

(* A file goes when its row is there.                                      *)
LEMMA DrainRemoveKeeps ==
  ASSUME IInv, NEW t \in Texts, DrainRemove(t)
  PROVE  IInv'
<1> USE InboundAssumption DEF IInv, DrainRemove, NextFile, Oldest,
      sip, drainer, pass, state, slots
<1>1. TypeOK'
  <2>1. InUse' \in 0..MaxParallel
    BY DEF TypeOK, InUse, InFlight
  <2> QED
    BY <2>1 DEF TypeOK
<1>2. TimesInv'
  BY DEF TypeOK, TimesInv, Received, InFlight
<1>3. StoredInv'
  BY DEF TypeOK, StoredInv, Kept, Oldest, TimesInv, Received
<1>4. OrderInv'
  BY DEF TypeOK, OrderInv, InFlight, Received
<1>5. FlightInv'
  BY DEF TypeOK, FlightInv, OneInFlightPerPortal, InFlight
<1> QED
  BY <1>1, <1>2, <1>3, <1>4, <1>5

(* What the head of a portal must follow has left the table, so it has landed.*)
LEMMA ListHeadsKeeps ==
  ASSUME IInv, ListHeads
  PROVE  IInv'
<1> USE InboundAssumption DEF IInv, ListHeads, HeadRows, Earliest,
      sip, drainer, pass, state, slots
<1>1. TypeOK'
  <2>1. InUse' \in 0..MaxParallel
    BY DEF TypeOK, InUse, InFlight
  <2> QED
    BY <2>1 DEF TypeOK
<1>2. TimesInv'
  <2>1. heads' \subseteq Received /\ InFlight' = InFlight /\ Received' = Received
    BY DEF TimesInv, InFlight, Received
  <2> QED
    BY <2>1 DEF TimesInv
<1>3. StoredInv'
  BY DEF TypeOK, StoredInv, Kept, Oldest, TimesInv, Received
<1>4. OrderInv'
  <2>1. ASSUME NEW t \in heads' PROVE prior[t] \subseteq landed
    <3>1. t \in table /\ t \in Texts
      BY DEF TypeOK
    <3>2. ASSUME NEW o \in prior[t], o \notin landed PROVE FALSE
      <4>1. o \in ordered /\ PortalOf[o] = PortalOf[t] /\ at[o] < at[t]
        BY <3>1 DEF OrderInv
      <4>2. o \in Texts /\ o \in table
        BY <3>2, <4>1 DEF TypeOK, StoredInv
      <4>3. at[t] <= at[o]
        BY <2>1, <4>1, <4>2
      <4> QED
        BY <3>1, <4>1, <4>2, <4>3 DEF TypeOK
    <3> QED
      BY <3>2
  <2>2. InFlight' = InFlight /\ Received' = Received
    BY DEF InFlight, Received
  <2> QED
    BY <2>1, <2>2 DEF OrderInv
<1>5. FlightInv'
  <2>1. ASSUME NEW t \in heads', NEW o \in heads', PortalOf[t] = PortalOf[o] PROVE t = o
    <3>1. t \in table /\ o \in table
      OBVIOUS
    <3>2. at[t] <= at[o] /\ at[o] <= at[t]
      BY <2>1, <3>1
    <3> QED
      BY <3>1, <3>2 DEF TypeOK, TimesInv
  <2>2. InFlight' = InFlight
    BY DEF InFlight
  <2> QED
    BY <2>1, <2>2 DEF FlightInv, OneInFlightPerPortal
<1> QED
  BY <1>1, <1>2, <1>3, <1>4, <1>5

(* The loop is woken.                                                      *)
LEMMA WakeKeeps ==
  ASSUME IInv, Wake
  PROVE  IInv'
<1> USE InboundAssumption DEF IInv, Wake,
      sip, drainer, pass, state, slots
<1>1. TypeOK'
  <2>1. InUse' \in 0..MaxParallel
    BY DEF TypeOK, InUse, InFlight
  <2> QED
    BY <2>1 DEF TypeOK
<1>2. TimesInv'
  BY DEF TypeOK, TimesInv, Received, InFlight
<1>3. StoredInv'
  BY DEF TypeOK, StoredInv, Kept, Oldest, TimesInv, Received
<1>4. OrderInv'
  BY DEF TypeOK, OrderInv, InFlight, Received
<1>5. FlightInv'
  BY DEF TypeOK, FlightInv, OneInFlightPerPortal, InFlight
<1> QED
  BY <1>1, <1>2, <1>3, <1>4, <1>5

(* The loop wakes by itself.                                               *)
LEMMA PollKeeps ==
  ASSUME IInv, Poll
  PROVE  IInv'
<1> USE InboundAssumption DEF IInv, Poll,
      sip, drainer, pass, state, slots
<1>1. TypeOK'
  <2>1. InUse' \in 0..MaxParallel
    BY DEF TypeOK, InUse, InFlight
  <2> QED
    BY <2>1 DEF TypeOK
<1>2. TimesInv'
  BY DEF TypeOK, TimesInv, Received, InFlight
<1>3. StoredInv'
  BY DEF TypeOK, StoredInv, Kept, Oldest, TimesInv, Received
<1>4. OrderInv'
  BY DEF TypeOK, OrderInv, InFlight, Received
<1>5. FlightInv'
  BY DEF TypeOK, FlightInv, OneInFlightPerPortal, InFlight
<1> QED
  BY <1>1, <1>2, <1>3, <1>4, <1>5

(* All that a text must follow had landed when it was a head.              *)
LEMMA DeliverLandsKeeps ==
  ASSUME IInv, NEW t \in Texts, DeliverLands(t)
  PROVE  IInv'
<1> USE InboundAssumption DEF IInv, DeliverLands, FlightAt,
      sip, drainer, pass, state, slots
<1>1. TypeOK'
  <2>1. InUse' \in 0..MaxParallel
    BY DEF TypeOK, InUse, InFlight
  <2> QED
    BY <2>1 DEF TypeOK
<1>2. TimesInv'
  BY DEF TypeOK, TimesInv, Received, InFlight
<1>3. StoredInv'
  BY DEF TypeOK, StoredInv, Kept, Oldest, TimesInv, Received
<1>4. OrderInv'
  BY DEF TypeOK, OrderInv, InFlight, Received
<1>5. FlightInv'
  BY DEF TypeOK, FlightInv, OneInFlightPerPortal, InFlight
<1> QED
  BY <1>1, <1>2, <1>3, <1>4, <1>5

(* A text that fails may have landed.                                      *)
LEMMA DeliverFailsKeeps ==
  ASSUME IInv, NEW t \in Texts, DeliverFails(t)
  PROVE  IInv'
<1> USE InboundAssumption DEF IInv, DeliverFails, FlightAt,
      sip, drainer, pass, state, slots
<1>1. TypeOK'
  <2>1. InUse' \in 0..MaxParallel
    BY DEF TypeOK, InUse, InFlight
  <2> QED
    BY <2>1 DEF TypeOK
<1>2. TimesInv'
  BY DEF TypeOK, TimesInv, Received, InFlight
<1>3. StoredInv'
  BY DEF TypeOK, StoredInv, Kept, Oldest, TimesInv, Received
<1>4. OrderInv'
  BY DEF TypeOK, OrderInv, InFlight, Received
<1>5. FlightInv'
  BY DEF TypeOK, FlightInv, OneInFlightPerPortal, InFlight
<1> QED
  BY <1>1, <1>2, <1>3, <1>4, <1>5

(* A row is deleted after its text has landed.                             *)
LEMMA DeleteRowKeeps ==
  ASSUME IInv, NEW t \in Texts, DeleteRow(t)
  PROVE  IInv'
<1> USE InboundAssumption DEF IInv, DeleteRow, FlightAt,
      sip, drainer, pass, state, slots
<1>1. TypeOK'
  <2>1. InFlight' = InFlight
    BY DEF TypeOK, InFlight
  <2>2. InUse' \in 0..MaxParallel
    BY <2>1, FiniteTexts DEF TypeOK, InUse
  <2> QED
    BY <2>2 DEF TypeOK
<1>2. TimesInv'
  BY DEF TypeOK, TimesInv, Received, InFlight
<1>3. StoredInv'
  BY DEF TypeOK, StoredInv, Kept, Oldest, TimesInv, Received
<1>4. OrderInv'
  BY DEF TypeOK, OrderInv, InFlight, Received
<1>5. FlightInv'
  BY DEF TypeOK, FlightInv, OneInFlightPerPortal, InFlight
<1> QED
  BY <1>1, <1>2, <1>3, <1>4, <1>5

(* A delivery ends; it was its portal's only one.                          *)
LEMMA ForgetStateKeeps ==
  ASSUME IInv, NEW t \in Texts, ForgetState(t)
  PROVE  IInv'
<1> USE InboundAssumption DEF IInv, ForgetState, FlightAt,
      sip, drainer, pass, state, slots
<1>1. TypeOK'
  <2>1. InFlight' = InFlight \ {t} /\ t \in InFlight
    BY DEF TypeOK, InFlight
  <2>2. Cardinality(InFlight') = Cardinality(InFlight) - 1
    BY <2>1, FiniteTexts, FS_RemoveElement
  <2>3. notifying' = notifying + 1 /\ UNCHANGED releasing
    OBVIOUS
  <2>4. InUse' \in 0..MaxParallel
    BY <2>2, <2>3, FiniteTexts DEF TypeOK, InUse
  <2>5. known' \subseteq Portals /\ busy' \subseteq Portals /\ failing' \subseteq Portals
        /\ resting' \subseteq Portals
        /\ flight' \in [Texts -> {"none", "deliver", "delete", "forget", "fail"}]
    BY DEF TypeOK
  <2> QED
    BY <2>3, <2>4, <2>5 DEF TypeOK
<1>2. TimesInv'
  BY DEF TypeOK, TimesInv, Received, InFlight
<1>3. StoredInv'
  BY DEF TypeOK, StoredInv, Kept, Oldest, TimesInv, Received
<1>4. OrderInv'
  BY DEF TypeOK, OrderInv, InFlight, Received
<1>5. FlightInv'
  BY DEF TypeOK, FlightInv, OneInFlightPerPortal, InFlight
<1> QED
  BY <1>1, <1>2, <1>3, <1>4, <1>5

(* A delivery fails; it was its portal's only one.                         *)
LEMMA BackOffKeeps ==
  ASSUME IInv, NEW t \in Texts, BackOff(t)
  PROVE  IInv'
<1> USE InboundAssumption DEF IInv, BackOff, FlightAt,
      sip, drainer, pass, state, slots
<1>1. TypeOK'
  <2>1. InFlight' = InFlight \ {t} /\ t \in InFlight
    BY DEF TypeOK, InFlight
  <2>2. Cardinality(InFlight') = Cardinality(InFlight) - 1
    BY <2>1, FiniteTexts, FS_RemoveElement
  <2>3. notifying' = notifying + 1 /\ UNCHANGED releasing
    OBVIOUS
  <2>4. InUse' \in 0..MaxParallel
    BY <2>2, <2>3, FiniteTexts DEF TypeOK, InUse
  <2>5. known' \subseteq Portals /\ busy' \subseteq Portals /\ failing' \subseteq Portals
        /\ resting' \subseteq Portals
        /\ flight' \in [Texts -> {"none", "deliver", "delete", "forget", "fail"}]
    BY DEF TypeOK
  <2> QED
    BY <2>3, <2>4, <2>5 DEF TypeOK
<1>2. TimesInv'
  BY DEF TypeOK, TimesInv, Received, InFlight
<1>3. StoredInv'
  BY DEF TypeOK, StoredInv, Kept, Oldest, TimesInv, Received
<1>4. OrderInv'
  BY DEF TypeOK, OrderInv, InFlight, Received
<1>5. FlightInv'
  BY DEF TypeOK, FlightInv, OneInFlightPerPortal, InFlight
<1> QED
  BY <1>1, <1>2, <1>3, <1>4, <1>5

(* The count of the slots in use does not change.                          *)
LEMMA DeferredNotifyKeeps ==
  ASSUME IInv, DeferredNotify
  PROVE  IInv'
<1> USE InboundAssumption DEF IInv, DeferredNotify,
      sip, drainer, pass, state, slots
<1>1. TypeOK'
  <2>1. InFlight' = InFlight
    BY DEF TypeOK, InFlight
  <2>2. InUse' \in 0..MaxParallel
    BY <2>1, FiniteTexts DEF TypeOK, InUse
  <2> QED
    BY <2>2 DEF TypeOK
<1>2. TimesInv'
  BY DEF TypeOK, TimesInv, Received, InFlight
<1>3. StoredInv'
  BY DEF TypeOK, StoredInv, Kept, Oldest, TimesInv, Received
<1>4. OrderInv'
  BY DEF TypeOK, OrderInv, InFlight, Received
<1>5. FlightInv'
  BY DEF TypeOK, FlightInv, OneInFlightPerPortal, InFlight
<1> QED
  BY <1>1, <1>2, <1>3, <1>4, <1>5

(* A slot is given back.                                                   *)
LEMMA DeferredReleaseKeeps ==
  ASSUME IInv, DeferredRelease
  PROVE  IInv'
<1> USE InboundAssumption DEF IInv, DeferredRelease,
      sip, drainer, pass, state, slots
<1>1. TypeOK'
  <2>1. InFlight' = InFlight
    BY DEF TypeOK, InFlight
  <2>2. InUse' \in 0..MaxParallel
    BY <2>1, FiniteTexts DEF TypeOK, InUse
  <2> QED
    BY <2>2 DEF TypeOK
<1>2. TimesInv'
  BY DEF TypeOK, TimesInv, Received, InFlight
<1>3. StoredInv'
  BY DEF TypeOK, StoredInv, Kept, Oldest, TimesInv, Received
<1>4. OrderInv'
  BY DEF TypeOK, OrderInv, InFlight, Received
<1>5. FlightInv'
  BY DEF TypeOK, FlightInv, OneInFlightPerPortal, InFlight
<1> QED
  BY <1>1, <1>2, <1>3, <1>4, <1>5

(* A portal has rested.                                                    *)
LEMMA BackoffEndsKeeps ==
  ASSUME IInv, NEW p \in Portals, BackoffEnds(p)
  PROVE  IInv'
<1> USE InboundAssumption DEF IInv, BackoffEnds,
      sip, drainer, pass, state, slots
<1>1. TypeOK'
  <2>1. InUse' \in 0..MaxParallel
    BY DEF TypeOK, InUse, InFlight
  <2> QED
    BY <2>1 DEF TypeOK
<1>2. TimesInv'
  BY DEF TypeOK, TimesInv, Received, InFlight
<1>3. StoredInv'
  BY DEF TypeOK, StoredInv, Kept, Oldest, TimesInv, Received
<1>4. OrderInv'
  BY DEF TypeOK, OrderInv, InFlight, Received
<1>5. FlightInv'
  BY DEF TypeOK, FlightInv, OneInFlightPerPortal, InFlight
<1> QED
  BY <1>1, <1>2, <1>3, <1>4, <1>5

(* Only files not yet answered for are lost.                               *)
LEMMA CrashKeeps ==
  ASSUME IInv, Crash
  PROVE  IInv'
<1> USE InboundAssumption DEF IInv, Crash,
      sip, drainer, pass, state, slots
<1>1. TypeOK'
  <2>1. InFlight' = {} /\ notifying' = 0 /\ releasing' = 0
    BY DEF InFlight
  <2>2. InUse' \in 0..MaxParallel
    BY <2>1, FS_EmptySet DEF InUse
  <2>3. spool' \subseteq Texts /\ crashes' \in Nat
    BY DEF TypeOK
  <2>4. handler' \in [Texts -> {"none", "insert", "spool", "sync", "notify", "done"}]
    BY DEF TypeOK
  <2>5. flight' \in [Texts -> {"none", "deliver", "delete", "forget", "fail"}]
    OBVIOUS
  <2>6. UNCHANGED <<answer, at, prior, ordered, table, bad, landed>>
    OBVIOUS
  <2>7. /\ drain' = "idle" /\ files' = {} /\ loop' = "list" /\ heads' = {} /\ skipped' = FALSE
        /\ wake' = FALSE /\ known' = {} /\ busy' = {} /\ failing' = {} /\ resting' = {}
    OBVIOUS
  <2> HIDE DEF Crash
  <2> QED
    BY <2>1, <2>2, <2>3, <2>4, <2>5, <2>6, <2>7 DEF TypeOK
<1>2. TimesInv'
  BY DEF TypeOK, TimesInv, Received, InFlight
<1>3. StoredInv'
  BY DEF TypeOK, StoredInv, Kept, Oldest, TimesInv, Received
<1>4. OrderInv'
  BY DEF TypeOK, OrderInv, InFlight, Received
<1>5. FlightInv'
  BY DEF TypeOK, FlightInv, OneInFlightPerPortal, InFlight
<1> QED
  BY <1>1, <1>2, <1>3, <1>4, <1>5

(* A pass starts the earliest ready heads, as many as there are slots.     *)
LEMMA SpawnKeeps ==
  ASSUME IInv, Spawn
  PROVE  IInv'
<1> USE InboundAssumption DEF IInv,
      sip, drainer, pass, state, slots
<1> DEFINE started == Earliest(Ready, FreeSlots)
<1>1. /\ Start(started, known \cap busy)
      /\ UNCHANGED <<handler, answer, at, prior, ordered, table, spool, bad, landed, drain, files,
                     notifying, releasing, wake, crashes>>
  BY DEF Spawn, Start
<1>2. FreeSlots \in Nat
  BY FiniteTexts DEF TypeOK, InUse, FreeSlots
<1>3. Ready \subseteq heads /\ heads \subseteq Texts /\ heads \subseteq Received
  BY DEF Ready, TypeOK, TimesInv
<1>4. /\ started \subseteq Ready
      /\ IsFiniteSet(started) /\ Cardinality(started) \in Nat /\ Cardinality(started) <= FreeSlots
  <2>1. \A t, o \in Ready : at[t] = at[o] => t = o
    BY <1>3 DEF TimesInv
  <2>2. IsFiniteSet(started) /\ Cardinality(started) <= FreeSlots
    BY <1>2, <1>3, <2>1, EarliestBounded
  <2>3. started \subseteq Ready
    BY DEF Earliest
  <2> QED
    BY <2>2, <2>3, FS_CardinalityType
<1>5. \A t \in started, r \in Ready \ started : at[t] <= at[r]
  BY <1>2, <1>3, EarliestFirst
<1>6. \A t \in Ready : PortalOf[t] \notin busy \cup resting /\ t \in heads
  BY DEF Ready
<1> HIDE DEF started
<1>7. InFlight' = InFlight \cup started
  <2>1. \A t \in Texts : flight'[t] # "none" <=> flight[t] # "none" \/ t \in started
    BY <1>1 DEF Start
  <2> QED
    BY <1>3, <1>4, <2>1 DEF InFlight
<1>8. /\ busy' = busy \cup {PortalOf[t] : t \in started}
      /\ {PortalOf[t] : t \in started} \cup (known \cap busy) \subseteq known'
  <2>1. started \subseteq {t \in heads : \A r \in Ready \ started : at[t] <= at[r]}
    BY <1>4, <1>5, <1>6
  <2> QED
    BY <1>1, <2>1 DEF Start
<1>9. TypeOK'
  <2>1. Cardinality(InFlight') \in Nat
        /\ Cardinality(InFlight') <= Cardinality(InFlight) + Cardinality(started)
    <3>1. /\ IsFiniteSet(InFlight \cap started)
          /\ Cardinality(InFlight \cap started) \in Nat
      BY FiniteTexts, FS_Intersection, FS_CardinalityType
    <3>2. IsFiniteSet(InFlight') /\ Cardinality(InFlight') =
            Cardinality(InFlight) + Cardinality(started) - Cardinality(InFlight \cap started)
      BY <1>4, <1>7, FiniteTexts, FS_Union
    <3> QED
      BY <1>4, <3>1, <3>2, FiniteTexts, FS_CardinalityType
  <2>2. InUse' \in 0..MaxParallel
    BY <1>1, <1>4, <2>1, FiniteTexts DEF InUse, FreeSlots, TypeOK
  <2>3. /\ known' \subseteq Portals /\ busy' \subseteq Portals /\ failing' \subseteq Portals
        /\ resting' \subseteq Portals
    BY <1>1, <1>3, <1>4 DEF Start, TypeOK
  <2>4. flight' \in [Texts -> {"none", "deliver", "delete", "forget", "fail"}]
    BY <1>1 DEF Start, TypeOK
  <2>5. loop' = "sleep" /\ heads' = {} /\ skipped' \in BOOLEAN
    BY <1>1 DEF Start
  <2> QED
    BY <1>1, <2>2, <2>3, <2>4, <2>5 DEF TypeOK
<1>10. heads' = {} /\ Received' = Received
  BY <1>1 DEF Start, Received
<1>11. TimesInv'
  BY <1>1, <1>3, <1>4, <1>7, <1>10 DEF TimesInv
<1>12. StoredInv'
  <2>1. \A t \in Texts : flight'[t] \in {"delete", "forget"} => flight'[t] = flight[t]
    BY <1>1 DEF Start
  <2>2. Kept' = Kept /\ Oldest(files)' = Oldest(files)
    BY <1>1 DEF Kept, Oldest
  <2> QED
    BY <1>1, <2>1, <2>2 DEF StoredInv
<1>13. OrderInv'
  BY <1>1, <1>4, <1>6, <1>7, <1>10 DEF OrderInv
<1>14. FlightInv'
  <2>1. busy = {PortalOf[t] : t \in InFlight}
    BY DEF FlightInv, OneInFlightPerPortal
  <2>2. busy' = {PortalOf[t] : t \in InFlight'}
    BY <1>7, <1>8, <2>1
  <2>3. ASSUME NEW t \in InFlight', NEW o \in InFlight', PortalOf[t] = PortalOf[o] PROVE t = o
    BY <1>4, <1>6, <1>7, <2>1, <2>3 DEF FlightInv, OneInFlightPerPortal
  <2>4. busy' \subseteq known'
    BY <1>8 DEF FlightInv
  <2> QED
    BY <1>10, <2>2, <2>3, <2>4 DEF FlightInv, OneInFlightPerPortal
<1> QED
  BY <1>9, <1>11, <1>12, <1>13, <1>14

------------------------------------------------------------------------------
(* All of it together. *)
(* Nothing has been received when the bridge first starts.                 *)
LEMMA Initially == Init => IInv
<1> SUFFICES ASSUME Init PROVE IInv
  OBVIOUS
<1>1. Received = {} /\ InFlight = {}
  BY DEF Init, Received, InFlight
<1>2. Cardinality(Received) = 0 /\ Cardinality(InFlight) = 0
  BY <1>1, FS_EmptySet
<1>3. InUse \in 0..MaxParallel
  BY <1>2, InboundAssumption DEF InUse, Init
<1>4. TypeOK
  BY <1>3 DEF Init, TypeOK
<1>5. TimesInv
  BY <1>1, <1>2 DEF Init, TimesInv
<1>6. StoredInv /\ OrderInv /\ FlightInv
  BY <1>1 DEF Init, StoredInv, OrderInv, FlightInv, OneInFlightPerPortal
<1> QED
  BY <1>4, <1>5, <1>6 DEF IInv

(* What the abstract path sees of a step: a receipt, an answer, a landing,  *)
(* or nothing.                                                             *)
Shown == Promise!Next \/ UNCHANGED <<answer, ordered, prior, Received, landed>>

(* Every step keeps the invariants and is one of those.                    *)
LEMMA StepKeeps ==
  ASSUME IInv, [Next]_vars
  PROVE  IInv' /\ Shown
<1>1. CASE UNCHANGED vars
  <2>1. IInv'
    BY <1>1 DEF vars, sip, drainer, pass, state, slots, IInv, TypeOK, InUse, TimesInv, StoredInv,
       OrderInv, FlightInv, OneInFlightPerPortal, InFlight, Received, Kept, Oldest
  <2> QED
    BY <1>1, <2>1 DEF vars, sip, Shown, Received
<1>2. ASSUME NEW t \in Texts, Receive(t) PROVE IInv' /\ Shown
  <2>1. t \notin Received /\ Received' = Received \cup {t}
    <3>1. at[t] = 0 /\ at' = [at EXCEPT ![t] = Cardinality(Received) + 1]
      BY <1>2 DEF Receive, IInv, TimesInv, Received
    <3>2. at'[t] # 0 /\ \A o \in Texts : o # t => at'[o] = at[o]
      BY <3>1, FiniteTexts DEF IInv, TypeOK
    <3> QED
      BY <3>1, <3>2 DEF Received
  <2> QED
    BY <1>2, <2>1, ReceiveKeeps DEF Receive, Shown, Promise!Next, Promise!Receive
<1>3. ASSUME NEW t \in Texts, Handler(t) PROVE IInv' /\ Shown
  <2>1. IInv'
    BY <1>3, PersistRowKeeps, NotifyKeeps, SpoolWriteKeeps, SpoolSyncKeeps DEF Handler
  <2>2. Received' = Received /\ UNCHANGED <<prior, landed>>
    BY <1>3 DEF Handler, PersistRow, Notify, SpoolWrite, SpoolSync, Received
  <2>3. t \in Received /\ answer[t] = "none"
    BY <1>3 DEF Handler, PersistRow, Notify, SpoolWrite, SpoolSync, IInv, TimesInv, StoredInv
  <2>4. \/ UNCHANGED <<answer, ordered>>
        \/ answer' = [answer EXCEPT ![t] = "200"] /\ ordered' \in {ordered, ordered \cup {t}}
        \/ answer' = [answer EXCEPT ![t] = "500"] /\ UNCHANGED ordered
    BY <1>3 DEF Handler, PersistRow, Notify, SpoolWrite, SpoolSync, Answer
  <2> QED
    BY <2>1, <2>2, <2>3, <2>4 DEF Shown, Promise!Next, Promise!Respond
<1>4. ASSUME NEW t \in Texts, Delivery(t) PROVE IInv' /\ Shown
  <2>1. IInv'
    BY <1>4, DeliverLandsKeeps, DeliverFailsKeeps, DeleteRowKeeps, ForgetStateKeeps, BackOffKeeps
       DEF Delivery
  <2>2. Received' = Received /\ UNCHANGED <<answer, ordered, prior>>
    BY <1>4 DEF Delivery, DeliverLands, DeliverFails, DeleteRow, ForgetState, BackOff, Received, sip
  <2>3. \/ UNCHANGED landed
        \/ landed' = landed \cup {t} /\ t \in InFlight
    BY <1>4 DEF Delivery, DeliverLands, DeliverFails, DeleteRow, ForgetState, BackOff, InFlight
  <2>4. t \in InFlight => t \in Received /\ prior[t] \subseteq landed
    BY DEF IInv, TimesInv, OrderInv
  <2> QED
    BY <2>1, <2>2, <2>3, <2>4 DEF Shown, Promise!Next, Promise!Land
<1>5. CASE Drainer
  BY <1>5, DrainListKeeps, DrainInsertKeeps, DrainRemoveKeeps
     DEF Drainer, DrainList, DrainInsert, DrainRemove, Shown, sip, Received
<1>6. CASE Loop
  BY <1>6, ListHeadsKeeps, SpawnKeeps, WakeKeeps, PollKeeps
     DEF Loop, ListHeads, Spawn, Start, Wake, Poll, Shown, sip, Received
<1>7. CASE Deferred
  BY <1>7, DeferredNotifyKeeps, DeferredReleaseKeeps
     DEF Deferred, DeferredNotify, DeferredRelease, Shown, sip, Received
<1>8. ASSUME NEW p \in Portals, BackoffEnds(p) PROVE IInv' /\ Shown
  BY <1>8, BackoffEndsKeeps DEF BackoffEnds, Shown, sip, Received
<1>9. CASE Crash
  BY <1>9, CrashKeeps DEF Crash, Shown, Received
<1> QED
  BY <1>1, <1>2, <1>3, <1>4, <1>5, <1>6, <1>7, <1>8, <1>9 DEF Next

(* The invariants hold of every behaviour of pkg/inbound.                  *)
THEOREM Invariance == Spec => []IInv
<1>1. IInv /\ [Next]_vars => IInv'
  BY StepKeeps
<1> QED
  BY Initially, <1>1, PTL DEF Spec

(* The types hold, and the semaphore of DeliverPass admits at most         *)
(* maxParallel deliveries, counted until each has made its deferred calls.  *)
THEOREM TypeCorrect == Spec => []TypeOK
<1>1. IInv => TypeOK
  BY DEF IInv
<1> QED
  BY Invariance, <1>1, PTL

(* A text answered 200 is stored or in Matrix, however often the process   *)
(* dies and whatever fails (Persist, Drain, deliverOne).                    *)
THEOREM AcceptedStaysStored == Spec => []AcceptedIsStored
<1>1. IInv => AcceptedIsStored
  BY DEF IInv, StoredInv, Kept, AcceptedIsStored
<1> QED
  BY Invariance, <1>1, PTL

(* A portal has one delivery under way at most, over any number of passes,  *)
(* slots and crashes: the loop passes over a portal that is being delivered *)
(* to, and a crash leaves no delivery behind (DeliverPass, deliverOne).     *)
THEOREM OneFlight == Spec => []OneInFlightPerPortal
<1>1. IInv => OneInFlightPerPortal
  BY DEF IInv, FlightInv, OneInFlightPerPortal
<1> QED
  BY Invariance, <1>1, PTL

(* The retry state of a portal is there when a delivery reads it back: no   *)
(* pass drops the state of a portal that is being delivered to              *)
(* (DeliverPass, deliverOne).                                               *)
THEOREM DeliveryFindsState == Spec => []DeliveryHasState
<1>1. IInv => DeliveryHasState
  BY DEF IInv, FlightInv, OneInFlightPerPortal, DeliveryHasState
<1> QED
  BY Invariance, <1>1, PTL

(* Texts of a portal land in the order in which they were answered from    *)
(* the table (headInboundQuery, DeliverPass).                              *)
THEOREM LandInOrder == Spec => []SentInOrder
<1>1. IInv => SentInOrder
  BY DEF IInv, OrderInv, SentInOrder
<1> QED
  BY Invariance, <1>1, PTL

(* The inbound path implements what ADR-0018 promises a sender.            *)
THEOREM KeepsPromise == Spec => ImplementsPromise
<1>1. Init => Promise!Init
  BY DEF Init, Promise!Init, Received
<1>2. IInv /\ [Next]_vars => [Promise!Next]_<<answer, ordered, prior, Received, landed>>
  BY StepKeeps DEF Shown
<1> QED
  BY Invariance, <1>1, <1>2, PTL DEF Spec, ImplementsPromise, Promise!Spec, Promise!vars

------------------------------------------------------------------------------
(* When a finishing delivery fails to wake the loop. *)

(* Among texts there is one that no other precedes.                        *)
LEMMA OldestOf ==
  ASSUME TypeOK, NEW S, S \subseteq Texts, S # {}
  PROVE  \E t \in S : \A o \in S : at[t] <= at[o]
<1> DEFINE stamps == {at[t] : t \in S}
<1>1. stamps \subseteq Nat /\ stamps # {}
  BY DEF TypeOK
<1>2. PICK n \in stamps : \A m \in stamps : <<m, n>> \notin OpToRel(<, Nat)
  <2> HIDE DEF stamps
  <2> QED
    BY <1>1, NatLessThanWellFounded, WFMin, Zenon
<1>3. \A m \in stamps : ~ (m < n)
  BY <1>1, <1>2 DEF OpToRel
<1>4. PICK t \in S : n = at[t]
  OBVIOUS
<1>5. \A o \in S : at[o] \in Nat /\ ~ (at[o] < at[t])
  BY <1>3, <1>4 DEF TypeOK
<1> QED
  BY <1>4, <1>5

(* The earliest n of S are n at least, unless they are all of it.          *)
LEMMA EarliestFills ==
  ASSUME TypeOK, NEW S, S \subseteq Texts, NEW n \in Nat, Earliest(S, n) # S
  PROVE  Cardinality(Earliest(S, n)) >= n
<1> DEFINE E == Earliest(S, n)
<1>1. E \subseteq S /\ S \ E \subseteq Texts /\ S \ E # {}
  BY DEF Earliest
<1>2. PICK r \in S \ E : \A o \in S \ E : at[r] <= at[o]
  <2> HIDE DEF E
  <2> QED
    BY <1>1, OldestOf
<1> DEFINE before == {o \in S : at[o] < at[r]}
<1>3. before \subseteq E
  <2> SUFFICES ASSUME NEW o \in S, at[o] < at[r], o \notin E PROVE FALSE
    OBVIOUS
  <2>1. at[o] \in Nat /\ at[r] \in Nat /\ at[r] <= at[o]
    BY <1>2 DEF TypeOK
  <2> QED
    BY <2>1
<1>4. Cardinality(before) \in Nat /\ ~ (Cardinality(before) < n)
  <2>1. r \in S /\ r \notin E
    OBVIOUS
  <2> QED
    BY <2>1, Ranked DEF Earliest
<1>5. IsFiniteSet(E)
  BY <1>1, InboundAssumption, FS_Subset
<1> HIDE DEF E, before
<1>6. Cardinality(before) <= Cardinality(E) /\ Cardinality(E) \in Nat
  BY <1>3, <1>5, FS_Subset, FS_CardinalityType
<1> QED
  BY <1>4, <1>6 DEF E

(* No pass stops short while every slot is held by a delivery that has     *)
(* already woken the loop and has only to give the slot back.              *)
SkipsAwaitANotify == [][Spawn /\ skipped' => releasing < MaxParallel]_vars

(* A pass is known to have stopped short only while the loop sleeps, and    *)
(* then a wake-up has come or is to come.                                   *)
SkipInv ==
  skipped => loop = "sleep" /\ (wake \/ InFlight # {} \/ notifying > 0)

(* A pass that stops short fills the slots.                                *)
LEMMA SpawnSkips ==
  ASSUME IInv, Spawn, skipped', releasing < MaxParallel
  PROVE  InFlight' # {} \/ notifying' > 0
<1> DEFINE started == Earliest(Ready, FreeSlots)
<1>1. Start(started, known \cap busy) /\ UNCHANGED <<notifying, releasing>>
  BY DEF Spawn, Start, slots
<1>2. started # Ready /\ Ready \subseteq Texts
  BY <1>1 DEF Start, Ready, IInv, TypeOK
<1>3. FreeSlots \in Nat
  BY FiniteTexts, InboundAssumption DEF IInv, TypeOK, InUse, FreeSlots
<1>4. Cardinality(started) >= FreeSlots
  BY <1>2, <1>3, EarliestFills DEF IInv
<1>5. \A t \in Texts : t \in started \/ t \in InFlight => t \in InFlight'
  BY <1>1 DEF Start, InFlight
<1>6. started \subseteq Texts
  BY <1>2 DEF Earliest
<1> HIDE DEF started
<1>7. ASSUME started = {}, InFlight = {} PROVE notifying' > 0
  <2>1. Cardinality(started) = 0 /\ Cardinality(InFlight) = 0
    BY <1>7, FS_EmptySet
  <2>2. FreeSlots = 0 /\ InUse = MaxParallel
    BY <1>3, <1>4, <2>1, FiniteTexts, InboundAssumption DEF FreeSlots, InUse, IInv, TypeOK
  <2> QED
    BY <1>1, <2>1, <2>2, InboundAssumption DEF InUse, IInv, TypeOK
<1>8. InFlight \subseteq Texts
  BY DEF InFlight
<1> QED
  BY <1>5, <1>6, <1>7, <1>8

(* A delivery that ends has its notify before it, and a notify leaves the   *)
(* token that only the loop takes.                                          *)
LEMMA SkipKeeps ==
  ASSUME IInv, SkipInv, [Next]_vars, Spawn /\ skipped' => releasing < MaxParallel
  PROVE  SkipInv'
<1> USE DEF SkipInv, pass, slots
<1>1. CASE UNCHANGED vars
  BY <1>1 DEF vars, InFlight
<1>2. ASSUME NEW t \in Texts, Receive(t) \/ Handler(t) PROVE SkipInv'
  BY <1>2 DEF Receive, Handler, PersistRow, Notify, SpoolWrite, SpoolSync, InFlight
<1>3. ASSUME NEW t \in Texts, Delivery(t) PROVE SkipInv'
  <2>1. CASE DeliverLands(t) \/ DeliverFails(t) \/ DeleteRow(t)
    <3>1. flight'[t] # "none" /\ UNCHANGED pass
      BY <2>1 DEF DeliverLands, DeliverFails, DeleteRow, FlightAt, IInv, TypeOK
    <3>2. t \in InFlight'
      BY <3>1 DEF InFlight
    <3> QED
      BY <3>1, <3>2
  <2>2. CASE ForgetState(t) \/ BackOff(t)
    <3>1. notifying' = notifying + 1 /\ UNCHANGED <<loop, skipped>>
      BY <2>2 DEF ForgetState, BackOff
    <3>2. notifying \in Nat
      BY DEF IInv, TypeOK
    <3>3. notifying' > 0
      BY <3>1, <3>2
    <3> QED
      BY <3>1, <3>3
  <2> QED
    BY <1>3, <2>1, <2>2 DEF Delivery
<1>4. CASE Drainer
  BY <1>4 DEF Drainer, DrainList, DrainInsert, DrainRemove, InFlight
<1>5. CASE Spawn
  <2>1. loop' = "sleep"
    BY <1>5 DEF Spawn, Start
  <2>2. skipped' => InFlight' # {} \/ notifying' > 0
    <3> HIDE DEF pass, slots, SkipInv
    <3> QED
      BY <1>5, SpawnSkips
  <2> QED
    BY <2>1, <2>2
<1>6. CASE ListHeads \/ Wake \/ Poll
  <2>1. ~ skipped'
    BY <1>6 DEF ListHeads, Wake, Poll
  <2> QED
    BY <2>1
<1>7. CASE Deferred
  BY <1>7 DEF Deferred, DeferredNotify, DeferredRelease, InFlight
<1>8. ASSUME NEW p \in Portals, BackoffEnds(p) PROVE SkipInv'
  BY <1>8 DEF BackoffEnds, InFlight
<1>9. CASE Crash
  BY <1>9 DEF Crash
<1> QED
  BY <1>1, <1>2, <1>3, <1>4, <1>5, <1>6, <1>7, <1>8, <1>9 DEF Next, Loop

(* "A finishing delivery wakes the loop", unless every delivery the pass    *)
(* had to wait for was between its notify and the release of its slot, which *)
(* deliverOne defers in that order (DeliverPass, deliverOne).               *)
THEOREM LostWakeNeedsLateRelease == Spec /\ SkipsAwaitANotify => []SkippedIsWoken
<1>1. Init => SkipInv
  BY DEF Init, SkipInv
<1>2. IInv /\ SkipInv /\ [Next]_vars
        /\ [Spawn /\ skipped' => releasing < MaxParallel]_vars => SkipInv'
  <2> SUFFICES ASSUME IInv, SkipInv, [Next]_vars,
                      [Spawn /\ skipped' => releasing < MaxParallel]_vars
               PROVE  SkipInv'
    OBVIOUS
  <2>1. CASE UNCHANGED vars
    BY <2>1 DEF SkipInv, vars, pass, slots, InFlight
  <2>2. CASE Spawn /\ skipped' => releasing < MaxParallel
    BY <2>2, SkipKeeps
  <2> QED
    BY <2>1, <2>2
<1>3. SkipInv => SkippedIsWoken
  BY DEF SkipInv, SkippedIsWoken
<1> QED
  BY Invariance, <1>1, <1>2, <1>3, PTL DEF Spec, SkipsAwaitANotify

------------------------------------------------------------------------------
(* When a text that was refused lands. *)

(* What is reported as failed stored nothing: no INSERT whose error         *)
(* Persist was given has been committed, and no directory that could not be *)
(* synced shows the file that was renamed into it.                          *)
FailuresStoreNothing ==
  [][\A t \in Texts :
       /\ PersistRow(t) /\ handler'[t] # "notify" => table' = table
       /\ SpoolSync(t) => answer'[t] # "500"]_vars

(* A text that nobody has stored so far, or that was refused, is nowhere.  *)
Refused(t) == handler[t] \in {"none", "insert", "spool"} \/ answer[t] = "500"

Absent == Texts \ (table \cup spool \cup files \cup heads \cup InFlight \cup landed)

NowhereInv == \A t \in Texts : Refused(t) => t \in Absent

(* The handler of a text stores it only on the way to a 200.              *)
LEMMA HandlerKeepsNowhere ==
  ASSUME IInv, NowhereInv, NEW t \in Texts, Handler(t),
         PersistRow(t) /\ handler'[t] # "notify" => table' = table,
         SpoolSync(t) => answer'[t] # "500"
  PROVE  NowhereInv'
<1> USE DEF Refused, drainer, pass, state, slots
<1>1. /\ \A o \in Texts \ {t} : handler'[o] = handler[o] /\ answer'[o] = answer[o]
      /\ UNCHANGED <<files, heads, flight, landed>>
  BY DEF Handler, PersistRow, Notify, SpoolWrite, SpoolSync, HandlerAt, Answer, IInv, TypeOK
<1>2. \A o \in Texts \ {t} : o \in Absent <=> o \in Absent'
  BY <1>1 DEF Absent, InFlight, Handler, PersistRow, Notify, SpoolWrite, SpoolSync, InsertRow,
     InsertFails
<1>3. Refused(t)' => t \in Absent'
  <2>1. CASE PersistRow(t)
    <3>1. t \in Absent
      BY <2>1 DEF PersistRow, NowhereInv
    <3>2. Refused(t)' => UNCHANGED <<table, spool>>
      <4>1. handler[t] = "insert" /\ answer[t] = "none"
        BY <2>1 DEF PersistRow, IInv, StoredInv
      <4>2. handler'[t] = "notify" => answer' = answer
        BY <2>1 DEF PersistRow, HandlerAt, IInv, TypeOK
      <4> QED
        BY <2>1, <4>1, <4>2 DEF PersistRow
    <3> QED
      BY <1>1, <3>1, <3>2 DEF Absent, InFlight
  <2>2. CASE Notify(t) \/ SpoolSync(t)
    <3>1. handler'[t] = "done" /\ answer'[t] # "500"
      BY <2>2 DEF Notify, SpoolSync, HandlerAt, Answer, IInv, TypeOK
    <3> QED
      BY <3>1
  <2>3. CASE SpoolWrite(t)
    <3>1. t \in Absent /\ answer[t] = "none"
      BY <2>3 DEF SpoolWrite, NowhereInv, IInv, StoredInv
    <3>2. Refused(t)' => UNCHANGED <<table, spool>>
      BY <2>3, <3>1 DEF SpoolWrite, HandlerAt, IInv, TypeOK
    <3> QED
      BY <1>1, <3>1, <3>2 DEF Absent, InFlight
  <2> QED
    BY <2>1, <2>2, <2>3 DEF Handler
<1> QED
  BY <1>1, <1>2, <1>3 DEF NowhereInv

(* The other steps read what they take up from where it is.                *)
LEMMA OthersKeepNowhere ==
  ASSUME IInv, NowhereInv, [Next]_vars, \A t \in Texts : ~ Handler(t)
  PROVE  NowhereInv'
<1> USE DEF Refused, sip, drainer, pass, state, slots
<1> DEFINE Still == \A o \in Texts : Refused(o)' => Refused(o)
           Stay  == \A o \in Absent : o \in Absent'
<1>1. SUFFICES Still /\ Stay
  BY DEF NowhereInv
<1>2. CASE UNCHANGED vars
  BY <1>2 DEF vars, Absent, InFlight
<1>3. ASSUME NEW t \in Texts, Receive(t) PROVE Still /\ Stay
  BY <1>3 DEF Receive, HandlerAt, Absent, InFlight, IInv, TypeOK
<1>4. ASSUME NEW t \in Texts, Delivery(t) PROVE Still /\ Stay
  <2>1. t \in InFlight /\ \A o \in Texts \ {t} : flight'[o] = flight[o]
    BY <1>4 DEF Delivery, DeliverLands, DeliverFails, DeleteRow, ForgetState, BackOff, FlightAt,
       InFlight, IInv, TypeOK
  <2>2. /\ UNCHANGED <<handler, answer, spool, files, heads>>
        /\ table' \subseteq table /\ landed' \subseteq landed \cup {t}
    BY <1>4 DEF Delivery, DeliverLands, DeliverFails, DeleteRow, ForgetState, BackOff
  <2> QED
    BY <2>1, <2>2 DEF Absent, InFlight
<1>5. CASE Drainer
  <2>1. /\ UNCHANGED <<handler, answer, heads, flight, landed>>
        /\ spool' \subseteq spool /\ files' \subseteq files \cup spool
        /\ table' \subseteq table \cup files
    BY <1>5 DEF Drainer, DrainList, DrainInsert, DrainRemove, Oldest, InsertRow, InsertFails
  <2> QED
    BY <2>1 DEF Absent, InFlight
<1>6. CASE ListHeads
  <2>1. UNCHANGED <<handler, answer, table, spool, files, flight, landed>> /\ heads' \subseteq table
    BY <1>6 DEF ListHeads, Earliest, HeadRows
  <2> QED
    BY <2>1 DEF Absent, InFlight
<1>7. CASE Spawn
  <2>1. /\ UNCHANGED <<handler, answer, table, spool, files, landed>> /\ heads' = {}
        /\ \A o \in Texts : flight'[o] # "none" => flight[o] # "none" \/ o \in heads
    BY <1>7 DEF Spawn, Start, Earliest, Ready
  <2> QED
    BY <2>1 DEF Absent, InFlight
<1>8. CASE Wake \/ Poll \/ Deferred
  BY <1>8 DEF Wake, Poll, Deferred, DeferredNotify, DeferredRelease, Absent, InFlight
<1>9. ASSUME NEW p \in Portals, BackoffEnds(p) PROVE Still /\ Stay
  BY <1>9 DEF BackoffEnds, Absent, InFlight
<1>10. CASE Crash
  <2>1. \A o \in Texts : handler'[o] \in {"none", "insert", "spool"} => handler[o] = handler'[o]
    BY <1>10 DEF Crash
  <2>2. /\ UNCHANGED <<answer, table, landed>> /\ spool' \subseteq spool
        /\ files' = {} /\ heads' = {} /\ \A o \in Texts : flight'[o] = "none"
    BY <1>10 DEF Crash
  <2> QED
    BY <2>1, <2>2 DEF Absent, InFlight
<1> QED
  BY <1>2, <1>3, <1>4, <1>5, <1>6, <1>7, <1>8, <1>9, <1>10 DEF Next, Loop

(* "The far end knows the text did not land", and it does not land, unless  *)
(* a failure was one of the answer alone: of an INSERT that was committed,  *)
(* or of the sync that follows the rename (handleInboundMessage, Persist,   *)
(* Spool.Write).                                                            *)
THEOREM LandingNeedsFalseFailure == Spec /\ FailuresStoreNothing => []RefusedDoesNotLand
<1> DEFINE Honest == \A t \in Texts :
             /\ PersistRow(t) /\ handler'[t] # "notify" => table' = table
             /\ SpoolSync(t) => answer'[t] # "500"
<1>1. Init => NowhereInv
  BY DEF Init, NowhereInv, Absent, InFlight
<1>2. IInv /\ NowhereInv /\ [Next]_vars /\ [Honest]_vars => NowhereInv'
  <2> SUFFICES ASSUME IInv, NowhereInv, [Next]_vars, [Honest]_vars PROVE NowhereInv'
    OBVIOUS
  <2>1. CASE UNCHANGED vars
    BY <2>1 DEF vars, sip, drainer, pass, NowhereInv, Refused, Absent, InFlight
  <2>2. ASSUME Honest, NEW t \in Texts, Handler(t) PROVE NowhereInv'
    BY <2>2, HandlerKeepsNowhere
  <2>3. CASE \A t \in Texts : ~ Handler(t)
    BY <2>3, OthersKeepNowhere
  <2> QED
    BY <2>1, <2>2, <2>3
<1>3. IInv /\ NowhereInv => RefusedDoesNotLand
  BY DEF NowhereInv, Refused, Absent, RefusedDoesNotLand
<1> QED
  BY Invariance, <1>1, <1>2, <1>3, PTL DEF Spec, FailuresStoreNothing

------------------------------------------------------------------------------
(* When the failures of a portal are forgotten. *)

(* A pass comes by all the heads there are, and finds each of them in the   *)
(* table as it was when they were listed; and a row whose deletion is       *)
(* reported as failed is still there.                                       *)
PassesSeeAll ==
  [][/\ Spawn => ~ skipped'
     /\ ListHeads /\ loop' = "spawn" => heads' = HeadRows
     /\ Spawn => \A t \in Texts : flight[t] = "none" /\ flight'[t] = "deliver" => t \in table
     /\ \A t \in Texts : DeleteRow(t) /\ flight'[t] = "fail" => table' = table]_vars

(* A delivery that has not deleted its row.                                *)
Holding(t) == flight[t] \in {"deliver", "delete", "fail"}

Listed(p) == \E h \in heads : PortalOf[h] = p

(* It has its row, a failing portal has one too or a delivery that is about *)
(* to forget the failures, and the pass under way has both in its list or   *)
(* keeps them because they are busy.                                        *)
RowInv == \A t \in Texts : Holding(t) => t \in table

FailingInv ==
  \A p \in failing : \E t \in Texts : PortalOf[t] = p /\ (t \in table \/ flight[t] = "forget")

ListInv ==
  loop = "spawn" => /\ \A p \in failing : p \in busy \/ Listed(p)
                    /\ \A t \in Texts : Holding(t) => Listed(PortalOf[t])

SeenInv == RowInv /\ FailingInv /\ ListInv

(* What BackoffIsKept asks of a step.                                      *)
Remembers ==
  \A p \in failing \ failing' :
    crashes' # crashes \/ \E t \in Texts : flight[t] = "forget" /\ PortalOf[t] = p

(* Every portal with a row has a head.                                     *)
LEMMA PortalHasHead ==
  ASSUME IInv, NEW t \in table
  PROVE  \E h \in HeadRows : PortalOf[h] = PortalOf[t]
<1> DEFINE rows == {o \in table : PortalOf[o] = PortalOf[t]}
<1>1. rows \subseteq Texts /\ rows # {}
  BY DEF IInv, TypeOK
<1>2. PICK h \in rows : \A o \in rows : at[h] <= at[o]
  <2> HIDE DEF rows
  <2> QED
    BY <1>1, OldestOf DEF IInv
<1> QED
  BY <1>2 DEF HeadRows

LEMMA ListSees ==
  ASSUME IInv, SeenInv, ListHeads, loop' = "spawn" => heads' = HeadRows
  PROVE  SeenInv' /\ Remembers
<1>1. UNCHANGED <<table, flight, busy, failing>>
  BY DEF ListHeads, state
<1>2. RowInv' /\ FailingInv' /\ Remembers
  BY <1>1 DEF SeenInv, RowInv, FailingInv, Holding, Remembers
<1>3. ListInv'
  <2> SUFFICES ASSUME loop' = "spawn", heads' = HeadRows PROVE ListInv'
    BY DEF ListInv
  <2>1. \A t \in table : Listed(PortalOf[t])'
    BY PortalHasHead DEF Listed
  <2>2. \A t \in Texts : flight[t] = "forget" => PortalOf[t] \in busy
    BY DEF IInv, FlightInv, OneInFlightPerPortal, InFlight
  <2>3. \A p \in failing : p \in busy \/ Listed(p)'
    BY <2>1, <2>2 DEF SeenInv, FailingInv
  <2>4. \A t \in Texts : Holding(t) => Listed(PortalOf[t])'
    BY <2>1 DEF SeenInv, RowInv
  <2> QED
    BY <1>1, <2>3, <2>4 DEF ListInv, Holding
<1> QED
  BY <1>2, <1>3 DEF SeenInv

LEMMA SpawnSees ==
  ASSUME IInv, SeenInv, Spawn, ~ skipped',
         \A t \in Texts : flight[t] = "none" /\ flight'[t] = "deliver" => t \in table
  PROVE  SeenInv' /\ Remembers
<1> DEFINE started == Earliest(Ready, FreeSlots)
<1>1. Start(started, known \cap busy) /\ UNCHANGED table
  BY DEF Spawn, Start
<1>2. started = Ready /\ loop = "spawn"
  BY <1>1 DEF Start
<1>3. /\ \A h \in heads : PortalOf[h] \in known'
      /\ known \cap busy \subseteq known' /\ failing' = failing \cap known'
  <2>1. {t \in heads : \A r \in Ready \ started : at[t] <= at[r]} = heads
    BY <1>2
  <2> HIDE DEF started
  <2> QED
    BY <1>1, <2>1 DEF Start
<1>4. failing' = failing
  BY <1>2, <1>3 DEF SeenInv, ListInv, Listed, IInv, FlightInv
<1>5. \A t \in Texts : flight'[t] = flight[t] \/ (flight'[t] = "deliver" /\ t \in started)
  BY <1>1 DEF Start
<1>6. \A t \in started : flight[t] = "none"
  BY DEF Earliest, Ready, IInv, TypeOK, FlightInv, OneInFlightPerPortal, InFlight
<1> HIDE DEF started
<1>7. RowInv'
  BY <1>1, <1>5, <1>6 DEF SeenInv, RowInv, Holding
<1>8. FailingInv'
  <2>1. \A t \in Texts : flight[t] = "forget" => flight'[t] = "forget"
    BY <1>5, <1>6
  <2> QED
    BY <1>1, <1>4, <2>1 DEF SeenInv, FailingInv
<1>9. ListInv'
  BY <1>1 DEF Start, ListInv
<1> QED
  BY <1>4, <1>7, <1>8, <1>9 DEF SeenInv, Remembers

LEMMA DeliverySees ==
  ASSUME IInv, SeenInv, NEW t \in Texts, Delivery(t),
         DeleteRow(t) /\ flight'[t] = "fail" => table' = table
  PROVE  SeenInv' /\ Remembers
<1> USE DEF SeenInv, RowInv, FailingInv, ListInv, Listed, Holding, Remembers, state, pass
<1>1. \A o \in Texts \ {t} : flight'[o] = flight[o]
  BY DEF Delivery, DeliverLands, DeliverFails, DeleteRow, ForgetState, BackOff, FlightAt, IInv, TypeOK
<1>2. UNCHANGED <<loop, heads>>
  BY DEF Delivery, DeliverLands, DeliverFails, DeleteRow, ForgetState, BackOff
<1>3. CASE DeliverLands(t) \/ DeliverFails(t)
  <2>1. Holding(t) /\ Holding(t)' /\ flight[t] # "forget" /\ UNCHANGED <<table, failing, busy>>
    BY <1>3 DEF DeliverLands, DeliverFails, FlightAt, IInv, TypeOK
  <2> QED
    BY <1>1, <1>2, <2>1
<1>4. CASE DeleteRow(t)
  <2>1. flight[t] = "delete" /\ UNCHANGED <<failing, busy>> /\ PortalOf[t] \in Portals
    BY <1>4, InboundAssumption DEF DeleteRow
  <2>2. \/ flight'[t] = "forget" /\ table' = table \ {t}
        \/ flight'[t] = "fail" /\ table' = table
    BY <1>4 DEF DeleteRow, FlightAt, IInv, TypeOK
  <2> QED
    BY <1>1, <1>2, <2>1, <2>2
<1>5. CASE ForgetState(t)
  <2>1. /\ flight[t] = "forget" /\ flight'[t] = "none" /\ UNCHANGED table
        /\ failing' = failing \ {PortalOf[t]} /\ busy' = busy \ {PortalOf[t]}
    BY <1>5 DEF ForgetState, FlightAt, IInv, TypeOK
  <2> QED
    BY <1>1, <1>2, <2>1
<1>6. CASE BackOff(t)
  <2>1. /\ flight[t] = "fail" /\ flight'[t] = "none" /\ UNCHANGED table
        /\ failing' = failing \cup {PortalOf[t]} /\ busy' = busy \ {PortalOf[t]}
    BY <1>6 DEF BackOff, FlightAt, IInv, TypeOK
  <2> QED
    BY <1>1, <1>2, <2>1
<1> QED
  BY <1>3, <1>4, <1>5, <1>6 DEF Delivery

(* "A portal whose message fails backs off exponentially", unless a pass    *)
(* has stopped short of the portal or was not given all the heads, a head   *)
(* was started again after its row had gone, or a deletion was carried out  *)
(* and reported as failed (DeliverPass, deliverOne).                        *)
THEOREM ForgettingNeedsBlindPass == Spec /\ PassesSeeAll => BackoffIsKept
<1> DEFINE Sees ==
      /\ Spawn => ~ skipped'
      /\ ListHeads /\ loop' = "spawn" => heads' = HeadRows
      /\ Spawn => \A t \in Texts : flight[t] = "none" /\ flight'[t] = "deliver" => t \in table
      /\ \A t \in Texts : DeleteRow(t) /\ flight'[t] = "fail" => table' = table
<1>1. Init => SeenInv
  BY DEF Init, SeenInv, RowInv, FailingInv, ListInv, Holding
<1>2. IInv /\ SeenInv /\ [Next]_vars /\ [Sees]_vars => SeenInv' /\ [Remembers]_vars
  <2> SUFFICES ASSUME IInv, SeenInv, [Next]_vars, [Sees]_vars PROVE SeenInv' /\ [Remembers]_vars
    OBVIOUS
  <2> USE DEF sip, drainer, pass, state
  <2>1. CASE UNCHANGED vars
    BY <2>1 DEF vars, SeenInv, RowInv, FailingInv, ListInv, Listed, Holding
  <2>2. CASE /\ UNCHANGED <<flight, busy, failing>> /\ table \subseteq table'
             /\ loop' # "spawn" \/ UNCHANGED <<loop, heads>>
    BY <2>2 DEF SeenInv, RowInv, FailingInv, ListInv, Listed, Holding, Remembers
  <2>3. ASSUME NEW t \in Texts, Receive(t) \/ Handler(t) PROVE SeenInv' /\ [Remembers]_vars
    BY <2>2, <2>3 DEF Receive, Handler, PersistRow, Notify, SpoolWrite, SpoolSync, InsertRow,
       InsertFails
  <2>4. ASSUME Sees, NEW t \in Texts, Delivery(t) PROVE SeenInv' /\ [Remembers]_vars
    BY <2>4, DeliverySees
  <2>5. CASE Drainer
    BY <2>2, <2>5 DEF Drainer, DrainList, DrainInsert, DrainRemove, InsertRow, InsertFails
  <2>6. CASE Sees /\ ListHeads
    BY <2>6, ListSees
  <2>7. CASE Sees /\ Spawn
    BY <2>7, SpawnSees
  <2>8. CASE Wake \/ Poll
    BY <2>2, <2>8 DEF Wake, Poll
  <2>9. CASE Deferred
    BY <2>2, <2>9 DEF Deferred, DeferredNotify, DeferredRelease
  <2>10. ASSUME NEW p \in Portals, BackoffEnds(p) PROVE SeenInv' /\ [Remembers]_vars
    BY <2>2, <2>10 DEF BackoffEnds
  <2>11. CASE Crash
    <3>1. crashes' # crashes
      BY <2>11 DEF Crash, IInv, TypeOK
    <3>2. SeenInv'
      BY <2>11 DEF Crash, SeenInv, RowInv, FailingInv, ListInv, Holding
    <3> QED
      BY <3>1, <3>2 DEF Remembers
  <2> QED
    BY <2>1, <2>3, <2>4, <2>5, <2>6, <2>7, <2>8, <2>9, <2>10, <2>11 DEF Next, Loop
<1>3. [Remembers]_vars => [\A p \in failing \ failing' :
        crashes' # crashes \/ \E t \in Texts : flight[t] = "forget" /\ PortalOf[t] = p]_vars
  BY DEF Remembers
<1> QED
  BY Invariance, <1>1, <1>2, <1>3, PTL DEF Spec, PassesSeeAll, BackoffIsKept
==============================================================================
