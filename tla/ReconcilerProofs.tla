-------------------------- MODULE ReconcilerProofs --------------------------
(***************************************************************************)
(* Proof that module Controller implements module Reconciler, and what     *)
(* follows from that, for every finite set of deployments.                 *)
(***************************************************************************)
EXTENDS ControllerProofs

LEMMA CachedNext == TypeOK' => cached' \in [Keys -> Reconciles!Objects]
  BY DEF TypeOK, cached, Objects, Reconciles!Objects

\* A step that sees no new version and forgets nothing that is owed.
LEMMA Learns ==
  ASSUME TypeOK', UNCHANGED <<read, synced>>, Busy' = Busy, Owed \subseteq Owed',
         \A k \in Keys : cached'[k] # cached[k] /\ cached'[k].exists => k \in Owed'
  PROVE  Reconciles!Learn
<1>1. cached' \in [Keys -> Reconciles!Objects]
  BY CachedNext
<1>2. Owed' \in SUBSET Keys
  BY DEF Owed
<1> QED
  BY <1>1, <1>2 DEF Reconciles!Learn

\* Nor does a step that leaves the worker alone and keeps the evidence.
LEMMA Keeps ==
  ASSUME TypeOK', UNCHANGED <<cached, processing, wpc, read, synced>>,
         \A k \in Keys : Notified(k) => k \in Owed',
         dirty \cup delayed \subseteq dirty' \cup delayed'
  PROVE  Reconciles!Learn
<1>1. Busy' = Busy /\ Owed \subseteq Owed'
  BY DEF Busy, Owed
<1> QED
  BY <1>1, Learns

\* After a restart the informers notify of what there is, and of nothing else.
LEMMA ListedOnly ==
  ASSUME NEW new \in [Keys -> Objects],
         NEW notes \in Listing(Deployments({}), new),
         NEW k \in Keys, Tells(notes, k)
  PROVE  new[k].exists
<1> DEFINE none == Deployments({})
           there == {j \in Keys : none[j].exists \/ new[j].exists}
           note(j) == Event(j, Kind(none[j], new[j]))
<1>1. PICK order \in Bijection(1..Cardinality(there), there) :
        notes = [n \in DOMAIN order |-> note(order[n])]
  BY DEF Listing
<1>2. order \in [1..Cardinality(there) -> there]
  BY <1>1 DEF Bijection, Injection
<1>3. PICK n \in DOMAIN notes : notes[n].key = k
  BY DEF Tells
<1>4. order[n] \in there /\ notes[n] = note(order[n])
  BY <1>1, <1>2, <1>3
<1>5. order[n] = k
  BY <1>3, <1>4 DEF Event
<1>6. ~none[k].exists
  BY DEF Deployments
<1> QED
  BY <1>4, <1>5, <1>6

LEMMA InitReconciles == Init => Reconciles!Init
<1> SUFFICES ASSUME Init PROVE Reconciles!Init
  OBVIOUS
<1>1. cached \in [Keys -> Objects]
  BY InitTypeOK, VersionFacts
<1>2. \A k \in Keys : cached[k].exists <=> Notified(k)
  BY <1>1, InitNotified, ListedOnly DEF Init, Tells, Notified
<1>3. Owed = {k \in Keys : cached[k].exists} /\ Busy = {}
  BY <1>2 DEF Init, Owed, Busy
<1> QED
  BY <1>1, <1>3 DEF Init, Objects, Reconciles!Init, Reconciles!Objects

LEMMA BeginReconciles ==
  ASSUME TypeOK, QueuedOnce, NEW k \in processing, BeginSync(k)
  PROVE  Reconciles!Next
<1> USE DEF informer, handler
<1>1. k \in Keys /\ processing = {k} /\ wpc = "get" /\ wpc' # "get"
  BY DEF TypeOK, QueuedOnce, BeginSync
<1>2. UNCHANGED <<events, dirty, delayed, cached, synced>>
  BY CacheKept DEF BeginSync
<1>3. k \in Owed /\ Owed' \in {Owed, Owed \ {k}} /\ Busy = {}
  BY <1>1, <1>2 DEF Owed, Notified, Busy
<1>4. Reconciles!Settle(k)
  BY <1>2, <1>3 DEF Reconciles!Settle
<1>5. CASE cached[k].exists
  <2>1. Busy' = {k}
    BY <1>1, <1>5 DEF BeginSync, Busy
  <2> QED
    BY <1>1, <1>4, <1>5, <2>1 DEF BeginSync, Reconciles!Begin, Reconciles!Next
<1>6. CASE ~cached[k].exists
  <2>1. Busy' = {}
    BY <1>6 DEF BeginSync, Busy
  <2> QED
    BY <1>1, <1>3, <1>4, <1>6, <2>1 DEF BeginSync, Reconciles!Drop, Reconciles!Next
<1> QED
  BY <1>5, <1>6

LEMMA EndReconciles ==
  ASSUME TypeOK, QueuedOnce, NEW k \in processing, SyncSucceeds(k) \/ SyncFails(k)
  PROVE  Reconciles!Next
<1> USE DEF informer, handler
<1>1. k \in Keys /\ processing = {k}
  BY DEF TypeOK, QueuedOnce
<1>2. Busy = {k} /\ Busy' = {}
  BY <1>1 DEF Busy, SyncSucceeds, SyncFails
<1>3. CASE SyncSucceeds(k)
  <2>1. Owed' = Owed
    BY <1>3 DEF SyncSucceeds, Owed, Notified
  <2> QED
    BY <1>1, <1>2, <1>3, <2>1, CacheKept DEF SyncSucceeds, Reconciles!Succeed, Reconciles!Next
<1>4. CASE SyncFails(k)
  <2>1. Owed' = Owed \cup {k}
    BY <1>1, <1>4 DEF SyncFails, Owed, Notified
  <2> QED
    BY <1>1, <1>2, <1>4, <2>1, CacheKept DEF SyncFails, Reconciles!Fail, Reconciles!Next
<1> QED
  BY <1>3, <1>4

LEMMA NextReconciles ==
  TypeOK /\ TypeOK' /\ Versions /\ QueuedOnce /\ [Next]_vars
    => [Reconciles!Next]_(Reconciles!reconcilerVars)
<1> SUFFICES ASSUME TypeOK, TypeOK', Versions, QueuedOnce, [Next]_vars
             PROVE  Reconciles!Next \/ UNCHANGED Reconciles!reconcilerVars
  OBVIOUS
<1> USE DEF informer, handler, workqueue, worker
<1>1. CASE UNCHANGED <<cached, events, dirty, delayed, processing, wpc, read, synced>>
  BY <1>1 DEF Reconciles!reconcilerVars, Owed, Busy, Notified
<1>2. ASSUME NEW k \in Keys, UserCreates(k) \/ UserEdits(k) \/ UserDeletes(k)
      PROVE  Reconciles!Next \/ UNCHANGED Reconciles!reconcilerVars
  <2>1. PICK o \in Objects : Change(k, o)
    BY <1>2, UserFacts
  <2> QED
    BY <1>1, <2>1, ChangeFacts DEF Change
<1>3. CASE Deliver
  <2>1. UNCHANGED <<read, synced, dirty, delayed, processing, wpc>>
    BY <1>3 DEF Deliver
  <2>2. Busy' = Busy /\ Owed \subseteq Owed'
    BY <1>3, <2>1, DeliverFacts DEF Busy, Owed
  <2>3. \A k \in Keys : cached'[k] # cached[k] /\ cached'[k].exists => k \in Owed'
    BY <1>3, DeliverFacts DEF Owed
  <2> QED
    BY <2>1, <2>2, <2>3, Learns DEF Reconciles!Next
<1>4. CASE Relist
  <2>1. UNCHANGED <<read, synced, dirty, delayed, processing, wpc>>
    BY <1>4 DEF Relist
  <2>2. Busy' = Busy /\ Owed \subseteq Owed'
    BY <1>4, <2>1, RelistFacts DEF Busy, Owed
  <2>3. \A k \in Keys : cached'[k].exists => k \in Owed'
    BY <1>4, RelistFacts DEF Owed
  <2> QED
    BY <2>1, <2>2, <2>3, Learns DEF Reconciles!Next
<1>5. CASE Resync
  <2>1. \A k \in Keys : ~Notified(k)
    BY <1>5 DEF Resync, Notified
  <2> QED
    BY <1>5, <2>1, Keeps, CacheKept DEF Resync, Reconciles!Next
<1>6. CASE HandleChange
  <2>1. \A k \in Keys : Notified(k) => k \in Owed'
    BY <1>6, TakenOrNotified DEF HandleChange, Add, Owed
  <2> QED
    BY <1>6, <2>1, Keeps, CacheKept DEF HandleChange, Add, Reconciles!Next
<1>7. CASE HandleTombstone \/ HandleDelete
  <2>1. \A k \in Keys : Notified(k) => k \in Owed'
    BY <1>7, TakenOrNotified DEF HandleTombstone, HandleDelete, Owed
  <2> QED
    BY <1>7, <2>1, Keeps, CacheKept DEF HandleTombstone, HandleDelete, Reconciles!Next
<1>8. CASE CleanUpList \/ CleanUpDelete
  BY <1>1, <1>8, CacheKept DEF CleanUpList, CleanUpDelete
<1>9. CASE CleanedUp
  <2>1. \A k \in Keys : Notified(k) => k \in Owed'
    BY <1>9 DEF CleanedUp, Owed, Notified
  <2> QED
    BY <1>9, <2>1, Keeps, CacheKept DEF CleanedUp, Add, Reconciles!Next
<1>10. CASE GetItem
  <2>1. processing = {}
    BY <1>10 DEF GetItem, QueuedOnce, TypeOK
  <2>2. Busy' = Busy /\ Owed \subseteq Owed'
    BY <1>10, <2>1 DEF GetItem, Busy, Owed, Notified
  <2>3. UNCHANGED <<cached, read, synced>>
    BY <1>10, CacheKept DEF GetItem
  <2> QED
    BY <2>2, <2>3, Learns DEF Reconciles!Next
<1>11. ASSUME NEW k \in processing, Sync(k)
       PROVE  Reconciles!Next \/ UNCHANGED Reconciles!reconcilerVars
  <2>1. CASE PutSecret(k)
    BY <1>1, <2>1, CacheKept DEF PutSecret
  <2> QED
    BY <1>11, <2>1, BeginReconciles, EndReconciles DEF Sync
<1>12. CASE Crash
  <2>1. versions[known'] \in [Keys -> Objects] /\ cached' = versions[known']
    BY <1>12, VersionFacts DEF Crash, cached
  <2>2. \A k \in Keys : cached'[k].exists <=> Tells(events', k)
    BY <1>12, <2>1, DeploymentsType, ListingFacts, ListedOnly DEF Crash
  <2>3. Owed' = {k \in Keys : cached'[k].exists} /\ Busy' = {}
    BY <1>12, <2>2 DEF Crash, Owed, Busy, Notified, Tells
  <2> QED
    BY <1>12, <2>3, CachedNext DEF Crash, Reconciles!Restart, Reconciles!Next
<1>13. ASSUME NEW k \in Keys, DelayOver(k)
       PROVE  Reconciles!Next
  <2>1. \A j \in Keys : Notified(j) => j \in Owed'
    BY <1>13 DEF DelayOver, Owed, Notified
  <2> QED
    BY <1>13, <2>1, Keeps, CacheKept DEF DelayOver, Add, Reconciles!Next
<1>14. CASE UNCHANGED vars
  BY <1>1, <1>14, CacheKept DEF vars
<1> QED
  BY <1>2, <1>3, <1>4, <1>5, <1>6, <1>7, <1>8, <1>9, <1>10, <1>11, <1>12, <1>13,
     <1>14
  DEF Next, User, Handler, Worker

\* Watches, notifications, the workqueue, its delays, deletions and restarts
\* together implement a level-triggered reconciler of any number of deployments.
THEOREM ReconcilerImplemented == Spec => ImplementsReconciler
<1>1. Spec => [](TypeOK /\ Versions /\ QueuedOnce)
  BY VersionsHold, InitTypeOK, NextTypeOK, InitQueued, NextQueued, PTL DEF Spec
<1> QED
  BY <1>1, InitReconciles, NextReconciles, PTL
  DEF Spec, ImplementsReconciler, Reconciles!Spec

-----------------------------------------------------------------------------
(* What a reconciler guarantees, and with it the controller.  The invariant *)
(* says in addition what a deployment that is not owed a sync has read.     *)

Settled == \A k \in Keys :
             cached[k].exists /\ k \notin Owed =>
               /\ read[k] = cached[k].gen
               /\ k \in Busy \/ synced[k] = read[k]

ReconcilerType == /\ read \in [Keys -> Nat]
                  /\ synced \in [Keys -> Nat]
                  /\ \A j, k \in Busy : j = k

LEMMA InitSettled == Reconciles!Init => Settled
  BY DEF Reconciles!Init, Settled

LEMMA NextSettled ==
  ReconcilerType /\ Settled /\ [Reconciles!Next]_(Reconciles!reconcilerVars) => Settled'
<1> SUFFICES ASSUME ReconcilerType, Settled,
                    Reconciles!Next \/ UNCHANGED Reconciles!reconcilerVars
             PROVE  Settled'
  OBVIOUS
<1> USE DEF ReconcilerType
<1>1. CASE Reconciles!Learn
  BY <1>1 DEF Reconciles!Learn, Settled
<1>2. CASE Reconciles!Restart
  BY <1>2 DEF Reconciles!Restart, Settled
<1>3. ASSUME NEW k \in Keys, Reconciles!Begin(k) PROVE Settled'
  BY <1>3 DEF Reconciles!Begin, Reconciles!Settle, Settled
<1>4. ASSUME NEW k \in Keys, Reconciles!Drop(k) PROVE Settled'
  BY <1>4 DEF Reconciles!Drop, Reconciles!Settle, Settled
<1>5. ASSUME NEW k \in Keys, Reconciles!Succeed(k) PROVE Settled'
  BY <1>5 DEF Reconciles!Succeed, Settled
<1>6. ASSUME NEW k \in Keys, Reconciles!Fail(k) PROVE Settled'
  BY <1>6 DEF Reconciles!Fail, Settled
<1>7. CASE UNCHANGED Reconciles!reconcilerVars
  BY <1>7 DEF Reconciles!reconcilerVars, Settled
<1> QED
  BY <1>1, <1>2, <1>3, <1>4, <1>5, <1>6, <1>7 DEF Reconciles!Next

\* No deployment waits for a resync: as long as the cached version of one has
\* not been synced successfully, a notification, the queue, a delay or the worker
\* holds it, with any number of failures, crashes and broken watches.
THEOREM UnsyncedIsOwed == Spec => []UnsyncedOwed
<1>1. Spec => [](TypeOK /\ Versions /\ QueuedOnce)
  BY VersionsHold, InitTypeOK, NextTypeOK, InitQueued, NextQueued, PTL DEF Spec
<1>2. TypeOK /\ QueuedOnce => ReconcilerType
  BY DEF TypeOK, QueuedOnce, ReconcilerType, Busy
<1>3. Settled => UnsyncedOwed
  BY DEF Settled, UnsyncedOwed, Reconciles!Covered
<1> QED
  BY <1>1, <1>2, <1>3, InitReconciles, NextReconciles, InitSettled, NextSettled, PTL
  DEF Spec

\* The same from the object in the API server: a version that no sync has
\* succeeded on is still to come from the watch, or owed, so that where nothing is
\* left to be done every deployment is up to date.
THEOREM ChangesOnTheirWay == Spec => []ChangesUnderway
<1>1. TypeOK /\ Versions /\ UnsyncedOwed => ChangesUnderway
  BY DEF TypeOK, Versions, Lossless, cached, UnsyncedOwed, Reconciles!Covered,
     ChangesUnderway
<1> QED
  BY <1>1, VersionsHold, UnsyncedIsOwed, PTL

=============================================================================
