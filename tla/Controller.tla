----------------------------- MODULE Controller -----------------------------
(***************************************************************************)
(* AEMDeploymentController (pkg/operator/controller.go): from a change of  *)
(* an AEMDeployment to a call of sync.                                     *)
(*                                                                         *)
(* The watch delivers changes to the informer, which updates its cache and *)
(* buffers a notification; the handler goroutine takes the notifications   *)
(* in order and puts keys into a rate-limiting workqueue; the one worker   *)
(* goroutine takes keys out and calls sync.  On a deletion the handler     *)
(* also cleans the deployment's secrets up (pkg/secrets/vault), while the  *)
(* worker may be storing one.                                              *)
(*                                                                         *)
(* What sync does is module Sync; here it is only when it reads the cache, *)
(* which secrets it stores, and whether it returns an error.               *)
(***************************************************************************)
EXTENDS Integers, FiniteSets, Sequences, Functions

CONSTANTS Keys,            \* the names of the deployments
          Present,         \* those that are there when the operator starts
          Instances,       \* the instances of a deployment that have secrets
          Disruptions,     \* the kinds of disruption that may happen
          MaxDisruptions   \* and how many of them: bounds the behaviours

\* edit, delete: a user changes or deletes a deployment.
\* fault:  sync returns an error, or a call to Vault fails.
\* crash:  the operator process restarts.
\* relist: the watch breaks, and the informer lists everything anew.
Kinds == {"edit", "delete", "fault", "crash", "relist"}

ASSUME ControllerAssumption == /\ IsFiniteSet(Keys)
                               /\ Present \subseteq Keys
                               /\ Disruptions \subseteq Kinds
                               /\ MaxDisruptions \in Nat

VARIABLES
  versions,    \* the deployments in the API server: one entry per version
  (* the informer *)
  known,       \* the version that its cache has
  events,      \* the notifications that the handler has still to take
  (* the handler goroutine *)
  hpc,         \* what it does next
  cleaning,    \* the deployment whose secrets it cleans up, as a set,
  left,        \* the secrets that CleanUp has listed and not yet deleted
  (* the workqueue *)
  queue,       \* the keys to be taken, in order,
  dirty,       \* those that need processing,
  processing,  \* those taken and not done,
  delayed,     \* and those that a rate limit holds back
  (* the worker goroutine *)
  wpc,         \* what it does next
  read,        \* the generation that the last sync of a key has read
  synced,      \* and the one that the last successful sync has read
  stored,      \* the instances that the sync under way has stored a secret of
  (* Vault *)
  secrets,     \* which instances have a secret
  (* bookkeeping of the model *)
  disruptions  \* how many disruptions have happened

informer  == <<known, events>>
handler   == <<hpc, cleaning, left>>
workqueue == <<queue, dirty, processing, delayed>>
worker    == <<wpc, read, synced, stored>>
vars      == <<versions, informer, handler, workqueue, worker, secrets, disruptions>>

\* The deployments as they are, and as the cache has them.
obj    == versions[Len(versions)]
cached == versions[known]

\* Every change of a deployment, its deletion too, gives it a generation.
Objects == [exists : BOOLEAN, gen : Nat]
Deployments(ks) == [k \in Keys |-> IF k \in ks THEN [exists |-> TRUE, gen |-> 1]
                                               ELSE [exists |-> FALSE, gen |-> 0]]
Events  == [key : Keys, kind : {"add", "update", "delete", "tombstone"}]

TypeOK ==
  /\ versions \in Seq([Keys -> Objects])
  /\ known \in DOMAIN versions
  /\ events \in Seq(Events)
  /\ hpc \in {"idle", "list", "clean"}
  /\ cleaning \in SUBSET Keys
  /\ left \in SUBSET Instances
  /\ queue \in Seq(Keys)
  /\ dirty \in SUBSET Keys
  /\ processing \in SUBSET Keys
  /\ delayed \in SUBSET Keys
  /\ wpc \in {"idle", "get", "sync"}
  /\ read \in [Keys -> Nat]
  /\ synced \in [Keys -> Nat]
  /\ stored \in SUBSET Instances
  /\ secrets \in SUBSET (Keys \X Instances)
  /\ disruptions \in 0..MaxDisruptions

Event(k, kind) == [key |-> k, kind |-> kind]

\* The notifications that take a cache from one state to another without the
\* changes between: what was deleted meanwhile is a tombstone.
Kind(was, is) == CASE is.exists /\ was.exists -> "update"
                   [] is.exists               -> "add"
                   [] OTHER                   -> "tombstone"

Listing(old, new) ==
  LET there == {k \in Keys : old[k].exists \/ new[k].exists}
      Note(k) == Event(k, Kind(old[k], new[k]))
  IN {[n \in DOMAIN order |-> Note(order[n])] :
        order \in Bijection(1..Cardinality(there), there)}

\* The informers of the first process list what is there.
Init ==
  /\ versions = <<Deployments(Present)>>
  /\ known = 1
  /\ events \in Listing(Deployments({}), cached)
  /\ hpc = "idle"
  /\ cleaning = {}
  /\ left = {}
  /\ queue = <<>>
  /\ dirty = {}
  /\ processing = {}
  /\ delayed = {}
  /\ wpc = "idle"
  /\ read = [k \in Keys |-> 0]
  /\ synced = read
  /\ stored = {}
  /\ secrets = {}
  /\ disruptions = 0

Disrupt(kind) == /\ kind \in Disruptions
                 /\ disruptions < MaxDisruptions
                 /\ disruptions' = disruptions + 1

Calm == UNCHANGED disruptions

-----------------------------------------------------------------------------
(* The workqueue of client-go.                                             *)

\* Add: a key that is dirty is not queued twice, and one that is being
\* processed is queued when that is done.
Add(k) ==
  /\ dirty' = dirty \cup {k}
  /\ queue' = IF k \in dirty \cup processing THEN queue ELSE Append(queue, k)

Done(k) ==
  /\ processing' = processing \ {k}
  /\ queue' = IF k \in dirty THEN Append(queue, k) ELSE queue

\* AddRateLimited has put the key aside until its delay is over.
DelayOver(k) ==
  /\ k \in delayed
  /\ delayed' = delayed \ {k}
  /\ Add(k)
  /\ UNCHANGED <<versions, informer, handler, processing, worker, secrets, disruptions>>

-----------------------------------------------------------------------------
(* The users and the informer.                                             *)

Change(k, object) ==
  /\ versions' = Append(versions, [obj EXCEPT ![k] = object])
  /\ UNCHANGED <<informer, handler, workqueue, worker, secrets>>

UserCreates(k) ==
  /\ ~obj[k].exists
  /\ Change(k, [exists |-> TRUE, gen |-> obj[k].gen + 1])
  /\ Calm

UserEdits(k) ==
  /\ Disrupt("edit")
  /\ obj[k].exists
  /\ Change(k, [exists |-> TRUE, gen |-> obj[k].gen + 1])

UserDeletes(k) ==
  /\ Disrupt("delete")
  /\ obj[k].exists
  /\ Change(k, [exists |-> FALSE, gen |-> obj[k].gen + 1])

\* The watch delivers the next version, in which one deployment has changed:
\* cache first, then the notification.
Changed(k, n) == versions[n][k] # versions[n - 1][k]

Deliver ==
  /\ known < Len(versions)
  /\ known' = known + 1
  /\ \E k \in Keys :
       /\ Changed(k, known + 1)
       /\ LET kind == CASE ~versions[known + 1][k].exists -> "delete"
                        [] cached[k].exists               -> "update"
                        [] OTHER                          -> "add"
          IN events' = Append(events, Event(k, kind))
  /\ UNCHANGED <<versions, handler, workqueue, worker, secrets, disruptions>>

\* A list may be answered from an old version, older even than the cache, and
\* the new watch goes on from there.
Relist ==
  /\ Disrupt("relist")
  /\ known' \in DOMAIN versions
  /\ \E notes \in Listing(cached, versions[known']) : events' = events \o notes
  /\ UNCHANGED <<versions, handler, workqueue, worker, secrets>>

\* Every 15 seconds the informer notifies of everything in its cache.
Resync ==
  /\ events = <<>>
  /\ events' \in Listing(cached, cached)
  /\ UNCHANGED <<versions, known, handler, workqueue, worker, secrets, disruptions>>

-----------------------------------------------------------------------------
(* The handler goroutine.                                                  *)

\* A mutant: an update is not enqueued.
EnqueueAddOnly ==
  /\ hpc = "idle"
  /\ events # <<>>
  /\ Head(events).kind \in {"add", "update"}
  /\ IF Head(events).kind = "add" THEN Add(Head(events).key) ELSE UNCHANGED <<queue, dirty>>
  /\ events' = Tail(events)
  /\ UNCHANGED <<versions, known, handler, processing, delayed, worker, secrets,
                 disruptions>>

\* A mutant: a deployment that is being processed is not enqueued.
EnqueueUnlessBusy ==
  /\ hpc = "idle"
  /\ events # <<>>
  /\ Head(events).kind \in {"add", "update"}
  /\ IF Head(events).key \in processing THEN UNCHANGED <<queue, dirty>> ELSE Add(Head(events).key)
  /\ events' = Tail(events)
  /\ UNCHANGED <<versions, known, handler, processing, delayed, worker, secrets,
                 disruptions>>

\* handleAddDeployment, handleUpdateDeployment.
HandleChange ==
  /\ hpc = "idle"
  /\ events # <<>>
  /\ Head(events).kind \in {"add", "update"}
  /\ Add(Head(events).key)
  /\ events' = Tail(events)
  /\ UNCHANGED <<versions, known, handler, processing, delayed, worker, secrets,
                 disruptions>>

\* handleDeleteDeployment does not know what to do with a tombstone.
HandleTombstone ==
  /\ hpc = "idle"
  /\ events # <<>>
  /\ Head(events).kind = "tombstone"
  /\ events' = Tail(events)
  /\ UNCHANGED <<versions, known, handler, workqueue, worker, secrets, disruptions>>

HandleDelete ==
  /\ hpc = "idle"
  /\ events # <<>>
  /\ Head(events).kind = "delete"
  /\ events' = Tail(events)
  /\ hpc' = "list"
  /\ cleaning' = {Head(events).key}
  /\ UNCHANGED <<versions, known, left, workqueue, worker, secrets, disruptions>>

\* An error of CleanUp is logged, and the handler returns.
GiveUp == hpc' = "idle" /\ cleaning' = {} /\ left' = {} /\ Disrupt("fault")

\* A mutant: the keys that are listed are taken for paths.
ListPaths ==
  /\ hpc = "list"
  /\ left' = {s \in secrets : s[1] \in cleaning}
  /\ hpc' = "clean"
  /\ UNCHANGED <<versions, informer, cleaning, workqueue, worker, secrets, disruptions>>

\* CleanUp lists the secrets first,
CleanUpList ==
  /\ hpc = "list"
  /\ \/ /\ left' = {i \in Instances : (cleaning \X {i}) \cap secrets # {}}
        /\ hpc' = "clean"
        /\ UNCHANGED cleaning
        /\ Calm
     \/ GiveUp
  /\ UNCHANGED <<versions, informer, workqueue, worker, secrets>>

\* then deletes one after another.  The first error ends it.
CleanUpDelete ==
  /\ hpc = "clean"
  /\ \E i \in left :
       LET effect == secrets' = secrets \ (cleaning \X {i})
       IN \/ effect /\ left' = left \ {i} /\ UNCHANGED <<hpc, cleaning>> /\ Calm
          \/ (effect \/ UNCHANGED secrets) /\ GiveUp
  /\ UNCHANGED <<versions, informer, workqueue, worker>>

CleanedUp ==
  /\ hpc = "clean"
  /\ left = {}
  /\ hpc' = "idle"
  /\ \E k \in cleaning : Add(k)
  /\ cleaning' = {}
  /\ UNCHANGED <<versions, informer, left, processing, delayed, worker, secrets,
                 disruptions>>

Handler == \/ HandleChange \/ HandleTombstone \/ HandleDelete
           \/ CleanUpList \/ CleanUpDelete \/ CleanedUp

-----------------------------------------------------------------------------
(* The worker goroutine: processNextWorkItem.                              *)

GetItem ==
  /\ wpc = "idle"
  /\ queue # <<>>
  /\ LET k == Head(queue) IN /\ processing' = processing \cup {k}
                             /\ dirty' = dirty \ {k}
  /\ queue' = Tail(queue)
  /\ wpc' = "get"
  /\ UNCHANGED <<versions, informer, handler, delayed, read, synced, stored, secrets, disruptions>>

\* A mutant: sync asks the API server and not the cache.
BeginSyncLive(k) ==
  /\ wpc = "get"
  /\ IF obj[k].exists
       THEN /\ read' = [read EXCEPT ![k] = obj[k].gen]
            /\ wpc' = "sync"
            /\ UNCHANGED <<queue, processing>>
       ELSE Done(k) /\ wpc' = "idle" /\ UNCHANGED read
  /\ UNCHANGED <<versions, informer, handler, dirty, delayed, synced, stored, secrets,
                 disruptions>>

\* sync looks the key up in the cache; one that is gone is no error.
BeginSync(k) ==
  /\ wpc = "get"
  /\ IF cached[k].exists
       THEN /\ read' = [read EXCEPT ![k] = cached[k].gen]
            /\ wpc' = "sync"
            /\ UNCHANGED <<queue, processing>>
       ELSE Done(k) /\ wpc' = "idle" /\ UNCHANGED read
  /\ UNCHANGED <<versions, informer, handler, dirty, delayed, synced, stored, secrets,
                 disruptions>>

\* checkPodInitialized stores a password for an instance that has none.  One
\* sync does so for an instance only once.
PutSecret(k) ==
  /\ wpc = "sync"
  /\ \E i \in Instances \ stored :
       /\ <<k, i>> \notin secrets
       /\ secrets' = secrets \cup {<<k, i>>}
       /\ stored' = stored \cup {i}
  /\ UNCHANGED <<versions, informer, handler, workqueue, wpc, read, synced, disruptions>>

\* A mutant: the queue is not told that the key is done.
SucceedWithoutDone(k) ==
  /\ wpc = "sync"
  /\ synced' = [synced EXCEPT ![k] = read[k]]
  /\ wpc' = "idle"
  /\ stored' = {}
  /\ UNCHANGED <<versions, informer, handler, workqueue, read, secrets, disruptions>>

SyncSucceeds(k) ==
  /\ wpc = "sync"
  /\ synced' = [synced EXCEPT ![k] = read[k]]
  /\ wpc' = "idle"
  /\ stored' = {}
  /\ Done(k)
  /\ UNCHANGED <<versions, informer, handler, dirty, delayed, read, secrets, disruptions>>

\* A mutant: the error of sync is forgotten.
FailAndForget(k) ==
  /\ wpc = "sync"
  /\ Disrupt("fault")
  /\ wpc' = "idle"
  /\ stored' = {}
  /\ Done(k)
  /\ UNCHANGED <<versions, informer, handler, dirty, delayed, read, synced, secrets>>

SyncFails(k) ==
  /\ wpc = "sync"
  /\ Disrupt("fault")
  /\ delayed' = delayed \cup {k}
  /\ wpc' = "idle"
  /\ stored' = {}
  /\ Done(k)
  /\ UNCHANGED <<versions, informer, handler, dirty, read, synced, secrets>>

Sync(k) == BeginSync(k) \/ PutSecret(k) \/ SyncSucceeds(k) \/ SyncFails(k)

Worker == GetItem \/ \E k \in processing : Sync(k)

\* Queue, notifications and cleaning up are lost with the process.  Run starts
\* the worker when the new informers have listed what there is, or was: this list
\* too may be answered from any version.
Crash ==
  /\ Disrupt("crash")
  /\ known' \in DOMAIN versions
  /\ events' \in Listing(Deployments({}), versions[known'])
  /\ hpc' = "idle" /\ cleaning' = {} /\ left' = {}
  /\ queue' = <<>> /\ dirty' = {} /\ processing' = {} /\ delayed' = {}
  /\ wpc' = "idle" /\ stored' = {}
  /\ UNCHANGED <<versions, read, synced, secrets>>

User == \E k \in Keys : UserCreates(k) \/ UserEdits(k) \/ UserDeletes(k)

Next == \/ User \/ Deliver \/ Relist \/ Resync \/ Handler \/ Worker \/ Crash
        \/ \E k \in Keys : DelayOver(k)

Spec == Init /\ [][Next]_vars

\* The goroutines run, the watch delivers and delays end.  Resyncs are not
\* relied on.
Fairness == /\ WF_vars(Deliver)
            /\ WF_vars(Handler)
            /\ WF_vars(Worker)
            /\ \A k \in Keys : WF_vars(DelayOver(k))

FairSpec == Spec /\ Fairness

-----------------------------------------------------------------------------
(* Properties.                                                             *)

\* A change that the cache has and no sync has read yet is not forgotten: its
\* key is still to be processed, or the handler still to be notified.
Notified(k) == \E n \in DOMAIN events :
                 events[n].key = k /\ events[n].kind \in {"add", "update"}

NothingForgotten ==
  \A k \in Keys :
    cached[k].exists /\ read[k] # cached[k].gen =>
      \/ Notified(k)
      \/ k \in dirty
      \/ k \in processing /\ wpc = "get"

\* Every key that is to be processed is in the queue exactly once, or is going
\* to be put there when the sync of it that is under way is done.
QueuedOnce ==
  /\ \A m, n \in DOMAIN queue : queue[m] = queue[n] => m = n
  /\ Range(queue) = dirty \ processing
  /\ \A k \in Keys : k \in processing => wpc # "idle" /\ processing = {k}

\* The controller is a level-triggered reconciler (module Reconciler), however
\* its notifications, queue, delays and restarts interleave: whatever it has not
\* yet synced successfully it owes a sync, wherever that is written down.
Owed == {k \in Keys : \/ Notified(k)
                      \/ k \in dirty \cup delayed
                      \/ k \in processing /\ wpc = "get"}
Busy == IF wpc = "sync" THEN processing ELSE {}

Reconciles == INSTANCE Reconciler WITH seen <- cached, owed <- Owed, busy <- Busy
ImplementsReconciler == Reconciles!Spec

\* A deployment whose cached version no sync has succeeded on is notified of,
\* dirty, delayed or being synced: an error, a crash or a lost watch between any
\* two steps leaves none behind that waits for the next resync.
UnsyncedOwed == Reconciles!Covered

\* A deployment whose last version no sync has succeeded on is on its way to
\* one, in one of the places where that may be written down, from the watch to
\* the worker: where nothing is left to be done, everything is up to date.
ChangesUnderway ==
  \A k \in Keys : obj[k].exists /\ synced[k] # obj[k].gen =>
                   \/ \E n \in (known + 1)..Len(versions) : Changed(k, n)
                   \/ k \in Owed \cup Busy

\* Once the disruptions have stopped, the last sync of every deployment has
\* succeeded on what the deployment last was: neither a failing sync nor the
\* other deployments keep it waiting for ever.
EventuallySynced == \A k \in Keys : <>[](obj[k].exists => synced[k] = obj[k].gen)

-----------------------------------------------------------------------------
(* What a comment of the repository says and the code does not do.         *)

\* vault.go:47-48, "CleanUp deletes secrets under the especified path, this is
\* usually when the deployment is deleted".
EventuallyCleaned ==
  \A k \in Keys : <>[](~obj[k].exists => \A i \in Instances : <<k, i>> \notin secrets)

=============================================================================
