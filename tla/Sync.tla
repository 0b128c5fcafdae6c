-------------------------------- MODULE Sync --------------------------------
(***************************************************************************)
(* AEMDeploymentController.sync (pkg/operator/sync.go) on one deployment.  *)
(*                                                                         *)
(* The single worker goroutine reconciles the deployment by reading two    *)
(* informer caches and calling the API server, one call after another.     *)
(* Between any two of its calls a user may edit, delete or recreate the    *)
(* object, the kubelet may start or finish pods, either cache may catch    *)
(* up, and the operator may crash.  Each API call of the worker is an      *)
(* action of its own.                                                      *)
(*                                                                         *)
(* This module decides HOW MANY instances there are and WHAT PHASE is      *)
(* announced.  Of what an instance consists of it keeps the volume claim   *)
(* and the pod, in the order in which addInstance and removeInstance write *)
(* them; service, ingress, secret and password are in module Instance.     *)
(***************************************************************************)
EXTENDS Ordinals, FiniteSetsExt

CONSTANTS
  MaxReplicas,     \* the largest replica count a user asks for
  Specs,           \* the specifications a user may write
  Disruptions,     \* the kinds of disruption that may happen
  MaxDisruptions,  \* and how many of them: bounds the behaviours
  Incarnations     \* how often the object is created at most: bounds uid

Modes    == {"author", "publish", "dispatcher"}
Ordinals == 1..MaxReplicas
Names    == Modes \X Ordinals

\* edit, recreate: a user changes the object, or deletes and creates it again
\*         (with another specification where users edit as well).
\* fault:  an API call of the worker fails, or succeeds and its answer is lost.
\* crash:  the operator process restarts.
\* delete: a pod is deleted behind the operator's back (kubectl, node drain).
\* unready: a ready pod fails its readiness probe.
\* evict:  a pod ends in phase Failed; nothing restarts it.
Kinds == {"edit", "recreate", "fault", "crash", "delete", "unready", "evict"}

AllSpecs == [replicas : [Modes -> 0..MaxReplicas]]

ASSUME SyncAssumption ==
  /\ MaxReplicas \in Nat \ {0}
  /\ Specs \subseteq AllSpecs
  /\ Specs # {}
  /\ Disruptions \subseteq Kinds
  /\ MaxDisruptions \in Nat
  /\ Incarnations \in Nat \ {0}

-----------------------------------------------------------------------------
VARIABLES
  (* the API server *)
  obj,           \* the AEMDeployment object
  pods,          \* the pod of each name
  owner,         \* the deployment incarnation in a pod's ownerReferences,
                 \* until the pod is being deleted
  claims,        \* the volume claim of each name, with its owner likewise
  base,          \* the owners of the headless service and the config map
  (* the informer caches: copies of an earlier state of the API server *)
  cachedObj,     \* the deployment
  cacheCurrent,  \* has cachedObj the object's present resourceVersion?
  cachedPods,    \* the pods, as far as sync looks at them
  (* the worker goroutine *)
  pc,            \* the call it makes next
  dep,           \* its DeepCopy of the deployment
  depCurrent,    \* has dep the object's present resourceVersion?
  list,          \* podList, taken from the pod cache
  mode,          \* the runmode being resized
  pending,       \* the ordinals that resizeDeployment has still to handle
  updateStatus,  \* its local flag of that name
  (* bookkeeping of the model *)
  disruptions    \* how many disruptions have happened

api      == <<obj, pods, owner, claims, base>>
caches   == <<cachedObj, cacheCurrent, cachedPods>>
locals   == <<dep, list, mode, pending, updateStatus>>
worker   == <<pc, locals, depCurrent>>
vars     == <<api, caches, worker, disruptions>>

\* A resource version is abstracted to what the API server does with it: it
\* compares the version of a copy with the object's.  cacheCurrent and
\* depCurrent say whether the two are equal.

\* A pod is starting until its volumes are mounted, and unready while it runs
\* and fails its readiness probe.  "DeletionTimestamp is set" and "no longer
\* there" are statuses too.
Statuses == {"absent", "starting", "unready", "ready", "failed", "terminating"}
Claims   == [status : {"absent", "bound", "terminating"}, owner : Nat]
Views    == {"absent", "unhealthy", "healthy"}
Phases   == {"None", "Creating", "Resizing", "Running"}
Labels   == {"idle", "services", "configmaps", "creating", "list", "balance",
             "instances", "pod", "running", "configure"}
Base     == {"service", "configmap"}
Objects  == [exists : BOOLEAN, uid : Nat, spec : Specs, phase : Phases]

NoObject == [exists |-> FALSE, uid |-> 0, spec |-> CHOOSE s \in Specs : TRUE,
             phase |-> "None"]
NoPods   == [n \in Names |-> "absent"]
NoClaim  == [status |-> "absent", owner |-> 0]

TypeOK ==
  /\ obj \in Objects
  /\ pods \in [Names -> Statuses]
  /\ owner \in [Names -> Nat]
  /\ claims \in [Names -> Claims]
  /\ base \in [Base -> Nat]
  /\ cachedObj \in Objects
  /\ cacheCurrent \in BOOLEAN
  /\ cachedPods \in [Names -> Views]
  /\ pc \in Labels
  /\ dep \in Objects
  /\ depCurrent \in BOOLEAN
  /\ list \in [Names -> Views]
  /\ mode \in Modes \cup {"done"}
  /\ pending \in SUBSET Ordinals
  /\ updateStatus \in BOOLEAN
  /\ disruptions \in 0..MaxDisruptions

\* The deployment has just been created and the caches have synced.
Init ==
  /\ obj \in [exists : {TRUE}, uid : {1}, spec : Specs, phase : {"None"}]
  /\ pods = NoPods
  /\ owner = [n \in Names |-> 0]
  /\ claims = [n \in Names |-> NoClaim]
  /\ base = [b \in Base |-> 0]
  /\ cachedObj = obj
  /\ cacheCurrent = TRUE
  /\ cachedPods = NoPods
  /\ pc = "idle"
  /\ dep = NoObject
  /\ depCurrent = FALSE
  /\ list = NoPods
  /\ mode = "done"
  /\ pending = {}
  /\ updateStatus = FALSE
  /\ disruptions = 0

Disrupt(kind) == /\ kind \in Disruptions
                 /\ disruptions < MaxDisruptions
                 /\ disruptions' = disruptions + 1

Calm == UNCHANGED disruptions

-----------------------------------------------------------------------------
(* The views of a pod list that sync takes.                                *)

\* What a list shows of a pod: isHealthy is running, ready and not being deleted.
Seen(status) == CASE status = "absent" -> "absent"
                  [] status = "ready"  -> "healthy"
                  [] OTHER             -> "unhealthy"

View == [n \in Names |-> Seen(pods[n])]

\* GetPods(podList, filterPods(m)): the ordinals listed for a runmode.
Listed(view, m) == {i \in Ordinals : view[<<m, i>>] # "absent"}

AllHealthy(view) == \A n \in Names : view[n] # "unhealthy"

Desired(m) == dep.spec.replicas[m]

\* resizeDeployment grows below the desired count and shrinks above it.
Growing(m) == Cardinality(Listed(list, m)) < Desired(m)

ToResize(m) == IF Growing(m) THEN Missing(Listed(list, m), Desired(m))
                             ELSE Surplus(Listed(list, m), Desired(m))

\* authors, then publishers, then dispatchers
After(m) == CASE m = "author"  -> "publish"
              [] m = "publish" -> "dispatcher"
              [] OTHER         -> "done"

-----------------------------------------------------------------------------
(* AEMDeployments(ns).Update(deployment): the whole object is written back *)
(* under optimistic concurrency control.                                   *)

\* A mutant: Update without a resourceVersion in the object it sends.
AcceptsAnyVersion == obj.exists

\* The API server takes an update only of an object that still exists and
\* only from a copy that carries its present resourceVersion.
Accepts == obj.exists /\ depCurrent

\* What is stored is the worker's copy.  An update that changes nothing
\* leaves the resourceVersion alone.
Store(ph) == /\ obj' = [dep EXCEPT !.phase = ph]
             /\ cacheCurrent' = (cacheCurrent /\ obj' = obj)

Update(ph, answer) ==
  \/ Accepts /\ Store(ph) /\ answer = "ok" /\ Calm
  \/ ~Accepts /\ UNCHANGED <<obj, cacheCurrent>> /\ answer = "error" /\ Calm
  \/ /\ Disrupt("fault")
     /\ answer = "error"
     /\ (Accepts /\ Store(ph)) \/ UNCHANGED <<obj, cacheCurrent>>

\* Update's result is dropped: the worker's copy keeps the version it had.
KeepCopy(ph) == /\ dep' = [dep EXCEPT !.phase = ph]
                /\ depCurrent' = (depCurrent /\ obj' = obj)

\* sync returns, with or without an error; its local variables are gone.
Return == /\ pc' = "idle"
          /\ dep' = NoObject
          /\ depCurrent' = FALSE
          /\ list' = NoPods
          /\ mode' = "done"
          /\ pending' = {}
          /\ updateStatus' = FALSE

-----------------------------------------------------------------------------
(* The worker.                                                             *)

\* A mutant: the set-up is repeated until the deployment has been running.
BeginSyncUntilRunning ==
  /\ pc = "idle"
  /\ cachedObj.exists
  /\ dep' = cachedObj
  /\ depCurrent' = cacheCurrent
  /\ pc' = IF cachedObj.phase \in {"None", "Creating"} THEN "services" ELSE "list"
  /\ UNCHANGED <<api, caches, list, mode, pending, updateStatus, disruptions>>

\* GetByKey and DeepCopy.  For a deployment that the cache does not hold
\* sync returns at once, which is no step here.
BeginSync ==
  /\ pc = "idle"
  /\ cachedObj.exists
  /\ dep' = cachedObj
  /\ depCurrent' = cacheCurrent
  /\ pc' = IF cachedObj.phase = "None" THEN "services" ELSE "list"
  /\ UNCHANGED <<api, caches, list, mode, pending, updateStatus, disruptions>>

\* initialService and newDispatcherConfigMap: create, and take an object that
\* already exists for a success; any other error ends the sync.
Created(b) == base' = [base EXCEPT ![b] = IF @ = 0 THEN dep.uid ELSE @]

\* A mutant: the error of CreateServices or SetUpConfigMaps is only logged.
CreateBaseOrLog(b, from, to) ==
  /\ pc = from
  /\ pc' = to
  /\ \/ Created(b) /\ Calm
     \/ UNCHANGED base /\ Disrupt("fault")
  /\ UNCHANGED <<obj, pods, owner, claims, caches, locals, depCurrent>>

CreateBase(b, from, to) ==
  /\ pc = from
  /\ \/ /\ Created(b)
        /\ pc' = to
        /\ UNCHANGED <<locals, depCurrent>>
        /\ Calm
     \/ /\ Created(b) \/ UNCHANGED base
        /\ Return
        /\ Disrupt("fault")
  /\ UNCHANGED <<obj, pods, owner, claims, caches>>

CreateServices  == CreateBase("service", "services", "configmaps")
SetUpConfigMaps == CreateBase("configmap", "configmaps", "creating")

\* An error of this update is only logged: sync goes on.
AnnounceCreating ==
  /\ pc = "creating"
  /\ \E answer \in {"ok", "error"} : Update("Creating", answer)
  /\ KeepCopy("Creating")
  /\ pc' = "list"
  /\ UNCHANGED <<pods, owner, claims, base, cachedObj, cachedPods,
                 list, mode, pending, updateStatus>>

ListPods ==
  /\ pc = "list"
  /\ list' = cachedPods
  /\ mode' = "author"
  /\ pc' = "balance"
  /\ UNCHANGED <<api, caches, dep, depCurrent, pending, updateStatus, disruptions>>

\* A mutant: the flag is set for a runmode that has pods, resized or not.
BalanceFlagging ==
  /\ pc = "balance"
  /\ mode \in Modes
  /\ LET listed == Cardinality(Listed(list, mode)) IN
       /\ updateStatus' = (listed > 0)
       /\ IF listed # Desired(mode)
            THEN pending' = ToResize(mode) /\ pc' = "instances" /\ UNCHANGED mode
            ELSE mode' = After(mode) /\ UNCHANGED <<pending, pc>>
  /\ UNCHANGED <<api, caches, dep, depCurrent, list, disruptions>>

\* Compare the pods listed for a runmode with the replicas asked for.  The
\* flag is assigned anew for every runmode that has to be resized.
Balance ==
  /\ pc = "balance"
  /\ mode \in Modes
  /\ LET listed == Cardinality(Listed(list, mode)) IN
       IF listed # Desired(mode)
         THEN /\ pending' = ToResize(mode)
              /\ updateStatus' = (listed > 0)
              /\ pc' = "instances"
              /\ UNCHANGED mode
         ELSE /\ mode' = After(mode)
              /\ UNCHANGED <<pending, updateStatus, pc>>
  /\ UNCHANGED <<api, caches, dep, depCurrent, list, disruptions>>

\* resizeDeployment goes on with the next name, whatever has become of this one.
Handled(i) ==
  /\ pending' = pending \ {i}
  /\ IF pending' = {} THEN pc' = "balance" /\ mode' = After(mode)
                      ELSE pc' = "instances" /\ UNCHANGED mode
  /\ UNCHANGED <<dep, depCurrent, list, updateStatus>>

\* A grow takes the lowest ordinal first, a shrink the highest.
Turn == IF Growing(mode) THEN Min(pending) ELSE Max(pending)

\* addInstance, CreateAndWaitPVC: a claim that is there already will do, and one
\* that is being deleted still has the status Bound.  One that is not bound in
\* time, or another error, ends addInstance.  A dispatcher gets a claim as well;
\* nothing mounts it, and it is left out.
TakeClaim ==
  /\ pc = "instances"
  /\ Growing(mode)
  /\ LET taken == claims' = [claims EXCEPT ![<<mode, Turn>>] =
                     IF @.status = "absent" /\ mode # "dispatcher"
                       THEN [status |-> "bound", owner |-> dep.uid]
                       ELSE @]
     IN \/ taken /\ pc' = "pod" /\ UNCHANGED <<locals, depCurrent>> /\ Calm
        \/ /\ taken \/ UNCHANGED claims
           /\ Handled(Turn)
           /\ Disrupt("fault")
  /\ UNCHANGED <<obj, pods, owner, base, caches>>

\* addInstance: the pod is created unless its name is taken.
CreatePod ==
  /\ pc = "pod"
  /\ Growing(mode)
  /\ Handled(Turn)
  /\ LET n == <<mode, Turn>>
     IN \/ /\ pods[n] = "absent"
           /\ pods' = [pods EXCEPT ![n] = "starting"]
           /\ owner' = [owner EXCEPT ![n] = dep.uid]
           /\ Calm
        \/ pods[n] # "absent" /\ UNCHANGED <<pods, owner>> /\ Calm
        \/ UNCHANGED <<pods, owner>> /\ Disrupt("fault")
  /\ UNCHANGED <<obj, claims, base, caches>>

\* What deleting a claim does to it: it goes when no pod uses it any more.
Released(n) == [claims EXCEPT ![n] = IF @.status = "bound"
                                       THEN [status |-> "terminating", owner |-> 0]
                                       ELSE @]

\* removeInstance.  Its errors are ignored, and the next call is made.
DeleteClaim ==
  /\ pc = "instances"
  /\ ~Growing(mode)
  /\ pc' = "pod"
  /\ \/ claims' = Released(<<mode, Turn>>) /\ Calm
     \/ UNCHANGED claims /\ Disrupt("fault")
  /\ UNCHANGED <<obj, pods, owner, base, caches, locals, depCurrent>>

DeletePod ==
  /\ pc = "pod"
  /\ ~Growing(mode)
  /\ Handled(Turn)
  /\ LET n == <<mode, Turn>>
     IN \/ /\ pods[n] # "absent"
           /\ pods' = [pods EXCEPT ![n] = "terminating"]
           /\ owner' = [owner EXCEPT ![n] = 0]
           /\ Calm
        \/ pods[n] = "absent" /\ UNCHANGED <<pods, owner>> /\ Calm
        \/ UNCHANGED <<pods, owner>> /\ Disrupt("fault")
  /\ UNCHANGED <<obj, claims, base, caches>>

AddInstance    == TakeClaim \/ CreatePod
RemoveInstance == DeleteClaim \/ DeletePod

\* A mutant: Running is announced only after a resize.
GoOnAfterResizing(ph) ==
  IF AllHealthy(list)
    THEN /\ pc' = IF ph = "Resizing" THEN "running" ELSE "configure"
         /\ KeepCopy(ph)
         /\ UNCHANGED <<list, mode, pending, updateStatus>>
    ELSE Return

\* The health check on the same list, and whether Running must be announced.
GoOn(ph) ==
  IF AllHealthy(list)
    THEN /\ pc' = IF ph = "Running" THEN "configure" ELSE "running"
         /\ KeepCopy(ph)
         /\ UNCHANGED <<list, mode, pending, updateStatus>>
    ELSE Return

AnnounceResizing ==
  /\ pc = "balance"
  /\ mode = "done"
  /\ \/ /\ ~updateStatus
        /\ UNCHANGED <<obj, cacheCurrent, disruptions>>
        /\ GoOn(dep.phase)
     \/ /\ updateStatus
        /\ \/ Update("Resizing", "ok") /\ GoOn("Resizing")
           \/ Update("Resizing", "error") /\ Return
  /\ UNCHANGED <<pods, owner, claims, base, cachedObj, cachedPods>>

AnnounceRunning ==
  /\ pc = "running"
  /\ \/ /\ Update("Running", "ok")
        /\ KeepCopy("Running")
        /\ pc' = "configure"
        /\ UNCHANGED <<list, mode, pending, updateStatus>>
     \/ Update("Running", "error") /\ Return
  /\ UNCHANGED <<pods, owner, claims, base, cachedObj, cachedPods>>

\* The initialization and replication passes over the listed pods; none of
\* what they write is part of this module's state, and sync returns after
\* them whether they fail or not.
Configure == /\ pc = "configure"
             /\ Return
             /\ UNCHANGED <<api, caches, disruptions>>

Worker == \/ BeginSync \/ CreateServices \/ SetUpConfigMaps
          \/ AnnounceCreating \/ ListPods \/ Balance
          \/ AddInstance \/ RemoveInstance
          \/ AnnounceResizing \/ AnnounceRunning \/ Configure

-----------------------------------------------------------------------------
(* Everybody else.                                                         *)

\* The object changes: every copy of it is now out of date.
ChangeObj(o) == /\ obj' = o
                /\ cacheCurrent' = FALSE
                /\ depCurrent' = FALSE
                /\ UNCHANGED <<pods, owner, claims, base, cachedObj, cachedPods, pc, locals>>

UserEdits ==
  /\ Disrupt("edit")
  /\ obj.exists
  /\ \E s \in Specs \ {obj.spec} : ChangeObj([obj EXCEPT !.spec = s])

UserDeletes ==
  /\ Disrupt("recreate")
  /\ obj.exists
  /\ obj.uid < Incarnations
  /\ ChangeObj([obj EXCEPT !.exists = FALSE])

UserCreates ==
  /\ ~obj.exists
  /\ \E s \in Specs :
       /\ s = obj.spec \/ "edit" \in Disruptions
       /\ ChangeObj([exists |-> TRUE, uid |-> obj.uid + 1, spec |-> s, phase |-> "None"])
  /\ Calm

SetPod(n, from, to) ==
  /\ pods[n] \in from
  /\ pods' = [pods EXCEPT ![n] = to]
  /\ owner' = [owner EXCEPT ![n] = IF to \in {"terminating", "absent"} THEN 0 ELSE @]
  /\ UNCHANGED <<obj, claims, base, caches, worker>>

Alive == {"starting", "unready", "ready", "failed"}

\* What a pod waits for before it runs (the volumes of NewPod): an author or a
\* publisher for its claim, a dispatcher for the config map.  A claim that is
\* being deleted is not mounted.
Mountable(n) == IF n[1] = "dispatcher" THEN base["configmap"] # 0
                                       ELSE claims[n].status = "bound"

PodStarted(n) == Mountable(n) /\ SetPod(n, {"starting"}, "unready") /\ Calm
PodReady(n)   == SetPod(n, {"unready"}, "ready") /\ Calm
PodGone(n)    == SetPod(n, {"terminating"}, "absent") /\ Calm

PodUnready(n) == SetPod(n, {"ready"}, "unready") /\ Disrupt("unready")
PodDeleted(n) == SetPod(n, Alive, "terminating") /\ Disrupt("delete")
PodEvicted(n) == SetPod(n, {"starting", "unready", "ready"}, "failed") /\ Disrupt("evict")

\* A claim that is being deleted is kept for the pod that has mounted it.
Unused(n) == pods[n] \in {"absent", "starting", "failed"}

ClaimGone(n) ==
  /\ claims[n].status = "terminating"
  /\ Unused(n)
  /\ claims' = [claims EXCEPT ![n] = NoClaim]
  /\ UNCHANGED <<obj, pods, owner, base, caches, worker, disruptions>>

\* The garbage collector deletes what an ownerReference ties to an object
\* that is gone.
Orphaned(uid) == uid # 0 /\ ~(obj.exists /\ obj.uid = uid)

CollectPod(n) == /\ Orphaned(owner[n])
                 /\ SetPod(n, Alive, "terminating")
                 /\ Calm

CollectClaim(n) ==
  /\ Orphaned(claims[n].owner)
  /\ claims' = Released(n)
  /\ UNCHANGED <<obj, pods, owner, base, caches, worker, disruptions>>

CollectBase(b) ==
  /\ Orphaned(base[b])
  /\ base' = [base EXCEPT ![b] = 0]
  /\ UNCHANGED <<obj, pods, owner, claims, caches, worker, disruptions>>

\* The informers catch up with the API server.
ObserveObj ==
  /\ ~cacheCurrent
  /\ cachedObj' = obj
  /\ cacheCurrent' = TRUE
  /\ UNCHANGED <<api, cachedPods, worker, disruptions>>

ObservePods ==
  /\ cachedPods # View
  /\ cachedPods' = View
  /\ UNCHANGED <<api, cachedObj, cacheCurrent, worker, disruptions>>

\* The process dies and a new one starts: its informers list everything afresh
\* before the worker runs (Run waits for the caches).  What they list may still
\* be behind the API server, and is taken to be nothing older than what the
\* former process had seen.
Crash ==
  /\ Disrupt("crash")
  /\ Return
  /\ UNCHANGED <<api, caches>>

User == UserEdits \/ UserDeletes \/ UserCreates

PodStep(n) == \/ PodStarted(n) \/ PodReady(n) \/ PodGone(n)
              \/ PodUnready(n) \/ PodDeleted(n) \/ PodEvicted(n)

Kubelet == \E n \in Names : PodStep(n) \/ ClaimGone(n)
Garbage == \/ \E n \in Names : CollectPod(n) \/ CollectClaim(n)
           \/ \E b \in Base : CollectBase(b)

Watch == ObserveObj \/ ObservePods

Next == Worker \/ User \/ Kubelet \/ Garbage \/ Watch \/ Crash

Spec == Init /\ [][Next]_vars

\* The worker goroutine runs, and is handed the deployment again at least at
\* every resync of the informer (15 s); watches deliver; the kubelet and the
\* garbage collector do their work.  Disruptions and users owe nothing.
Fairness ==
  /\ WF_vars(Worker)
  /\ WF_vars(ObserveObj)
  /\ WF_vars(ObservePods)
  /\ \A n \in Names : /\ WF_vars(PodStarted(n))
                      /\ WF_vars(PodReady(n))
                      /\ WF_vars(PodGone(n))
                      /\ WF_vars(ClaimGone(n))
                      /\ WF_vars(CollectPod(n))
                      /\ WF_vars(CollectClaim(n))
  /\ \A b \in Base : WF_vars(CollectBase(b))

FairSpec == Spec /\ Fairness

-----------------------------------------------------------------------------
(* Properties.                                                             *)

\* Whatever the two caches still hold and whichever update is refused, lost
\* or retried, the object lives as module Lifecycle says: sync never undoes a
\* user's edit by writing its copy back and never moves the phase backwards.
Object == INSTANCE Lifecycle WITH exists <- obj.exists, spec <- obj.spec,
                                  phase <- obj.phase
ImplementsLifecycle == Object!Spec

\* Why that holds.  A copy of the object that still carries its present
\* resourceVersion differs from it at most by a phase that is further on, and
\* sync sets a deployment up only from a copy whose phase is still empty.
VersionedCopies ==
  /\ cacheCurrent => cachedObj = obj
  /\ depCurrent => /\ dep.exists = obj.exists
                   /\ dep.uid = obj.uid
                   /\ dep.spec = obj.spec
                   /\ Object!Stage(obj.phase) <= Object!Stage(dep.phase)
  /\ pc \in {"services", "configmaps", "creating"} => dep.phase = "None"

\* removeInstance is never called for an instance that the specification sync
\* works from asks for, however stale or incomplete the listed pods are.
ShrinkKeepsWanted ==
  [][\A n \in Names :
       (pending' # pending /\ pods'[n] = "terminating" /\ pods[n] # "terminating")
          => n[2] > Desired(n[1])]_vars

\* What resizeDeployment has still to do, one call after another, never crosses
\* the desired count: a grow creates only below it, a shrink deletes only above
\* it, and neither runs out of names while it is resizing.
ResizesWithinBounds ==
  pc \in {"instances", "pod"} =>
    /\ mode \in Modes
    /\ pending # {}
    /\ \A i \in pending : Growing(mode) <=> i <= Desired(mode)

\* While nobody edits or recreates the deployment, no pod but those it names ever
\* exists: sync does not create one too many from a stale list, nor after a
\* crash or a call that failed half-way, and so never has one to delete.
OnlyWantedPods ==
  \A n \in Names : pods[n] # "absent" => n[2] <= obj.spec.replicas[n[1]]

\* A pod that was created on a claim that was being deleted, or for which there
\* is no config map any more, never starts.
Stranded(n) == pods[n] = "starting" /\ ~Mountable(n)

\* That takes a user: while nobody edits or recreates the deployment, no failed
\* call, crash, eviction or deletion behind the operator's back makes sync
\* create a pod on the volume of an instance that it has itself removed.
NothingStranded == \A n \in Names : ~Stranded(n)

\* A deployment that has left the empty phase, which sync never sets up
\* again, has its headless service and its config map.
ResourcesBeforePhase ==
  obj.exists /\ obj.phase # "None" => \A b \in Base : base[b] # 0

\* Every runmode has exactly the pods asked for, all ready, and the object says
\* Running.
Counted == \A m \in Modes : Cardinality(Listed(pods, m)) = obj.spec.replicas[m]

Settled == Counted /\ AllHealthy(View) /\ obj.phase = "Running"

\* The exception: the volume of a name that is used again.
SettledButStranded ==
  /\ Counted
  /\ \A n \in Names : pods[n] \in {"absent", "ready"} \/ Stranded(n)
  /\ NothingStranded => obj.phase = "Running"

\* Once users, failures and crashes have stopped, every runmode has exactly the
\* pods asked for, for good.  All are ready and the object says Running unless
\* one of them is stranded, and then the others are ready.
Converges == <>[](obj.exists => SettledButStranded)

\* A settled deployment is left alone: with the caches up to date, and a sync of
\* it, if one is under way, begun from them, nothing that is not counted as a
\* disruption writes to the API server again, be it resync after resync.
Informed == /\ cachedObj = obj
            /\ cacheCurrent
            /\ cachedPods = View
            /\ ~updateStatus
            /\ pc # "idle" => dep = obj
            /\ pc \in {"idle", "list"} \/ (pc \in {"balance", "configure"} /\ list = View)

AtRest == /\ obj.exists
          /\ Settled
          /\ Informed
          /\ \A n \in Names : /\ ~Orphaned(owner[n])
                              /\ ~Orphaned(claims[n].owner)
                              /\ claims[n].status = "terminating" => ~Unused(n)
          /\ \A b \in Base : ~Orphaned(base[b])

StaysAtRest == [][AtRest /\ Calm => AtRest' /\ UNCHANGED api]_vars

-----------------------------------------------------------------------------
(* What a comment of the repository says and the code does not do.         *)

\* service.go:21, "initialService creates a new DNS-based service discovery to
\* access all the pods": a deployment that stays keeps its headless service.
KeepsService == <>[](obj.exists => base["service"] # 0)

=============================================================================
