# A TLA+ model of the Adobe AEM operator

The operator watches `AEMDeployment` objects in Kubernetes and keeps, for each
of them, the number of authors, publishers and dispatchers that it asks for.
This directory holds TLA+ modules that model its control logic, TLC
configurations that check them on small instances, and proofs, checked by TLAPS,
that the main properties hold for every value of the constants. Paths below are
relative to the repository; `sync.go:96` means `pkg/operator/sync.go`, line 96,
and the other files are named the same way.

## The system

| Component | State | Operations | Talks to |
|---|---|---|---|
| `sync` (sync.go 32-157) | the phase of the deployment; otherwise only local variables | one pass: set up, balance each runmode, announce phases, initialize and configure pods | two informer caches (reads), API server (writes) |
| `resizeDeployment` (sync.go 367-400, utils.go) | none | which ordinals to create or remove | `addInstance`, `removeInstance` |
| instances (instance.go, storage.go, service.go, pod.go) | pod, claim, service, ingress of each instance | `addInstance`, `removeInstance`, `CreateAndWaitPVC`, `CreateExternalEndpoint` | API server, Vault |
| pod initialization (sync.go 159-177, 315-365) | password in Vault, password in the repository, annotation of the pod | `checkPodInitialized` | Vault, the AEM instance, API server |
| replication (sync.go 179-313) | agents in the author's and publishers' repositories | `checkAuthorConfig`, `checkPublishConfig` | Vault, the AEM instances |
| controller (controller.go) | workqueue, informer caches | event handlers, `enqueue`, `processNextWorkItem` | client-go, `sync`, `CleanUp` |
| secrets (secrets/vault) | the secrets under `secret/<namespace>/<deployment>/<pod>` | `Get`, `Put`, `Delete`, `CleanUp` | Vault |
| initial resources (service.go 16-61, configMap.go 19-52) | headless service, dispatcher config map | created in the empty phase | API server |
| retry (retry/retry.go) | none | bounded polling | used by `CreateAndWaitPVC` |

How they interact. The informers run in goroutines of their own and update two
caches, deployments and pods; notifications about deployments go to a handler
goroutine, which puts keys into a rate-limiting workqueue. One worker goroutine
takes a key out and calls `sync`, which reads both caches and then makes a
sequence of blocking calls to the API server, Vault and the AEM instances.
There is no lock: the only shared structures are the caches, the queue and the
outside world. Nothing watches pods; what happens to a pod is noticed at the
next resync, every 15 seconds. A deployment's deletion is noticed by the handler,
which deletes its secrets itself while the worker may be working on the same
deployment.

What is hard here:

- both caches may be older than the operator's own last write, and not in the
  same way;
- a call may take effect and its answer be lost; most errors of `addInstance`
  and all of `removeInstance` are dropped;
- the process may restart between any two calls, and everything that is needed
  to carry on has to be in the outside world by then;
- the object is written back whole, under optimistic concurrency control, from a
  copy whose resourceVersion is not refreshed between two updates;
- names are reused: a pod, a claim, a service or a deployment may still be being
  deleted when its successor is created;
- `sync` goes on with a pod list that it has itself made out of date.

What makes the components correct:

- `sync`: a user's edit is never undone and the phase never moves back; no
  instance is removed that should stay; no superfluous one is created; the
  initial resources exist; in the end the deployment has what was asked for.
- instances: in the end a wanted instance is up and an unwanted one is gone.
- initialization: the operator is never locked out of a repository.
- replication: the author has an agent for each publisher in service and for
  nobody else, and the agent carries the password that the publisher takes.
- `resizeDeployment`: the right pods go, each missing one is tried once, and the
  worker is not kept for ever.
- controller: no change is forgotten, no deployment is starved, failures are
  retried.

## The modules

| Module | What it is | Extends |
|---|---|---|
| `Ordinals` | `resizeDeployment` as two sets: `Missing` and `Surplus` | |
| `Lifecycle` | abstract: what users are promised about an `AEMDeployment` object | |
| `Sync` | `sync` on one deployment | `Ordinals`, instance of `Lifecycle` |
| `Credential` | abstract: what is promised about an administrator's password | |
| `Instance` | one author or publish instance: `addInstance`, `removeInstance`, `checkPodInitialized` | instance of `Credential` |
| `Controller` | informer, handlers, workqueue, worker, `CleanUp` | instance of `Reconciler` |
| `Reconciler` | abstract: a level-triggered reconciler | |
| `Replication` | `checkAuthorConfig`, `checkPublishConfig`, and what of `sync` they depend on | `Ordinals` |
| `Retry` | `retry.Retry`, in time | |
| `Resizing` | abstract: the plan that `resizeDeployment` carries out | `Ordinals` |
| `Resize` | the loops of `resizeDeployment`, the sort, the wait for volumes | `Retry`, `Ordinals`, instance of `Resizing` |
| `MCSync`, `MCInstance`, `MCController`, `MCReplication`, `MCResize` | values of the constants for TLC | |
| `OrdinalsProofs`, `SyncProofs`, `SyncScaleProofs`, `InstanceProofs`, `ControllerProofs`, `ReconcilerProofs`, `ReplicationProofs`, `ResizeProofs` | theorems | TLAPS |

The component modules divide the program by question. `Sync` is about how many
pods there are, whether they can start and which phase is announced; of
`addInstance` and `removeInstance` it keeps the calls for the claim and the pod.
`Instance` has all their calls, with the endpoint, the secret and the password, and
treats `sync` as the choice between adding, removing and initializing one instance.
`Controller` treats `sync` as something that reads the cache, stores secrets and
succeeds or fails. `Replication` is about what one `sync` knows of several pods and
their passwords, `Resize` about what happens inside one call of `resizeDeployment`.
`Resize` is the ground under `Ordinals`, whose sets `Sync` and `Replication` use:
`MatchesOrdinals` says that where all pods are the operator's own the loops handle
`Missing` or `Surplus`, and `Resizing` what they do among stray ones.

### Sync

One action per API call of the worker. `pc` is the next call; `dep`, `list`,
`mode`, `pending` and `updateStatus` are the worker's local variables. `obj`,
`pods`, `owner`, `claims` and `base` are the API server's state, `cachedObj` and
`cachedPods` the informers' caches. In order: `BeginSync` (GetByKey, DeepCopy),
`CreateServices`, `SetUpConfigMaps`, `AnnounceCreating` (only in the empty
phase), `ListPods`, for each runmode `Balance` and as many `TakeClaim` and `CreatePod`,
or `DeleteClaim` and `DeletePod`, as it takes, `AnnounceResizing` with the health check,
`AnnounceRunning`, `Configure`. The environment: users edit, delete and create
the object; the kubelet starts, stops and evicts pods; claims go when they are
no longer used; the garbage collector deletes what belongs to a deployment that is
gone; each cache catches up on its own; the process crashes.

A pod starts when its volumes can be mounted (`Mountable`): an author or a
publisher waits for its claim, a dispatcher for the config map (pod.go:52-104). A
claim that is being deleted still has the status Bound, so that
`CreateAndWaitPVC` takes it for a good one (storage.go:59, 69). When it is gone
nobody creates it again, and a pod that was created meanwhile is `Stranded`.

Abstractions:

- A resourceVersion is only ever compared for equality with the object's, so
  a copy carries a Boolean: does it have the present one (`cacheCurrent`,
  `depCurrent`)? Every write clears it, except an update that changes nothing,
  to which the API server gives no new version.
- An API call fails without effect or after it (`fault`); the second is a lost
  answer.
- A pod's status keeps what the code tells apart: `isHealthy`, being deleted,
  failed for good, absent.
- Pod names are pairs of a runmode and an ordinal. The operator is the only one
  to create pods with the deployment's labels, so ordinals stay within
  `1..MaxReplicas`.
- `TakeClaim` is the creation of the claim and the polling for it in one step, as in
  `Replication`; `Instance` takes the two apart, and `Retry` the polling. A
  dispatcher's claim, which nothing mounts, is left out.
- `Configure` leaves this module's state alone; it is the subject of `Instance` and
  of `Replication`.

### Instance

One action per call again. `pc` runs through the calls of one of the three
passes. A failed call of `addInstance` or `checkPodInitialized` ends the pass, one
of `removeInstance` does not. `admin` is the password that the repository on the
claim's volume accepts, `secret` the one in Vault, `pwd` the worker's variable.
The pod has a uid, so that a call to the address of its predecessor reaches
nobody. `DeletePod` may be followed by `get`: the same `sync` initializes the
pods of its old list, provided that its update to Resizing has changed nothing, or has
been skipped because a runmode that comes later had no pods (sync.go:99-110, 126). The module is about an author or a publish instance whose
siblings are healthy; a dispatcher has no secret, and its claim and endpoint are
handled as here. A claim that a pod uses is not deleted before the pod
(storage object in use protection, on by default since Kubernetes 1.10).

### Controller

`versions` is the history of the API server, one entry for each change of a
deployment, `known` the entry that the informer's cache has, `events` the
notifications buffered for the handler; `obj` is the last entry, `cached` the known
one. `Deliver` is the watch, which goes on to the next entry. `HandleChange`,
`HandleTombstone` and `HandleDelete` are the handlers; `CleanUpList`,
`CleanUpDelete` and `CleanedUp` are `CleanUp`, one Vault call at a time. `queue`,
`dirty`, `processing` and `delayed` are client-go's workqueue; `GetItem`,
`BeginSync`, `PutSecret`, `SyncSucceeds`, `SyncFails` the worker, which stores at most
one secret for each instance in a sync (`stored`). `Relist` is a broken watch: the
informer lists again and notifies of differences, deletions as tombstones. After a
`Crash` the new process is notified of everything that its first list has, and of no
deletion. client-go lists at resourceVersion 0, which the API server may answer
from any old state, older even than what the process, or the one before, has already
read. Both actions therefore set `known` to any entry there has been, and the watch
goes on from there.

`Reconciler` says what all this is for in four variables: which deployments have
been seen, which are owed a sync, which one is being synced, and what the last
(successful) sync has read. The refinement mapping collects what is owed from
wherever `Controller` keeps it: buffered notifications, `dirty`, `delayed`, and a
key that the worker has taken out but not yet read the cache for (`Owed`).

### Replication

There is one author, member 0, and publishers by ordinal. `list` is `podList`,
taken from the cache when `sync` begins and used to its end; `pending`, `todo` and
`rest` are what the three loops over it have still to visit. `agents` holds the
password of each agent in the author's repository, `flush` the publishers that
have an agent for their dispatcher, `existing` what `checkAuthorConfig` has been
told of agents. `TakeClaim` and `CreatePod` are `addInstance`; `DeleteSecret`,
`DeleteClaim` and `DeletePod` are `removeInstance`, which goes on whatever error it
gets, so that any of the three may be left undone, by an error or by a crash
between them. `InitAuthor` and `InitPublisher` are `checkPodInitialized`, one action
with all its outcomes, which module `Instance` takes apart. `CreateAgents` and
`RemoveAgents` are the two halves of `checkAuthorConfig`, between which the world may
change; `CheckPublishConfig` is `checkPublishConfig`, which visits all publishers
each time it is called.

A repository lives on the volume of its `claim`: a pod that is deleted by hand comes
back to the same one, one that is scaled away does not, unless it is scaled back
before its claim is deleted. `fate` is bookkeeping for the properties. A publisher is
"cut" from the moment `removeInstance` begins with it until it has been initialized
again, and an "heir" if its predecessor's agent was still there by then;
otherwise it is "sound". What the code then does is not what one would want:

- the agent of a "cut" publisher may get any password, an empty one too, with
  no lookup having failed: `getPodPassword` returns `""` and no error when the secret is
  gone (sync.go:165-166), and `checkAuthorConfig` drops the error anyway (sync.go:262);
- the agent of an "heir" keeps its predecessor's password, since an agent that exists
  is never looked at again (sync.go:258);
- a "cut" publisher that is added again may wait for ever for its volume
  (`Stranded`), or find a password in its repository that nobody has (`LockedOut`), and
  every sync gives up at it (`Blocked`);
- one whose pod has outlived its secret is `Robbed`: `checkPublishConfig` cannot log
  in to it, and gives up before the publishers that come after.

The properties name these cases one by one and promise what is left.

### Retry and Resize

In `Retry` time passes while the function runs and while a tick is waited for.
The ticker's channel has room for one tick; a tick that nobody has taken makes it
drop the next. `Resize` makes one call of `resizeDeployment`: `pods` is the slice,
`pos` the loop variable, `handled` the names that `addInstance` or
`removeInstance` has been called with. The sort may yield any order that
`ascendingOrdinal` allows, since it is not stable. Stray pods have the labels of
the runmode and a name that the operator did not give; they count, and are sorted
by what `getOrdinal` makes of their name. `Resizing` states the outcome with no
loops: a plan is fixed at once, and every member of it is handled once.

## What is checked

Runs that pass:

| Run | Bounds | Shows |
|---|---|---|
| `SyncScaling` | 1 or 2 publishers; 2 of edit, fault, crash; fair | types; `VersionedCopies`; `ResizesWithinBounds`; `ResourcesBeforePhase`; `ShrinkKeepsWanted`; `Sync` implements `Lifecycle`; `Converges`; `StaysAtRest` |
| `SyncSteady` | the three members of the README; 2 of fault, crash, delete, unready, evict | `OnlyWantedPods`; `NothingStranded` |
| `SyncRecreate` | an author or a dispatcher, created twice at most; 2 of recreate, fault, crash, delete, unready; fair | `Converges` and `Lifecycle`, with names being reused |
| `InstanceUp` | two passwords; 3 of fault, crash, delete; fair | types; `InitializedIsSecured`; `Instance` implements `Credential`; `EventuallyUsable` |
| `InstanceDown` | 3 of scale, crash; fair | `EndpointHasPod`; `EventuallyGone`; `OnlyCrashesLockOut` |
| `ControllerQueue` | two deployments of one instance each, there at the start; 2 of edit, delete, fault, crash, relist; fair | types; `NothingForgotten`; `QueuedOnce`; `UnsyncedOwed`; `ChangesUnderway`; `Controller` implements `Reconciler`; `EventuallySynced` |
| `Replication` | one author, 1 or 2 publishers, one foreign agent, three passwords; 2 edits and one of fault, crash, delete; fair | types; `AgentsKeepFitting`; `AgentsFit`; `ServingKeepsAgent`; `EventuallyReplicated`; `StaysReplicated` |
| `ResizeLoops` | lists of up to 3 of 5 pods, two of them strays; -1 to 3 replicas; 3 retries every 2 units, calls of up to 3 units | types; `PacedCalls`; `BoundedBlocking`; `MatchesOrdinals`; `Resize` implements `Resizing` |

What is promised of the end, and what is not. `Converges` says that every runmode
gets as many pods as asked for, and keeps them, and that all are ready and the
object says Running, unless a pod is `Stranded`. That happens if the volume of
an instance that is scaled away, or of a deployment of the same name that has been
deleted, is taken by its successor before it is gone, or if a dispatcher's config map
is taken over in that way. The code never repairs it: the pod is counted, so that
it is not created again, and it keeps the deployment from being configured. All
other pods are ready then all the same. `NothingStranded` says that it takes an edit
or a recreation to get there: no crash, failed call, eviction or deleted pod does.
`EventuallyReplicated` likewise: as many publishers as asked for, and replication to
each of them, unless one that has been removed in part or added again too soon is
`Blocked`; an agent fits, unless it was created empty because its lookup failed, or
its publisher is "cut" or an "heir"; and each publisher has the agent for its dispatcher,
unless one is `Robbed`.

`StaysAtRest` and `StaysReplicated` are the other halves of `Converges` and
`EventuallyReplicated`. Those say that the good state is reached and, since the
disruptions of a run are bounded, kept at last; these say why it is kept: from
the state in which the caches show it too, no step that is not a disruption leads
out of it, and none writes to the outside world (but for the flush agents that a
`Robbed` publisher holds up). They are action properties and so can be proved, for
any number of disruptions before.

Why the bounds are enough to be interesting. Two publishers are the least with
which a shrink has something to keep and something to remove and ordinals can
have a gap; scaling down to nothing is left to `ResizeLoops`. `MaxDisruptions` counts
what comes from outside; everything else (cache lag, pods starting and stopping, the
interleaving of all actors) is unbounded. Two disruptions cover an edit during the
sync that a failure has made necessary, scaling a publisher away and back, a failure
during recovery from a crash, and an object that is recreated while a stale copy is
being written back; three for one instance cover scaling away, crashing during the
removal and scaling back. `Replication` counts edits apart (`MaxEdits`), so that a
publisher can be scaled away and back with a failure, a crash or a deleted pod
in between; none of its behaviours has more than these three, but its safety
properties are proved for any number. `uid`, which `Incarnations` bounds as well,
and `gen` grow only with disruptions that are counted. In `SyncRecreate` an author is a
pod that waits for its claim and a dispatcher one that waits for the config map;
each of them meets what its namesake has left. A fresh password is one that the
repository does not have, so two are enough to tell a new one from an old one; in
`Replication`, where it must also differ from the agent's, three. There the
publisher 1 is never scaled away and the publisher 2 comes and goes, which is what
`AgentsKeepFitting` tells apart. In `ResizeLoops` one stray has no ordinal and
the other the ordinal of an instance, so that the sort has both kinds of doubt;
a call may be shorter than an interval, as long, or long enough to miss a tick.

Runs that find what a comment of the repository says violated by the code. Each
checks one property, stated under the comment it quotes at the end of its module:

| Run | The comment | What happens |
|---|---|---|
| `SyncServiceLost` | service.go:21 | the service of a deleted namesake is adopted, then garbage collected |
| `InstanceLeak` | instance.go:30 | the removed pod is initialized from the old list and gets a new secret |
| `InstanceUnexposed` | service.go:63 | a restart after the pod's creation: no endpoint, ever |
| `ControllerCleanUp` | vault.go:47-48 | a secret is stored after `CleanUp` has listed them |

`InstanceUnexposed` needs a restart at the wrong moment; the others need one of
the interleavings their findings in `PROJECT.json` describe.

Known from the code and the models, but recorded by no run:

- `Paused` (deployment.go:92) is read nowhere.
- A pod in phase Failed is counted, keeps the deployment from being healthy and is
  never replaced (utils.go:57-80, sync.go:96), which is why only `SyncSteady` has
  evictions.
- Running may be announced over an empty list of pods (sync.go:118).
- A shrink after a failed creation can leave a gap in the ordinals, and so a
  dispatcher without the publisher it is paired with (pod.go:296-297).
- A removal that is interrupted after the secret's deletion, followed by scaling
  back, leaves a repository with a password that nobody has, which is why the credential
  is checked and proved for instances that are not scaled away (`OnlyCrashesLockOut`
  says that such an interruption is, while calls succeed, the only way to it;
  `Replication` has what becomes of the agents).
- An instance that is scaled away and back again takes the terminating claim for a
  bound one (storage.go:59, 69), and its new pod waits for a claim that is never
  created again. `Converges` and `EventuallyReplicated` name this case; `InstanceUp`,
  about an instance that is wanted all the time, does not scale.
- A negative number of replicas makes `resizeDeployment` remove every instance and
  then panic at `pods[-1]` (sync.go:396), and again after each restart.
- An agent that exists is never corrected (sync.go:258): one that was created with an
  empty password (sync.go:262), or for a publisher whose removal had begun, or that
  of a publisher that has been scaled away and back before the author was configured.
- `sync` ignores what `checkPublishConfig` returns (sync.go:153).
- Secrets are kept by the deployment's name: a deletion that is handled late cleans up
  the secrets of a deployment that has been created again meanwhile
  (controller.go:134).
- A poll of `Retry` that takes longer than the interval is followed by another at
  once, and the tick after that may come sooner than an interval later (retry.go:48).

### Fairness

`FairSpec` assumes weak fairness of

- the worker: the goroutine runs, and it is handed the deployment again and
  again, by the rate-limited queue after an error (controller.go:182) and by the
  resync of the informer, whose updates `handleUpdateDeployment` deliberately does
  not filter out (controller.go:82, 117-123). That a `sync` is always followed by
  another one is therefore an assumption of `Sync` and `Instance`, and module
  `Controller`, which relies on no resync, shows where it comes from;
- each cache catching up (client-go's watches), each delay of the queue ending;
- the kubelet starting a pod whose volumes are there, its becoming ready and its
  stopping (`PodStarted`, `PodReady`, `PodGone`), volumes being provisioned and released
  (`ClaimGone`), the garbage collector. A pod whose volume is not there owes nothing.

`ResizeLoops` has no fairness and no liveness property: that the call ends in a
bounded time is the invariant `BoundedBlocking`, and that it never gets stuck is
the absence of a deadlock.

Users and disruptions owe nothing. No strong fairness is assumed anywhere.

## What is proved

For every value of the constants that satisfies the modules' assumptions
(`SyncAssumption`, `InstanceAssumption`, `ControllerAssumption`,
`ReplicationAssumption`, `ResizeAssumption`, `RetryAssumption`: the kinds of
disruption are known ones, specifications have counts up to `MaxReplicas`,
"none" and "default" are not passwords and there is always a fresh one, there are
finitely many deployments, and any of them may be there at the start, an interval is
positive), so for any number of replicas, deployments, pods and disruptions:

- `SyncProofs`: `TypeCorrect`; `CopiesVersioned` (`VersionedCopies` is inductive
  with the types); `LifecycleImplemented`. The last follows from the second: an
  update is accepted only from a copy with the present resourceVersion; such a
  copy has the object's uid and spec and a phase no further back; so what is
  stored has them too.
- `OrdinalsProofs`: facts about `Missing` and `Surplus` from cardinalities; in
  particular `SurplusAbove`: if more than `desired` ordinals exist, those with at
  least `desired` smaller ones all lie above `desired`, since there are only that
  many ordinals below; and `SurplusUnique`: the surplus is the only set of that size
  whose members are no smaller than what stays.
- `SyncScaleProofs`: `ResizesBounded` (from those facts, and because `pending` only
  shrinks while `list`, `dep` and `mode` stay); `WantedKept` from it. `SteadyPods` and
  `VolumesThere` assume that nobody edits or recreates (`Undisturbed`). The inductive
  invariant of the first adds that the specification in the object, the cache and the
  worker's copy is the same one and that caches and lists hold only wanted pods. With
  it, no shrink ever has anything to do (`OnlyGrows`), so that no claim is ever
  deleted; and since a pod is created only after its claim, and the set-up comes before
  the first pod, every pod finds its volume (`VolumesKept`). `ResourcesFirst`
  assumes that nobody recreates (`NotRecreated`); recreation is just what breaks
  it, as `SyncServiceLost` shows. Its invariant follows the set-up from label to
  label and says that no copy has left the empty phase unless the resources exist.
  `RestKept` needs no more than the types: `AtRest` is closed under every step of
  the worker, since balancing what has the right count changes nothing, a status
  that is written as it was gets no new version, and the next `sync` reads the same
  caches again.
- `InstanceProofs`: `TypeCorrect`, which needs that the password being set is not
  empty (`PasswordKnown`); `Secured` and `CredentialImplemented` assume that the
  instance is not scaled away (`NotScaled`). `Kept`, their inductive invariant,
  says that the claim is never on its way out, that a repository which has left
  its default password has the one in Vault, and what the worker's variables
  mean at each label. Scaling an instance away and back breaks it, as described above.
  The other two theorems are about just that scaling, with restarts, and assume that no
  call fails and nobody else deletes a pod (`NothingFails`): `removeInstance` ignores
  the error of each deletion and goes on to the pod, so that a failure does leave an
  endpoint without one, or a claim. The invariant of `PodGoesLast`, `PodLast`, says
  what the worker still has to do at each label of the two passes. That of
  `OnlyRemovalLosesPassword`, `Rescaled`, says that a repository has left its default
  password only while its first pod runs or its volume is on the way out (`Volumes`),
  which needs that whatever shows a pod ready, an old list or the cache, shows one
  that has either gone or has its volume go with it (`Sightings`).
- `ControllerProofs`: `TypeCorrect`, `QueueSound`, `ChangesRemembered`; the three
  invariants together are inductive. `Versions` says that from one entry of the API
  server's history to the next only one deployment changes, and that what an old entry
  has differently from the object has changed since. It is what makes lists from
  any old version harmless: the watch goes on from there and delivers the change.
- `ReconcilerProofs`: `ReconcilerImplemented`. Every step of the controller is a
  step of `Reconciler` or a stutter: handing a key from a notification to `dirty`,
  from `delayed` to the queue or from the queue to the worker leaves `Owed` as it
  is, and a sync that fails puts the key back in the step in which it ends.
  `UnsyncedIsOwed` follows from it: `Covered` is a consequence of the reconciler's own
  steps, once it is known that a deployment that is owed nothing has been read in
  its last version (`Settled`). `ChangesOnTheirWay` carries it from the cache to the API
  server, with `Versions`.
- `ReplicationProofs`: `TypeCorrect`; `ServingKept` from how old a cache or a list
  can be (`CacheLags`, `ListLags`): a publisher that sync has not listed is not in
  service, since only sync writes the annotation, and only to what it has listed.
  `AgentsCreatedFit` follows from `KnownSecured`: unless `removeInstance` has begun with it
  (`CutFirst`: no claim goes before), a publisher that any pod, cache, list or
  passed initialization shows with the annotation has in Vault the password that its
  repository takes; and what agents are created for is listed and initialized by
  then. `SoundFits` adds that the agent of a "sound" publisher has that password as well,
  and `LastingKept` that a publisher which every number asked for includes (`Lasting`)
  is never removed and stays "sound": together they are `AgentsStayFit`.
  `ReplicatedKept` shows that `checkAuthorConfig`, told of the agents there are, finds none
  to create and none to delete.
- `ResizeProofs`: `TypeCorrect`; `Paced`, whose invariant counts the ticks there have
  been: those taken, the one that the channel may hold, and those dropped;
  `Bounded`, by adding up one limit for each instance; and
  `ResizingImplemented`, for lists of any length and order, from the cardinality of
  a sorted list's tail. `OrdinalsMatched` adds that, without strays, the tail is
  `Surplus`, by `SurplusUnique`; it is what `Sync` and `Replication` take for granted.

Only model-checked: everything about liveness (`Converges`, `EventuallyUsable`,
`EventuallyGone`, `EventuallySynced`, `EventuallyReplicated`), because the prover
has no rules for fairness and ENABLED. Of `Converges` and `EventuallyReplicated` it is
only the reaching that is not proved. Every invariant and action property that a
passing run checks, and every refinement, is a theorem, some of them under an
assumption about the disruptions that their run meets.

## What is not modelled, and why

- Two operators at once. deployment/deployment.yaml:9 asks for one replica, and
  there is no leader election; they could overlap while the operator is updated.
- Time, except in `Retry` and `Resize`: elsewhere a wait is an action that may come
  at any moment.
- How old the first list of a new process is, outside `Controller`: in `Sync`, `Instance` and
  `Replication` it may lag behind the API server but is taken to be no older than what
  the former process had seen. `ServingKeepsAgent` rests on it: an older list of pods
  may lack a publisher that is in service already, and `checkAuthorConfig` would then
  remove its agent, to be created again by a later sync.
- In `Replication`: an author that is scaled away (there is always to be one), the
  agent named "publish" that `checkPodInitialized` deletes, ingress and service of a
  publisher (`Instance` has them), and the properties of agents other than their
  password and whose they are.
- Contents of pods, services, ingresses and config maps; images, versions, instance
  types; logging; the simulator; generated code; client configuration;
  `CreateStorageClass`, which nothing calls.

## Plan

Done in this order, the behaviour that matters most first: `Ordinals`, `Sync` with
`Lifecycle`, their proofs; `Instance` with `Credential`, their proofs; `Controller`
and its proofs; `Reconciler`; `Replication`; `Retry` and `Resize` with `Resizing`;
their proofs. What is left would be

1. two operators on one instance, as an extension of `Instance`;
2. a composition of `Controller` and `Instance` around the secrets, in which
   `CleanUp` meets a half-made initialization.
