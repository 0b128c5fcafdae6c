------------------------------ MODULE Instance ------------------------------
(***************************************************************************)
(* What one author or publish instance consists of, and how the operator   *)
(* puts it together and takes it apart: addInstance and removeInstance     *)
(* (pkg/operator/instance.go) and checkPodInitialized (pkg/operator/       *)
(* sync.go), with the calls they make into pkg/k8s and pkg/secrets.        *)
(*                                                                         *)
(* Module Sync decides which instances there should be; here a user turns  *)
(* one of them on and off by scaling.  The worker sees that and the pod    *)
(* through informer caches, which lag behind.  Each call to the API        *)
(* server, to Vault or to the repository is an action of its own.          *)
(***************************************************************************)
EXTENDS Integers

CONSTANTS Passwords,       \* what GeneratePassword may return
          Disruptions,     \* the kinds of disruption that may happen
          MaxDisruptions   \* and how many of them: bounds the behaviours

\* scale:  a user scales the instance away, or back in.
\* fault:  a call of the worker fails, or succeeds and its answer is lost.
\* crash:  the operator process restarts.
\* delete: the pod is deleted behind the operator's back.
Kinds == {"scale", "fault", "crash", "delete"}

ASSUME InstanceAssumption == /\ {"none", "default"} \cap Passwords = {}
                             /\ Disruptions \subseteq Kinds
                             /\ MaxDisruptions \in Nat

VARIABLES
  want,          \* does the specification ask for this instance?
  (* the resources of the instance *)
  pod,           \* status, a uid for each creation, and the annotation
  claim,         \* the persistent volume claim
  service,       \* is there a service,
  ingress,       \* and an ingress, of its own?
  secret,        \* the password in Vault, or "none"
  admin,         \* the admin's password in the repository on the volume,
                 \* at first "default"
  (* the informer caches *)
  cachedWant,    \* the deployment's
  cachedPod,     \* the pod's,
  cacheCurrent,  \* and whether it has the pod's present resourceVersion
  (* the worker goroutine *)
  pc,            \* the call it makes next
  copy,          \* the pod in its podList
  copyCurrent,   \* has copy the pod's present resourceVersion?
  pwd,           \* its local variable of that name; "none" is the empty string
  (* bookkeeping of the model *)
  disruptions    \* how many disruptions have happened

resources == <<pod, claim, service, ingress, secret, admin>>
caches    == <<cachedWant, cachedPod, cacheCurrent>>
locals    == <<copy, pwd>>
worker    == <<pc, locals, copyCurrent>>
vars      == <<want, resources, caches, worker, disruptions>>

Statuses == {"absent", "starting", "ready", "terminating"}
Pods     == [status : Statuses, uid : Nat, annotated : BOOLEAN]
Claims   == {"absent", "pending", "bound", "terminating"}
Labels   == {"idle",
             "claim", "wait", "pod", "service", "ingress",
             "rmSecret", "rmIngress", "rmService", "rmClaim", "rmPod",
             "get", "put", "default", "retry", "annotate"}

NoPod == [status |-> "absent", uid |-> 0, annotated |-> FALSE]

TypeOK ==
  /\ want \in BOOLEAN
  /\ pod \in Pods
  /\ claim \in Claims
  /\ service \in BOOLEAN
  /\ ingress \in BOOLEAN
  /\ secret \in Passwords \cup {"none"}
  /\ admin \in Passwords \cup {"default"}
  /\ cachedWant \in BOOLEAN
  /\ cachedPod \in Pods
  /\ cacheCurrent \in BOOLEAN
  /\ pc \in Labels
  /\ copy \in Pods
  /\ copyCurrent \in BOOLEAN
  /\ pwd \in Passwords \cup {"none"}
  /\ disruptions \in 0..MaxDisruptions

\* The instance has just been asked for, and the caches have synced.
Init ==
  /\ want = TRUE
  /\ pod = NoPod
  /\ claim = "absent"
  /\ service = FALSE
  /\ ingress = FALSE
  /\ secret = "none"
  /\ admin = "default"
  /\ cachedWant = TRUE
  /\ cachedPod = NoPod
  /\ cacheCurrent = TRUE
  /\ pc = "idle"
  /\ copy = NoPod
  /\ copyCurrent = FALSE
  /\ pwd = "none"
  /\ disruptions = 0

Disrupt(kind) == /\ kind \in Disruptions
                 /\ disruptions < MaxDisruptions
                 /\ disruptions' = disruptions + 1

Calm == UNCHANGED disruptions

\* Whoever changes the pod outdates every copy of it.
ChangePod(p) == /\ pod' = p
                /\ cacheCurrent' = FALSE
                /\ copyCurrent' = FALSE

-----------------------------------------------------------------------------
(* The worker: which of the three passes it makes.                         *)

GoTo(label) == pc' = label /\ UNCHANGED locals

Return == /\ pc' = "idle"
          /\ copy' = NoPod
          /\ pwd' = "none"

\* A call that fails ends the pass; whether it has taken effect is open.
Fails(effect, unaffected) == /\ effect \/ unaffected
                             /\ Return
                             /\ Disrupt("fault")

\* What a pass over the pod list of the caches does first.  Only a listed pod
\* that isHealthy is initialized; a pass may find nothing to do.
FirstCall ==
  CASE cachedWant /\ cachedPod.status = "absent"  -> "claim"
    [] cachedWant /\ cachedPod.status = "ready"   -> "get"
    [] ~cachedWant /\ cachedPod.status # "absent" -> "rmSecret"
    [] OTHER                                      -> "idle"

BeginSync ==
  /\ pc = "idle"
  /\ pc' = FirstCall
  /\ IF pc' = "idle" THEN UNCHANGED <<copy, copyCurrent>>
                     ELSE copy' = cachedPod /\ copyCurrent' = cacheCurrent
  /\ UNCHANGED <<want, resources, caches, pwd, disruptions>>

-----------------------------------------------------------------------------
(* addInstance.  The first error ends it; resizeDeployment ignores it.     *)

\* CreateAndWaitPVC, the creation.  An AlreadyExists is as good.
CreateClaim ==
  /\ pc = "claim"
  /\ LET effect == IF claim = "absent"
                     THEN claim' = "pending" /\ admin' = "default"   \* an empty volume
                     ELSE UNCHANGED <<claim, admin>>
     IN \/ effect /\ GoTo("wait") /\ Calm
        \/ Fails(effect, UNCHANGED <<claim, admin>>)
  /\ UNCHANGED <<want, pod, service, ingress, secret, caches, copyCurrent>>

\* CreateAndWaitPVC, the poll: ten times, half a second apart.  A claim that is
\* being deleted still has the status Bound.
WaitForClaim ==
  /\ pc = "wait"
  /\ \/ claim \in {"bound", "terminating"} /\ GoTo("pod") /\ Calm
     \/ claim \in {"absent", "pending"} /\ Return /\ Calm
     \/ Return /\ Disrupt("fault")
  /\ UNCHANGED <<want, resources, caches, copyCurrent>>

\* A name that is taken, by a pod that is still terminating or one that the
\* cache does not show yet, is an error.
CreatePod ==
  /\ pc = "pod"
  /\ LET effect == ChangePod([status |-> "starting", uid |-> pod.uid + 1,
                              annotated |-> FALSE])
         unaffected == UNCHANGED <<pod, cacheCurrent, copyCurrent>>
     IN \/ pod.status = "absent" /\ effect /\ GoTo("service") /\ Calm
        \/ pod.status # "absent" /\ unaffected /\ Return /\ Calm
        \/ Fails(pod.status = "absent" /\ effect, unaffected)
  /\ UNCHANGED <<want, claim, service, ingress, secret, admin, cachedWant, cachedPod>>

\* CreateExternalEndpoint: a service, then an ingress.
CreateService ==
  /\ pc = "service"
  /\ \/ service' = TRUE /\ GoTo("ingress") /\ Calm
     \/ Fails(service' = TRUE, UNCHANGED service)
  /\ UNCHANGED <<want, pod, claim, ingress, secret, admin, caches, copyCurrent>>

CreateIngress ==
  /\ pc = "ingress"
  /\ \/ ingress' = TRUE /\ Return /\ Calm
     \/ Fails(ingress' = TRUE, UNCHANGED ingress)
  /\ UNCHANGED <<want, pod, claim, service, secret, admin, caches, copyCurrent>>

AddInstance == CreateClaim \/ WaitForClaim \/ CreatePod \/ CreateService \/ CreateIngress

-----------------------------------------------------------------------------
(* removeInstance.  Every error is ignored, and the next call is made.     *)

Remove(from, to, effect, unaffected) ==
  /\ pc = from
  /\ GoTo(to)
  /\ \/ effect /\ Calm
     \/ unaffected /\ Disrupt("fault")

\* A mutant: the pod is deleted first.
DeletePodFirst ==
  /\ pc = "rmSecret"
  /\ GoTo("rmIngress")
  /\ \/ pod.status = "absent" /\ UNCHANGED <<pod, cacheCurrent, copyCurrent>>
     \/ ChangePod([pod EXCEPT !.status = "terminating"])
  /\ UNCHANGED <<want, claim, service, ingress, secret, admin, cachedWant, cachedPod,
                 disruptions>>

\* The secret is looked up and deleted only if there is one.  Nobody else
\* writes it while the worker is here.
DeleteSecret ==
  /\ Remove("rmSecret", "rmIngress", secret' = "none", UNCHANGED secret)
  /\ UNCHANGED <<want, pod, claim, service, ingress, admin, caches, copyCurrent>>

DeleteIngress ==
  /\ Remove("rmIngress", "rmService", ingress' = FALSE, UNCHANGED ingress)
  /\ UNCHANGED <<want, pod, claim, service, secret, admin, caches, copyCurrent>>

DeleteService ==
  /\ Remove("rmService", "rmClaim", service' = FALSE, UNCHANGED service)
  /\ UNCHANGED <<want, pod, claim, ingress, secret, admin, caches, copyCurrent>>

\* A claim is kept until no pod uses it any more.
ClaimDeleted ==
  claim' = CASE claim = "bound"   -> "terminating"
             [] claim = "pending" -> "absent"
             [] OTHER             -> claim

\* A mutant: the volume is kept for the next instance of that name.
KeepClaim ==
  /\ pc = "rmClaim"
  /\ GoTo("rmPod")
  /\ UNCHANGED <<want, resources, caches, copyCurrent, disruptions>>

DeleteClaim ==
  /\ Remove("rmClaim", "rmPod", ClaimDeleted, UNCHANGED claim)
  /\ UNCHANGED <<want, pod, service, ingress, secret, admin, caches, copyCurrent>>

\* The pod goes last.  sync then carries on with its list, in which the pod it
\* has just deleted may be a healthy one, if announcing Resizing writes nothing,
\* as the phase is Resizing already, or is skipped, as a later runmode that had no pods
\* has reset updateStatus.
\* Otherwise it ends here: its second Update, of Running, is refused.
DeletePod ==
  /\ pc = "rmPod"
  /\ \/ /\ pod.status \in {"starting", "ready"}
        /\ ChangePod([pod EXCEPT !.status = "terminating"])
        /\ Calm
     \/ /\ pod.status \in {"absent", "terminating"}
        /\ UNCHANGED <<pod, cacheCurrent, copyCurrent>>
        /\ Calm
     \/ UNCHANGED <<pod, cacheCurrent, copyCurrent>> /\ Disrupt("fault")
  /\ Return \/ (copy.status = "ready" /\ GoTo("get"))
  /\ UNCHANGED <<want, claim, service, ingress, secret, admin, cachedWant, cachedPod>>

RemoveInstance == DeleteSecret \/ DeleteIngress \/ DeleteService \/ DeleteClaim \/ DeletePod

-----------------------------------------------------------------------------
(* checkPodInitialized, on the copy of the pod.                            *)

\* A mutant: no test for an empty password.
GetPasswordUntested ==
  /\ pc = "get"
  /\ IF copy.annotated THEN Return
                       ELSE pwd' = secret /\ pc' = "default" /\ UNCHANGED copy
  /\ UNCHANGED <<want, resources, caches, copyCurrent, disruptions>>

GetPassword ==
  /\ pc = "get"
  /\ \/ /\ ~copy.annotated
        /\ pwd' = secret
        /\ pc' = IF secret = "none" THEN "put" ELSE "default"
        /\ UNCHANGED copy
        /\ Calm
     \/ copy.annotated /\ Return /\ Calm
     \/ Return /\ Disrupt("fault")
  /\ UNCHANGED <<want, resources, caches, copyCurrent>>

\* A mutant: an error of Put is only logged.
PutPasswordOrLog ==
  /\ pc = "put"
  /\ \E p \in Passwords \ {admin} :
       /\ pwd' = p /\ pc' = "default" /\ UNCHANGED copy
       /\ (secret' = p /\ Calm) \/ (UNCHANGED secret /\ Disrupt("fault"))
  /\ UNCHANGED <<want, pod, claim, service, ingress, admin, caches, copyCurrent>>

\* GeneratePassword and Put.
PutPassword ==
  /\ pc = "put"
  /\ \E p \in Passwords \ {admin} :
       \/ secret' = p /\ pwd' = p /\ pc' = "default" /\ UNCHANGED copy /\ Calm
       \/ Fails(secret' = p, UNCHANGED secret)
  /\ UNCHANGED <<want, pod, claim, service, ingress, admin, caches, copyCurrent>>

\* The repository answers at the copy's address as long as that pod runs.
Reachable == pod.uid = copy.uid /\ pod.status \in {"ready", "terminating"}

Down == pod.uid # copy.uid \/ pod.status # "ready"

\* A mutant: a failed login with the default password ends the pass.
SetFromDefaultOnly ==
  /\ pc = "default"
  /\ \/ Reachable /\ admin = "default" /\ admin' = pwd /\ GoTo("retry") /\ Calm
     \/ (Down \/ admin # "default") /\ UNCHANGED admin /\ Return /\ Calm
     \/ UNCHANGED admin /\ Return /\ Disrupt("fault")
  /\ UNCHANGED <<want, pod, claim, service, ingress, secret, caches, copyCurrent>>

\* Log in with the default password and set the new one.  Failing to is no
\* error: the password may have been set before.
SetFromDefault ==
  /\ pc = "default"
  /\ GoTo("retry")
  /\ \/ Reachable /\ admin = "default" /\ admin' = pwd /\ Calm
     \/ (Down \/ admin # "default") /\ UNCHANGED admin /\ Calm
     \/ UNCHANGED admin /\ Disrupt("fault")
  /\ UNCHANGED <<want, pod, claim, service, ingress, secret, caches, copyCurrent>>

\* A mutant: an error of the second attempt is only logged.
SetAgainOrLog ==
  /\ pc = "retry"
  /\ GoTo("annotate")
  /\ Calm \/ Disrupt("fault")
  /\ UNCHANGED <<want, resources, caches, copyCurrent>>

\* The same with the new password, which must work by now.
SetAgain ==
  /\ pc = "retry"
  /\ \/ Reachable /\ admin = pwd /\ GoTo("annotate") /\ Calm
     \/ (Down \/ admin # pwd) /\ Return /\ Calm
     \/ Return /\ Disrupt("fault")
  /\ UNCHANGED <<want, resources, caches, copyCurrent>>

\* Pods(ns).Update(pod), refused when the pod has changed since it was listed.
Annotate ==
  /\ pc = "annotate"
  /\ Return
  /\ \/ /\ copyCurrent
        /\ ChangePod([pod EXCEPT !.annotated = TRUE])
        /\ Calm \/ Disrupt("fault")
     \/ /\ UNCHANGED <<pod, cacheCurrent, copyCurrent>>
        /\ (~copyCurrent /\ Calm) \/ Disrupt("fault")
  /\ UNCHANGED <<want, claim, service, ingress, secret, admin, cachedWant, cachedPod>>

Initialize == GetPassword \/ PutPassword \/ SetFromDefault \/ SetAgain \/ Annotate

Worker == BeginSync \/ AddInstance \/ RemoveInstance \/ Initialize

-----------------------------------------------------------------------------
(* Everybody else.                                                         *)

Scale == /\ Disrupt("scale")
         /\ want' = ~want
         /\ UNCHANGED <<resources, caches, worker>>

SetPod(from, to) ==
  /\ pod.status \in from
  /\ ChangePod([pod EXCEPT !.status = to,
                           !.annotated = (to # "absent" /\ pod.annotated)])
  /\ UNCHANGED <<want, claim, service, ingress, secret, admin, cachedWant, cachedPod,
                 pc, locals>>

\* A pod is started only on a claim that is bound and not being deleted.
PodReady   == claim = "bound" /\ SetPod({"starting"}, "ready") /\ Calm
PodGone    == SetPod({"terminating"}, "absent") /\ Calm
PodDeleted == SetPod({"starting", "ready"}, "terminating") /\ Disrupt("delete")

ClaimBound ==
  /\ claim = "pending"
  /\ claim' = "bound"
  /\ UNCHANGED <<want, pod, service, ingress, secret, admin, caches, worker, disruptions>>

\* The volume and the repository on it go with the claim.
ClaimGone ==
  /\ claim = "terminating"
  /\ pod.status \in {"absent", "starting"}
  /\ claim' = "absent"
  /\ admin' = "default"
  /\ UNCHANGED <<want, pod, service, ingress, secret, caches, worker, disruptions>>

ObserveWant ==
  /\ cachedWant # want
  /\ cachedWant' = want
  /\ UNCHANGED <<want, resources, cachedPod, cacheCurrent, worker, disruptions>>

ObservePod ==
  /\ ~cacheCurrent
  /\ cachedPod' = pod
  /\ cacheCurrent' = TRUE
  /\ UNCHANGED <<want, resources, cachedWant, worker, disruptions>>

\* The new process lists nothing older than what the former one had seen.
Crash ==
  /\ Disrupt("crash")
  /\ Return
  /\ copyCurrent' = FALSE
  /\ UNCHANGED <<want, resources, caches>>

Cluster == PodReady \/ PodGone \/ PodDeleted \/ ClaimBound \/ ClaimGone
Watch   == ObserveWant \/ ObservePod

Next == Worker \/ Scale \/ Cluster \/ Watch \/ Crash

Spec == Init /\ [][Next]_vars

\* The worker is handed the deployment again at every resync; the watches
\* deliver; volumes are provisioned, and what is deleted goes in the end.
Fairness ==
  /\ WF_vars(Worker)
  /\ WF_vars(ObserveWant)
  /\ WF_vars(ObservePod)
  /\ WF_vars(PodReady)
  /\ WF_vars(PodGone)
  /\ WF_vars(ClaimBound)
  /\ WF_vars(ClaimGone)

FairSpec == Spec /\ Fairness

-----------------------------------------------------------------------------
(* Properties.                                                             *)

\* While the instance is not scaled away, the password of its repository and
\* the one in Vault live as module Credential says: Vault has it first, and no
\* crash, failed call or new pod on the old volume makes the two differ.
Password == INSTANCE Credential WITH stored <- secret, accepted <- admin
ImplementsCredential == Password!Spec

\* A pod that says it is initialized runs on a repository that has taken the
\* password: the annotation is written last and lost with the pod.
InitializedIsSecured == pod.annotated => admin = secret

\* Once failures, crashes and deletions have stopped, the instance that is
\* asked for is up, and its repository has a password that Vault knows.
Usable == pod.status = "ready" /\ pod.annotated /\ admin = secret

EventuallyUsable == <>[](want => Usable)

\* While no call fails and nobody else deletes a pod, an instance that has part of
\* an endpoint has a pod that is not on its way out: wherever a crash interrupts
\* addInstance or removeInstance, what it leaves behind can still be found, since
\* instances are found by their pods.
Endpointless == ~service /\ ~ingress

EndpointHasPod == pod.status \in {"absent", "terminating"} => Endpointless

\* Under the same conditions the operator is not locked out of the repository of a
\* pod that runs and is not being removed, except by a crash in the middle of its
\* removal: scaling away and back at any time, with caches and lists that lag behind,
\* gives the new pod an empty repository, whose password the operator then keeps.
Removing  == pc \in {"rmSecret", "rmIngress", "rmService", "rmClaim", "rmPod"}
LockedOut == pod.status = "ready" /\ ~Removing /\ admin \notin {"default", secret}

OnlyCrashesLockOut == [][~LockedOut /\ LockedOut' => Crash /\ Removing]_vars

\* When scaling has stopped, an instance that is not asked for has no pod and
\* no endpoint left: removeInstance deletes the pod last, so that after a crash
\* the pod is still listed and the removal is made again.
EventuallyGone == <>[](~want => pod.status = "absent" /\ Endpointless)

-----------------------------------------------------------------------------
(* What comments of the repository say and the code does not do.           *)

\* instance.go:30, "removeInstance makes a cleanup deleting resources when a
\* pod is deleted".
EventuallyClean ==
  <>[](~want => /\ pod.status = "absent" /\ claim = "absent"
                /\ secret = "none" /\ Endpointless)

\* service.go:63, "CreateExternalEndpoint exposes a single instance by creating
\* a service and a ingress".
EventuallyExposed == <>[](want => service /\ ingress)

=============================================================================
