----------------------------- MODULE Replication -----------------------------
(***************************************************************************)
(* The replication agents of a deployment: checkAuthorConfig and           *)
(* checkPublishConfig (pkg/operator/sync.go), and as much of the rest of   *)
(* sync as they depend on.                                                 *)
(*                                                                         *)
(* The author pushes content to every publisher through an agent that is   *)
(* named after the publisher's pod and logs in with its password; every    *)
(* publisher flushes its dispatcher through an agent of its own.  sync     *)
(* decides what agents there should be from the pods it has listed at the  *)
(* start, after it has perhaps removed some of them, and while users scale *)
(* the publishers and pods come and go.                                    *)
(*                                                                         *)
(* There is always to be one author.  addInstance and removeInstance are   *)
(* taken apart into the calls that matter here; a call of                  *)
(* checkPodInitialized is one action (module Instance takes it apart), and *)
(* so is every request to a repository.                                    *)
(***************************************************************************)
EXTENDS Ordinals, FiniteSetsExt

CONSTANTS
  MaxReplicas,     \* the largest number of publishers
  Wants,           \* the numbers of publishers that a user may ask for
  Foreign,         \* agents in the author that the operator has not made
  Passwords,       \* what GeneratePassword may return
  MaxEdits,        \* how often users change that number
  Disruptions,     \* the kinds of disruption that may happen
  MaxDisruptions   \* and how many of them: bounds the behaviours

\* fault:  a call of the worker fails, or takes effect in part; or a password
\*         cannot be read.
\* crash:  the operator process restarts.
\* delete: a pod is deleted behind the operator's back.
Kinds == {"fault", "crash", "delete"}

\* The instances: the author is number 0, a publisher has its ordinal.
Publishers == 1..MaxReplicas
Members    == {0} \cup Publishers

ASSUME ReplicationAssumption ==
  /\ MaxReplicas \in Nat
  /\ Wants \subseteq 0..MaxReplicas
  /\ Wants # {}
  /\ Foreign \cap Publishers = {}
  /\ {"none", "absent", "default", "foreign"} \cap Passwords = {}
  /\ Passwords # {}
  /\ \A x, y \in Passwords : Passwords \ {x, y} # {}
  /\ MaxEdits \in Nat
  /\ Disruptions \subseteq Kinds
  /\ MaxDisruptions \in Nat

VARIABLES
  (* the cluster *)
  want,          \* the number of publishers asked for, as the informer has it
  pods,          \* the pod of each member
  secret,        \* the password of each publisher in Vault, or "none"
  admin,         \* the one its repository takes, at first "default"
  claim,         \* the claim for the volume that its repository is on
  agents,        \* each agent's password in the author, "none" if that is empty
  flush,         \* the publishers that have an agent for their dispatcher
  cachedPods,    \* the informer's cache of the pods
  (* the worker goroutine *)
  pc,            \* the call it makes next
  list,          \* podList, taken from the cache
  pending,       \* the members that resizeDeployment has still to handle
  resized,       \* has it had to handle any?
  todo,          \* the pods that have still to be initialized
  rest,          \* those whose configuration has still to be checked
  existing,      \* existingAgents, as the author has listed them
  (* bookkeeping of the model *)
  fate,          \* what the operator has done to each publisher
  edits,         \* how often users have changed the number of publishers
  disruptions    \* how many disruptions have happened

cluster == <<want, pods, secret, admin, claim, agents, flush>>
locals  == <<list, pending, resized, todo, rest, existing>>
vars    == <<cluster, cachedPods, pc, locals, fate, edits, disruptions>>

\* "initialized" is a ready pod with the annotation of checkPodInitialized.
Statuses == {"absent", "starting", "ready", "initialized", "terminating"}

\* What sync tells apart of the pods it lists.
Views == {"absent", "unhealthy", "ready", "initialized"}

\* A claim that is being deleted is kept for the pod that has mounted it.
ClaimStatuses == {"absent", "bound", "terminating"}

\* "cut":   removeInstance has begun with it since it was initialized last.
\* "heir":  it has been initialized anew while the agent of the publisher that
\*          was removed under its name was still there.
\* "sound": neither.
Fates == {"sound", "cut", "heir"}

NoPods == [m \in Members |-> "absent"]

TypeOK ==
  /\ want \in Wants
  /\ pods \in [Members -> Statuses]
  /\ secret \in [Publishers -> Passwords \cup {"none"}]
  /\ admin \in [Publishers -> Passwords \cup {"default"}]
  /\ claim \in [Publishers -> ClaimStatuses]
  /\ agents \in [Publishers \cup Foreign -> Passwords \cup {"none", "absent", "foreign"}]
  /\ flush \in SUBSET Publishers
  /\ cachedPods \in [Members -> Views]
  /\ pc \in {"idle", "resize", "create", "claim", "pod", "announce", "configure", "cleanup"}
  /\ list \in [Members -> Views]
  /\ pending \in SUBSET Members
  /\ resized \in BOOLEAN
  /\ todo \in SUBSET Members
  /\ rest \in SUBSET Members
  /\ existing \in SUBSET (Publishers \cup Foreign)
  /\ fate \in [Publishers -> Fates]
  /\ edits \in 0..MaxEdits
  /\ disruptions \in 0..MaxDisruptions

\* The deployment has just been created.  A fresh author has agents of its own.
Init ==
  /\ want \in Wants
  /\ pods = NoPods
  /\ secret = [p \in Publishers |-> "none"]
  /\ admin = [p \in Publishers |-> "default"]
  /\ claim = [p \in Publishers |-> "absent"]
  /\ agents = [a \in Publishers \cup Foreign |-> IF a \in Foreign THEN "foreign"
                                                                  ELSE "absent"]
  /\ flush = {}
  /\ cachedPods = NoPods
  /\ pc = "idle"
  /\ list = NoPods
  /\ pending = {}
  /\ resized = FALSE
  /\ todo = {}
  /\ rest = {}
  /\ existing = {}
  /\ fate = [p \in Publishers |-> "sound"]
  /\ edits = 0
  /\ disruptions = 0

Disrupt(kind) == /\ kind \in Disruptions
                 /\ disruptions < MaxDisruptions
                 /\ disruptions' = disruptions + 1

Calm == UNCHANGED disruptions

-----------------------------------------------------------------------------
(* The pods that sync works on.                                            *)

View == [m \in Members |-> IF pods[m] \in {"starting", "terminating"}
                             THEN "unhealthy" ELSE pods[m]]

Listed(view) == {m \in Members : view[m] # "absent"}

\* publishPods
Published == Listed(list) \ {0}

\* isHealthy
Healthy(status) == status \in {"ready", "initialized"}

\* A pod answers at its address while it runs, and perhaps while it is being
\* terminated.  A listed pod is never another one of the same name: sync creates
\* only pods that it has not listed.
Reachable(m) == pods[m] \in {"ready", "initialized", "terminating"}
Down(m)      == ~Healthy(pods[m])

\* Author first; authors only grow here.
ToResize(view, n) ==
  LET published == Listed(view) \ {0}
  IN ({0} \ Listed(view)) \cup IF Cardinality(published) < n
                                 THEN Missing(published, n)
                                 ELSE Surplus(published, n)

Return == /\ pc' = "idle"
          /\ list' = NoPods
          /\ pending' = {}
          /\ resized' = FALSE
          /\ todo' = {}
          /\ rest' = {}
          /\ existing' = {}

-----------------------------------------------------------------------------
(* From the list to the configuration.                                     *)

BeginSync ==
  /\ pc = "idle"
  /\ list' = cachedPods
  /\ pending' = ToResize(cachedPods, want)
  /\ resized' = (pending' # {})
  /\ pc' = IF resized' THEN "resize" ELSE "announce"
  /\ UNCHANGED <<cluster, cachedPods, todo, rest, existing, fate, edits, disruptions>>

\* resizeDeployment adds in ascending order, the author first, and removes in
\* descending order; it never does both to publishers.
Adding == Min(pending) \notin Listed(list)
Turn   == IF Adding THEN Min(pending) ELSE Max(pending)

NextCall(call) == /\ pc' = call
                  /\ UNCHANGED <<want, edits, agents, cachedPods, locals>>

Handled ==
  /\ pending' = pending \ {Turn}
  /\ pc' = IF pending' = {} THEN "announce" ELSE "resize"
  /\ UNCHANGED <<want, edits, agents, cachedPods, list, resized, todo, rest, existing>>

\* addInstance, CreateAndWaitPVC: a claim that is there already will do, and one
\* that is being deleted still has the status Bound.  An error ends addInstance.
\* The claim of the author, who is never removed, is left out.
TakeClaim ==
  /\ pc = "resize"
  /\ Adding
  /\ LET taken == claim' = [p \in Publishers |-> IF p = Turn /\ claim[p] = "absent"
                                                  THEN "bound" ELSE claim[p]]
     IN \/ taken /\ NextCall("create") /\ Calm
        \/ (taken \/ UNCHANGED claim) /\ Handled /\ Disrupt("fault")
  /\ UNCHANGED <<pods, secret, admin, flush, fate>>

\* addInstance: the pod is created unless its name is taken.
CreatePod ==
  /\ pc = "create"
  /\ Handled
  /\ \/ pods[Turn] = "absent" /\ pods' = [pods EXCEPT ![Turn] = "starting"] /\ Calm
     \/ pods[Turn] # "absent" /\ UNCHANGED pods /\ Calm
     \/ UNCHANGED pods /\ Disrupt("fault")
  /\ UNCHANGED <<secret, admin, claim, flush, fate>>

\* removeInstance: the secret, the claim and the pod.  Every error is ignored, and
\* the next call is made.  The secret stays as well if it cannot be read.
DeleteSecret ==
  /\ pc = "resize"
  /\ ~Adding
  /\ \/ secret' = [secret EXCEPT ![Turn] = "none"] /\ Calm
     \/ UNCHANGED secret /\ Disrupt("fault")
  /\ fate' = [fate EXCEPT ![Turn] = "cut"]
  /\ NextCall("claim")
  /\ UNCHANGED <<pods, admin, claim, flush>>

DeleteClaim ==
  /\ pc = "claim"
  /\ \/ claim' = [claim EXCEPT ![Turn] = IF @ = "bound" THEN "terminating" ELSE @] /\ Calm
     \/ UNCHANGED claim /\ Disrupt("fault")
  /\ NextCall("pod")
  /\ UNCHANGED <<pods, secret, admin, flush, fate>>

DeletePod ==
  /\ pc = "pod"
  /\ Handled
  /\ \/ /\ pods' = [pods EXCEPT ![Turn] = IF @ = "absent" THEN @ ELSE "terminating"]
        /\ Calm
     \/ UNCHANGED pods /\ Disrupt("fault")
  /\ UNCHANGED <<secret, admin, claim, flush, fate>>

AddInstance    == TakeClaim \/ CreatePod
RemoveInstance == DeleteSecret \/ DeleteClaim \/ DeletePod

\* A mutant: the publishers are forgotten.
UninitializedAuthor(view) == {m \in {0} : view[m] = "ready"}

\* The pods without the annotation.
Uninitialized(view) == {m \in Members : view[m] = "ready"}

\* The health check, and the status updates that module Sync is about.  An
\* update is refused if the object has changed since it was read: by the update
\* before, or by somebody else, which is a fault here.
Announce ==
  /\ pc = "announce"
  /\ \/ /\ Listed(list) # {}
        /\ \A m \in Listed(list) : Healthy(list[m])
        /\ todo' = Uninitialized(list)
        /\ rest' = Listed(list)
        /\ pc' = "configure"
        /\ UNCHANGED <<list, pending, resized, existing>>
        /\ Calm
     \/ /\ \/ Listed(list) = {}   \* nothing to go over
           \/ \E m \in Listed(list) : ~Healthy(list[m])
           \/ resized
        /\ Return
        /\ Calm
     \/ Return /\ Disrupt("fault")
  /\ UNCHANGED <<cluster, cachedPods, fate, edits>>

\* GeneratePassword: one that is not in use; which one makes no difference.
Fresh(p) == CHOOSE pwd \in Passwords : pwd # admin[p] /\ pwd # agents[p]

\* checkPodInitialized: store a password unless there is one, set it in the
\* repository, write the annotation.  The annotation is refused if the pod has
\* changed.  A step that fails ends the sync and leaves the steps before it.
InitAuthor ==
  /\ pc = "configure"
  /\ 0 \in todo
  /\ \/ /\ pods[0] = "ready"
        /\ pods' = [pods EXCEPT ![0] = "initialized"]
        /\ todo' = todo \ {0}
        /\ UNCHANGED <<pc, list, pending, resized, rest, existing>>
        /\ Calm
     \/ pods[0] # "ready" /\ UNCHANGED pods /\ Return /\ Calm
     \/ UNCHANGED pods /\ Return /\ Disrupt("fault")
  /\ UNCHANGED <<want, edits, secret, admin, claim, agents, flush, cachedPods, fate>>

AfterInit(p) == IF fate[p] # "cut" \/ claim[p] # "bound" THEN fate[p]
                ELSE IF agents[p] = "absent" THEN "sound" ELSE "heir"

InitPublisher(p) ==
  /\ pc = "configure"
  /\ p \in todo
  /\ LET pwd    == IF secret[p] = "none" THEN Fresh(p) ELSE secret[p]
         stored == secret' = [secret EXCEPT ![p] = pwd]
         set    == /\ stored
                   /\ Reachable(p)
                   /\ admin[p] \in {"default", pwd}
                   /\ admin' = [admin EXCEPT ![p] = pwd]
     IN \/ /\ set
           /\ pods[p] = "ready"
           /\ pods' = [pods EXCEPT ![p] = "initialized"]
           /\ fate' = [fate EXCEPT ![p] = AfterInit(p)]
           /\ todo' = todo \ {p}
           /\ UNCHANGED <<pc, list, pending, resized, rest, existing>>
           /\ Calm
        \/ /\ pods[p] # "ready"
           /\ set \/ (stored /\ Down(p) /\ UNCHANGED admin)
           /\ UNCHANGED <<pods, fate>> /\ Return /\ Calm
        \/ /\ admin[p] \notin {"default", pwd}
           /\ stored /\ UNCHANGED <<admin, pods, fate>> /\ Return /\ Calm
        \/ /\ set \/ (UNCHANGED admin /\ (stored \/ UNCHANGED secret))
           /\ UNCHANGED <<pods, fate>> /\ Return /\ Disrupt("fault")
  /\ UNCHANGED <<want, edits, claim, agents, flush, cachedPods>>

-----------------------------------------------------------------------------
(* The configuration.  The pods are visited in the order of the list, which *)
(* is arbitrary.                                                            *)

Checked(m) == \/ /\ rest # {m}
                 /\ rest' = rest \ {m}
                 /\ pc' = "configure"
                 /\ existing' = {}
                 /\ UNCHANGED <<list, pending, resized, todo>>
              \/ rest = {m} /\ Return

With(changed) == [a \in Publishers \cup Foreign |->
                    IF a \in DOMAIN changed THEN changed[a] ELSE agents[a]]

\* checkAuthorConfig, the first half: list the agents, and create one for each
\* listed publisher that has none, all in one request.  The error of looking a
\* password up is dropped, and the password empty.
CreateAgents ==
  /\ pc = "configure"
  /\ todo = {}
  /\ 0 \in rest
  /\ LET names == {a \in DOMAIN agents : agents[a] # "absent"}
         new   == Published \ names
     IN \/ /\ Reachable(0)
           /\ \/ agents' = With([p \in new |-> secret[p]]) /\ Calm
              \/ /\ Disrupt("fault")
                 /\ \E lost \in SUBSET new \ {{}} :
                      agents' = With([p \in new |-> IF p \in lost THEN "none" ELSE secret[p]])
           /\ existing' = names
           /\ pc' = "cleanup"
           /\ UNCHANGED <<list, pending, resized, todo, rest>>
        \/ Down(0) /\ UNCHANGED agents /\ Return /\ Calm
        \/ /\ \E made \in SUBSET new : agents' = With([p \in made |-> secret[p]])
           /\ Return
           /\ Disrupt("fault")
  /\ UNCHANGED <<want, edits, pods, secret, admin, claim, flush, cachedPods, fate>>

\* Two mutants: the property "grid" is not asked for; a publisher whose agent
\* exists does not make it to desiredAgents.
UnneededOfAnybody(names) == names \ Published
UnneededIfExisting(names) == names \ Foreign

\* The agents of the operator have the property "grid".
Unneeded(names) == (names \ Foreign) \ Published

\* The second half: remove the agents of publishers that are no longer listed.
RemoveAgents ==
  /\ pc = "cleanup"
  /\ LET old == Unneeded(existing)
     IN \/ /\ old = {} \/ Reachable(0)
           /\ agents' = With([a \in old |-> "absent"])
           /\ Checked(0)
           /\ Calm
        \/ old # {} /\ Down(0) /\ UNCHANGED agents /\ Return /\ Calm
        \/ /\ old # {}
           /\ \E gone \in SUBSET old : agents' = With([a \in gone |-> "absent"])
           /\ Return
           /\ Disrupt("fault")
  /\ UNCHANGED <<want, edits, pods, secret, admin, claim, flush, cachedPods, fate>>

\* checkPublishConfig registers the flush agents of ALL listed publishers, one
\* request each, and gives up at the first that fails; sync ignores that.  The
\* requests change nothing but the repositories they are sent to, so that they
\* are made in one step.
CheckPublishConfig(p) ==
  /\ pc = "configure"
  /\ todo = {}
  /\ p \in rest \ {0}
  /\ LET logsIn == {q \in Published : secret[q] = admin[q]}
     IN \E made \in SUBSET {q \in logsIn : Reachable(q)} :
          /\ flush' = flush \cup made
          /\ \/ made = Published /\ Calm
             \/ (\E q \in Published \ made : Down(q) \/ q \notin logsIn) /\ Calm
             \/ Disrupt("fault")
  /\ Checked(p)
  /\ UNCHANGED <<want, edits, pods, secret, admin, claim, agents, cachedPods, fate>>

Worker == \/ BeginSync \/ AddInstance \/ RemoveInstance \/ Announce
          \/ InitAuthor \/ CreateAgents \/ RemoveAgents
          \/ \E p \in Publishers : InitPublisher(p) \/ CheckPublishConfig(p)

-----------------------------------------------------------------------------
(* Everybody else.                                                         *)

Scale ==
  /\ edits < MaxEdits
  /\ edits' = edits + 1
  /\ want' \in Wants \ {want}
  /\ UNCHANGED <<pods, secret, admin, claim, agents, flush, cachedPods, pc, locals, fate,
                 disruptions>>

\* A pod does not start on a claim that is gone or being deleted.
PodReady(m) ==
  /\ pods[m] = "starting"
  /\ m \in Publishers => claim[m] = "bound"
  /\ pods' = [pods EXCEPT ![m] = "ready"]
  /\ UNCHANGED <<want, secret, admin, claim, agents, flush, cachedPods, pc, locals, fate,
                 edits, disruptions>>

PodGone(m) ==
  /\ pods[m] = "terminating"
  /\ pods' = [pods EXCEPT ![m] = "absent"]
  /\ UNCHANGED <<want, secret, admin, claim, agents, flush, cachedPods, pc, locals, fate,
                 edits, disruptions>>

PodDeleted(m) ==
  /\ Disrupt("delete")
  /\ pods[m] \in {"starting", "ready", "initialized"}
  /\ pods' = [pods EXCEPT ![m] = "terminating"]
  /\ UNCHANGED <<want, secret, admin, claim, agents, flush, cachedPods, pc, locals, fate,
                 edits>>

\* The volume goes with the claim, and the repository with the volume.
ClaimGone(p) ==
  /\ claim[p] = "terminating"
  /\ pods[p] \in {"absent", "starting"}
  /\ claim' = [claim EXCEPT ![p] = "absent"]
  /\ admin' = [admin EXCEPT ![p] = "default"]
  /\ flush' = flush \ {p}
  /\ UNCHANGED <<want, pods, secret, agents, cachedPods, pc, locals, fate, edits, disruptions>>

ObservePods ==
  /\ cachedPods # View
  /\ cachedPods' = View
  /\ UNCHANGED <<cluster, pc, locals, fate, edits, disruptions>>

\* The new process lists nothing older than what the former one had seen.
Crash ==
  /\ Disrupt("crash")
  /\ Return
  /\ UNCHANGED <<cluster, cachedPods, fate, edits>>

Kubelet == \/ \E m \in Members : PodReady(m) \/ PodGone(m) \/ PodDeleted(m)
           \/ \E p \in Publishers : ClaimGone(p)

Next == Worker \/ Scale \/ Kubelet \/ ObservePods \/ Crash

Spec == Init /\ [][Next]_vars

\* The worker is handed the deployment again at every resync; the watches
\* deliver; pods start and end, and claims go.  Disruptions owe nothing.
Fairness ==
  /\ WF_vars(Worker)
  /\ WF_vars(ObservePods)
  /\ \A m \in Members : WF_vars(PodReady(m)) /\ WF_vars(PodGone(m))
  /\ \A p \in Publishers : WF_vars(ClaimGone(p))

FairSpec == Spec /\ Fairness

-----------------------------------------------------------------------------
(* Properties.                                                             *)

\* The agent that is created for a publisher logs in to it, although its password
\* is looked up after the pods were listed: the repository has taken that password
\* by then.  It is empty if the lookup fails, and may be anything if removeInstance
\* has begun with the publisher since that was initialized.
AgentsFit ==
  [][\A p \in Publishers :
       agents[p] = "absent" /\ agents'[p] # "absent" =>
         \/ agents'[p] = admin[p]
         \/ agents'[p] = "none" /\ disruptions' # disruptions
         \/ fate[p] = "cut"]_vars

\* The agent of a publisher that is never scaled away keeps fitting, whatever
\* pods come and go: nothing gives the repository another password.
Lasting == {p \in Publishers : \A n \in Wants : p <= n}

AgentsKeepFitting ==
  \A p \in Lasting : agents[p] \notin {"absent", "none"} => agents[p] = admin[p]

\* An agent is removed only if its publisher has not been taken into service,
\* from a list that may be older than the publisher's pod.
ServingKeepsAgent ==
  [][\A p \in Publishers :
       agents[p] # "absent" /\ agents'[p] = "absent" => pods[p] # "initialized"]_vars

\* There are as many publishers as asked for.
Counted == Cardinality(Listed(pods) \ {0}) = want

\* An agent that is there logs in, or is empty, because a lookup has failed; one
\* that a publisher has from its predecessor, or from the time between two calls
\* of removeInstance, may have any password.  None is ever corrected.
Served(p) == /\ agents[p] # "absent"
             /\ fate[p] = "sound" => agents[p] \in {admin[p], "none"}

\* Its removal has left it running without its secret: the request for its
\* flush agent fails, and with it those that checkPublishConfig has yet to make.
Robbed(p) == pods[p] = "initialized" /\ secret[p] # admin[p]

\* The author replicates to every publisher and to nobody else, each of them
\* flushes its dispatcher, and the agents that are not the operator's are as they
\* were.
Replicated ==
  /\ pods[0] = "initialized"
  /\ Counted
  /\ \A p \in Publishers :
       \/ /\ pods[p] = "initialized" /\ Served(p)
          /\ p \in flush \/ \E q \in Publishers : Robbed(q)
       \/ pods[p] = "absent" /\ agents[p] = "absent" /\ claim[p] # "terminating"
  /\ \A a \in Foreign : agents[a] = "foreign"

\* A publisher that has been removed in part, or added again too soon, may never
\* get into service, and every sync gives up at it: it waits for a volume that is
\* gone, or its repository has a password that Vault has not.
Stranded(p)  == pods[p] = "starting" /\ claim[p] = "absent"
LockedOut(p) == pods[p] = "ready" /\ admin[p] \notin {"default", secret[p]}

Blocked == \E p \in Publishers : fate[p] = "cut" /\ (Stranded(p) \/ LockedOut(p))

\* Once users and disruptions have stopped there are as many publishers as asked
\* for, and all is replicated, unless the removal of one of them blocks it.
EventuallyReplicated == <>[](Counted /\ (Replicated \/ Blocked))

\* It takes a user or a disruption to undo that.  Once the cache and a sync that is under
\* way know of it, sync after sync looks at every agent and changes none of them,
\* nor any pod, claim, secret or repository.
Informed == /\ cachedPods = View
            /\ pending = {} /\ ~resized /\ todo = {}
            /\ pc \in {"idle", "announce", "configure", "cleanup"}
            /\ pc # "idle" => list = View
            /\ pc = "cleanup" => \A a \in existing : agents[a] # "absent"

StaysReplicated ==
  [][Replicated /\ Informed /\ Calm /\ UNCHANGED edits =>
       /\ (Replicated /\ Informed)'
       /\ UNCHANGED <<pods, secret, admin, claim, agents>>
       /\ UNCHANGED flush \/ \E q \in Publishers : Robbed(q)]_vars

=============================================================================
