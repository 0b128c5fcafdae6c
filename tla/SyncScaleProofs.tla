--------------------------- MODULE SyncScaleProofs --------------------------
(***************************************************************************)
(* Proofs about the instances that module Sync creates and deletes.        *)
(***************************************************************************)
EXTENDS SyncProofs, OrdinalsProofs

\* Every ordinal that Balance hands to resizeDeployment is on the right side
\* of the desired count, and there is at least one.
LEMMA ToResizeBounds ==
  ASSUME TypeOK, NEW m \in Modes,
         Cardinality(Listed(list, m)) # Desired(m)
  PROVE  /\ ToResize(m) # {}
         /\ \A i \in ToResize(m) : Growing(m) <=> i <= Desired(m)
<1> DEFINE S == Listed(list, m)
           d == Desired(m)
<1>1. IsFiniteSet(S) /\ Cardinality(S) \in Nat
  BY ListedFinite
<1>2. \A x \in S : x \in Nat \ {0} /\ x \in Int
  BY SyncAssumption DEF Listed, Ordinals
<1>3. d \in Nat
  BY ToResizeType, SyncAssumption
<1>4. Growing(m) <=> Cardinality(S) < d
  BY DEF Growing
<1>5. ToResize(m) = IF Growing(m) THEN Missing(S, d) ELSE Surplus(S, d)
  BY DEF ToResize
<1> HIDE DEF S, d
<1>6. CASE Growing(m)
  <2>1. Missing(S, d) # {}
    BY <1>1, <1>3, <1>4, <1>6, MissingNonempty
  <2>2. \A i \in Missing(S, d) : i <= d
    BY <1>3 DEF Missing
  <2> QED
    BY <1>5, <1>6, <2>1, <2>2 DEF d
<1>7. CASE ~Growing(m)
  <2>1. Cardinality(S) > d
    BY <1>1, <1>3, <1>4, <1>7 DEF S, d
  <2>2. Surplus(S, d) # {}
    BY <1>1, <1>2, <1>3, <2>1, SurplusNonempty
  <2>3. \A i \in Surplus(S, d) : i > d
    BY <1>1, <1>2, <1>3, SurplusAbove
  <2>4. \A i \in Surplus(S, d) : i \in Nat
    BY <1>2 DEF Surplus
  <2>5. \A i \in Surplus(S, d) : ~(i <= d)
    BY <1>3, <2>3, <2>4
  <2> QED
    BY <1>5, <1>7, <2>2, <2>5 DEF d
<1> QED
  BY <1>6, <1>7

\* AddInstance and RemoveInstance work on one of the pending ordinals.
LEMMA TurnPending ==
  ASSUME TypeOK, pending # {}
  PROVE  /\ \A j \in pending : j \in Int
         /\ Turn \in pending
<1>1. IsFiniteSet(Ordinals) /\ pending \subseteq Ordinals
  BY SyncAssumption, FS_Interval DEF Ordinals, TypeOK
<1>2. IsFiniteSet(pending)
  BY <1>1, FS_Subset
<1>3. \A j \in pending : j \in Int
  BY <1>1, SyncAssumption DEF Ordinals
<1> QED
  BY <1>2, <1>3, MinMember, MaxMember DEF Turn

LEMMA InitResizes == Init => ResizesWithinBounds
  BY DEF Init, ResizesWithinBounds

LEMMA NextResizes ==
  ASSUME TypeOK, ResizesWithinBounds, [Next]_vars
  PROVE  ResizesWithinBounds'
<1> USE DEF api, caches, locals, worker
<1>1. CASE Balance
  <2>1. CASE Cardinality(Listed(list, mode)) # Desired(mode)
    <3>1. /\ mode \in Modes /\ pending' = ToResize(mode)
          /\ UNCHANGED <<mode, dep, list>>
      BY <1>1, <2>1 DEF Balance
    <3>2. /\ Desired(mode)' = Desired(mode)
          /\ Growing(mode)' = Growing(mode)
      BY <3>1 DEF Desired, Growing, Listed
    <3> QED
      BY <2>1, <3>1, <3>2, ToResizeBounds DEF ResizesWithinBounds, Growing, Desired, Listed
  <2>2. CASE Cardinality(Listed(list, mode)) = Desired(mode)
    BY <1>1, <2>2 DEF Balance, ResizesWithinBounds
  <2> QED
    BY <2>1, <2>2
<1>2. CASE AddInstance \/ RemoveInstance
  <2>1. /\ pc \in {"instances", "pod"}
        /\ UNCHANGED locals \/ \E i : Handled(i)
    BY <1>2 DEF AddInstance, TakeClaim, CreatePod, RemoveInstance, DeleteClaim, DeletePod
  <2>2. CASE UNCHANGED locals
    BY <2>1, <2>2 DEF ResizesWithinBounds, Growing, Desired, Listed
  <2>3. CASE (\E i : Handled(i)) /\ pending' = {}
    BY <2>1, <2>3 DEF Handled, ResizesWithinBounds
  <2>4. CASE (\E i : Handled(i)) /\ pending' # {}
    BY <2>1, <2>4 DEF Handled, ResizesWithinBounds, Growing, Desired, Listed
  <2> QED
    BY <2>1, <2>2, <2>3, <2>4
<1>3. CASE pc' \notin {"instances", "pod"}
  BY <1>3 DEF ResizesWithinBounds
<1>4. CASE UNCHANGED <<pc, locals>>
  BY <1>4 DEF ResizesWithinBounds, Growing, Desired, Listed
<1>5. CASE BeginSync \/ CreateServices \/ SetUpConfigMaps \/ AnnounceCreating
           \/ ListPods \/ AnnounceResizing \/ AnnounceRunning \/ Configure \/ Crash
  <2>1. pc' \notin {"instances", "pod"}
    BY <1>5 DEF BeginSync, CreateServices, SetUpConfigMaps, CreateBase, Return,
                AnnounceCreating, ListPods, AnnounceResizing, AnnounceRunning,
                GoOn, Configure, Crash
  <2> QED
    BY <1>3, <2>1
<1>6. CASE User \/ Kubelet \/ Garbage \/ Watch \/ UNCHANGED vars
  <2>1. UNCHANGED <<pc, locals>>
    BY <1>6 DEF User, UserEdits, UserDeletes, UserCreates, ChangeObj,
                Kubelet, PodStep, PodStarted, PodReady, PodGone, PodUnready, PodDeleted,
                PodEvicted, ClaimGone,
                Garbage, CollectPod, CollectClaim, CollectBase, SetPod,
                Watch, ObserveObj, ObservePods, vars
  <2> QED
    BY <1>4, <2>1
<1> QED
  BY <1>1, <1>2, <1>5, <1>6 DEF Next, Worker

\* Whatever has happened, resizeDeployment never has an ordinal on the wrong
\* side of the desired count in hand.
THEOREM ResizesBounded == Spec => []ResizesWithinBounds
<1>1. Init => TypeOK /\ ResizesWithinBounds
  BY InitTypeOK, InitResizes
<1>2. (TypeOK /\ ResizesWithinBounds) /\ [Next]_vars => (TypeOK /\ ResizesWithinBounds)'
  BY NextTypeOK, NextResizes
<1> QED
  BY <1>1, <1>2, PTL DEF Spec

\* The action of property ShrinkKeepsWanted.
KeepsWanted ==
  \A n \in Names :
    (pending' # pending /\ pods'[n] = "terminating" /\ pods[n] # "terminating")
      => n[2] > Desired(n[1])

LEMMA StepKeepsWanted ==
  ASSUME TypeOK, ResizesWithinBounds, [Next]_vars
  PROVE  KeepsWanted
<1> USE DEF api, caches, locals, worker
<1>1. CASE DeletePod
  <2>1. /\ mode \in Modes /\ pending # {}
        /\ \A j \in pending : ~(j <= Desired(mode))
    BY <1>1 DEF DeletePod, ResizesWithinBounds
  <2>2. Turn \in pending /\ \A j \in pending : j \in Int
    BY <2>1, TurnPending
  <2>3. \/ pods' = [pods EXCEPT ![<<mode, Turn>>] = "terminating"]
        \/ UNCHANGED pods
    BY <1>1 DEF DeletePod
  <2>4. Turn \in Int /\ Desired(mode) \in Int /\ ~(Turn <= Desired(mode))
    BY <2>1, <2>2, ToResizeType, SyncAssumption
  <2>5. Turn > Desired(mode)
    BY <2>4
  <2>6. ASSUME NEW n \in Names, pods'[n] = "terminating", pods[n] # "terminating"
        PROVE  n = <<mode, Turn>>
    BY <2>3, <2>6 DEF TypeOK
  <2> QED
    BY <2>5, <2>6 DEF KeepsWanted
<1>2. CASE CreatePod
  <2>1. \E n : pods' = [pods EXCEPT ![n] = "starting"] \/ UNCHANGED pods
    BY <1>2 DEF CreatePod
  <2> QED
    BY <2>1 DEF KeepsWanted, TypeOK
<1>3. CASE BeginSync \/ CreateServices \/ SetUpConfigMaps \/ AnnounceCreating
           \/ ListPods \/ Balance \/ AnnounceResizing \/ AnnounceRunning
           \/ TakeClaim \/ DeleteClaim \/ Configure \/ Crash
  <2>1. UNCHANGED pods
    BY <1>3 DEF BeginSync, CreateServices, SetUpConfigMaps, CreateBase,
                AnnounceCreating, ListPods, Balance, AnnounceResizing,
                AnnounceRunning, TakeClaim, DeleteClaim, Configure, Crash
  <2> QED
    BY <2>1 DEF KeepsWanted
<1>4. CASE User \/ Kubelet \/ Garbage \/ Watch \/ UNCHANGED vars
  <2>1. UNCHANGED pending
    BY <1>4 DEF User, UserEdits, UserDeletes, UserCreates, ChangeObj,
                Kubelet, PodStep, PodStarted, PodReady, PodGone, PodUnready, PodDeleted,
                PodEvicted, ClaimGone,
                Garbage, CollectPod, CollectClaim, CollectBase, SetPod,
                Watch, ObserveObj, ObservePods, vars
  <2> QED
    BY <2>1 DEF KeepsWanted
<1> QED
  BY <1>1, <1>2, <1>3, <1>4 DEF Next, Worker, AddInstance, RemoveInstance

\* removeInstance is never called for an instance within the desired count,
\* for any number of replicas and however stale the listed pods are.
THEOREM WantedKept == Spec => ShrinkKeepsWanted
<1>1. TypeOK /\ ResizesWithinBounds /\ [Next]_vars => KeepsWanted
  BY StepKeepsWanted
<1> QED
  BY <1>1, TypeCorrect, ResizesBounded, PTL
  DEF Spec, ShrinkKeepsWanted, KeepsWanted

-----------------------------------------------------------------------------
(* While nobody edits or recreates the deployment, all copies of it agree   *)
(* on what is wanted, and only wanted pods exist.                           *)

Undisturbed == Disruptions \cap {"edit", "recreate"} = {}

SteadyInv == /\ obj.exists
             /\ cachedObj.spec = obj.spec
             /\ pc # "idle" => dep.exists /\ dep.spec = obj.spec
             /\ OnlyWantedPods

LEMMA InitSteady == Init => SteadyInv
<1> SUFFICES ASSUME Init PROVE SteadyInv
  OBVIOUS
<1>1. obj.exists
  BY DEF Init
<1>2. \A n \in Names : pods[n] = "absent"
  BY DEF Init, NoPods
<1> QED
  BY <1>1, <1>2 DEF Init, SteadyInv, OnlyWantedPods

\* A pod that appears is one of those wanted; any other change of a pod keeps
\* it within what OnlyWantedPods allows.
LEMMA WantedPodsStep ==
  ASSUME TypeOK, SteadyInv, obj'.spec = obj.spec,
         NEW n \in Names, NEW to, pods' = [pods EXCEPT ![n] = to],
         pods[n] # "absent" \/ n[2] <= obj.spec.replicas[n[1]]
  PROVE  OnlyWantedPods'
<1>1. ASSUME NEW k \in Names, pods'[k] # "absent"
      PROVE  k[2] <= obj'.spec.replicas[k[1]]
  <2>1. CASE k = n
    BY <2>1 DEF SteadyInv, OnlyWantedPods
  <2>2. CASE k # n
    BY <1>1, <2>2 DEF SteadyInv, OnlyWantedPods, TypeOK
  <2> QED
    BY <2>1, <2>2
<1> QED
  BY <1>1 DEF OnlyWantedPods

LEMMA UpdateKeepsSpec ==
  ASSUME TypeOK, SteadyInv, pc # "idle", NEW ph, NEW a, Update(ph, a)
  PROVE  obj'.exists /\ obj'.spec = obj.spec
<1>1. CASE Accepts /\ Store(ph)
  <2>1. obj' = [dep EXCEPT !.phase = ph]
    BY <1>1 DEF Store
  <2>2. obj'.exists = dep.exists /\ obj'.spec = dep.spec
    BY <2>1 DEF TypeOK, Objects
  <2> QED
    BY <2>2 DEF SteadyInv
<1>2. CASE UNCHANGED <<obj, cacheCurrent>>
  BY <1>2 DEF SteadyInv
<1> QED
  BY <1>1, <1>2 DEF Update

\* Every step of an undisturbed deployment that leaves the pods alone.
LEMMA SteadyElsewhere ==
  ASSUME SteadyInv, UNCHANGED pods, obj'.exists, obj'.spec = obj.spec,
         cachedObj'.spec = obj.spec,
         pc' # "idle" => dep'.exists /\ dep'.spec = obj.spec
  PROVE  SteadyInv'
  BY DEF SteadyInv, OnlyWantedPods

LEMMA NextSteady ==
  ASSUME Undisturbed, TypeOK, ResizesWithinBounds, SteadyInv, [Next]_vars
  PROVE  SteadyInv'
<1> USE DEF api, caches, locals, worker
<1>1. CASE BeginSync
  BY <1>1, SteadyElsewhere DEF BeginSync, SteadyInv
<1>2. CASE CreateServices \/ SetUpConfigMaps \/ ListPods \/ Balance \/ Configure
  <2>1. /\ UNCHANGED <<obj, pods, cachedObj>>
        /\ pc # "idle"
        /\ pc' = "idle" \/ UNCHANGED dep
    BY <1>2 DEF CreateServices, SetUpConfigMaps, CreateBase, Return, ListPods,
                Balance, Configure
  <2> QED
    BY <2>1, SteadyElsewhere DEF SteadyInv
<1>3. CASE AnnounceCreating \/ AnnounceResizing \/ AnnounceRunning
  <2>1. /\ pc # "idle"
        /\ UNCHANGED obj \/ \E ph, a : Update(ph, a)
        /\ pc' = "idle" \/ \E ph : KeepCopy(ph)
        /\ UNCHANGED <<pods, cachedObj>>
    BY <1>3 DEF AnnounceCreating, AnnounceResizing, AnnounceRunning, GoOn, Return
  <2>2. obj'.exists /\ obj'.spec = obj.spec
    BY <2>1, UpdateKeepsSpec DEF SteadyInv
  <2>3. pc' # "idle" => dep'.exists = dep.exists /\ dep'.spec = dep.spec
    BY <2>1 DEF KeepCopy, TypeOK, Objects
  <2> QED
    BY <2>1, <2>2, <2>3, SteadyElsewhere DEF SteadyInv
<1>4. CASE AddInstance \/ RemoveInstance
  <2>1. /\ pc \in {"instances", "pod"}
        /\ UNCHANGED <<obj, cachedObj, dep>>
    BY <1>4 DEF AddInstance, TakeClaim, CreatePod, RemoveInstance, DeleteClaim,
                DeletePod, Handled
  <2>2. CASE UNCHANGED pods
    BY <2>1, <2>2, SteadyElsewhere DEF SteadyInv
  <2>3. CASE pods' # pods
    <3>1. /\ mode \in Modes /\ pending # {} /\ pending \subseteq Ordinals
          /\ \A i \in pending : Growing(mode) <=> i <= Desired(mode)
      BY <2>1 DEF ResizesWithinBounds, TypeOK
    <3>2. Turn \in pending
      BY <3>1, TurnPending
    <3>3. PICK to \in Statuses :
            /\ pods' = [pods EXCEPT ![<<mode, Turn>>] = to]
            /\ Growing(mode) \/ pods[<<mode, Turn>>] # "absent"
      BY <1>4, <2>3 DEF AddInstance, TakeClaim, CreatePod, RemoveInstance,
                        DeleteClaim, DeletePod, Statuses
    <3>4. <<mode, Turn>> \in Names
      BY <3>1, <3>2 DEF Names
    <3>5. Growing(mode) => Turn <= obj.spec.replicas[mode]
      BY <2>1, <3>1, <3>2 DEF SteadyInv, Desired
    <3>6. OnlyWantedPods'
      BY <2>1, <3>3, <3>4, <3>5, WantedPodsStep
    <3> QED
      BY <2>1, <3>6 DEF SteadyInv
  <2> QED
    BY <2>2, <2>3
<1>5. CASE User
  BY <1>5 DEF User, UserEdits, UserDeletes, UserCreates, Disrupt, Undisturbed, SteadyInv
<1>6. CASE \E n \in Names : PodStep(n) \/ CollectPod(n)
  <2>1. PICK n \in Names : \E from, to : SetPod(n, from, to) /\ "absent" \notin from
    BY <1>6 DEF PodStep, PodStarted, PodReady, PodGone, PodUnready, PodDeleted,
                PodEvicted, CollectPod, Alive
  <2>2. PICK to :
          /\ UNCHANGED <<obj, caches, worker>>
          /\ pods' = [pods EXCEPT ![n] = to]
          /\ pods[n] # "absent"
    BY <2>1 DEF SetPod
  <2>3. OnlyWantedPods'
    BY <2>2, WantedPodsStep
  <2> QED
    BY <2>2, <2>3 DEF SteadyInv
<1>7. CASE \/ \E n \in Names : ClaimGone(n) \/ CollectClaim(n)
           \/ \E b \in Base : CollectBase(b)
           \/ Watch
           \/ UNCHANGED vars
  <2>1. /\ UNCHANGED <<obj, pods, pc, dep>>
        /\ cachedObj' \in {cachedObj, obj}
    BY <1>7 DEF ClaimGone, CollectClaim, CollectBase, Watch, ObserveObj, ObservePods,
                vars
  <2> QED
    BY <2>1, SteadyElsewhere DEF SteadyInv
<1>8. CASE Crash
  BY <1>8, SteadyElsewhere DEF Crash, Return, SteadyInv
<1> QED
  BY <1>1, <1>2, <1>3, <1>4, <1>5, <1>6, <1>7, <1>8
  DEF Next, Worker, Kubelet, Garbage

\* Nobody changes what is wanted.
LEMMA SteadySpec ==
  ASSUME Undisturbed, TypeOK, SteadyInv, [Next]_vars
  PROVE  obj'.spec = obj.spec
<1>1. CASE AnnounceCreating \/ AnnounceResizing \/ AnnounceRunning
  <2>1. pc # "idle" /\ (UNCHANGED obj \/ \E ph, a : Update(ph, a))
    BY <1>1 DEF AnnounceCreating, AnnounceResizing, AnnounceRunning
  <2> QED
    BY <2>1, UpdateKeepsSpec
<1>2. CASE ~(AnnounceCreating \/ AnnounceResizing \/ AnnounceRunning)
  BY <1>2 DEF Undisturbed, SteadyInv, Disrupt, api, caches, worker, locals,
     Next, vars, Worker, BeginSync, CreateServices, SetUpConfigMaps, CreateBase,
     ListPods, Balance, AddInstance, TakeClaim, CreatePod,
     RemoveInstance, DeleteClaim, DeletePod, Configure,
     User, UserEdits, UserDeletes, UserCreates, ChangeObj,
     Kubelet, PodStep, PodStarted, PodReady, PodGone, PodUnready, PodDeleted,
     PodEvicted, ClaimGone, Garbage, CollectPod, CollectClaim, CollectBase,
     SetPod, Watch, ObserveObj, ObservePods, Crash
<1> QED
  BY <1>1, <1>2

\* While nobody edits or recreates the deployment, sync creates no pod beyond
\* those wanted, after any number of crashes, failed calls, evictions and
\* deletions behind its back.
THEOREM SteadyPods ==
  ASSUME Undisturbed
  PROVE  Spec => []OnlyWantedPods
<1>1. Init => SteadyInv
  BY InitSteady
<1>2. TypeOK /\ ResizesWithinBounds /\ SteadyInv /\ [Next]_vars => SteadyInv'
  BY NextSteady
<1>3. SteadyInv => OnlyWantedPods
  BY DEF SteadyInv
<1> QED
  BY <1>1, <1>2, <1>3, TypeCorrect, ResizesBounded, PTL DEF Spec

-----------------------------------------------------------------------------
(* While the deployment is not recreated, its phase leaves the empty one    *)
(* only after its headless service and its config map have been created.    *)

NotRecreated == "recreate" \notin Disruptions

\* Nothing is set up before the first sync, and sync goes through its set-up
\* in order; nobody's copy shows a phase before both objects exist.
SetUpInv ==
  /\ obj.exists /\ obj.uid = 1 /\ cachedObj.uid = 1
  /\ pc # "idle" => dep.exists /\ dep.uid = 1
  /\ \A b \in Base : base[b] \in {0, 1}
  /\ pc \in {"configmaps", "creating"} => base["service"] # 0
  /\ pc = "creating" => base["configmap"] # 0
  /\ \/ \A b \in Base : base[b] # 0
     \/ /\ obj.phase = "None" /\ cachedObj.phase = "None"
        /\ pc \in {"idle", "services", "configmaps"}

LEMMA InitSetUp == Init => SetUpInv
<1> SUFFICES ASSUME Init PROVE SetUpInv
  OBVIOUS
<1>1. obj.exists /\ obj.uid = 1 /\ obj.phase = "None"
  BY DEF Init
<1> QED
  BY <1>1 DEF Init, SetUpInv

LEMMA NextSetUp ==
  ASSUME NotRecreated, TypeOK, SetUpInv, [Next]_vars
  PROVE  SetUpInv'
<1> USE DEF api, caches, locals, worker
<1>1. CASE BeginSync
  BY <1>1 DEF BeginSync, SetUpInv
<1>2. CASE CreateServices
  <2>1. /\ pc = "services" /\ UNCHANGED <<obj, cachedObj>>
        /\ \/ Created("service") /\ pc' = "configmaps" /\ UNCHANGED dep
           \/ (Created("service") \/ UNCHANGED base) /\ Return
    BY <1>2 DEF CreateServices, CreateBase
  <2>2. CASE Created("service")
    <3>1. base' = [base EXCEPT !["service"] = 1]
      BY <2>1, <2>2 DEF Created, SetUpInv, Base
    <3> QED
      BY <2>1, <3>1 DEF SetUpInv, Return, Base, TypeOK
  <2>3. CASE UNCHANGED base
    BY <2>1, <2>3 DEF SetUpInv, Return, Created, Base, TypeOK
  <2> QED
    BY <2>1, <2>2, <2>3
<1>3. CASE SetUpConfigMaps
  <2>1. /\ pc = "configmaps" /\ UNCHANGED <<obj, cachedObj>>
        /\ \/ Created("configmap") /\ pc' = "creating" /\ UNCHANGED dep
           \/ (Created("configmap") \/ UNCHANGED base) /\ Return
    BY <1>3 DEF SetUpConfigMaps, CreateBase
  <2>2. CASE Created("configmap")
    <3>1. base' = [base EXCEPT !["configmap"] = 1]
      BY <2>1, <2>2 DEF Created, SetUpInv, Base
    <3> QED
      BY <2>1, <3>1 DEF SetUpInv, Return, Base, TypeOK
  <2>3. CASE UNCHANGED base
    BY <2>1, <2>3 DEF SetUpInv, Return, Created, Base, TypeOK
  <2> QED
    BY <2>1, <2>2, <2>3
<1>4. CASE AnnounceCreating \/ AnnounceResizing \/ AnnounceRunning
  <2>1. /\ pc \notin {"idle", "services", "configmaps"}
        /\ UNCHANGED obj \/ \E ph, a : Update(ph, a)
        /\ \/ pc' = "idle"
           \/ pc' \in {"list", "configure", "running"} /\ \E ph : KeepCopy(ph)
        /\ UNCHANGED <<base, cachedObj>>
    BY <1>4 DEF AnnounceCreating, AnnounceResizing, AnnounceRunning, GoOn, Return
  <2>2. \A b \in Base : base[b] # 0
    BY <2>1 DEF SetUpInv
  <2>3. obj'.exists /\ obj'.uid = 1
    <3>1. CASE UNCHANGED obj
      BY <3>1 DEF SetUpInv
    <3>2. CASE \E ph : Accepts /\ Store(ph)
      BY <2>1, <3>2 DEF Accepts, Store, SetUpInv, TypeOK, Objects
    <3> QED
      BY <2>1, <3>1, <3>2 DEF Update
  <2>4. pc' # "idle" => dep'.exists /\ dep'.uid = 1
    BY <2>1 DEF KeepCopy, SetUpInv, TypeOK, Objects
  <2> QED
    BY <2>1, <2>2, <2>3, <2>4 DEF SetUpInv
<1>5. CASE ListPods \/ Balance \/ AddInstance \/ RemoveInstance \/ Configure
  <2>1. /\ pc \notin {"idle", "services", "configmaps", "creating"}
        /\ pc' \in {"idle", "balance", "instances", "pod"}
        /\ UNCHANGED <<obj, cachedObj, base>>
        /\ pc' = "idle" \/ UNCHANGED dep
    BY <1>5 DEF ListPods, Balance, AddInstance, TakeClaim, CreatePod, RemoveInstance,
                DeleteClaim, DeletePod, Handled, Configure, Return
  <2> QED
    BY <2>1 DEF SetUpInv
<1>6. CASE User
  <2>1. PICK s \in Specs : ChangeObj([obj EXCEPT !.spec = s])
    BY <1>6 DEF User, UserEdits, UserDeletes, UserCreates, Disrupt, NotRecreated,
                SetUpInv
  <2>2. obj'.exists = obj.exists /\ obj'.uid = obj.uid /\ obj'.phase = obj.phase
    BY <2>1 DEF ChangeObj, TypeOK, Objects
  <2>3. UNCHANGED <<cachedObj, base, pc, dep>>
    BY <2>1 DEF ChangeObj
  <2> QED
    BY <2>2, <2>3 DEF SetUpInv
<1>7. CASE Kubelet \/ Garbage
  <2>1. \A b \in Base : ~CollectBase(b)
    BY DEF CollectBase, Orphaned, SetUpInv
  <2>2. UNCHANGED <<obj, base, caches, worker>>
    BY <1>7, <2>1 DEF Kubelet, PodStep, PodStarted, PodReady, PodGone, PodUnready,
                      PodDeleted, PodEvicted, ClaimGone,
                      Garbage, CollectPod, CollectClaim, SetPod
  <2> QED
    BY <2>2 DEF SetUpInv
<1>8. CASE Watch
  BY <1>8 DEF Watch, ObserveObj, ObservePods, SetUpInv
<1>9. CASE Crash
  BY <1>9 DEF Crash, Return, SetUpInv
<1>10. CASE UNCHANGED vars
  BY <1>10 DEF vars, SetUpInv
<1> QED
  BY <1>1, <1>2, <1>3, <1>4, <1>5, <1>6, <1>7, <1>8, <1>9, <1>10 DEF Next, Worker

\* A deployment that is never recreated is not announced before its headless
\* service and its config map exist, whatever fails or crashes on the way.
THEOREM ResourcesFirst ==
  ASSUME NotRecreated
  PROVE  Spec => []ResourcesBeforePhase
<1>1. Init => SetUpInv
  BY InitSetUp
<1>2. TypeOK /\ SetUpInv /\ [Next]_vars => SetUpInv'
  BY NextSetUp
<1>3. SetUpInv => ResourcesBeforePhase
  BY DEF SetUpInv, ResourcesBeforePhase
<1> QED
  BY <1>1, <1>2, <1>3, TypeCorrect, PTL DEF Spec

-----------------------------------------------------------------------------
(* While nobody edits or recreates the deployment, sync only ever grows it, *)
(* and no pod is created on a volume that is not there.                     *)

\* Nothing but wanted pods is listed, so that no runmode is ever shrunk.
OnlyGrows ==
  /\ \A m \in Modes, i \in Ordinals :
       cachedPods[<<m, i>>] # "absent" \/ list[<<m, i>>] # "absent"
         => i <= obj.spec.replicas[m]
  /\ pc \in {"instances", "pod"} => Growing(mode)

\* No claim is ever deleted, and every pod has what it mounts, the one that is
\* about to be created included.
VolumesKept ==
  /\ \A n \in Names : claims[n] = NoClaim \/ (claims[n].status = "bound" /\ claims[n].owner = 1)
  /\ \A n \in Names : pods[n] # "absent" => Mountable(n)
  /\ pc = "pod" => Mountable(<<mode, Turn>>)

VolumesInv == OnlyGrows /\ VolumesKept

LEMMA InitVolumes == Init => VolumesInv
<1> SUFFICES ASSUME Init PROVE VolumesInv
  OBVIOUS
<1>1. OnlyGrows
  <2>1. \A m \in Modes, i \in Ordinals : NoPods[<<m, i>>] = "absent"
    BY DEF NoPods, Names
  <2> QED
    BY <2>1 DEF Init, OnlyGrows
<1>2. VolumesKept
  BY DEF Init, VolumesKept, NoPods
<1> QED
  BY <1>1, <1>2 DEF VolumesInv

\* A runmode of which only wanted pods are listed is not shrunk.
LEMMA WantedListGrows ==
  ASSUME TypeOK, NEW m \in Modes, Listed(list, m) \subseteq 1..Desired(m),
         Cardinality(Listed(list, m)) # Desired(m)
  PROVE  Growing(m)
<1>1. Desired(m) \in Nat
  BY ToResizeType, SyncAssumption
<1>2. IsFiniteSet(1..Desired(m)) /\ Cardinality(1..Desired(m)) = Desired(m)
  BY <1>1, FS_Interval
<1>3. /\ Cardinality(Listed(list, m)) \in Nat
      /\ Cardinality(Listed(list, m)) <= Desired(m)
  BY <1>2, FS_Subset, ListedFinite
<1> QED
  BY <1>1, <1>3 DEF Growing

LEMMA NextOnlyGrows ==
  ASSUME Undisturbed, TypeOK, SteadyInv, OnlyGrows, [Next]_vars
  PROVE  OnlyGrows'
<1> USE DEF api, caches, locals, worker
<1> DEFINE Within(view) == \A m \in Modes, i \in Ordinals :
                             view[<<m, i>>] # "absent" => i <= obj.spec.replicas[m]
<1>1. Within(cachedPods) /\ Within(list)
  BY DEF OnlyGrows
<1>2. Within(View)
  <2>1. \A m \in Modes, i \in Ordinals :
          /\ <<m, i>> \in Names
          /\ View[<<m, i>>] # "absent" => pods[<<m, i>>] # "absent"
    BY DEF Names, View, Seen
  <2> QED
    BY <2>1 DEF SteadyInv, OnlyWantedPods
<1>3. Within(NoPods)
  BY DEF NoPods, Names
<1>4. obj'.spec = obj.spec
  BY SteadySpec
<1>5. cachedPods' = cachedPods \/ cachedPods' = View
  BY DEF Next, vars, Worker, BeginSync, CreateServices, SetUpConfigMaps, CreateBase,
         AnnounceCreating, ListPods, Balance, AddInstance, TakeClaim, CreatePod,
         RemoveInstance, DeleteClaim, DeletePod, AnnounceResizing, AnnounceRunning,
         Configure, User, UserEdits, UserDeletes, UserCreates, ChangeObj,
         Kubelet, PodStep, PodStarted, PodReady, PodGone, PodUnready, PodDeleted,
         PodEvicted, ClaimGone, Garbage, CollectPod, CollectClaim, CollectBase,
         SetPod, Watch, ObserveObj, ObservePods, Crash
<1>6. list' \in {list, cachedPods, NoPods}
  BY DEF Next, vars, Worker, BeginSync, CreateServices, SetUpConfigMaps, CreateBase,
         AnnounceCreating, ListPods, Balance, AddInstance, TakeClaim, CreatePod,
         RemoveInstance, DeleteClaim, DeletePod, Handled, AnnounceResizing,
         AnnounceRunning, GoOn, Return,
         Configure, User, UserEdits, UserDeletes, UserCreates, ChangeObj,
         Kubelet, PodStep, PodStarted, PodReady, PodGone, PodUnready, PodDeleted,
         PodEvicted, ClaimGone, Garbage, CollectPod, CollectClaim, CollectBase,
         SetPod, Watch, ObserveObj, ObservePods, Crash
<1>7. \A m \in Modes, i \in Ordinals :
        cachedPods'[<<m, i>>] # "absent" \/ list'[<<m, i>>] # "absent"
          => i <= obj'.spec.replicas[m]
  BY <1>1, <1>2, <1>3, <1>4, <1>5, <1>6
<1>8. pc' \in {"instances", "pod"} => Growing(mode)'
  <2> SUFFICES ASSUME pc' \in {"instances", "pod"} PROVE Growing(mode)'
    OBVIOUS
  <2>1. CASE Balance
    <3>1. /\ mode \in Modes /\ Cardinality(Listed(list, mode)) # Desired(mode)
          /\ UNCHANGED <<mode, dep, list>> /\ pc # "idle"
      BY <2>1 DEF Balance
    <3>2. Desired(mode) = obj.spec.replicas[mode]
      BY <3>1 DEF Desired, SteadyInv
    <3>3. Listed(list, mode) \subseteq 1..Desired(mode)
      BY <1>1, <3>1, <3>2, ToResizeType, SyncAssumption DEF Listed, Ordinals
    <3>4. Growing(mode)
      BY <3>1, <3>3, WantedListGrows
    <3> QED
      BY <3>1, <3>4 DEF Growing, Desired, Listed
  <2>2. CASE ~Balance
    <3>1. pc \in {"instances", "pod"} /\ UNCHANGED <<mode, dep, list>>
      BY <2>2 DEF Next, vars, Worker, BeginSync, CreateServices, SetUpConfigMaps,
         CreateBase, AnnounceCreating, ListPods, AddInstance, TakeClaim, CreatePod,
         RemoveInstance, DeleteClaim, DeletePod, Handled, AnnounceResizing,
         AnnounceRunning, GoOn, Return,
         Configure, User, UserEdits, UserDeletes, UserCreates, ChangeObj,
         Kubelet, PodStep, PodStarted, PodReady, PodGone, PodUnready, PodDeleted,
         PodEvicted, ClaimGone, Garbage, CollectPod, CollectClaim, CollectBase,
         SetPod, Watch, ObserveObj, ObservePods, Crash
    <3> QED
      BY <3>1 DEF OnlyGrows, Growing, Desired, Listed
  <2> QED
    BY <2>1, <2>2
<1> QED
  BY <1>7, <1>8 DEF OnlyGrows

\* A step that leaves pods and claims alone, and takes no config map away.
LEMMA VolumesElsewhere ==
  ASSUME VolumesKept, UNCHANGED <<pods, claims>>,
         base["configmap"] # 0 => base'["configmap"] # 0,
         pc' # "pod" \/ UNCHANGED <<pc, mode, pending, list, dep>>
  PROVE  VolumesKept'
<1>1. \A n : Mountable(n) => Mountable(n)'
  BY DEF Mountable
<1>2. pc' = "pod" => pc = "pod" /\ Turn' = Turn /\ mode' = mode
  BY DEF Turn, Growing, Listed, Desired
<1>3. pc' = "pod" => Mountable(<<mode, Turn>>)'
  BY <1>1, <1>2 DEF VolumesKept
<1> QED
  BY <1>1, <1>3 DEF VolumesKept

LEMMA NextVolumesKept ==
  ASSUME Undisturbed, TypeOK, ResizesWithinBounds, SetUpInv, VolumesInv, [Next]_vars
  PROVE  VolumesKept'
<1> USE DEF api, caches, locals, worker
<1>1. VolumesKept /\ OnlyGrows
  BY DEF VolumesInv
<1>2. CASE CreateServices \/ SetUpConfigMaps
  <2>1. PICK b \in Base, from \in Labels, to \in {"configmaps", "creating"} :
          CreateBase(b, from, to)
    BY <1>2 DEF CreateServices, SetUpConfigMaps, Base, Labels
  <2>2. base["configmap"] # 0 => base'["configmap"] # 0
    BY <2>1 DEF CreateBase, Created, TypeOK, Base
  <2> QED
    BY <1>1, <2>1, <2>2, VolumesElsewhere DEF CreateBase, Return
<1>3. CASE BeginSync \/ AnnounceCreating \/ ListPods \/ Balance
           \/ AnnounceResizing \/ AnnounceRunning \/ Configure \/ Crash
  <2>1. UNCHANGED <<pods, claims, base>> /\ pc' # "pod"
    BY <1>3 DEF BeginSync, AnnounceCreating, ListPods, Balance, AnnounceResizing,
                AnnounceRunning, GoOn, Configure, Crash, Return
  <2> QED
    BY <1>1, <2>1, VolumesElsewhere
<1>4. CASE TakeClaim
  <2> DEFINE n == <<mode, Turn>>
  <2>1. /\ mode \in Modes /\ pending \subseteq Ordinals
        /\ Turn \in pending /\ n \in Names
        /\ base["configmap"] # 0 /\ dep.uid = 1
    BY <1>4, TurnPending DEF TakeClaim, ResizesWithinBounds, TypeOK, SetUpInv, Base, Names
  <2>2. UNCHANGED <<pods, base>>
    BY <1>4 DEF TakeClaim
  <2>3. CASE /\ claims' = [claims EXCEPT ![n] =
                   IF @.status = "absent" /\ mode # "dispatcher"
                     THEN [status |-> "bound", owner |-> dep.uid]
                     ELSE @]
             /\ (pc' = "pod" /\ UNCHANGED locals) \/ pc' # "pod"
    <3>1. \A k \in Names : \/ claims'[k] = claims[k]
                           \/ claims'[k].status = "bound" /\ claims'[k].owner = 1
      BY <2>1, <2>3 DEF TypeOK
    <3>2. \A k : Mountable(k) /\ k \in Names => Mountable(k)'
      BY <2>1, <2>2, <2>3, <3>1 DEF Mountable, VolumesKept, NoClaim, TypeOK
    <3>3. \A k : k = n => Mountable(k)'
      <4>1. CASE mode = "dispatcher"
        BY <2>1, <2>2, <4>1 DEF Mountable
      <4>2. CASE mode # "dispatcher"
        <5>1. claims[n] = NoClaim \/ claims[n].status = "bound"
          BY <1>1, <2>1 DEF VolumesKept
        <5>2. claims'[n].status = "bound"
          BY <2>1, <2>3, <4>2, <5>1 DEF TypeOK, NoClaim
        <5> QED
          BY <4>2, <5>2 DEF Mountable
      <4> QED
        BY <4>1, <4>2
    <3>4. pc' = "pod" => Turn' = Turn /\ mode' = mode
      BY <1>4, <2>3 DEF Turn, Growing, Listed, Desired, TakeClaim
    <3>5. pc' = "pod" => Mountable(<<mode, Turn>>)'
      BY <3>3, <3>4 DEF Mountable
    <3> HIDE DEF n
    <3> QED
      BY <1>1, <2>2, <3>1, <3>2, <3>5 DEF VolumesKept
  <2>4. CASE UNCHANGED claims /\ pc' # "pod"
    BY <1>1, <2>2, <2>4, VolumesElsewhere
  <2> QED
    BY <1>4, <2>3, <2>4 DEF TakeClaim, Handled
<1>5. CASE CreatePod
  <2> DEFINE n == <<mode, Turn>>
  <2>1. UNCHANGED <<claims, base>> /\ pc' # "pod" /\ Mountable(n)
    BY <1>1, <1>5 DEF CreatePod, Handled, VolumesKept
  <2>2. \A k \in Names : pods'[k] # "absent" => k = n \/ pods[k] # "absent"
    BY <1>5 DEF CreatePod, TypeOK
  <2>3. \A k : Mountable(k)' <=> Mountable(k)
    BY <2>1 DEF Mountable
  <2> HIDE DEF n
  <2> QED
    BY <1>1, <2>1, <2>2, <2>3 DEF VolumesKept
<1>6. ~RemoveInstance
  BY <1>1 DEF RemoveInstance, DeleteClaim, DeletePod, OnlyGrows
<1>7. CASE User
  <2>1. FALSE
    BY <1>7 DEF User, UserEdits, UserDeletes, UserCreates, Disrupt, Undisturbed, SetUpInv
  <2> QED
    BY <2>1
<1>8. CASE \E n \in Names : PodStep(n) \/ CollectPod(n)
  <2>1. PICK n \in Names : \E from, to : SetPod(n, from, to) /\ "absent" \notin from
    BY <1>8 DEF PodStep, PodStarted, PodReady, PodGone, PodUnready, PodDeleted,
                PodEvicted, CollectPod, Alive
  <2>2. /\ UNCHANGED <<obj, claims, base, caches, worker>>
        /\ \A k \in Names : pods'[k] # "absent" => pods[k] # "absent"
    BY <2>1 DEF SetPod, TypeOK
  <2>3. \A k : Mountable(k)' <=> Mountable(k)
    BY <2>2 DEF Mountable
  <2>4. Turn' = Turn
    BY <2>2 DEF Turn, Growing, Listed, Desired
  <2> QED
    BY <1>1, <2>2, <2>3, <2>4 DEF VolumesKept
<1>9. ~ \E n \in Names : ClaimGone(n) \/ CollectClaim(n)
  <2>1. \A n \in Names : claims[n].status # "terminating" /\ claims[n].owner \in {0, 1}
    BY <1>1 DEF VolumesKept, NoClaim
  <2> QED
    BY <2>1 DEF ClaimGone, CollectClaim, Orphaned, SetUpInv
<1>10. ~ \E b \in Base : CollectBase(b)
  BY DEF CollectBase, Orphaned, SetUpInv
<1>11. CASE Watch \/ UNCHANGED vars
  <2>1. UNCHANGED <<pods, claims, base, pc, mode, pending, list, dep>>
    BY <1>11 DEF Watch, ObserveObj, ObservePods, vars
  <2> QED
    BY <1>1, <2>1, VolumesElsewhere
<1> QED
  BY <1>2, <1>3, <1>4, <1>5, <1>6, <1>7, <1>8, <1>9, <1>10, <1>11
  DEF Next, Worker, AddInstance, Kubelet, Garbage

\* A pod that waits for ever for its volume takes a user who scaled its name away
\* or recreated the deployment: no number of crashes, failed calls, evictions
\* and deletions behind the operator's back brings one about.
THEOREM VolumesThere ==
  ASSUME Undisturbed
  PROVE  Spec => []NothingStranded
<1> DEFINE All == TypeOK /\ ResizesWithinBounds /\ SteadyInv /\ SetUpInv /\ VolumesInv
<1>1. Init => All
  BY InitTypeOK, InitResizes, InitSteady, InitSetUp, InitVolumes
<1>2. All /\ [Next]_vars => All'
  <2> SUFFICES ASSUME All, [Next]_vars PROVE All'
    OBVIOUS
  <2>1. NotRecreated
    BY DEF NotRecreated, Undisturbed
  <2>2. TypeOK' /\ ResizesWithinBounds' /\ SteadyInv' /\ SetUpInv'
    BY <2>1, NextTypeOK, NextResizes, NextSteady, NextSetUp
  <2>3. OnlyGrows' /\ VolumesKept'
    BY NextOnlyGrows, NextVolumesKept DEF VolumesInv
  <2> QED
    BY <2>2, <2>3 DEF VolumesInv
<1>3. All => NothingStranded
  BY DEF VolumesInv, VolumesKept, NothingStranded, Stranded
<1> QED
  BY <1>1, <1>2, <1>3, PTL DEF Spec

-----------------------------------------------------------------------------
(* A settled deployment stays so.                                           *)

\* A list shows a pod of every name that has one.
LEMMA ListedSeen == \A m \in Modes : Listed(View, m) = Listed(pods, m)
<1>1. \A n \in Names : Seen(pods[n]) = "absent" <=> pods[n] = "absent"
  BY DEF Seen
<1>2. \A m \in Modes, i \in Ordinals : <<m, i>> \in Names
  BY DEF Names
<1> QED
  BY <1>1, <1>2 DEF Listed, View

\* AtRest speaks of the worker only where it says what a sync under way knows.
LEMMA RestsOn ==
  ASSUME AtRest, UNCHANGED <<api, caches>>, Informed'
  PROVE  AtRest' /\ UNCHANGED api
  BY DEF AtRest, Settled, Counted, Listed, AllHealthy, View, Orphaned, Unused, api, caches

LEMMA StepAtRest ==
  ASSUME TypeOK, AtRest, Calm, [Next]_vars
  PROVE  AtRest' /\ UNCHANGED api
<1> USE DEF api, caches, locals, worker
<1>0. UNCHANGED pods => View' = View
  BY DEF View
<1>1. ASSUME NEW kind, Disrupt(kind) PROVE FALSE
  <2>1. disruptions \in Nat
    BY SyncAssumption DEF TypeOK
  <2> QED
    BY <1>1, <2>1 DEF Disrupt, Calm
<1>2. /\ \A m \in Modes : Cardinality(Listed(pods, m)) = obj.spec.replicas[m]
      /\ AllHealthy(View) /\ obj.phase = "Running" /\ obj.exists /\ Informed
  BY DEF AtRest, Settled, Counted
<1>3. pc \in {"idle", "list", "balance", "configure"}
  BY <1>2 DEF Informed
<1>4. CASE BeginSync
  <2>1. Informed'
    BY <1>0, <1>2, <1>4 DEF BeginSync, Informed, TypeOK
  <2> QED
    BY <1>4, <2>1, RestsOn DEF BeginSync
<1>5. CASE ListPods
  <2>1. Informed'
    BY <1>0, <1>2, <1>5 DEF ListPods, Informed
  <2> QED
    BY <1>5, <2>1, RestsOn DEF ListPods
<1>6. CASE Balance
  <2>1. Cardinality(Listed(list, mode)) = Desired(mode)
    BY <1>2, <1>6, ListedSeen DEF Balance, Informed, Desired
  <2>2. UNCHANGED <<api, caches, pc, dep, list, updateStatus>>
    BY <1>6, <2>1 DEF Balance
  <2>3. Informed'
    BY <1>0, <1>2, <2>2 DEF Informed
  <2> QED
    BY <2>2, <2>3, RestsOn
<1>7. CASE AnnounceResizing
  <2>1. /\ UNCHANGED <<api, caches>>
        /\ GoOn("Running")
    BY <1>2, <1>7 DEF AnnounceResizing, Informed
  <2>2. /\ pc' = "configure"
        /\ dep' = [dep EXCEPT !.phase = "Running"]
        /\ UNCHANGED <<list, updateStatus>>
        /\ dep = obj /\ list = View /\ ~updateStatus
    BY <1>2, <1>7, <2>1 DEF GoOn, KeepCopy, AnnounceResizing, Informed, AllHealthy
  <2>3. dep' = dep
    BY <1>2, <2>2 DEF TypeOK, Objects
  <2>4. Informed'
    BY <1>0, <1>2, <2>1, <2>2, <2>3 DEF Informed
  <2> QED
    BY <2>1, <2>4, RestsOn
<1>8. CASE Configure
  <2>1. Informed'
    BY <1>0, <1>2, <1>8 DEF Configure, Return, Informed
  <2> QED
    BY <1>8, <2>1, RestsOn DEF Configure
<1>9. ~(CreateServices \/ SetUpConfigMaps \/ AnnounceCreating \/ AddInstance
         \/ RemoveInstance \/ AnnounceRunning)
  BY <1>3 DEF CreateServices, SetUpConfigMaps, CreateBase, AnnounceCreating,
              AddInstance, TakeClaim, CreatePod, RemoveInstance, DeleteClaim,
              DeletePod, AnnounceRunning
<1>10. ~User
  BY <1>1, <1>2 DEF User, UserEdits, UserDeletes, UserCreates
<1>11. ~Kubelet
  <2>1. \A n \in Names : pods[n] \in {"absent", "ready"}
    BY <1>2 DEF AllHealthy, View, Seen
  <2>2. \A n \in Names : ~PodStep(n)
    BY <1>1, <2>1 DEF PodStep, PodStarted, PodReady, PodGone, PodUnready, PodDeleted,
                      PodEvicted, SetPod
  <2>3. \A n \in Names : ~ClaimGone(n)
    BY DEF ClaimGone, AtRest
  <2> QED
    BY <2>2, <2>3 DEF Kubelet
<1>12. ~Garbage /\ ~Watch /\ ~Crash
  BY <1>1, <1>2 DEF Garbage, CollectPod, CollectClaim, CollectBase, Watch, ObserveObj,
                    ObservePods, Crash, AtRest, Informed
<1>13. CASE UNCHANGED vars
  <2>1. Informed'
    BY <1>0, <1>2, <1>13 DEF vars, Informed
  <2> QED
    BY <1>13, <2>1, RestsOn DEF vars
<1> QED
  BY <1>4, <1>5, <1>6, <1>7, <1>8, <1>9, <1>10, <1>11, <1>12, <1>13 DEF Next, Worker

\* Once a deployment has settled and the caches say so, sync after sync of it
\* writes nothing, for any specification: what Converges brings about, only a user,
\* a failure or the loss of a pod undoes.
THEOREM RestKept == Spec => StaysAtRest
<1>1. TypeOK /\ [Next]_vars => [AtRest /\ Calm => AtRest' /\ UNCHANGED api]_vars
  BY StepAtRest
<1> QED
  BY <1>1, TypeCorrect, PTL DEF Spec, StaysAtRest
=============================================================================
