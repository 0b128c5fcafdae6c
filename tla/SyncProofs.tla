----------------------------- MODULE SyncProofs -----------------------------
(***************************************************************************)
(* Proofs about module Sync, for every number of replicas, every set of    *)
(* specifications and any number and kind of disruptions.                  *)
(***************************************************************************)
EXTENDS Sync, TLAPS, FiniteSetTheorems

-----------------------------------------------------------------------------
(* Facts about the pure operators.                                         *)

LEMMA ListedFinite ==
  ASSUME NEW view, NEW m
  PROVE  /\ IsFiniteSet(Listed(view, m))
         /\ Cardinality(Listed(view, m)) \in Nat
<1>1. IsFiniteSet(Ordinals)
  BY SyncAssumption, FS_Interval DEF Ordinals
<1>2. Listed(view, m) \subseteq Ordinals
  BY DEF Listed
<1> QED
  BY <1>1, <1>2, FS_Subset, FS_CardinalityType

\* What a runmode is resized by are ordinals, when the list and the counts are
\* well-typed.
LEMMA ToResizeType ==
  ASSUME TypeOK, NEW m \in Modes
  PROVE  /\ Desired(m) \in 0..MaxReplicas
         /\ Listed(list, m) \subseteq Ordinals
         /\ ToResize(m) \subseteq Ordinals
<1>1. Desired(m) \in 0..MaxReplicas
  BY SyncAssumption DEF TypeOK, Objects, AllSpecs, Desired
<1>2. Listed(list, m) \subseteq Ordinals
  BY DEF Listed
<1>3. Missing(Listed(list, m), Desired(m)) \subseteq Ordinals
  BY <1>1, SyncAssumption DEF Missing, Ordinals
<1>4. Surplus(Listed(list, m), Desired(m)) \subseteq Ordinals
  BY <1>2 DEF Surplus
<1> QED
  BY <1>1, <1>2, <1>3, <1>4 DEF ToResize

LEMMA NoObjectType == NoObject \in Objects
<1>1. (CHOOSE s \in Specs : TRUE) \in Specs
  BY SyncAssumption
<1> QED
  BY <1>1 DEF NoObject, Objects, Phases

LEMMA AfterType == \A m : After(m) \in Modes \cup {"done"}
  BY DEF After, Modes

-----------------------------------------------------------------------------
(* Type correctness.                                                       *)

LEMMA InitTypeOK == Init => TypeOK
<1> SUFFICES ASSUME Init PROVE TypeOK
  OBVIOUS
<1>1. obj \in Objects /\ cachedObj \in Objects
  <2>1. PICK s \in Specs :
          obj = [exists |-> TRUE, uid |-> 1, spec |-> s, phase |-> "None"]
    BY DEF Init
  <2> QED
    BY <2>1 DEF Init, Objects, Phases
<1>2. dep \in Objects
  BY NoObjectType DEF Init
<1>3. /\ pods \in [Names -> Statuses]
      /\ cachedPods \in [Names -> Views]
      /\ list \in [Names -> Views]
  BY DEF Init, NoPods, Statuses, Views
<1>4. /\ owner \in [Names -> Nat]
      /\ claims \in [Names -> Claims]
      /\ base \in [Base -> Nat]
  BY DEF Init, NoClaim, Claims
<1>5. disruptions \in 0..MaxDisruptions
  BY SyncAssumption DEF Init
<1> QED
  BY <1>1, <1>2, <1>3, <1>4, <1>5 DEF Init, TypeOK, Labels

\* What every return of sync leaves behind is well-typed.
LEMMA ReturnType ==
  ASSUME Return
  PROVE  /\ pc' \in Labels
         /\ dep' \in Objects
         /\ depCurrent' \in BOOLEAN
         /\ list' \in [Names -> Views]
         /\ mode' \in Modes \cup {"done"}
         /\ pending' \in SUBSET Ordinals
         /\ updateStatus' \in BOOLEAN
  BY NoObjectType DEF Return, Labels, NoPods, Views

\* A disruption is counted.
LEMMA DisruptType ==
  ASSUME disruptions \in 0..MaxDisruptions, NEW k, Disrupt(k) \/ Calm
  PROVE  disruptions' \in 0..MaxDisruptions
  BY SyncAssumption DEF Disrupt, Calm

\* Update stores a well-typed object or none.
LEMMA UpdateType ==
  ASSUME TypeOK, NEW ph \in Phases, NEW a, Update(ph, a)
  PROVE  obj' \in Objects /\ cacheCurrent' \in BOOLEAN
         /\ disruptions' \in 0..MaxDisruptions
<1>1. disruptions' \in 0..MaxDisruptions
  BY DisruptType DEF Update, TypeOK
<1>2. CASE Store(ph)
  BY <1>1, <1>2 DEF Store, TypeOK, Objects
<1>3. CASE UNCHANGED <<obj, cacheCurrent>>
  BY <1>1, <1>3 DEF TypeOK
<1> QED
  BY <1>2, <1>3 DEF Update

LEMMA KeepCopyType ==
  ASSUME TypeOK, NEW ph \in Phases, KeepCopy(ph)
  PROVE  dep' \in Objects /\ depCurrent' \in BOOLEAN
  BY DEF KeepCopy, TypeOK, Objects

LEMMA ViewType == View \in [Names -> Views]
  BY DEF View, Seen, Views

LEMMA ReleasedType ==
  ASSUME TypeOK, NEW n
  PROVE  Released(n) \in [Names -> Claims]
<1>1. [status |-> "terminating", owner |-> 0] \in Claims
  BY DEF Claims
<1> QED
  BY <1>1 DEF Released, TypeOK

LEMMA HandledType ==
  ASSUME TypeOK, NEW i, Handled(i)
  PROVE  /\ pc' \in Labels
         /\ mode' \in Modes \cup {"done"}
         /\ pending' \in SUBSET Ordinals
         /\ UNCHANGED <<dep, depCurrent, list, updateStatus>>
  BY AfterType DEF Handled, TypeOK, Labels

LEMMA NextTypeOK == TypeOK /\ [Next]_vars => TypeOK'
<1> SUFFICES ASSUME TypeOK, [Next]_vars PROVE TypeOK'
  OBVIOUS
<1> USE DEF api, caches, locals, worker
<1>1. CASE BeginSync
  BY <1>1 DEF BeginSync, TypeOK, Labels
<1>2. CASE CreateServices \/ SetUpConfigMaps
  <2>0. PICK b \in Base, from \in Labels, to \in Labels : CreateBase(b, from, to)
    BY <1>2 DEF CreateServices, SetUpConfigMaps, Base, Labels
  <2>1. dep.uid \in Nat
    BY DEF TypeOK, Objects
  <2>2. base' \in [Base -> Nat]
    BY <2>0, <2>1 DEF CreateBase, Created, TypeOK
  <2>3. disruptions' \in 0..MaxDisruptions
    BY <2>0, DisruptType DEF CreateBase, TypeOK
  <2> QED
    BY <2>0, <2>2, <2>3, ReturnType DEF CreateBase, TypeOK
<1>3. CASE AnnounceCreating
  <2>1. "Creating" \in Phases
    BY DEF Phases
  <2> QED
    BY <1>3, <2>1, UpdateType, KeepCopyType DEF AnnounceCreating, TypeOK, Labels
<1>4. CASE ListPods
  BY <1>4 DEF ListPods, TypeOK, Labels, Modes
<1>5. CASE Balance
  <2>1. ToResize(mode) \in SUBSET Ordinals
    BY <1>5, ToResizeType DEF Balance
  <2>2. /\ pc' \in Labels
        /\ mode' \in Modes \cup {"done"}
        /\ pending' \in SUBSET Ordinals
    BY <1>5, <2>1, AfterType DEF Balance, TypeOK, Labels
  <2>3. updateStatus' \in BOOLEAN
    <3>1. \/ updateStatus' = (Cardinality(Listed(list, mode)) > 0)
          \/ updateStatus' = updateStatus
      BY <1>5, Zenon DEF Balance
    <3>2. (Cardinality(Listed(list, mode)) > 0) \in BOOLEAN
      OBVIOUS
    <3> QED
      BY <3>1, <3>2, Zenon DEF TypeOK
  <2> QED
    BY <1>5, <2>2, <2>3 DEF Balance, TypeOK
<1>6. CASE TakeClaim \/ DeleteClaim
  <2>1. disruptions' \in 0..MaxDisruptions
    BY <1>6, DisruptType DEF TakeClaim, DeleteClaim, TypeOK
  <2>2. \/ pc' = "pod" /\ UNCHANGED <<locals, depCurrent>>
        \/ \E i : Handled(i)
    BY <1>6 DEF TakeClaim, DeleteClaim
  <2>3. /\ pc' \in Labels
        /\ mode' \in Modes \cup {"done"}
        /\ pending' \in SUBSET Ordinals
        /\ UNCHANGED <<dep, depCurrent, list, updateStatus>>
    BY <2>2, HandledType DEF TypeOK, Labels
  <2>4. claims' \in [Names -> Claims]
    <3>1. [status |-> "bound", owner |-> dep.uid] \in Claims
      BY DEF TypeOK, Objects, Claims
    <3> QED
      BY <1>6, <3>1, ReleasedType DEF TakeClaim, DeleteClaim, TypeOK
  <2> QED
    BY <1>6, <2>1, <2>3, <2>4 DEF TakeClaim, DeleteClaim, TypeOK
<1>7. CASE CreatePod \/ DeletePod
  <2>1. disruptions' \in 0..MaxDisruptions
    BY <1>7, DisruptType DEF CreatePod, DeletePod, TypeOK
  <2>2. \E i : Handled(i)
    BY <1>7 DEF CreatePod, DeletePod
  <2>3. pods' \in [Names -> Statuses]
    BY <1>7 DEF CreatePod, DeletePod, TypeOK, Statuses
  <2>4. owner' \in [Names -> Nat]
    BY <1>7 DEF CreatePod, DeletePod, TypeOK, Objects
  <2> QED
    BY <1>7, <2>1, <2>2, <2>3, <2>4, HandledType DEF CreatePod, DeletePod, TypeOK
<1>8. CASE AnnounceResizing \/ AnnounceRunning
  <2>1. PICK ph \in Phases :
          /\ \/ UNCHANGED <<obj, cacheCurrent, disruptions>>
             \/ \E a : Update(ph, a)
          /\ \/ /\ KeepCopy(ph)
                /\ pc' \in Labels
                /\ UNCHANGED <<list, mode, pending, updateStatus>>
             \/ Return
    <3>1. /\ dep.phase \in Phases
          /\ "Resizing" \in Phases
          /\ "Running" \in Phases
      BY DEF TypeOK, Objects, Phases
    <3> QED
      BY <1>8, <3>1 DEF AnnounceResizing, AnnounceRunning, GoOn, Labels
  <2>2. /\ obj' \in Objects
        /\ cacheCurrent' \in BOOLEAN
        /\ disruptions' \in 0..MaxDisruptions
    BY <2>1, UpdateType DEF TypeOK
  <2>3. /\ pc' \in Labels
        /\ dep' \in Objects
        /\ depCurrent' \in BOOLEAN
        /\ list' \in [Names -> Views]
        /\ mode' \in Modes \cup {"done"}
        /\ pending' \in SUBSET Ordinals
        /\ updateStatus' \in BOOLEAN
    BY <2>1, KeepCopyType, ReturnType DEF TypeOK
  <2> QED
    BY <1>8, <2>2, <2>3 DEF AnnounceResizing, AnnounceRunning, TypeOK
<1>9. CASE Configure
  BY <1>9, ReturnType DEF Configure, TypeOK
<1>10. CASE User
  <2>1. PICK o \in Objects : ChangeObj(o)
    <3>1. CASE UserEdits
      BY <3>1 DEF UserEdits, TypeOK, Objects
    <3>2. CASE UserDeletes
      BY <3>2 DEF UserDeletes, TypeOK, Objects
    <3>3. CASE UserCreates
      <4>1. PICK s \in Specs :
              ChangeObj([exists |-> TRUE, uid |-> obj.uid + 1,
                         spec |-> s, phase |-> "None"])
        BY <3>3 DEF UserCreates
      <4>2. obj.uid + 1 \in Nat
        BY DEF TypeOK, Objects
      <4> QED
        BY <4>1, <4>2 DEF Objects, Phases
    <3> QED
      BY <1>10, <3>1, <3>2, <3>3 DEF User
  <2>2. disruptions' \in 0..MaxDisruptions
    BY <1>10, DisruptType DEF User, UserEdits, UserDeletes, UserCreates, TypeOK
  <2> QED
    BY <2>1, <2>2 DEF ChangeObj, TypeOK
<1>11. CASE \E n \in Names : PodStep(n) \/ CollectPod(n)
  <2>1. PICK n \in Names, from \in SUBSET Statuses, to \in Statuses :
          SetPod(n, from, to)
    BY <1>11 DEF PodStep, PodStarted, PodReady, PodGone, PodUnready, PodDeleted,
                 PodEvicted, CollectPod, Alive, Statuses
  <2>2. disruptions' \in 0..MaxDisruptions
    BY <1>11, DisruptType DEF PodStep, PodStarted, PodReady, PodGone, PodUnready,
                              PodDeleted, PodEvicted, CollectPod, TypeOK
  <2> QED
    BY <2>1, <2>2 DEF SetPod, TypeOK
<1>12. CASE \E b \in Base : CollectBase(b)
  BY <1>12 DEF CollectBase, TypeOK
<1>13. CASE \E n \in Names : ClaimGone(n) \/ CollectClaim(n)
  <2>1. NoClaim \in Claims
    BY DEF NoClaim, Claims
  <2>2. claims' \in [Names -> Claims]
    BY <1>13, <2>1, ReleasedType DEF ClaimGone, CollectClaim, TypeOK
  <2> QED
    BY <1>13, <2>2 DEF ClaimGone, CollectClaim, TypeOK
<1>14. CASE Watch
  BY <1>14, ViewType DEF Watch, ObserveObj, ObservePods, TypeOK
<1>15. CASE Crash
  BY <1>15, ReturnType, ViewType, DisruptType DEF Crash, TypeOK
<1>16. CASE UNCHANGED vars
  BY <1>16 DEF vars, TypeOK
<1> QED
  BY <1>1, <1>2, <1>3, <1>4, <1>5, <1>6, <1>7, <1>8, <1>9, <1>10, <1>11, <1>12,
     <1>13, <1>14, <1>15, <1>16
  DEF Next, Worker, AddInstance, RemoveInstance, Kubelet, Garbage

\* Every variable keeps its type, for any number of replicas and disruptions.
THEOREM TypeCorrect == Spec => []TypeOK
<1> QED
  BY InitTypeOK, NextTypeOK, PTL DEF Spec

-----------------------------------------------------------------------------
(* The two caches, the worker's copy and the object: VersionedCopies is     *)
(* inductive, and each step that keeps it is one of module Lifecycle.       *)

LEMMA StageBounds ==
  /\ \A ph \in Phases : Object!Stage(ph) \in 0..2
  /\ \A ph \in Phases : Object!Stage(ph) = 0 <=> ph = "None"
  /\ Object!Stage("Creating") = 1
  /\ Object!Stage("Resizing") = 2
  /\ Object!Stage("Running") = 2
  BY DEF Phases, Object!Stage

LEMMA InitVersionedCopies == Init => VersionedCopies
  BY DEF Init, VersionedCopies

\* The phases that sync writes.
Announced == {"Creating", "Resizing", "Running"}

\* The worker announces no phase behind the one its copy shows it.
LEMMA AnnouncedAhead ==
  ASSUME TypeOK, VersionedCopies, NEW ph \in Announced,
         ph = "Creating" => pc = "creating", depCurrent
  PROVE  Object!Stage(obj.phase) <= Object!Stage(ph)
<1>1. obj.phase \in Phases /\ dep.phase \in Phases
  BY DEF TypeOK, Objects
<1>2. CASE ph = "Creating"
  BY <1>1, <1>2, StageBounds DEF VersionedCopies
<1>3. CASE ph # "Creating"
  BY <1>1, <1>3, StageBounds DEF Announced
<1> QED
  BY <1>2, <1>3

\* Whatever becomes of an Update, the object is as it was, or only its phase
\* has moved on; and the cache knows whether it has been overtaken.
LEMMA UpdateStep ==
  ASSUME TypeOK, VersionedCopies, NEW ph \in Announced,
         ph = "Creating" => pc = "creating", NEW a, Update(ph, a),
         UNCHANGED cachedObj
  PROVE  /\ \/ obj' = obj
            \/ /\ obj.exists
               /\ obj'.exists = obj.exists
               /\ obj'.spec = obj.spec
               /\ obj'.phase = ph
               /\ Object!Stage(obj.phase) <= Object!Stage(ph)
         /\ cacheCurrent' => cachedObj' = obj'
<1>1. CASE Accepts /\ Store(ph)
  <2>1. Object!Stage(obj.phase) <= Object!Stage(ph)
    BY <1>1, AnnouncedAhead DEF Accepts
  <2>2. /\ obj.exists /\ dep.exists = obj.exists
        /\ dep.spec = obj.spec
    BY <1>1 DEF Accepts, VersionedCopies
  <2>3. /\ obj' = [dep EXCEPT !.phase = ph]
        /\ cacheCurrent' = (cacheCurrent /\ obj' = obj)
    BY <1>1 DEF Store
  <2>4. obj'.exists = dep.exists /\ obj'.spec = dep.spec /\ obj'.phase = ph
    BY <2>3 DEF TypeOK, Objects
  <2> QED
    BY <2>1, <2>2, <2>3, <2>4 DEF VersionedCopies
<1>2. CASE UNCHANGED <<obj, cacheCurrent>>
  BY <1>2 DEF VersionedCopies
<1> QED
  BY <1>1, <1>2 DEF Update

\* The copy that the worker keeps after an Update is current only if the Update
\* changed nothing.
LEMMA KeepCopyStep ==
  ASSUME TypeOK, VersionedCopies, NEW ph \in Phases, KeepCopy(ph),
         depCurrent => Object!Stage(obj.phase) <= Object!Stage(ph)
  PROVE  depCurrent' => /\ dep'.exists = obj'.exists
                        /\ dep'.uid = obj'.uid
                        /\ dep'.spec = obj'.spec
                        /\ Object!Stage(obj'.phase) <= Object!Stage(dep'.phase)
<1> SUFFICES ASSUME depCurrent' PROVE
      /\ dep'.exists = obj'.exists
      /\ dep'.uid = obj'.uid
      /\ dep'.spec = obj'.spec
      /\ Object!Stage(obj'.phase) <= Object!Stage(dep'.phase)
  OBVIOUS
<1>1. depCurrent /\ obj' = obj /\ dep' = [dep EXCEPT !.phase = ph]
  BY DEF KeepCopy
<1>2. /\ dep'.exists = dep.exists /\ dep'.uid = dep.uid
      /\ dep'.spec = dep.spec /\ dep'.phase = ph
  BY <1>1 DEF TypeOK, Objects
<1> QED
  BY <1>1, <1>2 DEF VersionedCopies

\* What one step does to the object.
ObjectStep == obj' = obj \/ Object!Next

LEMMA AnnounceStep ==
  ASSUME TypeOK, NEW ph \in Announced,
         obj.exists, obj'.exists = obj.exists, obj'.spec = obj.spec,
         obj'.phase = ph, Object!Stage(obj.phase) <= Object!Stage(ph)
  PROVE  Object!OperatorAnnounces
<1>1. ph \in Object!Phases \ {"None"}
  BY DEF Announced, Object!Phases
<1>2. Object!Stage(ph) \in Nat /\ Object!Stage(obj.phase) \in Nat
  BY StageBounds DEF TypeOK, Objects, Announced, Phases
<1> QED
  BY <1>1, <1>2 DEF Object!OperatorAnnounces

LEMMA VersionedStep ==
  ASSUME TypeOK, VersionedCopies, [Next]_vars
  PROVE  VersionedCopies' /\ ObjectStep
<1> USE DEF api, caches, locals, worker
<1>1. CASE BeginSync
  <2>1. cachedObj.phase = "None" \/ pc' = "list"
    BY <1>1 DEF BeginSync
  <2>2. obj' = obj /\ cachedObj' = cachedObj /\ dep' = cachedObj
        /\ cacheCurrent' = cacheCurrent /\ depCurrent' = cacheCurrent
    BY <1>1 DEF BeginSync
  <2>3. Object!Stage(obj.phase) <= Object!Stage(obj.phase)
    BY StageBounds DEF TypeOK, Objects
  <2> QED
    BY <2>1, <2>2, <2>3 DEF VersionedCopies, ObjectStep
<1>2. CASE CreateServices \/ SetUpConfigMaps
  <2>1. \/ UNCHANGED <<dep, depCurrent>> /\ pc \in {"services", "configmaps"}
        \/ Return
    BY <1>2 DEF CreateServices, SetUpConfigMaps, CreateBase
  <2>2. UNCHANGED <<obj, caches>>
    BY <1>2 DEF CreateServices, SetUpConfigMaps, CreateBase
  <2> QED
    BY <2>1, <2>2 DEF VersionedCopies, ObjectStep, Return
<1>3. CASE AnnounceCreating
  <2>1. PICK a : Update("Creating", a)
    BY <1>3 DEF AnnounceCreating
  <2>2. /\ pc = "creating" /\ pc' = "list"
        /\ KeepCopy("Creating") /\ UNCHANGED cachedObj
    BY <1>3 DEF AnnounceCreating
  <2>3. "Creating" \in Announced /\ "Creating" \in Phases
    BY DEF Announced, Phases
  <2>4. depCurrent => Object!Stage(obj.phase) <= Object!Stage("Creating")
    BY <2>2, <2>3, AnnouncedAhead
  <2>5. VersionedCopies'
    BY <2>1, <2>2, <2>3, <2>4, UpdateStep, KeepCopyStep DEF VersionedCopies
  <2>6. ObjectStep
    BY <2>1, <2>2, <2>3, UpdateStep, AnnounceStep DEF ObjectStep, Object!Next
  <2> QED
    BY <2>5, <2>6
<1>4. CASE ListPods \/ Balance \/ AddInstance \/ RemoveInstance
  <2>1. /\ UNCHANGED <<obj, caches, dep, depCurrent>>
        /\ pc' \in {"balance", "instances", "pod"}
    BY <1>4 DEF ListPods, Balance, AddInstance, TakeClaim, CreatePod,
                RemoveInstance, DeleteClaim, DeletePod, Handled
  <2> QED
    BY <2>1 DEF VersionedCopies, ObjectStep
<1>5. CASE AnnounceResizing \/ AnnounceRunning
  <2>1. PICK ph \in Phases :
          /\ \/ ph = dep.phase /\ UNCHANGED <<obj, cacheCurrent>>
             \/ ph \in {"Resizing", "Running"} /\ \E a : Update(ph, a)
          /\ \/ KeepCopy(ph) /\ pc' \in {"configure", "running"}
             \/ Return
    <3>1. dep.phase \in Phases /\ "Resizing" \in Phases /\ "Running" \in Phases
      BY DEF TypeOK, Objects, Phases
    <3> QED
      BY <1>5, <3>1 DEF AnnounceResizing, AnnounceRunning, GoOn
  <2>2. UNCHANGED cachedObj
    BY <1>5 DEF AnnounceResizing, AnnounceRunning
  <2>3. /\ cacheCurrent' => cachedObj' = obj'
        /\ ObjectStep
    <3>1. CASE UNCHANGED <<obj, cacheCurrent>>
      BY <2>2, <3>1 DEF VersionedCopies, ObjectStep
    <3>2. CASE ph \in {"Resizing", "Running"} /\ \E a : Update(ph, a)
      <4>1. ph \in Announced /\ ph # "Creating"
        BY <3>2 DEF Announced
      <4> QED
        BY <2>2, <3>2, <4>1, UpdateStep, AnnounceStep DEF ObjectStep, Object!Next
    <3> QED
      BY <2>1, <3>1, <3>2
  <2>4. depCurrent => Object!Stage(obj.phase) <= Object!Stage(ph)
    BY <2>1, StageBounds DEF VersionedCopies, TypeOK, Objects
  <2>5. CASE KeepCopy(ph) /\ pc' \in {"configure", "running"}
    BY <2>3, <2>4, <2>5, KeepCopyStep DEF VersionedCopies
  <2>6. CASE Return
    BY <2>3, <2>6 DEF VersionedCopies, Return
  <2> QED
    BY <2>1, <2>3, <2>5, <2>6
<1>6. CASE Configure
  BY <1>6 DEF Configure, Return, VersionedCopies, ObjectStep
<1>7. CASE User
  <2>1. VersionedCopies'
    BY <1>7 DEF User, UserEdits, UserDeletes, UserCreates, ChangeObj, VersionedCopies
  <2>2. Object!Next
    <3>1. CASE UserEdits
      BY <3>1 DEF UserEdits, ChangeObj, TypeOK, Objects, Object!Next, Object!UserEdits
    <3>2. CASE UserDeletes
      BY <3>2 DEF UserDeletes, ChangeObj, TypeOK, Objects, Object!Next,
                  Object!UserDeletes
    <3>3. CASE UserCreates
      BY <3>3 DEF UserCreates, ChangeObj, TypeOK, Objects, Object!Next,
                  Object!UserCreates
    <3> QED
      BY <1>7, <3>1, <3>2, <3>3 DEF User
  <2> QED
    BY <2>1, <2>2 DEF ObjectStep
<1>8. CASE Kubelet \/ Garbage
  <2>1. UNCHANGED <<obj, caches, worker>>
    BY <1>8 DEF Kubelet, PodStep, PodStarted, PodReady, PodGone, PodUnready,
                PodDeleted, PodEvicted, ClaimGone,
                Garbage, CollectPod, CollectClaim, CollectBase, SetPod
  <2> QED
    BY <2>1 DEF VersionedCopies, ObjectStep
<1>9. CASE Watch
  BY <1>9 DEF Watch, ObserveObj, ObservePods, VersionedCopies, ObjectStep
<1>10. CASE Crash
  BY <1>10 DEF Crash, Return, VersionedCopies, ObjectStep
<1>11. CASE UNCHANGED vars
  BY <1>11 DEF vars, VersionedCopies, ObjectStep
<1> QED
  BY <1>1, <1>2, <1>3, <1>4, <1>5, <1>6, <1>7, <1>8, <1>9, <1>10, <1>11
  DEF Next, Worker

\* A copy with the present resourceVersion is the object but for a later phase.
THEOREM CopiesVersioned == Spec => []VersionedCopies
<1>1. Init => TypeOK /\ VersionedCopies
  BY InitTypeOK, InitVersionedCopies
<1>2. (TypeOK /\ VersionedCopies) /\ [Next]_vars => (TypeOK /\ VersionedCopies)'
  BY NextTypeOK, VersionedStep
<1> QED
  BY <1>1, <1>2, PTL DEF Spec

\* sync, its stale caches, its refused and lost updates and its restarts never
\* do to the object what module Lifecycle does not allow: the detailed
\* specification implements the abstract one.
THEOREM LifecycleImplemented == Spec => ImplementsLifecycle
<1>1. Init => Object!Init
  <2> SUFFICES ASSUME Init PROVE Object!Init
    OBVIOUS
  <2>1. PICK s \in Specs :
          obj = [exists |-> TRUE, uid |-> 1, spec |-> s, phase |-> "None"]
    BY DEF Init
  <2> QED
    BY <2>1 DEF Object!Init
<1>2. TypeOK /\ VersionedCopies /\ [Next]_vars => [Object!Next]_(Object!lifecycleVars)
  BY VersionedStep DEF ObjectStep, Object!lifecycleVars
<1> QED
  BY <1>1, <1>2, TypeCorrect, CopiesVersioned, PTL
  DEF Spec, ImplementsLifecycle, Object!Spec
=============================================================================
