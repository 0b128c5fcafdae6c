-------------------------- MODULE ReplicationProofs --------------------------
(***************************************************************************)
(* Proofs about module Replication, for any number of publishers, foreign  *)
(* agents, passwords and disruptions.                                      *)
(***************************************************************************)
EXTENDS Replication, OrdinalsProofs

-----------------------------------------------------------------------------
(* The inductive invariant.                                                *)

Resizing == pc \in {"resize", "create", "claim", "pod"}

\* resizeDeployment has something to handle; it adds publishers or removes
\* them, before that perhaps adds the author, and never removes the author.
ResizeInOrder ==
  /\ Resizing => pending # {}
  /\ pc = "create" => Adding
  /\ pc \in {"claim", "pod"} => ~Adding
  /\ \A m \in pending : list[m] # "absent" => m # 0
  /\ \A m, n \in pending : list[m] # "absent" /\ list[n] = "absent" => n = 0

Configuring == pc \in {"configure", "cleanup"}

\* Where a pod that has been initialized can be.
Past == {"initialized", "terminating", "absent"}

\* What the cache and the list can lag behind.  A pod is made only for a name
\* that the list does not hold, so neither ever holds an earlier pod of a name
\* that has a younger one.
CacheLags ==
  \A m \in Members :
    /\ cachedPods[m] = "absent" => pods[m] # "initialized"
    /\ cachedPods[m] = "initialized" => pods[m] \in Past

ListLags ==
  pc # "idle" =>
    \A m \in Members :
      /\ list[m] = "absent" => pods[m] # "initialized" /\ cachedPods[m] # "initialized"
      /\ list[m] # "absent" /\ cachedPods[m] = "absent" => pods[m] = "absent"
      /\ list[m] = "initialized" => pods[m] \in Past

\* What the passes over the list have behind them.
PassesInOrder ==
  /\ todo \subseteq {m \in Members : list[m] = "ready"}
  /\ pc # "configure" => todo = {}
  /\ Configuring =>
       \A m \in Members :
         list[m] # "absent" /\ m \notin todo => pods[m] \in Past

\* The repository of a publisher has taken the password that Vault has.
Secured(p) == secret[p] = admin[p] /\ admin[p] \in Passwords

Typed == TypeOK /\ ResizeInOrder
Lags  == CacheLags /\ ListLags /\ PassesInOrder

\* A claim is deleted only after removeInstance has begun.
CutFirst ==
  /\ pc \in {"claim", "pod"} => fate[Turn] = "cut"
  /\ \A p \in Publishers : claim[p] = "terminating" => fate[p] = "cut"

\* The repository has its password as soon as sync may think so, and from then
\* on until it is removed: the pod may come and go, but volume and secret stay.
Known(p) == \/ "initialized" \in {pods[p], cachedPods[p]}
            \/ pc # "idle" /\ list[p] = "initialized"
            \/ Configuring /\ list[p] # "absent" /\ p \notin todo

KnownSecured ==
  \A p \in Publishers : fate[p] # "cut" /\ Known(p) => Secured(p)

\* And so its agent, unless that is older, keeps fitting.
SoundFits ==
  \A p \in Publishers : fate[p] = "sound" /\ agents[p] \notin {"absent", "none"} =>
                           Secured(p) /\ agents[p] = admin[p]

\* A publisher that every specification asks for is not removed.
LastingKept ==
  /\ \A p \in Lasting : fate[p] = "sound"
  /\ \A m \in pending : list[m] # "absent" => m \notin Lasting

-----------------------------------------------------------------------------
(* Type correctness.                                                       *)

LEMMA Sizes ==
  /\ MaxReplicas \in Nat /\ MaxDisruptions \in Nat /\ MaxEdits \in Nat
  /\ Wants \subseteq 0..MaxReplicas
  BY ReplicationAssumption, Zenon

LEMMA FreshExists ==
  ASSUME NEW x, NEW y
  PROVE  \E pwd \in Passwords : pwd # x /\ pwd # y
<1>1. /\ \E pwd \in Passwords : TRUE
      /\ \A v, w \in Passwords : Passwords \ {v, w} # {}
  BY ReplicationAssumption, Zenon
<1> QED
  BY <1>1

LEMMA MembersFinite ==
  /\ IsFiniteSet(Members)
  /\ \A m \in Members : m \in Nat
  /\ \A p \in Publishers : p \in Nat \ {0} /\ p \in Members
<1>1. Members = 0..MaxReplicas
  BY Sizes DEF Members, Publishers
<1>2. IsFiniteSet(0..MaxReplicas)
  BY Sizes, FS_Interval
<1>3. \A p \in Publishers : p \in Nat \ {0} /\ p \in Members
  BY Sizes DEF Members, Publishers
<1> QED
  BY <1>1, <1>2, <1>3, Sizes

\* addInstance and removeInstance work on a pending member, and removeInstance
\* on a listed publisher.
LEMMA TurnPending ==
  ASSUME Typed, Resizing
  PROVE  /\ Turn \in pending /\ Turn \in Members
         /\ Adding => list[Turn] = "absent"
         /\ ~Adding => Turn \in Publishers /\ list[Turn] # "absent"
<1> DEFINE low  == Min(pending)
           high == Max(pending)
<1>1. pending \subseteq Members /\ pending # {}
  BY DEF Typed, TypeOK, ResizeInOrder
<1>2. IsFiniteSet(pending) /\ \A m \in pending : m \in Int
  BY <1>1, MembersFinite, FS_Subset
<1>3. low \in pending /\ high \in pending /\ low <= high
  BY <1>1, <1>2, MinMember, MaxMember
<1>4. Adding <=> low \notin Listed(list)
  BY DEF Adding
<1>5. Turn = IF Adding THEN low ELSE high
  BY DEF Turn
<1> HIDE DEF low, high
<1>6. CASE Adding
  BY <1>1, <1>3, <1>4, <1>5, <1>6 DEF Listed
<1>7. CASE ~Adding
  <2>1. list[low] # "absent" /\ low # 0 /\ low \in Nat /\ high \in Nat
    BY <1>1, <1>3, <1>4, <1>7, MembersFinite DEF Typed, ResizeInOrder, Listed
  <2>2. high # 0
    BY <1>3, <2>1
  <2>3. list[high] # "absent"
    BY <1>3, <2>1, <2>2 DEF Typed, ResizeInOrder
  <2> QED
    BY <1>1, <1>3, <1>5, <1>7, <2>2, <2>3 DEF Members
<1> QED
  BY <1>6, <1>7

LEMMA FreshType ==
  ASSUME TypeOK, NEW p \in Publishers
  PROVE  Fresh(p) \in Passwords
<1>1. \E pwd \in Passwords : pwd # admin[p] /\ pwd # agents[p]
  BY FreshExists
<1> QED
  BY <1>1 DEF Fresh

LEMMA WithType ==
  ASSUME TypeOK, NEW S \in SUBSET (Publishers \cup Foreign),
         NEW f, \A x \in S : f[x] \in Passwords \cup {"none", "absent"}, DOMAIN f = S
  PROVE  With(f) \in [Publishers \cup Foreign -> Passwords \cup {"none", "absent", "foreign"}]
  BY DEF With, TypeOK

LEMMA DisruptType ==
  ASSUME TypeOK, NEW k, Disrupt(k) \/ Calm
  PROVE  disruptions' \in 0..MaxDisruptions
  BY Sizes DEF TypeOK, Disrupt, Calm

LEMMA ReturnTyped ==
  ASSUME Return
  PROVE  /\ pc' = "idle"
         /\ list' \in [Members -> Views]
         /\ pending' = {} /\ todo' = {} /\ rest' = {} /\ existing' = {}
         /\ resized' \in BOOLEAN
  BY DEF Return, NoPods, Views

LEMMA InitTyped == Init => Typed
<1> SUFFICES ASSUME Init PROVE Typed
  OBVIOUS
<1>1. NoPods \in [Members -> Statuses] /\ NoPods \in [Members -> Views]
  BY DEF NoPods, Statuses, Views
<1>2. agents \in [Publishers \cup Foreign -> Passwords \cup {"none", "absent", "foreign"}]
  BY DEF Init
<1>3. disruptions \in 0..MaxDisruptions /\ edits \in 0..MaxEdits
  BY Sizes DEF Init
<1> QED
  BY <1>1, <1>2, <1>3
  DEF Init, Typed, TypeOK, ResizeInOrder, Resizing, ClaimStatuses, Fates

\* Whatever becomes of an instance, sync goes through the pending members.
LEMMA HandledTyped ==
  ASSUME Typed, Handled
  PROVE  /\ pc' \in {"announce", "resize"} /\ pending' \in SUBSET Members
         /\ ResizeInOrder'
<1>1. /\ pending' \subseteq pending /\ list' = list
      /\ pc' \in {"announce", "resize"}
      /\ pc' = "resize" => pending' # {}
  BY DEF Handled
<1>2. \A n \in pending' : n \in pending
  BY <1>1
<1> QED
  BY <1>1, <1>2 DEF Typed, TypeOK, ResizeInOrder, Resizing

LEMMA NextCallTyped ==
  ASSUME Typed, NEW call, NextCall(call), Resizing,
         (call = "create" /\ Adding) \/ (call \in {"claim", "pod"} /\ ~Adding)
  PROVE  ResizeInOrder'
  BY DEF NextCall, locals, Typed, ResizeInOrder, Resizing, Adding, Listed

LEMMA ViewType ==
  ASSUME TypeOK
  PROVE  /\ View \in [Members -> Views]
         /\ \A m \in Members : /\ View[m] = "absent" <=> pods[m] = "absent"
                               /\ View[m] = "initialized" <=> pods[m] = "initialized"
  BY DEF View, Views, TypeOK, Statuses

\* What resizeDeployment is handed.
LEMMA ToResizeTyped ==
  ASSUME TypeOK, NEW view \in [Members -> Views]
  PROVE  /\ ToResize(view, want) \in SUBSET Members
         /\ \A m \in ToResize(view, want) :
              view[m] # "absent" => m \in Surplus(Listed(view) \ {0}, want)
         /\ \A m, n \in ToResize(view, want) :
              view[m] # "absent" /\ view[n] = "absent" => n = 0
<1> DEFINE published == Listed(view) \ {0}
<1>1. want \in 0..MaxReplicas
  BY Sizes DEF TypeOK
<1>2. Missing(published, want) \subseteq Publishers \ published
  BY <1>1, Sizes DEF Missing, Publishers
<1>3. Surplus(published, want) \subseteq published
  BY DEF Surplus
<1>4. published \subseteq Members /\ \A m \in Members : m \in published <=> view[m] # "absent" /\ m # 0
  BY DEF Listed
<1>5. 0 \in Members /\ Publishers \subseteq Members /\ 0 \notin Publishers
  BY Sizes DEF Members, Publishers
<1>6. \/ ToResize(view, want) = ({0} \ Listed(view)) \cup Missing(published, want)
      \/ ToResize(view, want) = ({0} \ Listed(view)) \cup Surplus(published, want)
  BY DEF ToResize
<1>7. 0 \in Listed(view) <=> view[0] # "absent"
  BY <1>5 DEF Listed
<1> HIDE DEF published
<1>8. CASE ToResize(view, want) = ({0} \ Listed(view)) \cup Missing(published, want)
  <2>1. \A m \in ToResize(view, want) : m \in Members /\ view[m] = "absent"
    BY <1>2, <1>4, <1>5, <1>7, <1>8
  <2> QED
    BY <2>1
<1>9. CASE ToResize(view, want) = ({0} \ Listed(view)) \cup Surplus(published, want)
  <2>1. \A m \in ToResize(view, want) :
          \/ m = 0 /\ view[m] = "absent"
          \/ m \in Surplus(published, want) /\ m \in Members /\ view[m] # "absent"
    BY <1>3, <1>4, <1>7, <1>9
  <2> QED
    BY <1>5, <2>1 DEF published
<1> QED
  BY <1>6, <1>8, <1>9

LEMMA SurplusPublishers ==
  ASSUME TypeOK, NEW view, NEW p \in Surplus(Listed(view) \ {0}, want)
  PROVE  p \in Publishers /\ p > want
<1> DEFINE published == Listed(view) \ {0}
<1>1. published \subseteq Publishers
  BY DEF Listed, Members
<1>2. IsFiniteSet(published) /\ \A x \in published : x \in Nat \ {0}
  BY <1>1, MembersFinite, FS_Subset DEF Members
<1>3. want \in Nat
  BY Sizes DEF TypeOK
<1>4. p \in published
  BY DEF Surplus
<1> HIDE DEF published
<1>5. p > want
  BY <1>2, <1>3, SurplusAbove DEF published
<1> QED
  BY <1>1, <1>4, <1>5

LEMMA NextTyped == Typed /\ [Next]_vars => Typed'
<1> SUFFICES ASSUME Typed, [Next]_vars PROVE Typed'
  OBVIOUS
<1> USE DEF cluster, locals, Typed
<1>a. \A k : Disrupt(k) \/ Calm => disruptions' \in 0..MaxDisruptions
  BY DisruptType
<1>b. \A m \in Members : m \in Publishers \/ m = 0
  BY DEF Members
<1>1. CASE BeginSync
  <2>1. /\ ToResize(cachedPods, want) \in SUBSET Members
        /\ \A m \in ToResize(cachedPods, want) :
             cachedPods[m] # "absent" => m \in Publishers
        /\ \A m, n \in ToResize(cachedPods, want) :
             cachedPods[m] # "absent" /\ cachedPods[n] = "absent" => n = 0
    BY ToResizeTyped, SurplusPublishers DEF TypeOK
  <2>2. \A p \in Publishers : p # 0
    BY MembersFinite
  <2>3. ResizeInOrder'
    BY <1>1, <2>1, <2>2 DEF BeginSync, ResizeInOrder, Resizing
  <2>4. TypeOK'
    BY <1>1, <2>1 DEF BeginSync, TypeOK
  <2> QED
    BY <2>3, <2>4
<1>2. CASE AddInstance \/ RemoveInstance
  <2>1. Resizing
    BY <1>2 DEF AddInstance, TakeClaim, CreatePod, RemoveInstance, DeleteSecret, DeleteClaim,
                DeletePod, Resizing
  <2>2. Turn \in Members /\ (~Adding => Turn \in Publishers)
    BY <2>1, TurnPending
  <2>3. disruptions' \in 0..MaxDisruptions /\ UNCHANGED edits
    BY <1>2, <1>a DEF AddInstance, TakeClaim, CreatePod, RemoveInstance, DeleteSecret,
                      DeleteClaim, DeletePod, Handled, NextCall
  <2>4. CASE TakeClaim
    <3>1. claim' \in [Publishers -> ClaimStatuses]
      BY <2>4 DEF TakeClaim, TypeOK, ClaimStatuses
    <3>2. CASE NextCall("create")
      <4>1. ResizeInOrder'
        BY <2>1, <2>4, <3>2, NextCallTyped DEF TakeClaim
      <4> QED
        BY <2>3, <2>4, <3>1, <3>2, <4>1 DEF TakeClaim, NextCall, TypeOK
    <3>3. CASE Handled
      BY <2>3, <2>4, <3>1, <3>3, HandledTyped DEF TakeClaim, Handled, TypeOK
    <3> QED
      BY <2>4, <3>2, <3>3 DEF TakeClaim
  <2>5. CASE CreatePod
    <3>1. pods' \in [Members -> Statuses]
      BY <2>5 DEF CreatePod, TypeOK, Statuses
    <3> QED
      BY <2>3, <2>5, <3>1, HandledTyped DEF CreatePod, Handled, TypeOK
  <2>6. CASE DeleteSecret
    <3>1. /\ secret' \in [Publishers -> Passwords \cup {"none"}]
          /\ fate' \in [Publishers -> Fates]
      BY <2>6 DEF DeleteSecret, TypeOK, Fates
    <3> QED
      BY <2>1, <2>3, <2>6, <3>1, NextCallTyped DEF DeleteSecret, NextCall, TypeOK
  <2>7. CASE DeleteClaim
    <3>1. claim' \in [Publishers -> ClaimStatuses]
      BY <2>7 DEF DeleteClaim, TypeOK, ClaimStatuses
    <3>2. ~Adding
      BY <2>7 DEF DeleteClaim, ResizeInOrder
    <3> QED
      BY <2>1, <2>3, <2>7, <3>1, <3>2, NextCallTyped DEF DeleteClaim, NextCall, TypeOK
  <2>8. CASE DeletePod
    <3>1. pods' \in [Members -> Statuses]
      BY <2>8 DEF DeletePod, TypeOK, Statuses
    <3> QED
      BY <2>3, <2>8, <3>1, HandledTyped DEF DeletePod, Handled, TypeOK
  <2> QED
    BY <1>2, <2>4, <2>5, <2>6, <2>7, <2>8 DEF AddInstance, RemoveInstance
<1>3. ASSUME NEW p \in Publishers, ClaimGone(p)
      PROVE  Typed'
  <2>1. /\ claim' \in [Publishers -> ClaimStatuses]
        /\ admin' \in [Publishers -> Passwords \cup {"default"}]
        /\ flush' \in SUBSET Publishers
    BY <1>3 DEF ClaimGone, TypeOK, ClaimStatuses
  <2> QED
    BY <1>3, <2>1 DEF ClaimGone, TypeOK, ResizeInOrder, Resizing, Adding, Turn, Listed
<1>4. CASE Announce
  <2>1. disruptions' \in 0..MaxDisruptions
    BY <1>4, <1>a DEF Announce
  <2>2. Uninitialized(list) \in SUBSET Members /\ Listed(list) \in SUBSET Members
    BY DEF Uninitialized, Listed
  <2> QED
    BY <1>4, <2>1, <2>2, ReturnTyped DEF Announce, TypeOK, ResizeInOrder, Resizing
<1>5. CASE InitAuthor
  <2>1. disruptions' \in 0..MaxDisruptions
    BY <1>5, <1>a DEF InitAuthor
  <2>2. pods' \in [Members -> Statuses]
    BY <1>5 DEF InitAuthor, TypeOK, Statuses
  <2> QED
    BY <1>5, <2>1, <2>2, ReturnTyped DEF InitAuthor, TypeOK, ResizeInOrder, Resizing
<1>6. ASSUME NEW p \in Publishers, InitPublisher(p)
      PROVE  Typed'
  <2> DEFINE pwd == IF secret[p] = "none" THEN Fresh(p) ELSE secret[p]
  <2>1. pwd \in Passwords
    BY FreshType DEF TypeOK
  <2>2. disruptions' \in 0..MaxDisruptions
    BY <1>6, <1>a DEF InitPublisher
  <2>3. /\ secret' \in {secret, [secret EXCEPT ![p] = pwd]}
        /\ admin' \in {admin, [admin EXCEPT ![p] = pwd]}
        /\ pods' \in {pods, [pods EXCEPT ![p] = "initialized"]}
        /\ fate' \in {fate, [fate EXCEPT ![p] = AfterInit(p)]}
        /\ \/ Return
           \/ /\ todo' = todo \ {p} /\ pc = "configure"
              /\ UNCHANGED <<pc, list, pending, resized, rest, existing>>
    BY <1>6 DEF InitPublisher
  <2>4. UNCHANGED <<want, edits, claim, agents, flush, cachedPods>>
    BY <1>6 DEF InitPublisher
  <2> HIDE DEF pwd
  <2>5. /\ secret' \in [Publishers -> Passwords \cup {"none"}]
        /\ admin' \in [Publishers -> Passwords \cup {"default"}]
        /\ pods' \in [Members -> Statuses]
        /\ fate' \in [Publishers -> Fates]
    BY <2>1, <2>3 DEF TypeOK, Statuses, Fates, AfterInit
  <2> QED
    BY <2>2, <2>3, <2>4, <2>5, ReturnTyped DEF TypeOK, ResizeInOrder, Resizing
<1>7. CASE CreateAgents
  <2>1. disruptions' \in 0..MaxDisruptions
    BY <1>7, <1>a DEF CreateAgents
  <2>2. agents' \in [Publishers \cup Foreign -> Passwords \cup {"none", "absent", "foreign"}]
    <3> DEFINE names == {a \in DOMAIN agents : agents[a] # "absent"}
               new   == Published \ names
    <3>1. new \subseteq Publishers
      BY DEF Published, Listed, Members
    <3>2. \A S \in SUBSET new : \A f :
            /\ DOMAIN f = S
            /\ \A q \in S : f[q] \in {secret[q], "none"}
            => With(f) \in [Publishers \cup Foreign ->
                              Passwords \cup {"none", "absent", "foreign"}]
      BY <3>1, WithType DEF TypeOK
    <3>3. \/ UNCHANGED agents
          \/ \E S \in SUBSET new : agents' = With([q \in S |-> secret[q]])
          \/ \E lost \in SUBSET new :
               agents' = With([q \in new |-> IF q \in lost THEN "none" ELSE secret[q]])
      BY <1>7 DEF CreateAgents
    <3> HIDE DEF new
    <3>4. CASE \E S \in SUBSET new : agents' = With([q \in S |-> secret[q]])
      BY <3>2, <3>4
    <3>5. CASE \E lost \in SUBSET new :
                 agents' = With([q \in new |-> IF q \in lost THEN "none" ELSE secret[q]])
      BY <3>2, <3>5
    <3> QED
      BY <3>3, <3>4, <3>5 DEF TypeOK
  <2>3. {a \in DOMAIN agents : agents[a] # "absent"} \in SUBSET (Publishers \cup Foreign)
    BY DEF TypeOK
  <2> QED
    BY <1>7, <2>1, <2>2, <2>3, ReturnTyped DEF CreateAgents, TypeOK, ResizeInOrder, Resizing
<1>8. CASE RemoveAgents
  <2>1. disruptions' \in 0..MaxDisruptions
    BY <1>8, <1>a DEF RemoveAgents
  <2>2. PICK gone \in SUBSET Unneeded(existing) :
          agents' = With([a \in gone |-> "absent"]) \/ UNCHANGED agents
    BY <1>8 DEF RemoveAgents
  <2>3. gone \in SUBSET (Publishers \cup Foreign)
    BY DEF Unneeded, TypeOK
  <2>4. agents' \in [Publishers \cup Foreign -> Passwords \cup {"none", "absent", "foreign"}]
    <3> DEFINE f == [a \in gone |-> "absent"]
    <3>1. DOMAIN f = gone /\ \A a \in gone : f[a] \in Passwords \cup {"none", "absent"}
      OBVIOUS
    <3> HIDE DEF f
    <3>2. With(f) \in [Publishers \cup Foreign -> Passwords \cup {"none", "absent", "foreign"}]
      BY <2>3, <3>1, WithType
    <3> QED
      BY <2>2, <3>2 DEF TypeOK, f
  <2> QED
    BY <1>8, <2>1, <2>4, ReturnTyped DEF RemoveAgents, Checked, TypeOK, ResizeInOrder, Resizing
<1>9. ASSUME NEW p \in Publishers, CheckPublishConfig(p)
      PROVE  Typed'
  <2>1. disruptions' \in 0..MaxDisruptions
    BY <1>9, <1>a DEF CheckPublishConfig
  <2>2. flush' \in SUBSET Publishers
    BY <1>9 DEF CheckPublishConfig, Published, Listed, Members, TypeOK
  <2> QED
    BY <1>9, <2>1, <2>2, ReturnTyped DEF CheckPublishConfig, Checked, TypeOK, ResizeInOrder, Resizing
<1>10. CASE Scale
  <2>1. edits' \in 0..MaxEdits
    BY <1>10, Sizes DEF Scale, TypeOK
  <2> QED
    BY <1>10, <2>1 DEF Scale, TypeOK, ResizeInOrder, Resizing, Adding, Listed
<1>11. ASSUME NEW m \in Members, PodReady(m) \/ PodGone(m) \/ PodDeleted(m)
       PROVE  Typed'
  <2>1. disruptions' \in 0..MaxDisruptions
    BY <1>11, <1>a DEF PodReady, PodGone, PodDeleted, Calm
  <2>2. pods' \in [Members -> Statuses]
    BY <1>11 DEF PodReady, PodGone, PodDeleted, TypeOK, Statuses
  <2> QED
    BY <1>11, <2>1, <2>2
    DEF PodReady, PodGone, PodDeleted, TypeOK, ResizeInOrder, Resizing, Adding, Listed
<1>12. CASE ObservePods
  BY <1>12, ViewType DEF ObservePods, TypeOK, ResizeInOrder, Resizing, Adding, Listed
<1>13. CASE Crash
  <2>1. disruptions' \in 0..MaxDisruptions
    BY <1>13, <1>a DEF Crash
  <2> QED
    BY <1>13, <2>1, ReturnTyped DEF Crash, TypeOK, ResizeInOrder, Resizing
<1>14. CASE UNCHANGED vars
  BY <1>14 DEF vars, TypeOK, ResizeInOrder, Resizing, Adding, Listed
<1> QED
  BY <1>1, <1>2, <1>3, <1>4, <1>5, <1>6, <1>7, <1>8, <1>9, <1>10, <1>11, <1>12,
     <1>13, <1>14
  DEF Next, Worker, Kubelet

\* The variables stay in their types.
THEOREM TypeCorrect == Spec => []TypeOK
<1>1. Typed => TypeOK
  BY DEF Typed
<1> QED
  BY <1>1, InitTyped, NextTyped, PTL DEF Spec

-----------------------------------------------------------------------------
(* What sync can know of the pods.                                         *)

LEMMA InitLags == Init => Lags
  BY DEF Init, NoPods, Lags, CacheLags, ListLags, PassesInOrder, Configuring, Past

LEMMA NextLags == Typed /\ Lags /\ [Next]_vars => Lags'
<1> SUFFICES ASSUME Typed, Lags, [Next]_vars PROVE Lags'
  OBVIOUS
<1> USE DEF cluster, locals, Typed, Lags
<1>1. CASE BeginSync
  BY <1>1 DEF BeginSync, CacheLags, ListLags, PassesInOrder, Configuring, TypeOK
<1>2. CASE AddInstance \/ RemoveInstance
  <2>1. /\ Resizing /\ pc' # "idle" /\ ~Configuring /\ ~Configuring'
        /\ todo = {} /\ pc' # "configure"
        /\ UNCHANGED <<list, cachedPods, todo>>
    BY <1>2 DEF AddInstance, TakeClaim, CreatePod, RemoveInstance, DeleteSecret, DeleteClaim,
                DeletePod, Handled, NextCall, Resizing, Configuring, PassesInOrder
  <2>2. /\ Turn \in Members
        /\ pc = "create" => list[Turn] = "absent"
    BY <2>1, TurnPending DEF ResizeInOrder
  <2>3. \/ pods' = pods
        \/ pc = "create" /\ pods[Turn] = "absent" /\ pods' = [pods EXCEPT ![Turn] = "starting"]
        \/ pods' = [pods EXCEPT ![Turn] = IF @ = "absent" THEN @ ELSE "terminating"]
    BY <1>2 DEF AddInstance, TakeClaim, CreatePod, RemoveInstance, DeleteSecret, DeleteClaim,
                DeletePod
  <2>4. \A m \in Members :
          \/ pods'[m] = pods[m]
          \/ list[m] = "absent" /\ pods[m] = "absent" /\ pods'[m] = "starting"
          \/ pods[m] # "absent" /\ pods'[m] = "terminating"
    BY <2>2, <2>3 DEF TypeOK
  <2>5. pc # "idle"
    BY <2>1 DEF Resizing
  <2> QED
    BY <2>1, <2>4, <2>5 DEF CacheLags, ListLags, PassesInOrder, Past
<1>3. ASSUME NEW p \in Publishers, ClaimGone(p)
      PROVE  Lags'
  BY <1>3 DEF ClaimGone, CacheLags, ListLags, PassesInOrder, Configuring, Past
<1>4. CASE Announce
  <2>1. UNCHANGED <<pods, cachedPods>>
    BY <1>4 DEF Announce
  <2>2. CASE Return
    BY <2>1, <2>2 DEF Return, CacheLags, ListLags, PassesInOrder, Configuring
  <2>3. CASE /\ \A m \in Listed(list) : Healthy(list[m])
             /\ todo' = Uninitialized(list)
             /\ pc = "announce" /\ pc' = "configure"
             /\ UNCHANGED list
    BY <2>1, <2>3 DEF Uninitialized, Listed, Healthy, CacheLags, ListLags, PassesInOrder,
                      Configuring
  <2> QED
    BY <1>4, <2>2, <2>3 DEF Announce
<1>5. ASSUME NEW m \in Members, (InitAuthor /\ m = 0) \/ (m \in Publishers /\ InitPublisher(m))
      PROVE  Lags'
  <2>1. pc = "configure" /\ m \in todo /\ UNCHANGED cachedPods
    BY <1>5 DEF InitAuthor, InitPublisher
  <2>2. list[m] = "ready"
    BY <2>1 DEF PassesInOrder
  <2>3. CASE UNCHANGED pods /\ Return
    BY <2>1, <2>3 DEF Return, CacheLags, ListLags, PassesInOrder, Configuring
  <2>4. CASE /\ pods[m] = "ready" /\ pods' = [pods EXCEPT ![m] = "initialized"]
             /\ todo' = todo \ {m} /\ UNCHANGED <<pc, list>>
    BY <2>1, <2>2, <2>4 DEF CacheLags, ListLags, PassesInOrder, Configuring, Past, TypeOK
  <2> QED
    BY <1>5, <2>3, <2>4 DEF InitAuthor, InitPublisher
<1>6. ASSUME \/ CreateAgents \/ RemoveAgents
             \/ \E p \in Publishers : CheckPublishConfig(p)
      PROVE  Lags'
  <2>1. /\ UNCHANGED <<pods, cachedPods>> /\ Configuring
        /\ Return \/ (Configuring' /\ todo = {} /\ UNCHANGED <<list, todo>>)
    BY <1>6 DEF CreateAgents, RemoveAgents, CheckPublishConfig, Checked, Configuring,
                PassesInOrder
  <2> QED
    BY <2>1 DEF Return, CacheLags, ListLags, PassesInOrder, Configuring
<1>7. CASE Scale \/ UNCHANGED vars
  BY <1>7 DEF Scale, vars, CacheLags, ListLags, PassesInOrder, Configuring
<1>8. ASSUME NEW m \in Members, PodReady(m) \/ PodGone(m) \/ PodDeleted(m)
      PROVE  Lags'
  <2>1. \/ pods[m] = "starting" /\ pods' = [pods EXCEPT ![m] = "ready"]
        \/ pods[m] = "terminating" /\ pods' = [pods EXCEPT ![m] = "absent"]
        \/ /\ pods[m] \in {"starting", "ready", "initialized"}
           /\ pods' = [pods EXCEPT ![m] = "terminating"]
    BY <1>8 DEF PodReady, PodGone, PodDeleted
  <2>2. UNCHANGED <<cachedPods, pc, list, todo>>
    BY <1>8 DEF PodReady, PodGone, PodDeleted
  <2> QED
    BY <2>1, <2>2 DEF CacheLags, ListLags, PassesInOrder, Configuring, Past, TypeOK
<1>9. CASE ObservePods
  BY <1>9, ViewType DEF ObservePods, CacheLags, ListLags, PassesInOrder, Configuring, Past
<1>10. CASE Crash
  BY <1>10 DEF Crash, Return, CacheLags, ListLags, PassesInOrder, Configuring, Past
<1> QED
  BY <1>1, <1>2, <1>3, <1>4, <1>5, <1>6, <1>7, <1>8, <1>9, <1>10, MembersFinite
  DEF Next, Worker, Kubelet, Members

-----------------------------------------------------------------------------
(* The passwords.                                                          *)

\* checkPodInitialized, whatever it gets done: a publisher that has been
\* secured keeps its password, one that is initialized has been.
LEMMA InitPublisherSecures ==
  ASSUME Typed, NEW p \in Publishers, InitPublisher(p)
  PROVE  /\ \A q \in Publishers \ {p} : /\ secret'[q] = secret[q] /\ admin'[q] = admin[q]
                                       /\ pods'[q] = pods[q]
         /\ Secured(p) => secret'[p] = secret[p] /\ admin'[p] = admin[p]
         /\ UNCHANGED pods \/ (Secured(p)' /\ pods' = [pods EXCEPT ![p] = "initialized"])
<1> DEFINE pwd == IF secret[p] = "none" THEN Fresh(p) ELSE secret[p]
<1>1. /\ secret' = secret \/ secret' = [secret EXCEPT ![p] = pwd]
      /\ admin' = admin \/ admin' = [admin EXCEPT ![p] = pwd]
      /\ \/ pods' = pods
         \/ /\ secret' = [secret EXCEPT ![p] = pwd]
            /\ admin' = [admin EXCEPT ![p] = pwd]
            /\ pods' = [pods EXCEPT ![p] = "initialized"]
  BY DEF InitPublisher
<1>2. "none" \notin Passwords
  BY ReplicationAssumption, Zenon
<1>3. pwd \in Passwords
  BY FreshType DEF Typed, TypeOK
<1>4. secret[p] \in Passwords => pwd = secret[p]
  BY <1>2
<1> HIDE DEF pwd
<1>5. p \in Members /\ pods \in [Members -> Statuses]
  BY MembersFinite DEF Typed, TypeOK
<1>6. /\ secret \in [Publishers -> Passwords \cup {"none"}]
      /\ admin \in [Publishers -> Passwords \cup {"default"}]
  BY DEF Typed, TypeOK
<1>7. \A q \in Publishers \ {p} : /\ secret'[q] = secret[q] /\ admin'[q] = admin[q]
                                 /\ pods'[q] = pods[q]
  BY <1>1, <1>5, <1>6, MembersFinite
<1>8. Secured(p) => secret'[p] = secret[p] /\ admin'[p] = admin[p]
  BY <1>1, <1>4, <1>6 DEF Secured
<1>9. UNCHANGED pods \/ (Secured(p)' /\ pods' = [pods EXCEPT ![p] = "initialized"])
  BY <1>1, <1>3, <1>6 DEF Secured
<1> QED
  BY <1>7, <1>8, <1>9

\* What else can change the password in Vault or in a repository.
LEMMA PasswordsChange ==
  ASSUME Typed, [Next]_vars, NEW p \in Publishers
  PROVE  \/ secret'[p] = secret[p] /\ admin'[p] = admin[p]
         \/ InitPublisher(p)
         \/ DeleteSecret /\ fate'[p] = "cut"
         \/ ClaimGone(p)
<1> USE DEF cluster, locals, Typed
<1>1. CASE DeleteSecret
  <2>1. Resizing /\ ~Adding
    BY <1>1 DEF DeleteSecret, Resizing
  <2>2. Turn \in Publishers
    BY <2>1, TurnPending
  <2> QED
    BY <1>1, <2>2 DEF DeleteSecret, TypeOK
<1>2. ASSUME NEW q \in Publishers, InitPublisher(q)
      PROVE  (secret'[p] = secret[p] /\ admin'[p] = admin[p]) \/ InitPublisher(p)
  BY <1>2, InitPublisherSecures
<1>3. ASSUME NEW q \in Publishers, ClaimGone(q)
      PROVE  (secret'[p] = secret[p] /\ admin'[p] = admin[p]) \/ ClaimGone(p)
  BY <1>3 DEF ClaimGone, TypeOK
<1>4. ASSUME \/ BeginSync \/ AddInstance \/ DeleteClaim \/ DeletePod \/ Announce
             \/ InitAuthor \/ CreateAgents
             \/ RemoveAgents \/ (\E q \in Publishers : CheckPublishConfig(q))
             \/ Scale \/ (\E m \in Members : PodReady(m) \/ PodGone(m) \/ PodDeleted(m))
             \/ ObservePods \/ Crash \/ UNCHANGED vars
      PROVE  UNCHANGED <<secret, admin>>
  BY <1>4 DEF BeginSync, AddInstance, TakeClaim, CreatePod, DeleteClaim, DeletePod,
     Announce, InitAuthor, CreateAgents, RemoveAgents,
     CheckPublishConfig, Scale, PodReady, PodGone, PodDeleted, ObservePods, Crash, vars
<1> QED
  BY <1>1, <1>2, <1>3, <1>4 DEF Next, Worker, Kubelet, RemoveInstance

\* Only checkPodInitialized annotates.
LEMMA OnlyInitializedSo ==
  ASSUME Typed, [Next]_vars, NEW p \in Publishers, pods'[p] = "initialized"
  PROVE  pods[p] = "initialized" \/ (InitPublisher(p) /\ Secured(p)')
<1> USE DEF cluster, locals, Typed
<1>1. p \in Members /\ p # 0
  BY MembersFinite
<1>2. ASSUME NEW q \in Publishers, InitPublisher(q)
      PROVE  pods[p] = "initialized" \/ (InitPublisher(p) /\ Secured(p)')
  BY <1>2, InitPublisherSecures
<1>3. CASE CreatePod \/ DeletePod
  <2>1. Turn \in Members
    BY <1>3, TurnPending DEF CreatePod, DeletePod, Resizing
  <2>2. \/ pods' \in {pods, [pods EXCEPT ![Turn] = "starting"]}
        \/ pods' = [pods EXCEPT ![Turn] = IF @ = "absent" THEN @ ELSE "terminating"]
    BY <1>3 DEF CreatePod, DeletePod
  <2> QED
    BY <1>1, <2>1, <2>2 DEF TypeOK
<1>4. ASSUME \/ TakeClaim \/ DeleteSecret \/ DeleteClaim
             \/ \E q \in Publishers : ClaimGone(q)
      PROVE  UNCHANGED pods
  BY <1>4 DEF TakeClaim, DeleteSecret, DeleteClaim, ClaimGone
<1>5. CASE InitAuthor
  BY <1>1, <1>5 DEF InitAuthor, TypeOK
<1>6. ASSUME NEW m \in Members, PodReady(m) \/ PodGone(m) \/ PodDeleted(m)
      PROVE  pods[p] = "initialized"
  BY <1>1, <1>6 DEF PodReady, PodGone, PodDeleted, TypeOK
<1>7. ASSUME \/ BeginSync \/ Announce \/ CreateAgents
             \/ RemoveAgents \/ (\E q \in Publishers : CheckPublishConfig(q))
             \/ Scale \/ ObservePods \/ Crash \/ UNCHANGED vars
      PROVE  UNCHANGED pods
  BY <1>7 DEF BeginSync, Announce, CreateAgents, RemoveAgents, CheckPublishConfig, Scale,
     ObservePods, Crash, vars
<1> QED
  BY <1>2, <1>3, <1>4, <1>5, <1>6, <1>7
  DEF Next, Worker, Kubelet, AddInstance, RemoveInstance

-----------------------------------------------------------------------------
(* The agents.                                                             *)

\* What a step can do to the agent of a publisher.
LEMMA AgentsChange ==
  ASSUME Typed, [Next]_vars, NEW p \in Publishers
  PROVE  \/ agents'[p] = agents[p]
         \/ /\ CreateAgents /\ agents[p] = "absent" /\ list[p] # "absent"
            /\ agents'[p] = secret[p] \/ (agents'[p] = "none" /\ Disrupt("fault"))
         \/ RemoveAgents /\ agents'[p] = "absent" /\ list[p] = "absent"
<1> USE DEF cluster, locals, Typed
<1>1. CASE CreateAgents
  <2> DEFINE new == Published \ {a \in DOMAIN agents : agents[a] # "absent"}
  <2>1. \/ UNCHANGED agents
        \/ \E made \in SUBSET new : agents' = With([q \in made |-> secret[q]])
        \/ /\ Disrupt("fault")
           /\ \E lost \in SUBSET new :
                agents' = With([q \in new |-> IF q \in lost THEN "none" ELSE secret[q]])
    BY <1>1 DEF CreateAgents
  <2>2. p \in new => agents[p] = "absent" /\ list[p] # "absent"
    BY DEF Published, Listed, TypeOK
  <2>3. p \in Publishers \cup Foreign
    OBVIOUS
  <2> HIDE DEF new
  <2>4. CASE \E made \in SUBSET new : agents' = With([q \in made |-> secret[q]])
    BY <1>1, <2>2, <2>3, <2>4 DEF With
  <2>5. CASE /\ Disrupt("fault")
             /\ \E lost \in SUBSET new :
                  agents' = With([q \in new |-> IF q \in lost THEN "none" ELSE secret[q]])
    BY <1>1, <2>2, <2>3, <2>5 DEF With
  <2> QED
    BY <2>1, <2>4, <2>5
<1>2. CASE RemoveAgents
  <2>1. PICK gone \in SUBSET Unneeded(existing) :
          agents' = With([a \in gone |-> "absent"]) \/ UNCHANGED agents
    BY <1>2 DEF RemoveAgents
  <2>2. p \in gone => list[p] = "absent"
    BY MembersFinite DEF Unneeded, Published, Listed
  <2> QED
    BY <1>2, <2>1, <2>2 DEF With
<1>3. ASSUME ~CreateAgents, ~RemoveAgents
      PROVE  UNCHANGED agents
  BY <1>3 DEF Next, Worker, Kubelet, BeginSync, AddInstance, TakeClaim, CreatePod,
     RemoveInstance, DeleteSecret, DeleteClaim, DeletePod, Handled, NextCall,
     Announce, InitAuthor, InitPublisher, CheckPublishConfig, Scale, PodReady, PodGone,
     PodDeleted, ClaimGone, ObservePods, Crash, vars
<1> QED
  BY <1>1, <1>2, <1>3

\* The agent of a publisher in service stays, however old the list is that
\* the unneeded agents are told by.
THEOREM ServingKept == Spec => ServingKeepsAgent
<1> DEFINE Kept(p) ==
      agents[p] # "absent" /\ agents'[p] = "absent" => pods[p] # "initialized"
<1>1. ASSUME Typed, Lags, [Next]_vars, NEW p \in Publishers
      PROVE  Kept(p)
  <2>1. SUFFICES ASSUME RemoveAgents, list[p] = "absent"
                 PROVE  pods[p] # "initialized"
    BY <1>1, AgentsChange
  <2> QED
    BY <1>1, <2>1, MembersFinite DEF Lags, ListLags, RemoveAgents
<1>2. Typed /\ Lags /\ [Next]_vars => [\A p \in Publishers : Kept(p)]_vars
  BY <1>1
<1> QED
  BY <1>2, InitTyped, NextTyped, InitLags, NextLags, PTL DEF Spec, ServingKeepsAgent

\* Whatever sync gets to know, it has known before or has just made true.
LEMMA KnownBefore ==
  ASSUME Typed, [Next]_vars, NEW p \in Publishers, Known(p)'
  PROVE  Known(p) \/ (InitPublisher(p) /\ Secured(p)')
<1> USE DEF cluster, locals, Typed
<1>1. CASE pods'[p] = "initialized"
  BY <1>1, OnlyInitializedSo DEF Known
<1>2. CASE cachedPods'[p] = "initialized"
  <2>1. cachedPods'[p] = View[p] \/ cachedPods' = cachedPods
    BY DEF Next, Worker, Kubelet, BeginSync, AddInstance, TakeClaim, CreatePod,
       RemoveInstance, DeleteSecret, DeleteClaim, DeletePod, Handled, NextCall, Announce, InitAuthor, InitPublisher, CreateAgents, RemoveAgents, CheckPublishConfig,
       Scale, PodReady, PodGone, PodDeleted, ClaimGone, ObservePods, Crash,
       vars
  <2> QED
    BY <1>2, <2>1, MembersFinite, ViewType DEF Known
<1>3. CASE pc' # "idle" /\ list'[p] = "initialized"
  <2>1. \/ list' = cachedPods
        \/ pc # "idle" /\ list' = list
        \/ UNCHANGED <<pc, list>>
    BY <1>3 DEF Next, Worker, Kubelet, BeginSync, AddInstance, TakeClaim, CreatePod,
       RemoveInstance, DeleteSecret, DeleteClaim, DeletePod, Handled, NextCall, Announce, InitAuthor, InitPublisher, CreateAgents, RemoveAgents, CheckPublishConfig,
       Scale, PodReady, PodGone, PodDeleted, ClaimGone, ObservePods, Crash, Checked,
       Return, vars
  <2> QED
    BY <1>3, <2>1 DEF Known
<1>4. CASE Configuring' /\ list'[p] # "absent" /\ p \notin todo'
  <2>1. ASSUME Announce
        PROVE  Known(p)
    <3>1. /\ list' = list /\ pc = "announce" /\ todo' = Uninitialized(list)
          /\ \A m \in Listed(list) : Healthy(list[m])
      BY <1>4, <2>1 DEF Announce, Return, Configuring
    <3>2. p \in Members
      BY MembersFinite
    <3> QED
      BY <1>4, <3>1, <3>2 DEF Known, Uninitialized, Listed, Healthy
  <2>2. ASSUME NEW q \in Publishers, InitPublisher(q), q # p
        PROVE  Known(p)
    BY <1>4, <2>2 DEF InitPublisher, Return, Known, Configuring
  <2>3. ASSUME InitPublisher(p)
        PROVE  Secured(p)'
    <3>1. ~Return
      BY <1>4 DEF Return, Configuring
    <3>2. /\ secret' = [secret EXCEPT ![p] = IF secret[p] = "none" THEN Fresh(p) ELSE secret[p]]
          /\ admin' = [admin EXCEPT ![p] = IF secret[p] = "none" THEN Fresh(p) ELSE secret[p]]
      BY <2>3, <3>1 DEF InitPublisher
    <3> QED
      BY <3>2, FreshType DEF Secured, TypeOK
  <2>4. ASSUME InitAuthor
        PROVE  Known(p)
    BY <1>4, <2>4, MembersFinite DEF InitAuthor, Return, Known, Configuring
  <2>5. ASSUME CreateAgents \/ RemoveAgents \/ \E q \in Publishers : CheckPublishConfig(q)
        PROVE  Known(p)
    BY <1>4, <2>5 DEF CreateAgents, RemoveAgents, CheckPublishConfig, Checked, Return,
       Known, Configuring
  <2>6. ASSUME \/ Scale \/ ObservePods \/ UNCHANGED vars
               \/ \E m \in Members : PodReady(m) \/ PodGone(m) \/ PodDeleted(m)
               \/ \E q \in Publishers : ClaimGone(q)
        PROVE  Known(p)
    BY <1>4, <2>6 DEF Scale, ObservePods, PodReady, PodGone, PodDeleted, ClaimGone, vars,
       Known, Configuring
  <2>7. ~BeginSync /\ ~AddInstance /\ ~RemoveInstance /\ ~Crash
    BY <1>4 DEF BeginSync, AddInstance, TakeClaim, CreatePod, RemoveInstance,
       DeleteSecret, DeleteClaim, DeletePod, Handled, NextCall, Crash, Return, Configuring
  <2> QED
    BY <2>1, <2>2, <2>3, <2>4, <2>5, <2>6, <2>7 DEF Next, Worker, Kubelet
<1> QED
  BY <1>1, <1>2, <1>3, <1>4 DEF Known

-----------------------------------------------------------------------------
(* What a publisher's repository and its agent have to do with what the    *)
(* operator has done to it.                                                *)

\* Who changes fate, claims and the number of publishers that there should be.
LEMMA FateChanges ==
  ASSUME Typed, [Next]_vars, NEW p \in Publishers
  PROVE  /\ \/ fate'[p] = fate[p]
            \/ fate'[p] = "cut" /\ DeleteSecret /\ p = Turn
            \/ /\ InitPublisher(p) /\ Secured(p)' /\ fate[p] = "cut" /\ claim[p] = "bound"
               /\ fate'[p] = "sound" => agents[p] = "absent"
         /\ \/ claim'[p] # "terminating"
            \/ claim'[p] = claim[p]
            \/ DeleteClaim /\ p = Turn
<1> USE DEF cluster, locals, Typed
<1>1. CASE DeleteSecret
  <2>1. Turn \in Publishers
    BY <1>1, TurnPending DEF DeleteSecret, Resizing
  <2> QED
    BY <1>1, <2>1 DEF DeleteSecret, TypeOK
<1>2. CASE DeleteClaim
  <2>1. Turn \in Publishers
    BY <1>2, TurnPending DEF DeleteClaim, Resizing, ResizeInOrder
  <2> QED
    BY <1>2, <2>1 DEF DeleteClaim, TypeOK
<1>3. ASSUME NEW q \in Publishers, InitPublisher(q)
      PROVE  /\ \/ fate'[p] = fate[p]
                \/ /\ q = p /\ Secured(p)' /\ fate[p] = "cut" /\ claim[p] = "bound"
                   /\ fate'[p] = "sound" => agents[p] = "absent"
             /\ UNCHANGED claim
  <2>1. \/ UNCHANGED fate
        \/ /\ fate' = [fate EXCEPT ![q] = AfterInit(q)]
           /\ pods[q] = "ready" /\ pods' = [pods EXCEPT ![q] = "initialized"]
    BY <1>3 DEF InitPublisher
  <2>2. CASE /\ fate' = [fate EXCEPT ![q] = AfterInit(q)]
             /\ pods[q] = "ready" /\ pods' = [pods EXCEPT ![q] = "initialized"]
    <3>1. pods' # pods
      BY <2>2, MembersFinite DEF TypeOK
    <3>2. Secured(q)'
      BY <1>3, <3>1, InitPublisherSecures
    <3> QED
      BY <1>3, <2>2, <3>2 DEF InitPublisher, AfterInit, TypeOK
  <2> QED
    BY <1>3, <2>1, <2>2 DEF InitPublisher
<1>4. CASE TakeClaim \/ \E q \in Publishers : ClaimGone(q)
  BY <1>4 DEF TakeClaim, ClaimGone, TypeOK
<1>5. ASSUME \/ BeginSync \/ CreatePod \/ DeletePod \/ Announce
             \/ InitAuthor \/ CreateAgents
             \/ RemoveAgents \/ (\E q \in Publishers : CheckPublishConfig(q))
             \/ Scale \/ (\E m \in Members : PodReady(m) \/ PodGone(m) \/ PodDeleted(m))
             \/ ObservePods \/ Crash \/ UNCHANGED vars
      PROVE  UNCHANGED <<fate, claim>>
  BY <1>5 DEF BeginSync, CreatePod, DeletePod, Announce, InitAuthor, CreateAgents, RemoveAgents,
     CheckPublishConfig, Scale, PodReady, PodGone, PodDeleted, ObservePods, Crash, vars
<1> QED
  BY <1>1, <1>2, <1>3, <1>4, <1>5 DEF Next, Worker, Kubelet, AddInstance, RemoveInstance

LEMMA NextCutFirst ==
  Typed /\ CutFirst /\ [Next]_vars => CutFirst'
<1> SUFFICES ASSUME Typed, CutFirst, [Next]_vars PROVE CutFirst'
  OBVIOUS
<1> USE DEF cluster, locals, Typed
<1>1. \A p \in Publishers : claim'[p] = "terminating" => fate'[p] = "cut"
  <2> SUFFICES ASSUME NEW p \in Publishers, claim'[p] = "terminating" PROVE fate'[p] = "cut"
    OBVIOUS
  <2>1. fate[p] = "cut"
    BY FateChanges DEF CutFirst, DeleteClaim
  <2>2. ~(InitPublisher(p) /\ claim[p] = "bound")
    BY DEF InitPublisher
  <2> QED
    BY <2>1, <2>2, FateChanges
<1>2. ASSUME pc' \in {"claim", "pod"}
      PROVE  (fate[Turn] = "cut")'
  <2>1. CASE DeleteSecret
    <3>1. Turn \in Publishers /\ Turn' = Turn
      BY <2>1, TurnPending DEF DeleteSecret, Resizing, NextCall, Turn, Adding, Listed
    <3> QED
      BY <2>1, <3>1 DEF DeleteSecret, TypeOK
  <2>2. CASE DeleteClaim
    <3>1. Turn' = Turn
      BY <2>2 DEF DeleteClaim, NextCall, Turn, Adding, Listed
    <3> QED
      BY <2>2, <3>1 DEF DeleteClaim, CutFirst
  <2>3. CASE ~DeleteSecret /\ ~DeleteClaim
    <3>1. UNCHANGED <<pc, list, pending, fate>>
      BY <1>2, <2>3
      DEF Next, Worker, Kubelet, BeginSync, AddInstance, TakeClaim, CreatePod, RemoveInstance,
          DeletePod, Handled, NextCall, Announce, InitAuthor, InitPublisher, CreateAgents,
          RemoveAgents, CheckPublishConfig, Checked, Return, Scale, PodReady, PodGone,
          PodDeleted, ClaimGone, ObservePods, Crash, vars
    <3> QED
      BY <1>2, <3>1 DEF CutFirst, Turn, Adding, Listed
  <2> QED
    BY <2>1, <2>2, <2>3
<1> QED
  BY <1>1, <1>2 DEF CutFirst

\* Only removeInstance takes a password away.
LEMMA StaysSecured ==
  ASSUME Typed, CutFirst, [Next]_vars, NEW p \in Publishers, Secured(p),
         fate[p] # "cut", fate'[p] # "cut"
  PROVE  Secured(p)' /\ admin'[p] = admin[p]
<1>1. ~ClaimGone(p)
  BY DEF CutFirst, ClaimGone
<1>2. secret'[p] = secret[p] /\ admin'[p] = admin[p]
  BY <1>1, PasswordsChange, InitPublisherSecures
<1> QED
  BY <1>2 DEF Secured

LEMMA NextKnownSecured ==
  Typed /\ CutFirst /\ KnownSecured /\ [Next]_vars => KnownSecured'
<1> SUFFICES ASSUME Typed, CutFirst, KnownSecured, [Next]_vars, NEW p \in Publishers,
                    fate'[p] # "cut", Known(p)'
             PROVE  Secured(p)'
  BY DEF KnownSecured
<1>1. CASE fate[p] = "cut"
  BY <1>1, FateChanges
<1>2. CASE fate[p] # "cut"
  BY <1>2, KnownBefore, StaysSecured DEF KnownSecured
<1> QED
  BY <1>1, <1>2

LEMMA NextSoundFits ==
  Typed /\ CutFirst /\ KnownSecured /\ SoundFits /\ [Next]_vars => SoundFits'
<1> SUFFICES ASSUME Typed, CutFirst, KnownSecured, SoundFits, [Next]_vars,
                    NEW p \in Publishers, fate'[p] = "sound",
                    agents'[p] \notin {"absent", "none"}
             PROVE  Secured(p)' /\ agents'[p] = admin'[p]
  BY DEF SoundFits
<1>1. CASE agents'[p] = agents[p]
  <2>1. fate[p] = "sound"
    BY <1>1, FateChanges
  <2> QED
    BY <1>1, <2>1, StaysSecured DEF SoundFits
<1>2. CASE CreateAgents /\ list[p] # "absent" /\ agents'[p] = secret[p]
  <2>1. fate[p] = "sound" /\ Known(p)
    BY <1>2 DEF CreateAgents, Known, Configuring
  <2>2. Secured(p)
    BY <2>1 DEF KnownSecured
  <2> QED
    BY <1>2, <2>1, <2>2, StaysSecured DEF Secured
<1> QED
  BY <1>1, <1>2, AgentsChange

SecretsInv == Typed /\ CutFirst /\ KnownSecured /\ SoundFits

LEMMA SecretsHold == Spec => []SecretsInv
<1>1. Init => SecretsInv
  <2> SUFFICES ASSUME Init PROVE SecretsInv
    OBVIOUS
  <2>1. \A p \in Publishers : p \in Members /\ agents[p] = "absent"
    <3>1. Foreign \cap Publishers = {}
      BY ReplicationAssumption, Zenon
    <3> QED
      BY <3>1, MembersFinite DEF Init
  <2> QED
    BY <2>1, InitTyped
    DEF Init, SecretsInv, CutFirst, KnownSecured, SoundFits, Known, NoPods, Configuring
<1>2. SecretsInv /\ [Next]_vars => SecretsInv'
  BY NextTyped, NextCutFirst, NextKnownSecured, NextSoundFits DEF SecretsInv
<1> QED
  BY <1>1, <1>2, PTL DEF Spec

\* An agent that is created fits, unless a lookup fails or the removal of its
\* publisher has begun: what sync looks up, however long after it has listed the
\* pods, is what the repository has taken.
THEOREM AgentsCreatedFit == Spec => AgentsFit
<1> DEFINE Fits(p) ==
      agents[p] = "absent" /\ agents'[p] # "absent" =>
        \/ agents'[p] = admin[p]
        \/ agents'[p] = "none" /\ disruptions' # disruptions
        \/ fate[p] = "cut"
<1>1. ASSUME SecretsInv, [Next]_vars, NEW p \in Publishers
      PROVE  Fits(p)
  <2>1. SUFFICES ASSUME CreateAgents, list[p] # "absent", fate[p] # "cut",
                        agents'[p] = secret[p]
                 PROVE  agents'[p] = admin[p]
    <3>1. Disrupt("fault") => disruptions' # disruptions
      BY <1>1, Sizes DEF Disrupt, SecretsInv, Typed, TypeOK
    <3> QED
      BY <1>1, <3>1, AgentsChange DEF SecretsInv
  <2>2. Known(p)
    BY <2>1 DEF CreateAgents, Known, Configuring
  <2> QED
    BY <1>1, <2>1, <2>2 DEF SecretsInv, KnownSecured, Secured
<1>2. SecretsInv /\ [Next]_vars => [\A p \in Publishers : Fits(p)]_vars
  BY <1>1
<1> QED
  BY <1>2, SecretsHold, PTL DEF Spec, AgentsFit

-----------------------------------------------------------------------------
(* The publishers that every specification asks for.                       *)

LEMMA LastingWanted ==
  ASSUME TypeOK, NEW p \in Lasting
  PROVE  p \in Publishers /\ p <= want
  BY DEF Lasting, TypeOK

\* What resizeDeployment removes is not one of them.
LEMMA SurplusNotLasting ==
  ASSUME TypeOK, NEW view, NEW p \in Surplus(Listed(view) \ {0}, want)
  PROVE  p \notin Lasting
<1>1. p > want /\ p \in Nat /\ want \in Nat
  BY SurplusPublishers, MembersFinite, Sizes DEF TypeOK
<1> QED
  BY <1>1, LastingWanted

LEMMA NextLastingKept ==
  Typed /\ LastingKept /\ [Next]_vars => LastingKept'
<1> SUFFICES ASSUME Typed, LastingKept, [Next]_vars PROVE LastingKept'
  OBVIOUS
<1> USE DEF cluster, locals
<1>1. ASSUME NEW p \in Lasting
      PROVE  fate'[p] = "sound"
  <2>1. p \in Publishers /\ fate[p] = "sound"
    BY DEF Lasting, LastingKept
  <2>2. ~(DeleteSecret /\ p = Turn)
    BY TurnPending DEF DeleteSecret, Resizing, LastingKept
  <2> QED
    BY <2>1, <2>2, FateChanges
<1>2. ASSUME NEW m \in pending', list'[m] # "absent"
      PROVE  m \notin Lasting
  <2>1. CASE BeginSync
    <3>1. \A n \in ToResize(cachedPods, want) : cachedPods[n] # "absent" => n \notin Lasting
      BY ToResizeTyped, SurplusNotLasting DEF Typed, TypeOK
    <3> QED
      BY <1>2, <2>1, <3>1 DEF BeginSync
  <2>2. CASE ~BeginSync
    <3>1. pending' = {} \/ (pending' \subseteq pending /\ list' = list)
      BY <2>2
      DEF Next, Worker, Kubelet, AddInstance, TakeClaim, CreatePod, RemoveInstance,
          DeleteSecret, DeleteClaim, DeletePod, Handled, NextCall, Announce, InitAuthor,
          InitPublisher, CreateAgents, RemoveAgents, CheckPublishConfig, Checked, Return,
          Scale, PodReady, PodGone, PodDeleted, ClaimGone, ObservePods, Crash, vars
    <3> QED
      BY <1>2, <3>1 DEF LastingKept
  <2> QED
    BY <2>1, <2>2
<1> QED
  BY <1>1, <1>2 DEF LastingKept

\* As long as every specification asks for a publisher, its agent logs in,
\* through restarts of the operator, failed calls and deleted pods.
THEOREM AgentsStayFit == Spec => []AgentsKeepFitting
<1>1. Init => LastingKept
  BY DEF Init, LastingKept, Lasting
<1>2. SecretsInv /\ LastingKept => AgentsKeepFitting
  BY DEF SecretsInv, LastingKept, SoundFits, AgentsKeepFitting, Lasting
<1>3. SecretsInv /\ LastingKept /\ [Next]_vars => LastingKept'
  BY NextLastingKept DEF SecretsInv
<1> QED
  BY <1>1, <1>2, <1>3, SecretsHold, PTL DEF Spec

-----------------------------------------------------------------------------
(* What has been replicated stays so.                                       *)

LEMMA WithNothing ==
  ASSUME TypeOK, NEW f, DOMAIN f = {}
  PROVE  With(f) = agents
  BY DEF With, TypeOK

\* The number of publishers is right, so that there is nothing to resize.
LEMMA NothingToResize ==
  ASSUME TypeOK, Replicated
  PROVE  ToResize(pods, want) = {}
<1> DEFINE published == Listed(pods) \ {0}
<1>1. published \subseteq Members /\ Cardinality(published) = want /\ want \in Nat
  BY Sizes DEF Listed, Replicated, Counted, TypeOK
<1>2. IsFiniteSet(published) /\ \A p \in published : p \in Int
  BY <1>1, MembersFinite, FS_Subset
<1>3. {0} \ Listed(pods) = {}
  BY DEF Listed, Replicated, Members
<1> HIDE DEF published
<1>4. Surplus(published, want) = {} /\ ~(Cardinality(published) < want)
  BY <1>1, <1>2, SurplusEmpty
<1> QED
  BY <1>3, <1>4 DEF ToResize, published

\* What a sync that knows of it leaves as it is.
Left == /\ UNCHANGED <<pods, secret, admin, claim, agents>>
        /\ UNCHANGED flush \/ \E q \in Publishers : Robbed(q)

LEMMA StepReplicated ==
  ASSUME TypeOK, Replicated, Informed, Calm, UNCHANGED edits, [Next]_vars
  PROVE  (Replicated /\ Informed)' /\ Left
<1> USE DEF cluster, locals
<1>1. ASSUME NEW kind, Disrupt(kind) PROVE FALSE
  <2>1. disruptions \in Nat
    BY Sizes DEF TypeOK
  <2> QED
    BY <1>1, <2>1 DEF Disrupt, Calm
<1>2. ASSUME UNCHANGED <<want, fate>>, Left, flush \subseteq flush', Informed'
      PROVE  (Replicated /\ Informed)' /\ Left
  <2>1. UNCHANGED <<want, fate, pods, secret, admin, claim, agents>>
    BY <1>2 DEF Left
  <2>2. /\ \A p \in Publishers : (Robbed(p) <=> Robbed(p)') /\ (Served(p) <=> Served(p)')
        /\ Counted'
    BY <2>1 DEF Robbed, Served, Counted, Listed, Replicated
  <2> QED
    BY <1>2, <2>1, <2>2 DEF Replicated
<1>3. /\ pods[0] = "initialized"
      /\ \A p \in Publishers :
           \/ /\ pods[p] = "initialized" /\ agents[p] # "absent"
              /\ p \in flush \/ \E q \in Publishers : Robbed(q)
           \/ pods[p] = "absent" /\ agents[p] = "absent" /\ claim[p] # "terminating"
      /\ \A m \in Members : pods[m] \in {"initialized", "absent"}
      /\ 0 \in Members
  BY DEF Replicated, Served, Members
<1>v. View = pods
  BY <1>3 DEF View, TypeOK
<1>4. Listed(pods) \ {0} = {p \in Publishers : pods[p] = "initialized"}
  BY <1>3, MembersFinite DEF Listed, Members
<1>5. CASE BeginSync
  <2>1. pending' = {} /\ ~resized' /\ pc' = "announce" /\ list' = pods
    BY <1>5, <1>v, NothingToResize DEF BeginSync, Informed
  <2> QED
    BY <1>2, <1>v, <1>5, <2>1 DEF BeginSync, Informed, Left, View
<1>6. CASE Announce
  <2>1. 0 \in Listed(list) /\ \A m \in Listed(list) : Healthy(list[m])
    BY <1>3, <1>v, <1>6 DEF Announce, Informed, Listed, Healthy
  <2>2. /\ todo' = Uninitialized(list) /\ pc' = "configure"
        /\ UNCHANGED <<cluster, cachedPods, fate, list, pending, resized, existing>>
    BY <1>1, <1>6, <2>1 DEF Announce, Informed
  <2>3. Uninitialized(list) = {}
    BY <1>3, <1>v, <1>6 DEF Announce, Informed, Uninitialized
  <2> QED
    BY <1>2, <1>6, <2>2, <2>3 DEF Announce, Informed, Left, View
<1>7. CASE CreateAgents
  <2> DEFINE names == {a \in DOMAIN agents : agents[a] # "absent"}
  <2>1. list = pods /\ ~Down(0)
    BY <1>3, <1>v, <1>7 DEF CreateAgents, Informed, Down, Healthy
  <2>2. Published \ names = {}
    BY <1>3, <1>4, <2>1 DEF Published, TypeOK
  <2>3. \A f : DOMAIN f = {} => With(f) = agents
    BY WithNothing
  <2>4. /\ agents' = With([p \in Published \ names |-> secret[p]])
        /\ existing' = names /\ pc' = "cleanup"
        /\ UNCHANGED <<list, pending, resized, todo>>
    BY <1>1, <1>7, <2>1 DEF CreateAgents
  <2>5. UNCHANGED agents
    <3>1. DOMAIN [p \in Published \ names |-> secret[p]] = {}
      BY <2>2
    <3> QED
      BY <2>3, <2>4, <3>1
  <2>6. UNCHANGED <<cluster, cachedPods, fate>>
    BY <1>7, <2>5 DEF CreateAgents
  <2>7. Informed'
    BY <1>v, <2>1, <2>4, <2>6 DEF Informed, View
  <2> QED
    BY <1>2, <2>6, <2>7 DEF Left
<1>8. CASE RemoveAgents
  <2>1. pc = "cleanup" /\ list = pods /\ \A a \in existing : agents[a] # "absent"
    BY <1>v, <1>8 DEF RemoveAgents, Informed
  <2>2. Unneeded(existing) = {}
    BY <1>3, <1>4, <2>1 DEF Unneeded, Published, TypeOK
  <2>3. agents' = With([a \in {} |-> "absent"]) /\ Checked(0)
    BY <1>1, <1>8, <2>2 DEF RemoveAgents
  <2>4. UNCHANGED agents
    BY <2>3, WithNothing
  <2>5. UNCHANGED <<cluster, cachedPods, fate>>
    BY <1>8, <2>4 DEF RemoveAgents
  <2>6. Informed'
    BY <1>v, <2>1, <2>3, <2>5 DEF Checked, Return, Informed, View
  <2> QED
    BY <1>2, <2>5, <2>6 DEF Left
<1>9. ASSUME NEW p \in Publishers, CheckPublishConfig(p)
      PROVE  (Replicated /\ Informed)' /\ Left
  <2>1. pc = "configure" /\ list = pods /\ Checked(p)
    BY <1>v, <1>9 DEF CheckPublishConfig, Informed
  <2>2. \E made \in SUBSET Published : flush' = flush \cup made
    BY <1>9 DEF CheckPublishConfig
  <2>3. Published \subseteq flush \/ \E q \in Publishers : Robbed(q)
    BY <1>3, <1>4, <2>1 DEF Published
  <2>4. /\ UNCHANGED flush \/ \E q \in Publishers : Robbed(q)
        /\ flush \subseteq flush'
    BY <2>2, <2>3
  <2>5. UNCHANGED <<want, pods, secret, admin, claim, agents, cachedPods, fate>>
    BY <1>9 DEF CheckPublishConfig
  <2>6. Informed'
    BY <1>v, <2>1, <2>5 DEF Checked, Return, Informed, View
  <2> QED
    BY <1>2, <2>4, <2>5, <2>6 DEF Left
<1>10. ASSUME NEW p \in Publishers PROVE ~InitPublisher(p)
  BY DEF InitPublisher, Informed
<1>11. ~(AddInstance \/ RemoveInstance \/ InitAuthor)
  BY DEF AddInstance, TakeClaim, CreatePod, RemoveInstance, DeleteSecret, DeleteClaim,
         DeletePod, InitAuthor, Informed
<1>12. ~(Scale \/ Kubelet \/ ObservePods \/ Crash)
  <2>1. edits \in Nat
    BY Sizes DEF TypeOK
  <2>2. ~Scale
    BY <2>1 DEF Scale
  <2> QED
    BY <1>1, <1>3, <2>2
    DEF Kubelet, PodReady, PodGone, PodDeleted, ClaimGone, ObservePods, Crash, Informed
<1>13. CASE UNCHANGED vars
  BY <1>2, <1>13 DEF vars, Informed, Left, View
<1> QED
  BY <1>5, <1>6, <1>7, <1>8, <1>9, <1>10, <1>11, <1>12, <1>13 DEF Next, Worker

\* Replication that has been set up for any number of publishers is left alone,
\* foreign agents included, by every sync that knows of it.
THEOREM ReplicatedKept == Spec => StaysReplicated
<1>1. TypeOK /\ [Next]_vars =>
        [Replicated /\ Informed /\ Calm /\ UNCHANGED edits =>
           /\ (Replicated /\ Informed)'
           /\ UNCHANGED <<pods, secret, admin, claim, agents>>
           /\ UNCHANGED flush \/ \E q \in Publishers : Robbed(q)]_vars
  BY StepReplicated DEF Left
<1> QED
  BY <1>1, TypeCorrect, PTL DEF Spec, StaysReplicated
=============================================================================
