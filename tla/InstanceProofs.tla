--------------------------- MODULE InstanceProofs ---------------------------
(***************************************************************************)
(* Proofs about module Instance, for every set of passwords and any number *)
(* of disruptions.                                                         *)
(***************************************************************************)
EXTENDS Instance, TLAPS

-----------------------------------------------------------------------------
(* Type correctness.                                                       *)

LEMMA NoPodType == NoPod \in Pods
  BY DEF NoPod, Pods, Statuses

\* The password that is being set is not the empty string: TypeOK is
\* inductive only together with this.
PasswordKnown == pc \in {"default", "retry"} => pwd \in Passwords

LEMMA InitTypeOK == Init => TypeOK /\ PasswordKnown
<1> SUFFICES ASSUME Init PROVE TypeOK /\ PasswordKnown
  OBVIOUS
<1>1. disruptions \in 0..MaxDisruptions
  BY InstanceAssumption DEF Init
<1>2. pod \in Pods /\ cachedPod \in Pods /\ copy \in Pods
  BY NoPodType DEF Init
<1> QED
  BY <1>1, <1>2 DEF Init, TypeOK, PasswordKnown, Claims, Labels

\* A disruption is counted.
LEMMA DisruptType ==
  ASSUME disruptions \in 0..MaxDisruptions, NEW k, Disrupt(k) \/ Calm
  PROVE  disruptions' \in 0..MaxDisruptions
  BY InstanceAssumption DEF Disrupt, Calm

\* What the end of a pass leaves behind is well-typed.
LEMMA ReturnType ==
  ASSUME Return
  PROVE  /\ pc' \in Labels
         /\ copy' \in Pods
         /\ pwd' \in Passwords \cup {"none"}
  BY NoPodType DEF Return, Labels

LEMMA GoToType ==
  ASSUME TypeOK, NEW l \in Labels, GoTo(l)
  PROVE  /\ pc' \in Labels
         /\ copy' \in Pods
         /\ pwd' \in Passwords \cup {"none"}
  BY DEF GoTo, locals, TypeOK

LEMMA ChangePodType ==
  ASSUME NEW p \in Pods, ChangePod(p)
  PROVE  pod' \in Pods /\ cacheCurrent' \in BOOLEAN /\ copyCurrent' \in BOOLEAN
  BY DEF ChangePod

LEMMA StatusType ==
  ASSUME TypeOK, NEW s \in Statuses, NEW a \in BOOLEAN
  PROVE  /\ [pod EXCEPT !.status = s] \in Pods
         /\ [pod EXCEPT !.annotated = a] \in Pods
         /\ [pod EXCEPT !.status = s, !.annotated = a] \in Pods
  BY DEF TypeOK, Pods

LEMMA NextTypeOK == TypeOK /\ PasswordKnown /\ [Next]_vars => TypeOK'
<1> SUFFICES ASSUME TypeOK, PasswordKnown, [Next]_vars PROVE TypeOK'
  OBVIOUS
<1> USE DEF resources, caches, locals, worker
<1>1. CASE BeginSync
  <2>1. FirstCall \in Labels
    BY DEF FirstCall, Labels
  <2>2. copy' \in Pods /\ copyCurrent' \in BOOLEAN
    BY <1>1 DEF BeginSync, TypeOK
  <2> QED
    BY <1>1, <2>1, <2>2 DEF BeginSync, TypeOK
<1>2. CASE CreateClaim
  <2>1. disruptions' \in 0..MaxDisruptions
    BY <1>2, DisruptType DEF CreateClaim, Fails, TypeOK
  <2>2. claim' \in Claims /\ admin' \in Passwords \cup {"default"}
    BY <1>2 DEF CreateClaim, Fails, TypeOK, Claims
  <2>3. /\ pc' \in Labels
        /\ copy' \in Pods
        /\ pwd' \in Passwords \cup {"none"}
    BY <1>2, ReturnType, GoToType DEF CreateClaim, Fails, Labels
  <2> QED
    BY <1>2, <2>1, <2>2, <2>3 DEF CreateClaim, TypeOK
<1>3. CASE WaitForClaim
  <2>1. disruptions' \in 0..MaxDisruptions
    BY <1>3, DisruptType DEF WaitForClaim, TypeOK
  <2>2. /\ pc' \in Labels
        /\ copy' \in Pods
        /\ pwd' \in Passwords \cup {"none"}
    BY <1>3, ReturnType, GoToType DEF WaitForClaim, Labels
  <2> QED
    BY <1>3, <2>1, <2>2 DEF WaitForClaim, TypeOK
<1>4. CASE CreatePod
  <2>1. disruptions' \in 0..MaxDisruptions
    BY <1>4, DisruptType DEF CreatePod, Fails, TypeOK
  <2>2. /\ pc' \in Labels
        /\ copy' \in Pods
        /\ pwd' \in Passwords \cup {"none"}
    BY <1>4, ReturnType, GoToType DEF CreatePod, Fails, Labels
  <2>3. [status |-> "starting", uid |-> pod.uid + 1, annotated |-> FALSE] \in Pods
    BY DEF TypeOK, Pods, Statuses
  <2>4. pod' \in Pods /\ cacheCurrent' \in BOOLEAN /\ copyCurrent' \in BOOLEAN
    BY <1>4, <2>3, ChangePodType DEF CreatePod, Fails, TypeOK
  <2> QED
    BY <1>4, <2>1, <2>2, <2>4 DEF CreatePod, TypeOK
<1>5. CASE CreateService \/ CreateIngress
  <2>1. disruptions' \in 0..MaxDisruptions
    BY <1>5, DisruptType DEF CreateService, CreateIngress, Fails, TypeOK
  <2>2. /\ pc' \in Labels
        /\ copy' \in Pods
        /\ pwd' \in Passwords \cup {"none"}
    BY <1>5, ReturnType, GoToType DEF CreateService, CreateIngress, Fails, Labels
  <2>3. service' \in BOOLEAN /\ ingress' \in BOOLEAN
    BY <1>5 DEF CreateService, CreateIngress, Fails, TypeOK
  <2> QED
    BY <1>5, <2>1, <2>2, <2>3 DEF CreateService, CreateIngress, TypeOK
<1>6. CASE DeleteSecret \/ DeleteIngress \/ DeleteService \/ DeleteClaim
  <2> USE DEF Remove
  <2>1. disruptions' \in 0..MaxDisruptions
    BY <1>6, DisruptType
    DEF DeleteSecret, DeleteIngress, DeleteService, DeleteClaim, TypeOK
  <2>2. /\ pc' \in Labels
        /\ copy' \in Pods
        /\ pwd' \in Passwords \cup {"none"}
    BY <1>6, GoToType
    DEF DeleteSecret, DeleteIngress, DeleteService, DeleteClaim, Labels
  <2>3. /\ secret' \in Passwords \cup {"none"}
        /\ service' \in BOOLEAN
        /\ ingress' \in BOOLEAN
        /\ claim' \in Claims
    BY <1>6
    DEF DeleteSecret, DeleteIngress, DeleteService, DeleteClaim, ClaimDeleted,
        TypeOK, Claims
  <2> QED
    BY <1>6, <2>1, <2>2, <2>3
    DEF DeleteSecret, DeleteIngress, DeleteService, DeleteClaim, TypeOK
<1>7. CASE DeletePod
  <2>1. disruptions' \in 0..MaxDisruptions
    BY <1>7, DisruptType DEF DeletePod, TypeOK
  <2>2. /\ pc' \in Labels
        /\ copy' \in Pods
        /\ pwd' \in Passwords \cup {"none"}
    BY <1>7, ReturnType, GoToType DEF DeletePod, Labels
  <2>3. pod' \in Pods /\ cacheCurrent' \in BOOLEAN /\ copyCurrent' \in BOOLEAN
    BY <1>7, ChangePodType, StatusType DEF DeletePod, TypeOK, Statuses
  <2> QED
    BY <1>7, <2>1, <2>2, <2>3 DEF DeletePod, TypeOK
<1>8. CASE GetPassword
  <2>1. disruptions' \in 0..MaxDisruptions
    BY <1>8, DisruptType DEF GetPassword, TypeOK
  <2>2. /\ pc' \in Labels
        /\ copy' \in Pods
        /\ pwd' \in Passwords \cup {"none"}
    BY <1>8, ReturnType DEF GetPassword, TypeOK, Labels
  <2> QED
    BY <1>8, <2>1, <2>2 DEF GetPassword, TypeOK
<1>9. CASE PutPassword
  <2>0. PICK p \in Passwords :
          \/ secret' = p /\ pwd' = p /\ pc' = "default" /\ UNCHANGED copy /\ Calm
          \/ Fails(secret' = p, UNCHANGED secret)
    BY <1>9 DEF PutPassword
  <2>1. disruptions' \in 0..MaxDisruptions
    BY <2>0, DisruptType DEF Fails, TypeOK
  <2>2. /\ pc' \in Labels
        /\ copy' \in Pods
        /\ pwd' \in Passwords \cup {"none"}
        /\ secret' \in Passwords \cup {"none"}
    BY <2>0, ReturnType DEF Fails, TypeOK, Labels
  <2> QED
    BY <1>9, <2>1, <2>2 DEF PutPassword, TypeOK
<1>10. CASE SetFromDefault
  <2>1. disruptions' \in 0..MaxDisruptions
    BY <1>10, DisruptType DEF SetFromDefault, TypeOK
  <2>2. /\ pc' \in Labels
        /\ copy' \in Pods
        /\ pwd' \in Passwords \cup {"none"}
    BY <1>10, GoToType DEF SetFromDefault, Labels
  <2>3. admin' \in Passwords \cup {"default"}
    BY <1>10 DEF SetFromDefault, PasswordKnown, TypeOK
  <2> QED
    BY <1>10, <2>1, <2>2, <2>3 DEF SetFromDefault, TypeOK
<1>11. CASE SetAgain
  <2>1. disruptions' \in 0..MaxDisruptions
    BY <1>11, DisruptType DEF SetAgain, TypeOK
  <2>2. /\ pc' \in Labels
        /\ copy' \in Pods
        /\ pwd' \in Passwords \cup {"none"}
    BY <1>11, ReturnType, GoToType DEF SetAgain, Labels
  <2> QED
    BY <1>11, <2>1, <2>2 DEF SetAgain, TypeOK
<1>12. CASE Annotate
  <2>1. disruptions' \in 0..MaxDisruptions
    BY <1>12, DisruptType DEF Annotate, TypeOK
  <2>2. /\ pc' \in Labels
        /\ copy' \in Pods
        /\ pwd' \in Passwords \cup {"none"}
    BY <1>12, ReturnType DEF Annotate
  <2>3. [pod EXCEPT !.annotated = TRUE] \in Pods
    BY DEF TypeOK, Pods
  <2>4. CASE ChangePod([pod EXCEPT !.annotated = TRUE])
    BY <1>12, <2>1, <2>2, <2>3, <2>4, ChangePodType DEF Annotate, TypeOK
  <2>5. CASE UNCHANGED <<pod, cacheCurrent, copyCurrent>>
    BY <1>12, <2>1, <2>2, <2>5 DEF Annotate, TypeOK
  <2> QED
    BY <1>12, <2>4, <2>5 DEF Annotate
<1>13. CASE Scale
  BY <1>13, DisruptType DEF Scale, TypeOK
<1>14. CASE PodReady \/ PodGone \/ PodDeleted
  <2>1. disruptions' \in 0..MaxDisruptions
    BY <1>14, DisruptType DEF PodReady, PodGone, PodDeleted, TypeOK
  <2>0. PICK from \in SUBSET Statuses, to \in Statuses : SetPod(from, to)
    BY <1>14 DEF PodReady, PodGone, PodDeleted, Statuses
  <2>2. pod.annotated \in BOOLEAN
    BY DEF TypeOK, Pods
  <2>3. pod' \in Pods /\ cacheCurrent' \in BOOLEAN /\ copyCurrent' \in BOOLEAN
    BY <2>0, <2>2, ChangePodType, StatusType DEF SetPod
  <2> QED
    BY <2>0, <2>1, <2>3 DEF SetPod, TypeOK
<1>15. CASE ClaimBound \/ ClaimGone \/ ObserveWant \/ ObservePod
  <2>1. CASE ClaimBound \/ ClaimGone
    BY <2>1 DEF ClaimBound, ClaimGone, TypeOK, Claims
  <2>2. CASE ObserveWant
    BY <2>2 DEF ObserveWant, TypeOK
  <2>3. CASE ObservePod
    BY <2>3 DEF ObservePod, TypeOK
  <2> QED
    BY <1>15, <2>1, <2>2, <2>3
<1>16. CASE Crash
  BY <1>16, ReturnType, DisruptType DEF Crash, TypeOK
<1>17. CASE UNCHANGED vars
  BY <1>17 DEF vars, TypeOK
<1> QED
  BY <1>1, <1>2, <1>3, <1>4, <1>5, <1>6, <1>7, <1>8, <1>9, <1>10, <1>11,
     <1>12, <1>13, <1>14, <1>15, <1>16, <1>17
  DEF Next, Worker, AddInstance, RemoveInstance, Initialize, Cluster, Watch

LEMMA NextPasswordKnown ==
  TypeOK /\ PasswordKnown /\ [Next]_vars => PasswordKnown'
<1> SUFFICES ASSUME TypeOK, PasswordKnown, [Next]_vars PROVE PasswordKnown'
  OBVIOUS
<1> USE DEF resources, caches, locals, worker, PasswordKnown
<1>1. CASE BeginSync
  BY <1>1 DEF BeginSync, FirstCall
<1>2. CASE AddInstance
  BY <1>2
  DEF AddInstance, CreateClaim, WaitForClaim, CreatePod, CreateService,
      CreateIngress, Fails, GoTo, Return
<1>3. CASE RemoveInstance
  BY <1>3
  DEF RemoveInstance, DeleteSecret, DeleteIngress, DeleteService, DeleteClaim,
      DeletePod, Remove, GoTo, Return
<1>4. CASE GetPassword
  BY <1>4 DEF GetPassword, Return, TypeOK
<1>5. CASE PutPassword
  BY <1>5 DEF PutPassword, Fails, Return
<1>6. CASE SetFromDefault
  BY <1>6 DEF SetFromDefault, GoTo
<1>7. CASE SetAgain \/ Annotate \/ Crash
  BY <1>7 DEF SetAgain, Annotate, Crash, GoTo, Return
<1>8. CASE Scale \/ Watch
  BY <1>8 DEF Scale, Watch, ObserveWant, ObservePod
<1>9. CASE Cluster
  BY <1>9
  DEF Cluster, PodReady, PodGone, PodDeleted, SetPod, ClaimBound, ClaimGone
<1>10. CASE UNCHANGED vars
  BY <1>10 DEF vars
<1> QED
  BY <1>1, <1>2, <1>3, <1>4, <1>5, <1>6, <1>7, <1>8, <1>9, <1>10
  DEF Next, Worker, Initialize

\* The variables stay in their types: whatever fails or is scaled, no pass of
\* the worker stores or sets an empty password.
THEOREM TypeCorrect == Spec => []TypeOK
<1>1. Spec => [](TypeOK /\ PasswordKnown)
  BY InitTypeOK, NextTypeOK, NextPasswordKnown, PTL DEF Spec
<1> QED
  BY <1>1, PTL

-----------------------------------------------------------------------------
(* The password of an instance that is never scaled away.                  *)

NotScaled == "scale" \notin Disruptions

\* Its claim, and with it the repository, stays; a password reaches the
\* repository only from Vault, and Vault is written only while it is empty.
Kept ==
  /\ want /\ cachedWant
  /\ pc \in Labels \ {"rmSecret", "rmIngress", "rmService", "rmClaim", "rmPod"}
  /\ claim # "terminating"
  /\ pc = "pod" => claim # "absent"
  /\ claim = "absent" => pod.status = "absent" /\ admin = "default"
  /\ admin # "default" => admin = secret
  /\ pc = "put" => secret = "none"
  /\ pc \in {"default", "retry", "annotate"} => pwd = secret /\ secret # "none"
  /\ pc = "annotate" => admin = secret
  /\ pod.annotated => admin = secret

LEMMA InitKept == Init => Kept
  BY DEF Init, Kept, NoPod, Labels

LEMMA NextKept ==
  ASSUME NotScaled, TypeOK, PasswordKnown, Kept, [Next]_vars
  PROVE  Kept'
<1> USE DEF resources, caches, locals, worker
<1>1. CASE BeginSync
  BY <1>1 DEF BeginSync, FirstCall, Kept, Labels
<1>2. CASE CreateClaim \/ WaitForClaim
  BY <1>2
  DEF CreateClaim, WaitForClaim, Fails, GoTo, Return, Kept, TypeOK, Labels
<1>3. CASE CreatePod
  BY <1>3 DEF CreatePod, ChangePod, Fails, GoTo, Return, Kept, TypeOK, Labels
<1>4. CASE CreateService \/ CreateIngress
  BY <1>4 DEF CreateService, CreateIngress, Fails, GoTo, Return, Kept, Labels
<1>5. CASE RemoveInstance
  BY <1>5
  DEF RemoveInstance, DeleteSecret, DeleteIngress, DeleteService, DeleteClaim,
      DeletePod, Remove, Kept
<1>6. CASE GetPassword
  BY <1>6 DEF GetPassword, Return, Kept, Labels
<1>7. CASE PutPassword
  <2>1. secret = "none" /\ admin = "default" /\ ~pod.annotated
    BY <1>7, InstanceAssumption DEF PutPassword, Kept, TypeOK, Pods
  <2>2. PICK p \in Passwords :
          \/ secret' = p /\ pwd' = p /\ pc' = "default" /\ UNCHANGED copy /\ Calm
          \/ Fails(secret' = p, UNCHANGED secret)
    BY <1>7 DEF PutPassword
  <2>3. p # "none"
    BY InstanceAssumption
  <2> QED
    BY <1>7, <2>1, <2>2, <2>3 DEF PutPassword, Fails, Return, Kept, Labels
<1>8. CASE SetFromDefault
  BY <1>8 DEF SetFromDefault, Reachable, GoTo, Kept, Labels
<1>9. CASE SetAgain
  BY <1>9 DEF SetAgain, GoTo, Return, Kept, Labels
<1>10. CASE Annotate
  BY <1>10 DEF Annotate, ChangePod, Return, Kept, TypeOK, Pods, Labels
<1>11. CASE Scale
  BY <1>11 DEF Scale, Disrupt, NotScaled
<1>12. CASE PodReady \/ PodGone \/ PodDeleted
  <2>1. pod'.annotated => pod.annotated
    BY <1>12
    DEF PodReady, PodGone, PodDeleted, SetPod, ChangePod, TypeOK, Pods
  <2> QED
    BY <1>12, <2>1 DEF PodReady, PodGone, PodDeleted, SetPod, Kept
<1>13. CASE ClaimBound \/ ClaimGone
  BY <1>13 DEF ClaimBound, ClaimGone, Kept
<1>14. CASE Watch
  BY <1>14 DEF Watch, ObserveWant, ObservePod, Kept
<1>15. CASE Crash
  BY <1>15 DEF Crash, Return, Kept, Labels
<1>16. CASE UNCHANGED vars
  BY <1>16 DEF vars, Kept
<1> QED
  BY <1>1, <1>2, <1>3, <1>4, <1>5, <1>6, <1>7, <1>8, <1>9, <1>10, <1>11,
     <1>12, <1>13, <1>14, <1>15, <1>16
  DEF Next, Worker, AddInstance, Initialize, Cluster

IInv == TypeOK /\ PasswordKnown /\ Kept

LEMMA Inductive ==
  ASSUME NotScaled
  PROVE  Spec => []IInv
<1>1. Init => IInv
  BY InitTypeOK, InitKept DEF IInv
<1>2. IInv /\ [Next]_vars => IInv'
  BY NotScaled, NextTypeOK, NextPasswordKnown, NextKept DEF IInv
<1> QED
  BY <1>1, <1>2, PTL DEF Spec

\* checkPodInitialized annotates a pod only after its repository has taken the
\* password, and an instance that is not scaled away keeps that repository
\* through every crash, failed call and new pod.
THEOREM Secured ==
  ASSUME NotScaled
  PROVE  Spec => []InitializedIsSecured
<1>1. IInv => InitializedIsSecured
  BY DEF IInv, Kept, InitializedIsSecured
<1> QED
  BY <1>1, Inductive, PTL

LEMMA StepKeepsCredential ==
  ASSUME IInv, NotScaled, [Next]_vars
  PROVE  [Password!Next]_(Password!credentialVars)
<1> USE DEF resources, caches, locals, worker, IInv,
            Password!Next, Password!credentialVars
<1>1. CASE BeginSync \/ WaitForClaim \/ GetPassword \/ SetAgain
  BY <1>1 DEF BeginSync, WaitForClaim, GetPassword, SetAgain
<1>2. CASE CreateClaim
  BY <1>2 DEF CreateClaim, Fails, Kept
<1>3. CASE CreatePod \/ CreateService \/ CreateIngress
  BY <1>3 DEF CreatePod, CreateService, CreateIngress
<1>4. CASE RemoveInstance
  BY <1>4
  DEF RemoveInstance, DeleteSecret, DeleteIngress, DeleteService, DeleteClaim,
      DeletePod, Remove, Kept
<1>5. CASE PutPassword
  BY <1>5 DEF PutPassword, Fails, Kept, Password!Put
<1>6. CASE SetFromDefault
  BY <1>6 DEF SetFromDefault, Kept, Password!Take
<1>7. CASE Annotate \/ Scale \/ Watch \/ Crash
  BY <1>7 DEF Annotate, Scale, Watch, ObserveWant, ObservePod, Crash
<1>8. CASE Cluster
  BY <1>8
  DEF Cluster, PodReady, PodGone, PodDeleted, SetPod, ClaimBound, ClaimGone, Kept
<1>9. CASE UNCHANGED vars
  BY <1>9 DEF vars
<1> QED
  BY <1>1, <1>2, <1>3, <1>4, <1>5, <1>6, <1>7, <1>8, <1>9
  DEF Next, Worker, AddInstance, Initialize

\* The two passwords of an instance that is not scaled away live as module
\* Credential says: Vault has the password before the repository takes it, and
\* neither changes again.
THEOREM CredentialImplemented ==
  ASSUME NotScaled
  PROVE  Spec => ImplementsCredential
<1>1. Init => Password!Init
  BY DEF Init, Password!Init
<1>2. IInv /\ [Next]_vars => [Password!Next]_(Password!credentialVars)
  BY NotScaled, StepKeepsCredential
<1> QED
  BY <1>1, <1>2, Inductive, PTL DEF Spec, ImplementsCredential, Password!Spec

-----------------------------------------------------------------------------
(* What a removal leaves behind.                                            *)

NothingFails == Disruptions \cap {"fault", "delete"} = {}

Up == pod.status \in {"starting", "ready"}

\* The endpoint comes after the pod and goes before it.
PodLast ==
  /\ pc \in {"service", "ingress"} => Up
  /\ pc = "rmService" => ~ingress
  /\ pc \in {"rmClaim", "rmPod"} => Endpointless
  /\ EndpointHasPod

LEMMA InitPodLast == Init => PodLast
  BY DEF Init, PodLast, EndpointHasPod, Endpointless

LEMMA NextPodLast ==
  ASSUME NothingFails, TypeOK, PodLast, [Next]_vars
  PROVE  PodLast'
<1> USE DEF resources, caches, locals, worker, PodLast, EndpointHasPod, Endpointless, Up
<1>1. ASSUME NEW kind \in {"fault", "delete"}, Disrupt(kind) PROVE FALSE
  BY <1>1 DEF NothingFails, Disrupt
<1>2. CASE BeginSync
  BY <1>2 DEF BeginSync, FirstCall
<1>3. CASE CreateClaim \/ WaitForClaim
  BY <1>1, <1>3 DEF CreateClaim, WaitForClaim, Fails, GoTo, Return
<1>4. CASE CreatePod
  BY <1>1, <1>4 DEF CreatePod, ChangePod, Fails, GoTo, Return
<1>5. CASE CreateService \/ CreateIngress
  BY <1>1, <1>5 DEF CreateService, CreateIngress, Fails, GoTo, Return, TypeOK, Pods, Statuses
<1>6. CASE DeleteSecret \/ DeleteIngress \/ DeleteService \/ DeleteClaim
  BY <1>1, <1>6
  DEF DeleteSecret, DeleteIngress, DeleteService, DeleteClaim, Remove, GoTo
<1>7. CASE DeletePod
  <2>1. Endpointless /\ UNCHANGED <<service, ingress>> /\ pc' \in {"idle", "get"}
    BY <1>7 DEF DeletePod, Return, GoTo
  <2> QED
    BY <2>1
<1>8. CASE Initialize
  <2>1. /\ pc' \in {"idle", "put", "default", "retry", "annotate"}
        /\ UNCHANGED <<service, ingress>>
    BY <1>8
    DEF Initialize, GetPassword, PutPassword, SetFromDefault, SetAgain, Annotate,
        Fails, GoTo, Return
  <2>2. pod'.status = pod.status
    BY <1>8
    DEF Initialize, GetPassword, PutPassword, SetFromDefault, SetAgain, Annotate,
        ChangePod, TypeOK, Pods
  <2> QED
    BY <2>1, <2>2
<1>9. CASE Scale \/ ClaimBound \/ ClaimGone \/ Watch
  BY <1>9 DEF Scale, ClaimBound, ClaimGone, Watch, ObserveWant, ObservePod
<1>10. CASE PodReady \/ PodGone
  <2>1. /\ UNCHANGED <<service, ingress, pc>>
        /\ \/ Up /\ pod'.status = "ready"
           \/ pod.status = "terminating" /\ pod'.status = "absent"
    BY <1>10 DEF PodReady, PodGone, SetPod, ChangePod, TypeOK, Pods
  <2> QED
    BY <2>1
<1>11. ~PodDeleted
  BY <1>1 DEF PodDeleted
<1>12. CASE Crash
  BY <1>12 DEF Crash, Return
<1>13. CASE UNCHANGED vars
  BY <1>13 DEF vars
<1> QED
  BY <1>2, <1>3, <1>4, <1>5, <1>6, <1>7, <1>8, <1>9, <1>10, <1>11, <1>12, <1>13
  DEF Next, Worker, AddInstance, RemoveInstance, Cluster

\* With any number of restarts and of scaling away and back, no endpoint is left
\* that belongs to no pod: removeInstance, interrupted anywhere, can be taken up
\* again, because the pod that tells sync to is the last to go.
THEOREM PodGoesLast ==
  ASSUME NothingFails
  PROVE  Spec => []EndpointHasPod
<1>1. Init => TypeOK /\ PasswordKnown /\ PodLast
  BY InitTypeOK, InitPodLast
<1>2. TypeOK /\ PasswordKnown /\ PodLast /\ [Next]_vars =>
        (TypeOK /\ PasswordKnown /\ PodLast)'
  BY NothingFails, NextTypeOK, NextPasswordKnown, NextPodLast
<1>3. PodLast => EndpointHasPod
  BY DEF PodLast
<1> QED
  BY <1>1, <1>2, <1>3, PTL DEF Spec

-----------------------------------------------------------------------------
(* What scaling away and back does to the password.                        *)

Initializing == {"get", "put", "default", "retry", "annotate"}

\* A pod that has been seen ready has not gone without the volume going with it.
BeenReady == \/ pod.status \in {"ready", "absent"}
             \/ pod.status = "terminating" /\ claim = "terminating"

\* The pass that initializes knows what is in Vault, which nobody else writes.
PassKnows == /\ pc \in Initializing => copy.status = "ready"
             /\ pc = "put" => secret = "none"
             /\ pc \in {"default", "retry", "annotate"} => pwd = secret

\* A repository has left its default password only while its first pod runs or
\* its volume is on the way out.
Volumes == /\ pod.status # "ready" /\ claim # "terminating" => admin = "default"
           /\ pod.status = "ready" => claim \in {"bound", "terminating"}
           /\ pc = "rmPod" => claim \in {"terminating", "absent"}

Sightings == \A seen \in {cachedPod, copy} :
               /\ seen.uid <= pod.uid
               /\ seen.status = "ready" /\ seen.uid = pod.uid => BeenReady

Rescaled == PassKnows /\ Volumes /\ Sightings

LEMMA InitRescaled == Init => Rescaled
  BY DEF Init, Rescaled, PassKnows, Volumes, Sightings, Initializing, NoPod

LEMMA NextPassKnows ==
  ASSUME NothingFails, TypeOK, Rescaled, [Next]_vars
  PROVE  PassKnows'
<1> USE DEF resources, caches, locals, worker, Initializing
<1>a. PassKnows
  BY DEF Rescaled
<1>1. ASSUME NEW kind \in {"fault", "delete"}, Disrupt(kind) PROVE FALSE
  BY <1>1 DEF NothingFails, Disrupt
<1>2. CASE BeginSync
  BY <1>2 DEF BeginSync, FirstCall, PassKnows
<1>3. CASE AddInstance
  <2>1. pc' \notin Initializing
    BY <1>3
    DEF AddInstance, CreateClaim, WaitForClaim, CreatePod, CreateService, CreateIngress,
        Fails, GoTo, Return
  <2> QED
    BY <2>1 DEF PassKnows
<1>4. CASE RemoveInstance
  <2>1. pc' \in Initializing => pc' = "get" /\ copy'.status = "ready"
    BY <1>4
    DEF RemoveInstance, DeleteSecret, DeleteIngress, DeleteService, DeleteClaim, DeletePod,
        Remove, GoTo, Return
  <2> QED
    BY <2>1 DEF PassKnows
<1>5. CASE GetPassword
  BY <1>a, <1>1, <1>5 DEF GetPassword, Return, PassKnows
<1>6. CASE PutPassword
  BY <1>a, <1>1, <1>6 DEF PutPassword, Fails, Return, PassKnows
<1>7. CASE SetFromDefault \/ SetAgain \/ Annotate
  BY <1>a, <1>7 DEF SetFromDefault, SetAgain, Annotate, GoTo, Return, PassKnows
<1>8. CASE Crash
  BY <1>8 DEF Crash, Return, PassKnows
<1>9. CASE Scale \/ Cluster \/ Watch \/ UNCHANGED vars
  <2>1. UNCHANGED <<pc, copy, secret, pwd>>
    BY <1>9
    DEF Scale, Cluster, PodReady, PodGone, PodDeleted, SetPod, ClaimBound, ClaimGone,
        Watch, ObserveWant, ObservePod, vars
  <2> QED
    BY <1>a, <2>1 DEF PassKnows
<1> QED
  BY <1>2, <1>3, <1>4, <1>5, <1>6, <1>7, <1>8, <1>9 DEF Next, Worker, Initialize

LEMMA NextVolumes ==
  ASSUME NothingFails, TypeOK, Rescaled, [Next]_vars
  PROVE  Volumes'
<1> USE DEF resources, caches, locals, worker
<1>a. Volumes
  BY DEF Rescaled
<1>b. claim \in Claims /\ pod \in Pods
  BY DEF TypeOK
<1>1. ASSUME NEW kind \in {"fault", "delete"}, Disrupt(kind) PROVE FALSE
  BY <1>1 DEF NothingFails, Disrupt
<1>2. ASSUME UNCHANGED <<pod, claim, admin>>, pc' # "rmPod" \/ UNCHANGED pc
      PROVE  Volumes'
  BY <1>a, <1>2 DEF Volumes
<1>3. CASE BeginSync
  BY <1>2, <1>3 DEF BeginSync, FirstCall
<1>4. CASE CreateClaim
  BY <1>a, <1>1, <1>4 DEF CreateClaim, Fails, GoTo, Return, Volumes
<1>5. CASE CreatePod
  <2>1. /\ UNCHANGED <<claim, admin>> /\ pc' # "rmPod"
        /\ \/ pod.status = "absent" /\ pod'.status = "starting"
           \/ UNCHANGED pod
    BY <1>1, <1>5 DEF CreatePod, ChangePod, Fails, GoTo, Return
  <2> QED
    BY <1>a, <2>1 DEF Volumes
<1>6. CASE \/ WaitForClaim \/ CreateService \/ CreateIngress
           \/ DeleteSecret \/ DeleteIngress \/ DeleteService
           \/ GetPassword \/ PutPassword \/ SetAgain
  <2>1. UNCHANGED <<pod, claim, admin>> /\ pc' # "rmPod"
    BY <1>6
    DEF WaitForClaim, CreateService, CreateIngress, DeleteSecret, DeleteIngress,
        DeleteService, GetPassword, PutPassword, SetAgain, Remove, Fails, GoTo, Return
  <2> QED
    BY <1>2, <2>1
<1>7. CASE DeleteClaim
  BY <1>a, <1>b, <1>1, <1>7
  DEF DeleteClaim, ClaimDeleted, Remove, GoTo, Volumes, Claims
<1>8. CASE DeletePod
  <2>1. /\ pc = "rmPod" /\ pc' # "rmPod" /\ UNCHANGED <<claim, admin>>
        /\ \/ pod.status \in {"starting", "ready"} /\ pod'.status = "terminating"
           \/ UNCHANGED pod
    BY <1>b, <1>8 DEF DeletePod, ChangePod, GoTo, Return, Pods
  <2> QED
    BY <1>a, <2>1 DEF Volumes
<1>9. CASE SetFromDefault
  <2>1. /\ pc = "default" /\ pc' = "retry" /\ UNCHANGED <<pod, claim>>
        /\ UNCHANGED admin \/ Reachable
    BY <1>9 DEF SetFromDefault, GoTo
  <2>2. Reachable => pod.status = "ready" \/ claim = "terminating"
    BY <2>1 DEF Reachable, Rescaled, PassKnows, Sightings, Initializing, BeenReady
  <2> QED
    BY <1>a, <2>1, <2>2 DEF Volumes
<1>10. CASE Annotate
  <2>1. UNCHANGED <<claim, admin>> /\ pc' # "rmPod" /\ pod'.status = pod.status
    BY <1>b, <1>10 DEF Annotate, ChangePod, Return, Pods
  <2> QED
    BY <1>a, <2>1 DEF Volumes
<1>11. CASE PodReady \/ PodGone
  <2>1. /\ UNCHANGED <<claim, admin, pc>>
        /\ \/ claim = "bound" /\ pod'.status = "ready"
           \/ pod.status = "terminating" /\ pod'.status = "absent"
    BY <1>b, <1>11 DEF PodReady, PodGone, SetPod, ChangePod, Pods
  <2> QED
    BY <1>a, <2>1 DEF Volumes
<1>12. CASE ClaimBound \/ ClaimGone
  BY <1>a, <1>12 DEF ClaimBound, ClaimGone, Volumes
<1>13. CASE Scale \/ Watch \/ Crash \/ UNCHANGED vars
  BY <1>2, <1>13 DEF Scale, Watch, ObserveWant, ObservePod, Crash, Return, vars
<1>14. ~PodDeleted
  BY <1>1 DEF PodDeleted
<1> QED
  BY <1>3, <1>4, <1>5, <1>6, <1>7, <1>8, <1>9, <1>10, <1>11, <1>12, <1>13, <1>14
  DEF Next, Worker, AddInstance, RemoveInstance, Initialize, Cluster

LEMMA NextSightings ==
  ASSUME NothingFails, TypeOK, Rescaled, [Next]_vars
  PROVE  Sightings'
<1> USE DEF resources, caches, locals, worker
<1>a. Sightings /\ Volumes
  BY DEF Rescaled
<1>b. /\ pod \in Pods /\ pod.uid \in Nat
      /\ NoPod.uid = 0 /\ NoPod.status = "absent"
      /\ \A seen \in {cachedPod, copy} : seen.uid \in Nat
  BY DEF TypeOK, Pods, NoPod
<1>1. ASSUME NEW kind \in {"fault", "delete"}, Disrupt(kind) PROVE FALSE
  BY <1>1 DEF NothingFails, Disrupt
\* What is looked at, and what there is to see.
<1>2. ASSUME cachedPod' \in {cachedPod, copy, pod, NoPod},
             copy' \in {cachedPod, copy, pod, NoPod},
             UNCHANGED <<pod, claim>>
      PROVE  Sightings'
  <2> SUFFICES ASSUME NEW seen \in {cachedPod', copy'}
               PROVE  /\ seen.uid <= pod.uid
                      /\ seen.status = "ready" /\ seen.uid = pod.uid => BeenReady
    BY <1>2 DEF Sightings, BeenReady
  <2>1. CASE seen \in {cachedPod, copy}
    BY <1>a, <2>1 DEF Sightings
  <2>2. CASE seen = pod
    BY <1>b, <2>2 DEF BeenReady
  <2>3. CASE seen = NoPod
    BY <1>b, <2>3
  <2> QED
    BY <1>2, <2>1, <2>2, <2>3
<1>3. ASSUME cachedPod' \in {cachedPod, copy, NoPod}, copy' \in {cachedPod, copy, NoPod},
             pod'.uid = pod.uid, BeenReady => BeenReady'
      PROVE  Sightings'
  <2> SUFFICES ASSUME NEW seen \in {cachedPod', copy'}
               PROVE  /\ seen.uid <= pod.uid
                      /\ seen.status = "ready" /\ seen.uid = pod.uid => BeenReady'
    BY <1>3 DEF Sightings
  <2>1. CASE seen \in {cachedPod, copy}
    BY <1>a, <1>3, <2>1 DEF Sightings
  <2>2. CASE seen = NoPod
    BY <1>b, <2>2
  <2> QED
    BY <1>3, <2>1, <2>2
<1>4. CASE BeginSync \/ Crash
  BY <1>2, <1>4 DEF BeginSync, Crash, Return
<1>5. CASE CreateClaim \/ DeleteClaim \/ ClaimBound \/ ClaimGone
  <2>1. /\ cachedPod' = cachedPod /\ copy' \in {copy, NoPod}
        /\ UNCHANGED pod
    BY <1>5
    DEF CreateClaim, DeleteClaim, ClaimBound, ClaimGone, Remove, Fails, GoTo, Return
  <2>2. \/ claim' = claim \/ claim # "terminating" \/ pod.status \in {"absent", "starting"}
    BY <1>5
    DEF CreateClaim, DeleteClaim, ClaimDeleted, ClaimBound, ClaimGone, Remove, Fails
  <2>3. BeenReady => BeenReady'
    BY <2>1, <2>2 DEF BeenReady
  <2> QED
    BY <1>3, <2>1, <2>3
<1>6. CASE CreatePod
  <2>1. /\ cachedPod' = cachedPod /\ copy' \in {copy, NoPod}
        /\ pod'.uid = pod.uid + 1 \/ UNCHANGED <<pod, claim>>
    BY <1>6 DEF CreatePod, ChangePod, Fails, GoTo, Return
  <2>2. CASE pod'.uid = pod.uid + 1
    <3> SUFFICES ASSUME NEW seen \in {cachedPod', copy'}
                 PROVE  seen.uid <= pod.uid + 1 /\ seen.uid # pod.uid + 1
      BY <2>2 DEF Sightings
    <3>1. seen.uid \in Nat /\ seen.uid <= pod.uid
      BY <1>a, <1>b, <2>1 DEF Sightings
    <3> QED
      BY <1>b, <3>1
  <2> QED
    BY <1>2, <2>1, <2>2
<1>7. CASE DeletePod
  <2>1. /\ cachedPod' = cachedPod /\ copy' \in {copy, NoPod}
        /\ pc = "rmPod" /\ UNCHANGED claim
        /\ \/ pod.status \in {"starting", "ready"} /\ pod'.status = "terminating"
           \/ UNCHANGED pod
        /\ pod'.uid = pod.uid
    BY <1>b, <1>7 DEF DeletePod, ChangePod, GoTo, Return, Pods
  <2>2. BeenReady => BeenReady'
    BY <1>a, <2>1 DEF BeenReady, Volumes
  <2> QED
    BY <1>3, <2>1, <2>2
<1>8. CASE Annotate
  <2>1. /\ cachedPod' = cachedPod /\ copy' \in {copy, NoPod}
        /\ UNCHANGED claim /\ pod'.status = pod.status /\ pod'.uid = pod.uid
    BY <1>b, <1>8 DEF Annotate, ChangePod, Return, Pods
  <2> QED
    BY <1>3, <2>1 DEF BeenReady
<1>9. CASE \/ WaitForClaim \/ CreateService \/ CreateIngress
           \/ DeleteSecret \/ DeleteIngress \/ DeleteService
           \/ GetPassword \/ PutPassword \/ SetFromDefault \/ SetAgain
  <2>1. /\ cachedPod' = cachedPod /\ copy' \in {copy, NoPod}
        /\ UNCHANGED <<pod, claim>>
    BY <1>9
    DEF WaitForClaim, CreateService, CreateIngress, DeleteSecret, DeleteIngress,
        DeleteService, GetPassword, PutPassword, SetFromDefault, SetAgain, Remove, Fails,
        GoTo, Return
  <2> QED
    BY <1>2, <2>1
<1>10. CASE PodReady \/ PodGone
  <2>1. /\ UNCHANGED <<cachedPod, copy>>
        /\ pod'.uid = pod.uid /\ pod'.status \in {"ready", "absent"}
    BY <1>b, <1>10 DEF PodReady, PodGone, SetPod, ChangePod, Pods
  <2>2. BeenReady'
    BY <2>1 DEF BeenReady
  <2> QED
    BY <1>3, <2>1, <2>2
<1>11. CASE Scale \/ Watch \/ UNCHANGED vars
  BY <1>2, <1>11 DEF Scale, Watch, ObserveWant, ObservePod, vars
<1>12. ~PodDeleted
  BY <1>1 DEF PodDeleted
<1> QED
  BY <1>4, <1>5, <1>6, <1>7, <1>8, <1>9, <1>10, <1>11, <1>12
  DEF Next, Worker, AddInstance, RemoveInstance, Initialize, Cluster

LEMMA StepLocksOut ==
  ASSUME NothingFails, TypeOK, Rescaled, [Next]_vars, ~LockedOut, LockedOut'
  PROVE  Crash /\ Removing
<1> USE DEF resources, caches, locals, worker
<1>a. PassKnows /\ Volumes
  BY DEF Rescaled
<1>b. pod \in Pods /\ admin # "none"
  BY InstanceAssumption DEF TypeOK
<1>c. pod'.status = "ready" /\ ~Removing' /\ admin' \notin {"default", secret'}
  BY DEF LockedOut
<1>1. ASSUME NEW kind \in {"fault", "delete"}, Disrupt(kind) PROVE FALSE
  BY <1>1 DEF NothingFails, Disrupt
<1>2. ASSUME UNCHANGED <<admin, secret>>, pod'.status = pod.status PROVE Removing
  BY <1>c, <1>2 DEF LockedOut
<1>3. CASE Crash
  BY <1>2, <1>3 DEF Crash
<1>4. ~BeginSync
  BY <1>2 DEF BeginSync, Removing
<1>5. ~CreateClaim
  <2> SUFFICES ASSUME CreateClaim PROVE FALSE
    OBVIOUS
  <2>1. /\ UNCHANGED <<pod, secret>> /\ ~Removing
        /\ UNCHANGED admin \/ admin' = "default"
    BY DEF CreateClaim, Fails, Removing
  <2> QED
    BY <1>2, <1>c, <2>1
<1>6. ~CreatePod
  BY <1>c, <1>2 DEF CreatePod, ChangePod, Fails, Removing
<1>7. ~(WaitForClaim \/ CreateService \/ CreateIngress \/ GetPassword \/ SetAgain)
  BY <1>2 DEF WaitForClaim, CreateService, CreateIngress, GetPassword, SetAgain, Removing
<1>8. ~(DeleteSecret \/ DeleteIngress \/ DeleteService \/ DeleteClaim)
  BY <1>c DEF DeleteSecret, DeleteIngress, DeleteService, DeleteClaim, Remove, GoTo, Removing
<1>9. ~DeletePod
  BY <1>b, <1>c, <1>1 DEF DeletePod, ChangePod, Pods
\* Vault had no password, and so the repository had the default one.
<1>10. ~PutPassword
  <2> SUFFICES ASSUME PutPassword PROVE FALSE
    OBVIOUS
  <2>1. /\ UNCHANGED <<pod, admin>> /\ ~Removing
        /\ secret = "none"
    BY <1>a DEF PutPassword, PassKnows, Removing
  <2>2. admin \in {"default", "none"}
    BY <1>c, <2>1 DEF LockedOut
  <2> QED
    BY <1>b, <1>c, <2>1, <2>2
<1>11. ~SetFromDefault
  <2> SUFFICES ASSUME SetFromDefault PROVE FALSE
    OBVIOUS
  <2>1. /\ UNCHANGED <<pod, secret>> /\ ~Removing
        /\ pwd = secret
        /\ UNCHANGED admin \/ admin' = pwd
    BY <1>a DEF SetFromDefault, PassKnows, Removing
  <2> QED
    BY <1>2, <1>c, <2>1
<1>12. ~Annotate
  <2> SUFFICES ASSUME Annotate PROVE FALSE
    OBVIOUS
  <2>1. UNCHANGED <<admin, secret>> /\ ~Removing /\ pod'.status = pod.status
    BY <1>b DEF Annotate, ChangePod, Removing, Pods
  <2> QED
    BY <1>2, <2>1
\* A pod gets ready on a volume that stays, which nobody has used before.
<1>13. ~(PodReady \/ PodGone)
  <2> SUFFICES ASSUME PodReady \/ PodGone PROVE FALSE
    OBVIOUS
  <2>1. /\ UNCHANGED admin
        /\ \/ claim = "bound" /\ pod.status = "starting"
           \/ pod'.status = "absent"
    BY <1>b DEF PodReady, PodGone, SetPod, ChangePod, Pods
  <2> QED
    BY <1>a, <1>c, <2>1 DEF Volumes
<1>14. ~PodDeleted
  BY <1>1 DEF PodDeleted
<1>15. ~ClaimGone
  BY <1>c DEF ClaimGone
<1>16. CASE Scale \/ ClaimBound \/ Watch \/ UNCHANGED vars
  <2>1. UNCHANGED <<admin, secret, pod, pc>>
    BY <1>16 DEF Scale, ClaimBound, Watch, ObserveWant, ObservePod, vars
  <2> QED
    BY <2>1 DEF LockedOut, Removing
<1> QED
  BY <1>3, <1>4, <1>5, <1>6, <1>7, <1>8, <1>9, <1>10, <1>11, <1>12, <1>13, <1>14, <1>15,
     <1>16
  DEF Next, Worker, AddInstance, RemoveInstance, Initialize, Cluster

\* With any number of restarts and of scaling away and back, whatever the caches
\* show of it, the password of a pod that runs gets lost only by a restart between
\* the deletions of removeInstance, of which the secret's comes first.
THEOREM OnlyRemovalLosesPassword ==
  ASSUME NothingFails
  PROVE  Spec => OnlyCrashesLockOut
<1> DEFINE I == TypeOK /\ PasswordKnown /\ Rescaled
<1>1. Init => I
  BY InitTypeOK, InitRescaled
<1>2. I /\ [Next]_vars => I'
  BY NothingFails, NextTypeOK, NextPasswordKnown, NextPassKnows, NextVolumes, NextSightings
  DEF Rescaled
<1>3. I /\ [Next]_vars => [~LockedOut /\ LockedOut' => Crash /\ Removing]_vars
  BY NothingFails, StepLocksOut
<1> HIDE DEF I
<1> QED
  BY <1>1, <1>2, <1>3, PTL DEF Spec, OnlyCrashesLockOut

=============================================================================
