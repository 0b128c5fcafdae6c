---------------------------- MODULE ResizeProofs ----------------------------
(***************************************************************************)
(* Proofs about modules Retry and Resize, for any interval, number of      *)
(* attempts and duration of a call, any slice of pods and any number of    *)
(* replicas, also a negative one.                                          *)
(***************************************************************************)
EXTENDS Resize, OrdinalsProofs

-----------------------------------------------------------------------------
(* Retry.                                                                  *)

LEMMA RetryConstants ==
  /\ Interval \in Nat \ {0}
  /\ MaxRetries \in Int
  /\ MaxCall \in Nat
  /\ Longer \in Nat /\ Interval <= Longer /\ MaxCall <= Longer
  BY RetryAssumption DEF Longer

LEMMA Times ==
  ASSUME NEW m \in Nat, NEW n \in Nat, NEW k \in Nat, m <= n
  PROVE  /\ m * k \in Nat
         /\ m * k <= n * k
         /\ (m + 1) * k = m * k + k
<1>1. PICK d \in Nat : n = m + d
  <2>1. n - m \in Nat /\ n = m + (n - m)
    OBVIOUS
  <2> QED
    BY <2>1
<1>2. n * k = m * k + d * k
  BY <1>1
<1>3. m * k \in Nat /\ d * k \in Nat
  OBVIOUS
<1>4. (m + 1) * k = m * k + k
  OBVIOUS
<1> QED
  BY <1>2, <1>3, <1>4

\* How many ticks there have been: as many as have been taken, one that the
\* channel holds, and those that have been dropped.
Ticked ==
  \E k \in Nat : /\ elapsed = k * Interval + (Interval - due)
                 /\ attempt + (IF tick THEN 1 ELSE 0) <= k

\* A call begins with a tick, or with the ticker itself, and until the next
\* tick less than an interval passes.
Paces ==
  /\ attempt < MaxRetries
  /\ attempt * Interval <= elapsed - since
  /\ elapsed - since <= attempt * Longer
  /\ ~tick => since + due <= Interval
  /\ rpc = "calling" => since <= MaxCall
  /\ rpc = "waiting" => since <= Longer /\ attempt + 1 < MaxRetries

RetryInv ==
  /\ RetryTypeOK
  /\ rpc # "idle" => Ticked /\ Paces
  /\ rpc = "idle" => elapsed <= Limit

LEMMA LimitType ==
  /\ Limit \in Nat
  /\ \A i \in Nat : i < MaxRetries => i * Longer + MaxCall <= Limit
  /\ \A i \in Nat : i + 1 < MaxRetries => i * Longer + Longer <= Limit
<1>1. CASE MaxRetries <= 0
  BY <1>1, RetryConstants DEF Limit
<1>2. CASE MaxRetries > 0
  <2> DEFINE m == MaxRetries - 1
             L == Longer
  <2>1. m \in Nat /\ L \in Nat /\ MaxCall \in Nat
    BY <1>2, RetryConstants
  <2>2. Limit = m * L + MaxCall
    BY <1>2, RetryConstants DEF Limit
  <2>3. \A i \in Nat : i < MaxRetries => i <= m
    BY RetryConstants
  <2>4. \A i \in Nat : i + 1 < MaxRetries => i + 1 <= m
    BY RetryConstants
  <2> HIDE DEF m, L
  <2>5. m * L \in Nat
    BY <2>1, Times
  <2>6. \A i \in Nat : i <= m => i * L \in Nat /\ i * L <= m * L
    BY <2>1, Times
  <2>7. \A i \in Nat : i + 1 <= m => i * L + L <= m * L
    BY <2>1, Times
  <2>8. \A i \in Nat : i < MaxRetries => i * L + MaxCall <= Limit
    BY <2>1, <2>2, <2>3, <2>5, <2>6
  <2>9. \A i \in Nat : i + 1 < MaxRetries => i * L + L <= Limit
    <3> SUFFICES ASSUME NEW i \in Nat, i + 1 < MaxRetries
                 PROVE  i * L + L <= Limit
      OBVIOUS
    <3>1. i * L + L <= m * L /\ i * L \in Nat
      BY <2>1, <2>4, <2>6, <2>7, Times
    <3> QED
      BY <2>1, <2>2, <2>5, <3>1
  <2> QED
    BY <2>1, <2>2, <2>5, <2>8, <2>9 DEF L
<1> QED
  BY <1>1, <1>2, RetryConstants

\* However far it has got, Retry has not taken longer.
LEMMA WithinLimit == RetryInv => elapsed <= Limit
<1> SUFFICES ASSUME RetryInv, rpc # "idle"
             PROVE  elapsed <= Limit
  BY DEF RetryInv
<1> DEFINE n == attempt * Longer
<1>1. /\ elapsed - since <= n
      /\ rpc = "calling" => since <= MaxCall
      /\ rpc = "waiting" => since <= Longer
      /\ rpc \in {"calling", "waiting"}
      /\ elapsed \in Nat /\ since \in Nat /\ attempt \in Nat
  BY DEF RetryInv, Paces, RetryTypeOK
<1>2. /\ rpc = "calling" => n + MaxCall <= Limit
      /\ rpc = "waiting" => n + Longer <= Limit
  BY <1>1, LimitType DEF RetryInv, Paces
<1>3. n \in Nat
  BY <1>1, RetryConstants, Times
<1> HIDE DEF n
<1> QED
  BY <1>1, <1>2, <1>3, RetryConstants, LimitType

LEMMA StartInv ==
  ASSUME RetryInv, Start
  PROVE  RetryInv' /\ elapsed' = 0
<1>1. RetryTypeOK'
  <2>1. attempt' = 0 /\ elapsed' = 0 /\ since' = 0 /\ due' = Interval /\ tick' = FALSE
    BY DEF Start
  <2>2. rpc' \in {"idle", "calling"} /\ outcome' \in {"invalid", "none"}
    BY RetryConstants DEF Start
  <2>3. due' \in 1..Interval
    BY <2>1, RetryConstants
  <2>4. tick' \in BOOLEAN
    BY <2>1
  <2> QED
    BY <2>1, <2>2, <2>3, <2>4 DEF RetryTypeOK, Outcomes
<1>2. ASSUME MaxRetries > 0
      PROVE  Ticked' /\ Paces'
  <2>1. /\ elapsed' = 0 /\ since' = 0 /\ attempt' = 0 /\ due' = Interval /\ tick' = FALSE
        /\ rpc' = "calling"
    BY <1>2, RetryConstants DEF Start
  <2>2. 0 * Interval = 0 /\ 0 * Longer = 0
    BY RetryConstants
  <2>3. Ticked'
    <3>1. 0 = 0 * Interval + (Interval - Interval) /\ 0 \in Nat /\ 0 + 0 <= 0
      BY <2>2, RetryConstants
    <3> QED
      BY <2>1, <3>1 DEF Ticked
  <2>4. Paces'
    BY <1>2, <2>1, <2>2, RetryConstants DEF Paces
  <2> QED
    BY <2>3, <2>4
<1>3. elapsed' <= Limit
  BY LimitType DEF Start
<1> QED
  BY <1>1, <1>2, <1>3, RetryConstants DEF RetryInv, Start

LEMMA PassInv ==
  ASSUME RetryInv, Pass
  PROVE  RetryInv' /\ elapsed' = elapsed + 1
<1>1. RetryTypeOK'
  BY RetryConstants DEF RetryInv, RetryTypeOK, Pass
<1>2. Ticked'
  <2>1. PICK k \in Nat : /\ elapsed = k * Interval + (Interval - due)
                         /\ attempt + (IF tick THEN 1 ELSE 0) <= k
    BY DEF RetryInv, Ticked, Pass
  <2>2. k * Interval \in Nat /\ (k + 1) * Interval = k * Interval + Interval
    BY RetryConstants, Times
  <2>3. attempt \in Nat /\ due \in 1..Interval /\ elapsed \in Nat /\ tick \in BOOLEAN
    BY DEF RetryInv, RetryTypeOK
  <2>4. CASE due = 1
    <3>1. elapsed' = (k + 1) * Interval + (Interval - due') /\ k + 1 \in Nat
      BY <2>1, <2>2, <2>3, <2>4, RetryConstants DEF Pass
    <3>2. attempt' + (IF tick' THEN 1 ELSE 0) <= k + 1
      BY <2>1, <2>3, <2>4 DEF Pass
    <3> QED
      BY <3>1, <3>2 DEF Ticked
  <2>5. CASE due # 1
    <3>1. elapsed' = k * Interval + (Interval - due')
      BY <2>1, <2>2, <2>3, <2>5, RetryConstants DEF Pass
    <3>2. attempt' + (IF tick' THEN 1 ELSE 0) <= k
      BY <2>1, <2>3, <2>5 DEF Pass
    <3> QED
      BY <3>1, <3>2 DEF Ticked
  <2> QED
    BY <2>4, <2>5
<1>3. Paces'
  <2>1. Paces /\ attempt' = attempt /\ rpc' = rpc /\ rpc # "idle"
    BY DEF RetryInv, Pass
  <2>2. elapsed' - since' = elapsed - since
    BY DEF RetryInv, RetryTypeOK, Pass
  <2>3. /\ elapsed \in Nat /\ since \in Nat /\ due \in 1..Interval
        /\ since' = since + 1
        /\ rpc = "calling" => since < MaxCall
        /\ rpc = "waiting" => ~tick
    BY DEF RetryInv, RetryTypeOK, Pass
  <2>4. ~tick' => ~tick /\ due # 1 /\ due' = due - 1
    BY DEF Pass
  <2>5. ~tick' => since' + due' <= Interval
    BY <2>1, <2>3, <2>4 DEF Paces
  <2>6. rpc' = "calling" => since' <= MaxCall
    BY <2>1, <2>3, RetryConstants
  <2>7. rpc' = "waiting" => since' <= Longer
    BY <2>1, <2>3, RetryConstants DEF Paces
  <2> QED
    BY <2>1, <2>2, <2>5, <2>6, <2>7 DEF Paces
<1> QED
  BY <1>1, <1>2, <1>3 DEF RetryInv, Pass

LEMMA CallReturnsInv ==
  ASSUME RetryInv, CallReturns
  PROVE  RetryInv' /\ elapsed' = elapsed
<1>1. RetryTypeOK'
  BY DEF RetryInv, RetryTypeOK, CallReturns, Outcomes
<1>2. elapsed' <= Limit
  BY WithinLimit DEF CallReturns
<1>3. Ticked' /\ Paces /\ UNCHANGED <<attempt, elapsed, since, due, tick>>
  BY DEF RetryInv, CallReturns, Ticked
<1>4. ASSUME rpc' # "idle"
      PROVE  Paces'
  BY <1>3, <1>4, RetryConstants DEF Paces, CallReturns, RetryInv, RetryTypeOK
<1> QED
  BY <1>1, <1>2, <1>3, <1>4 DEF RetryInv, CallReturns

LEMMA NextTickInv ==
  ASSUME RetryInv, NextTick
  PROVE  RetryInv' /\ elapsed' = elapsed
<1>1. RetryTypeOK'
  <2>1. tick' \in BOOLEAN
    BY DEF NextTick
  <2>2. /\ attempt' = attempt + 1 /\ since' = 0 /\ rpc' = "calling"
        /\ elapsed' = elapsed /\ due' = due /\ outcome' = outcome
    BY DEF NextTick
  <2> QED
    BY <2>1, <2>2 DEF RetryInv, RetryTypeOK
<1>2. /\ attempt \in Nat /\ due \in 1..Interval /\ elapsed \in Nat /\ since \in Nat
      /\ tick = TRUE /\ rpc = "waiting" /\ UNCHANGED <<elapsed, due, outcome>>
      /\ tick' = FALSE /\ rpc' = "calling" /\ attempt' = attempt + 1 /\ since' = 0
  BY DEF RetryInv, RetryTypeOK, NextTick
<1>3. PICK k \in Nat : elapsed = k * Interval + (Interval - due) /\ attempt + 1 <= k
  BY <1>2 DEF RetryInv, Ticked
<1>4. Ticked'
  BY <1>2, <1>3 DEF Ticked
<1>5. (attempt + 1) * Interval <= elapsed
  <2>1. (attempt + 1) * Interval <= k * Interval /\ (attempt + 1) * Interval \in Nat
    BY <1>2, <1>3, RetryConstants, Times
  <2>2. k * Interval \in Nat
    BY RetryConstants, Times
  <2> QED
    BY <1>2, <1>3, <2>1, <2>2, RetryConstants
<1>6. elapsed <= (attempt + 1) * Longer
  <2>1. elapsed - since <= attempt * Longer /\ since <= Longer
    BY <1>2 DEF RetryInv, Paces
  <2>2. (attempt + 1) * Longer = attempt * Longer + Longer /\ attempt * Longer \in Nat
    BY <1>2, RetryConstants, Times
  <2> QED
    BY <1>2, <2>1, <2>2, RetryConstants
<1>7. attempt + 1 < MaxRetries
  BY <1>2 DEF RetryInv, Paces
<1>8. Paces'
  BY <1>2, <1>5, <1>6, <1>7, RetryConstants DEF Paces
<1> QED
  BY <1>1, <1>2, <1>4, <1>8 DEF RetryInv

-----------------------------------------------------------------------------
(* The loops.                                                              *)

\* The order in which they go through the plan.
LoopInv ==
  /\ Distinct(pods)
  /\ pc = "begin" => handled = {}
  /\ pc = "grow" => /\ actual < desired
                    /\ pos \in 1..(desired + 1)
                    /\ handled = {i \in 1..(pos - 1) : i \notin Listed(pods)}
  /\ pc = "claim" => /\ actual < desired
                     /\ pos \in 1..desired
                     /\ handled = {i \in 1..pos : i \notin Listed(pods)}
  /\ pc = "shrink" => /\ desired < actual
                      /\ Ascending(pods)
                      /\ pos \in 0..actual
                      /\ desired <= pos
                      /\ handled = {pods[i] : i \in (pos + 1)..actual}

\* While it waits for a claim, the other names have had their time.
TimeInv ==
  /\ RetryInv
  /\ IsFiniteSet(handled)
  /\ rpc # "idle" => pc = "claim"
  /\ spent <= Cardinality(handled) * Limit
  /\ pc = "claim" => spent + (Limit - elapsed) <= Cardinality(handled) * Limit

Inv == TypeOK /\ LoopInv /\ TimeInv

LEMMA PodsInt ==
  /\ Pods \subseteq Int
  /\ Replicas \subseteq Int
  /\ MaxPods \in Nat
  BY ResizeAssumption DEF Pods

LEMMA RetryTypeFollows == RetryInv => RetryTypeOK
  BY DEF RetryInv

LEMMA InitInv == Init => Inv
<1> SUFFICES ASSUME Init PROVE Inv
  OBVIOUS
<1>1. RetryInv
  <2>1. RetryTypeOK /\ rpc = "idle" /\ elapsed = 0
    <3>1. /\ rpc = "idle" /\ attempt = 0 /\ elapsed = 0 /\ since = 0 /\ outcome = "none"
          /\ due = Interval
      BY DEF Init, RetryInit
    <3>2. tick \in BOOLEAN
      BY DEF Init, RetryInit
    <3>3. due \in 1..Interval
      BY <3>1, RetryConstants
    <3> QED
      BY <3>1, <3>2, <3>3 DEF RetryTypeOK
  <2> QED
    BY <2>1, LimitType DEF RetryInv
<1>2. TypeOK
  BY <1>1, RetryTypeFollows DEF Init, TypeOK
<1>3. LoopInv
  BY DEF Init, LoopInv
<1>4. IsFiniteSet(handled) /\ Cardinality(handled) = 0
  BY FS_EmptySet DEF Init
<1>5. spent <= Cardinality(handled) * Limit
  BY <1>4, LimitType DEF Init
<1>6. TimeInv
  BY <1>1, <1>4, <1>5 DEF Init, RetryInit, TimeInv
<1> QED
  BY <1>2, <1>3, <1>6 DEF Inv

LEMMA NextTyped ==
  ASSUME Inv, [Next]_vars, RetryInv'
  PROVE  TypeOK'
<1> USE DEF Inv, loopVars
<1>a. /\ actual \in 0..MaxPods /\ actual \in Nat /\ desired \in Int /\ pos \in Nat
      /\ pods \in [1..actual -> Pods] /\ handled \in SUBSET Int
  BY PodsInt DEF TypeOK
<1>1. RetryTypeOK'
  BY RetryTypeFollows, PTL
<1>2. CASE BeginShrink
  <2>1. pods' \in [1..actual -> Pods]
    <3>1. Listed(pods) \subseteq Pods
      BY DEF Listed, TypeOK
    <3>2. pods' \in [1..actual -> Listed(pods)]
      BY <1>2 DEF BeginShrink
    <3> QED
      BY <3>1, <3>2
  <2> QED
    BY <1>1, <1>2, <2>1, PodsInt DEF BeginShrink, TypeOK
<1>3. CASE BeginGrow \/ NothingToDo
  <2>1. pos' \in Nat /\ pc' \in {"grow", "returned"}
    BY <1>3, <1>a DEF BeginGrow, NothingToDo
  <2>2. UNCHANGED <<pods, actual, desired, handled, spent>>
    BY <1>3 DEF BeginGrow, NothingToDo
  <2> QED
    BY <1>1, <2>1, <2>2 DEF TypeOK
<1>4. CASE SkipInstance \/ AddInstance
  <2>1. handled' \in SUBSET Int /\ pos' \in Nat
    <3>1. \/ handled' = handled
          \/ handled' = handled \cup {pos}
      BY <1>4 DEF SkipInstance, AddInstance
    <3>2. pos' = pos \/ pos' = pos + 1
      BY <1>4 DEF SkipInstance, AddInstance
    <3>3. pos \in Int
      BY <1>a
    <3>4. handled' \in SUBSET Int
      BY <1>a, <3>1, <3>3
    <3> QED
      BY <1>a, <3>2, <3>4
  <2>2. pc' \in {"grow", "claim"}
    BY <1>4 DEF SkipInstance, AddInstance
  <2> QED
    BY <1>1, <1>4, <2>1, <2>2 DEF SkipInstance, AddInstance, TypeOK
<1>5. CASE WaitForClaim
  BY <1>1, <1>5 DEF WaitForClaim, TypeOK
<1>6. CASE ClaimOrNot \/ GrowDone
  <2>1. pos' \in Nat /\ pc' \in {"grow", "returned"}
    BY <1>6, <1>a DEF ClaimOrNot, GrowDone
  <2>2. UNCHANGED <<pods, actual, desired, handled, spent>>
    BY <1>6 DEF ClaimOrNot, GrowDone
  <2> QED
    BY <1>1, <2>1, <2>2 DEF TypeOK
<1>7. CASE RemoveInstance
  <2>1. pods[pos] \in Int
    <3>1. pc = "shrink" /\ pos >= 1
      BY <1>7 DEF RemoveInstance
    <3>2. pos \in 1..actual
      BY <1>a, <3>1 DEF LoopInv
    <3> QED
      BY <1>a, <3>2, PodsInt
  <2>2. handled' \in SUBSET Int /\ pos' \in Nat
    <3>1. handled' = handled \cup {pods[pos]}
      BY <1>7 DEF RemoveInstance
    <3>2. handled' \in SUBSET Int
      BY <1>a, <2>1, <3>1
    <3>3. pos >= 1 /\ pos' = pos - 1
      BY <1>7 DEF RemoveInstance
    <3> QED
      BY <1>a, <3>2, <3>3
  <2> QED
    BY <1>1, <1>7, <2>2 DEF RemoveInstance, TypeOK
<1>8. CASE IndexOutOfRange \/ ShrinkDone
  BY <1>1, <1>8 DEF IndexOutOfRange, ShrinkDone, TypeOK
<1>9. CASE Ended \/ UNCHANGED vars
  BY <1>1, <1>9 DEF Ended, vars, TypeOK
<1> QED
  BY <1>2, <1>3, <1>4, <1>5, <1>6, <1>7, <1>8, <1>9 DEF Next

LEMMA NextLoops ==
  ASSUME Inv, [Next]_vars
  PROVE  LoopInv'
<1> USE DEF Inv, loopVars
<1>a. /\ actual \in Nat /\ desired \in Int /\ pos \in Nat
      /\ pods \in [1..actual -> Pods]
  BY PodsInt DEF TypeOK
<1>1. CASE BeginShrink
  <2>1. /\ pods' \in [1..actual -> Listed(pods)] /\ Distinct(pods') /\ Ascending(pods')
        /\ desired < actual /\ pos' = actual /\ pc' = "shrink" /\ handled' = {}
        /\ UNCHANGED <<actual, desired>>
    BY <1>1 DEF BeginShrink, LoopInv
  <2>2. (actual + 1)..actual = {}
    BY <1>a
  <2>3. handled' = {pods'[i] : i \in (pos' + 1)..actual}
    BY <2>1, <2>2
  <2> QED
    BY <1>a, <2>1, <2>3 DEF LoopInv, Distinct, Ascending
<1>2. CASE BeginGrow
  <2>1. handled' = {i \in 1..(pos' - 1) : i \notin Listed(pods)}
    BY <1>2 DEF BeginGrow, LoopInv
  <2> QED
    BY <1>2, <1>a, <2>1 DEF BeginGrow, LoopInv, Distinct, Listed
<1>3. CASE SkipInstance
  <2>1. {i \in 1..((pos + 1) - 1) : i \notin Listed(pods)}
          = {i \in 1..(pos - 1) : i \notin Listed(pods)}
    BY <1>3, <1>a DEF SkipInstance
  <2>2. /\ pc = "grow" /\ pos <= desired /\ pos' = pos + 1
        /\ UNCHANGED <<pods, actual, desired, handled, pc>>
    BY <1>3 DEF SkipInstance
  <2> QED
    BY <1>a, <2>1, <2>2 DEF LoopInv, Distinct, Listed
<1>4. CASE AddInstance
  <2>1. {i \in 1..pos : i \notin Listed(pods)}
          = {i \in 1..(pos - 1) : i \notin Listed(pods)} \cup {pos}
    BY <1>4, <1>a DEF AddInstance, LoopInv
  <2>2. /\ pc = "grow" /\ pos <= desired /\ UNCHANGED <<pods, actual, desired>>
        /\ handled' = handled \cup {pos}
        /\ (pc' = "grow" /\ pos' = pos + 1) \/ (pc' = "claim" /\ pos' = pos)
    BY <1>4 DEF AddInstance
  <2>3. handled' = {i \in 1..pos : i \notin Listed(pods)} /\ (pos + 1) - 1 = pos
    BY <1>a, <2>1, <2>2 DEF LoopInv
  <2> QED
    BY <1>a, <2>2, <2>3 DEF LoopInv, Distinct, Listed
<1>5. CASE WaitForClaim
  BY <1>5 DEF WaitForClaim, LoopInv, Distinct, Listed
<1>6. CASE ClaimOrNot
  <2>1. (pos + 1) - 1 = pos
    BY <1>a
  <2>2. /\ pc = "claim" /\ pc' = "grow" /\ pos' = pos + 1
        /\ UNCHANGED <<pods, actual, desired, handled>>
    BY <1>6 DEF ClaimOrNot
  <2> QED
    BY <1>a, <2>1, <2>2 DEF LoopInv, Distinct, Listed
<1>7. CASE RemoveInstance
  <2>1. /\ pc = "shrink" /\ pos > desired /\ pos >= 1 /\ pos' = pos - 1
        /\ handled' = handled \cup {pods[pos]} /\ UNCHANGED <<pods, actual, desired, pc>>
    BY <1>7 DEF RemoveInstance
  <2>2. pos \in 1..actual /\ handled = {pods[i] : i \in (pos + 1)..actual}
    BY <1>a, <2>1 DEF LoopInv
  <2>3. ((pos - 1) + 1)..actual = ((pos + 1)..actual) \cup {pos}
    BY <1>a, <2>2
  <2>4. handled' = {pods[i] : i \in ((pos - 1) + 1)..actual}
    BY <2>1, <2>2, <2>3
  <2> QED
    BY <1>a, <2>1, <2>2, <2>4 DEF LoopInv, Distinct, Ascending
<1>8. CASE NothingToDo \/ GrowDone \/ IndexOutOfRange \/ ShrinkDone
  BY <1>8 DEF NothingToDo, GrowDone, IndexOutOfRange, ShrinkDone, LoopInv, Distinct
<1>9. CASE Ended \/ UNCHANGED vars
  BY <1>9 DEF Ended, vars, LoopInv, Distinct, Ascending, Listed
<1> QED
  BY <1>1, <1>2, <1>3, <1>4, <1>5, <1>6, <1>7, <1>8, <1>9 DEF Next

LEMMA NextTimes ==
  ASSUME Inv, [Next]_vars
  PROVE  TimeInv'
<1> USE DEF Inv, loopVars
<1> DEFINE n == Cardinality(handled)
<1>a. /\ n \in Nat /\ IsFiniteSet(handled) /\ spent \in Nat /\ elapsed \in Nat
      /\ spent <= n * Limit
      /\ Limit \in Nat /\ n * Limit \in Nat
  <2>1. n \in Nat /\ IsFiniteSet(handled)
    BY FS_CardinalityType DEF TimeInv
  <2>2. n * Limit \in Nat
    BY <2>1, LimitType, Times
  <2> QED
    BY <2>1, <2>2, LimitType DEF TimeInv, TypeOK, RetryTypeOK
<1>1. ASSUME UNCHANGED retryVars, pc # "claim", pc' # "claim", UNCHANGED spent,
             handled' = handled \/ \E x : handled' = handled \cup {x}
      PROVE  TimeInv'
  <2>1. RetryInv' /\ rpc' = "idle"
    BY <1>1 DEF TimeInv, retryVars, RetryInv, RetryTypeOK, Ticked, Paces
  <2>2. IsFiniteSet(handled') /\ Cardinality(handled') \in {n, n + 1}
    BY <1>1, <1>a, FS_AddElement
  <2>3. (n + 1) * Limit = n * Limit + Limit
    BY <1>a, Times
  <2>4. spent <= Cardinality(handled') * Limit
    <3>1. CASE Cardinality(handled') = n
      BY <1>a, <3>1
    <3>2. CASE Cardinality(handled') = n + 1
      <4> DEFINE product == n * Limit
      <4>1. product \in Nat /\ spent <= product
        BY <1>a
      <4> HIDE DEF product
      <4>2. spent <= product + Limit
        BY <1>a, <4>1
      <4> QED
        BY <2>3, <3>2, <4>2 DEF product
    <3> QED
      BY <2>2, <3>1, <3>2
  <2> QED
    BY <1>1, <2>1, <2>2, <2>4 DEF TimeInv
<1>2. CASE AddInstance /\ pc' = "claim"
  <2>1. Start /\ handled' = handled \cup {pos} /\ UNCHANGED spent
    BY <1>2 DEF AddInstance
  <2>2. RetryInv' /\ elapsed' = 0
    BY <2>1, StartInv DEF TimeInv
  <2>3. pos \notin handled
    BY <1>2, PodsInt DEF AddInstance, LoopInv, TypeOK
  <2>4. IsFiniteSet(handled') /\ Cardinality(handled') = n + 1
    BY <1>a, <2>1, <2>3, FS_AddElement
  <2>5. (n + 1) * Limit = n * Limit + Limit
    BY <1>a, Times
  <2> DEFINE product == n * Limit
             more    == (n + 1) * Limit
  <2>6. product \in Nat /\ spent <= product /\ more = product + Limit
    BY <1>a, <2>5
  <2> HIDE DEF product, more
  <2>7. spent <= more /\ spent + (Limit - 0) <= more
    BY <1>a, <2>6
  <2> QED
    BY <1>2, <2>1, <2>2, <2>4, <2>7 DEF TimeInv, more
<1>3. CASE AddInstance /\ pc' # "claim"
  BY <1>1, <1>3 DEF AddInstance
<1>4. CASE WaitForClaim
  <2>1. /\ RetryInv'
        /\ \/ elapsed' = elapsed /\ spent' = spent
           \/ elapsed' = elapsed + 1 /\ spent' = spent + 1
    BY <1>4, PassInv, CallReturnsInv, NextTickInv DEF WaitForClaim, TimeInv
  <2>2. elapsed' <= Limit
    <3>1. (RetryInv => elapsed <= Limit)'
      BY WithinLimit, PTL
    <3>2. Limit' = Limit
      BY DEF Limit, Longer
    <3> QED
      BY <2>1, <3>1, <3>2
  <2>3. pc = "claim" /\ pc' = "claim" /\ handled' = handled
    BY <1>4 DEF WaitForClaim
  <2> DEFINE product == n * Limit
  <2>4. spent + (Limit - elapsed) <= product /\ product \in Nat
    BY <1>a, <2>3 DEF TimeInv
  <2> HIDE DEF product
  <2>5. spent' + (Limit - elapsed') <= product
    BY <1>a, <2>1, <2>4
  <2>6. spent' <= product
    BY <1>a, <2>1, <2>2, <2>4, <2>5
  <2> QED
    BY <2>1, <2>3, <2>5, <2>6, <1>a DEF TimeInv, product
<1>5. CASE ClaimOrNot
  BY <1>5 DEF ClaimOrNot, TimeInv, retryVars, RetryInv, RetryTypeOK, Ticked, Paces
<1>6. CASE BeginShrink \/ BeginGrow \/ NothingToDo \/ SkipInstance \/ GrowDone
           \/ RemoveInstance \/ IndexOutOfRange \/ ShrinkDone
  <2>1. UNCHANGED retryVars /\ pc # "claim" /\ pc' # "claim" /\ UNCHANGED spent
    BY <1>6 DEF BeginShrink, BeginGrow, NothingToDo, SkipInstance, GrowDone,
       RemoveInstance, IndexOutOfRange, ShrinkDone
  <2>2. handled' = handled \/ handled' = handled \cup {pods[pos]}
    BY <1>6 DEF BeginShrink, BeginGrow, NothingToDo, SkipInstance, GrowDone,
       RemoveInstance, IndexOutOfRange, ShrinkDone
  <2> QED
    BY <1>1, <2>1, <2>2
<1>7. CASE Ended \/ UNCHANGED vars
  <2>1. UNCHANGED <<retryVars, pc, handled, spent>>
    BY <1>7 DEF Ended, vars
  <2> QED
    BY <2>1 DEF TimeInv, retryVars, RetryInv, RetryTypeOK, Ticked, Paces
<1> QED
  BY <1>2, <1>3, <1>4, <1>5, <1>6, <1>7 DEF Next

LEMMA InvHolds == Spec => []Inv
<1>1. Inv /\ [Next]_vars => Inv'
  <2> SUFFICES ASSUME Inv, [Next]_vars PROVE Inv'
    OBVIOUS
  <2>1. TimeInv' /\ RetryInv'
    BY NextTimes DEF TimeInv
  <2> QED
    BY <2>1, NextTyped, NextLoops DEF Inv
<1> QED
  BY <1>1, InitInv, PTL DEF Spec

-----------------------------------------------------------------------------
(* The plan.                                                               *)

\* The pods behind the dth.
Behind(slice, d) == {slice[i] : i \in {k \in DOMAIN slice : k > d}}

LEMMA BehindSize ==
  ASSUME NEW slice, NEW n \in Nat, DOMAIN slice = 1..n, Distinct(slice),
         NEW d \in Int, d <= n
  PROVE  Cardinality(Behind(slice, d)) = n - (IF d < 0 THEN 0 ELSE d)
<1>1. PICK low \in Nat : low = IF d < 0 THEN 0 ELSE d
  OBVIOUS
<1> DEFINE I == (low + 1)..n
           f == [i \in I |-> slice[i]]
<1>2. IsFiniteSet(I) /\ Cardinality(I) = n - low
  <2>1. low + 1 \in Int /\ n \in Int /\ low <= n
    BY <1>1
  <2>2. /\ IsFiniteSet((low + 1)..n)
        /\ Cardinality((low + 1)..n) = IF low + 1 > n THEN 0 ELSE n - (low + 1) + 1
    BY <2>1, FS_Interval
  <2> QED
    BY <2>1, <2>2
<1>3. I = {k \in DOMAIN slice : k > d}
  BY <1>1
<1> HIDE DEF I
<1>4. f \in Surjection(I, Behind(slice, d))
  BY <1>3 DEF Surjection, Behind
<1>5. f \in Injection(I, Behind(slice, d))
  BY <1>3, <1>4 DEF Injection, Surjection, IsInjective, Distinct
<1> HIDE DEF f
<1>6. Cardinality(Behind(slice, d)) = Cardinality(I)
  BY <1>2, <1>4, <1>5, FS_Surjection
<1> QED
  BY <1>1, <1>2, <1>6

LEMMA ListedSize ==
  ASSUME NEW slice, NEW n \in Nat, DOMAIN slice = 1..n, Distinct(slice)
  PROVE  Cardinality(Listed(slice)) = n
<1>1. PICK none \in Int : none = 0
  OBVIOUS
<1>2. Listed(slice) = Behind(slice, none)
  BY <1>1 DEF Listed, Behind
<1>3. none <= n
  BY <1>1
<1>4. Cardinality(Behind(slice, none)) = n - (IF none < 0 THEN 0 ELSE none)
  BY <1>3, BehindSize
<1> QED
  BY <1>1, <1>2, <1>4

\* Once the slice is sorted, what is behind the desired number is a plan.
LEMMA BehindIsPlan ==
  ASSUME NEW slice, NEW n \in Nat, DOMAIN slice = 1..n, Ascending(slice), NEW d \in Int
  PROVE  /\ Behind(slice, d) \in SUBSET Listed(slice)
         /\ \A p \in Behind(slice, d), q \in Listed(slice) \ Behind(slice, d) :
              Ordinal(q) <= Ordinal(p)
<1>1. Behind(slice, d) \in SUBSET Listed(slice)
  BY DEF Behind, Listed
<1>2. ASSUME NEW p \in Behind(slice, d), NEW q \in Listed(slice) \ Behind(slice, d)
      PROVE  Ordinal(q) <= Ordinal(p)
  <2>1. PICK i \in 1..n : p = slice[i] /\ i > d
    BY DEF Behind
  <2>2. PICK j \in 1..n : q = slice[j]
    BY DEF Listed
  <2>3. ~(j > d)
    BY <2>2 DEF Behind
  <2> QED
    BY <2>1, <2>2, <2>3 DEF Ascending
<1> QED
  BY <1>1, <1>2

LEMMA SameOperators ==
  /\ \A S : Resizing!Cardinality(S) = Cardinality(S)
  /\ \A S, d : Resizing!Missing(S, d) = Missing(S, d)
  BY DEF Resizing!Cardinality, Cardinality, Resizing!Missing, Missing

LEMMA StepsRefine ==
  ASSUME Inv, [Next]_vars
  PROVE  [Resizing!Next]_(Resizing!vars)
<1> USE DEF Inv, loopVars
<1>a. /\ actual \in Nat /\ desired \in Int /\ pos \in Nat
      /\ pods \in [1..actual -> Pods]
  BY PodsInt DEF TypeOK
<1>b. Cardinality(Listed(pods)) = actual
  BY <1>a, ListedSize DEF LoopInv
<1>c. ASSUME UNCHANGED <<pods, actual, desired>>
      PROVE  Listed(pods)' = Listed(pods)
  BY <1>c DEF Listed
<1>d. ASSUME UNCHANGED <<pods, actual, desired>>, pc # "begin", pc' # "begin"
      PROVE  Plan' = Plan
  BY <1>c, <1>d DEF Plan, Missing
<1>1. CASE BeginShrink
  <2>1. /\ pc = "begin" /\ pc' = "shrink" /\ UNCHANGED <<actual, desired, handled>>
        /\ desired < actual
        /\ pods' \in [1..actual -> Listed(pods)]
        /\ Distinct(pods') /\ Listed(pods') = Listed(pods) /\ Ascending(pods')
    BY <1>1 DEF BeginShrink
  <2>2. PICK slice : slice = pods'
    OBVIOUS
  <2>3. /\ DOMAIN slice = 1..actual /\ Distinct(slice) /\ Ascending(slice)
        /\ Listed(slice) = Listed(pods)
    BY <2>1, <2>2
  <2>4. Plan' = Behind(slice, desired)
    BY <1>a, <2>1, <2>2, <2>3 DEF Plan, Behind
  <2>5. Cardinality(Behind(slice, desired)) = actual - (IF desired < 0 THEN 0 ELSE desired)
    <3>1. actual \in Nat /\ desired \in Int /\ desired <= actual
      BY <1>a, <2>1
    <3> QED
      BY <2>3, <3>1, BehindSize
  <2>6. /\ Behind(slice, desired) \in SUBSET Listed(slice)
        /\ \A p \in Behind(slice, desired), q \in Listed(slice) \ Behind(slice, desired) :
             Ordinal(q) <= Ordinal(p)
    BY <1>a, <2>3, BehindIsPlan
  <2>7. Plan' \in Resizing!Plans
    BY <1>a, <1>b, <2>1, <2>3, <2>4, <2>5, <2>6, SameOperators
    DEF Resizing!Plans, Resizing!Lowest
  <2>8. Listed(pods)' = Listed(pods)
    BY <2>1 DEF Listed
  <2>9. Resizing!Decide
    BY <1>a, <1>b, <2>1, <2>7, <2>8, SameOperators DEF Resizing!Decide
  <2> QED
    BY <2>9 DEF Resizing!Next
<1>2. CASE BeginGrow
  <2>1. /\ pc = "begin" /\ pc' = "grow" /\ actual < desired
        /\ UNCHANGED <<pods, actual, desired, handled>>
    BY <1>2 DEF BeginGrow
  <2>2. Listed(pods)' = Listed(pods)
    BY <1>c, <2>1
  <2>3. Plan' = Missing(Listed(pods), desired)
    BY <2>1, <2>2 DEF Plan, Missing
  <2>4. Plan' \in Resizing!Plans
    BY <1>b, <2>1, <2>3, SameOperators DEF Resizing!Plans
  <2>5. Resizing!Decide
    BY <1>a, <1>b, <2>1, <2>2, <2>4, SameOperators DEF Resizing!Decide
  <2> QED
    BY <2>5 DEF Resizing!Next
<1>3. CASE NothingToDo
  <2>1. /\ pc = "begin" /\ pc' = "returned" /\ actual = desired
        /\ UNCHANGED <<pods, actual, desired, handled>>
    BY <1>3 DEF NothingToDo
  <2>2. Plan = {} /\ Plan' = {}
    <3>1. {k \in 1..actual : k > desired} = {}
      BY <1>a, <2>1
    <3> QED
      BY <1>a, <2>1, <3>1 DEF Plan
  <2>3. Resizing!Nothing
    BY <1>b, <1>c, <2>1, <2>2, SameOperators DEF Resizing!Nothing
  <2> QED
    BY <2>3 DEF Resizing!Next
<1>4. ASSUME SkipInstance \/ WaitForClaim \/ ClaimOrNot \/ Ended \/ UNCHANGED vars
      PROVE  UNCHANGED Resizing!vars
  <2>1. UNCHANGED <<pods, actual, desired, handled>>
    BY <1>4 DEF SkipInstance, WaitForClaim, ClaimOrNot, Ended, vars
  <2>2. \/ UNCHANGED pc
        \/ pc = "claim" /\ pc' = "grow"
    BY <1>4 DEF SkipInstance, WaitForClaim, ClaimOrNot, Ended, vars
  <2>3. Plan' = Plan
    BY <1>c, <2>1, <2>2 DEF Plan, Missing
  <2> QED
    BY <1>c, <2>1, <2>2, <2>3 DEF Resizing!vars
<1>5. CASE AddInstance
  <2>1. /\ pc = "grow" /\ pc' \in {"grow", "claim"} /\ pos <= desired
        /\ pos \notin Listed(pods) /\ handled' = handled \cup {pos}
        /\ UNCHANGED <<pods, actual, desired>>
    BY <1>5 DEF AddInstance
  <2>2. Plan = Missing(Listed(pods), desired) /\ Plan' = Plan
    BY <1>d, <2>1 DEF Plan, LoopInv
  <2>3. pos \in Plan \ handled
    BY <1>a, <2>1, <2>2 DEF LoopInv, Missing
  <2>4. Resizing!Handle
    BY <1>c, <2>1, <2>2, <2>3 DEF Resizing!Handle
  <2> QED
    BY <2>4 DEF Resizing!Next
<1>6. CASE RemoveInstance
  <2>1. /\ pc = "shrink" /\ pc' = "shrink" /\ pos > desired /\ pos >= 1
        /\ handled' = handled \cup {pods[pos]}
        /\ UNCHANGED <<pods, actual, desired>>
    BY <1>6 DEF RemoveInstance
  <2>2. /\ Plan = {pods[i] : i \in {k \in 1..actual : k > desired}} /\ Plan' = Plan
        /\ pos \in 1..actual /\ handled = {pods[i] : i \in (pos + 1)..actual}
    BY <1>a, <1>d, <2>1 DEF Plan, LoopInv
  <2>3. pods[pos] \in Plan
    BY <1>a, <2>1, <2>2
  <2>4. pods[pos] \notin handled
    BY <1>a, <2>2 DEF LoopInv, Distinct
  <2>5. Resizing!Handle
    BY <1>c, <2>1, <2>2, <2>3, <2>4 DEF Resizing!Handle
  <2> QED
    BY <2>5 DEF Resizing!Next
<1>7. CASE GrowDone
  <2>1. /\ pc = "grow" /\ pc' = "returned" /\ pos > desired
        /\ UNCHANGED <<pods, actual, desired, handled>>
    BY <1>7 DEF GrowDone
  <2>2. Plan = Missing(Listed(pods), desired) /\ Plan' = Plan /\ desired >= 0
    BY <1>a, <1>d, <2>1 DEF Plan, LoopInv
  <2>3. pos - 1 = desired
    BY <1>a, <2>1 DEF LoopInv
  <2>4. handled = Plan
    BY <2>1, <2>2, <2>3 DEF LoopInv, Missing
  <2>5. Resizing!End
    BY <1>a, <1>c, <2>1, <2>2, <2>4 DEF Resizing!End
  <2> QED
    BY <2>5 DEF Resizing!Next
<1>8. CASE IndexOutOfRange \/ ShrinkDone
  <2>1. /\ pc = "shrink"
        /\ \/ pc' = "panic" /\ pos > desired /\ pos < 1
           \/ pc' = "returned" /\ pos <= desired
        /\ UNCHANGED <<pods, actual, desired, handled>>
    BY <1>8 DEF IndexOutOfRange, ShrinkDone
  <2>2. /\ Plan = {pods[i] : i \in {k \in 1..actual : k > desired}} /\ Plan' = Plan
        /\ handled = {pods[i] : i \in (pos + 1)..actual}
    BY <1>a, <1>d, <2>1 DEF Plan, LoopInv
  <2>3. {k \in 1..actual : k > desired} = (pos + 1)..actual
    BY <1>a, <2>1 DEF LoopInv
  <2>4. handled = Plan
    BY <2>2, <2>3
  <2>5. pc' = "panic" <=> desired < 0
    BY <1>a, <2>1 DEF LoopInv
  <2>6. Resizing!End
    BY <1>c, <2>1, <2>2, <2>4, <2>5 DEF Resizing!End
  <2> QED
    BY <2>6 DEF Resizing!Next
<1> QED
  BY <1>1, <1>2, <1>3, <1>4, <1>5, <1>6, <1>7, <1>8 DEF Next

-----------------------------------------------------------------------------
(* The theorems.                                                           *)

\* The variables stay in their types: the ticker is never overdue.
THEOREM TypeCorrect == Spec => []TypeOK
<1>1. Inv => TypeOK
  BY DEF Inv
<1> QED
  BY <1>1, InvHolds, PTL

\* Calls are made at the pace that the comment on Retry describes.
THEOREM Paced == Spec => []PacedCalls
<1>1. Inv => PacedCalls
  BY DEF Inv, TimeInv, RetryInv, Paces, PacedCalls
<1> QED
  BY <1>1, InvHolds, PTL

\* The worker comes back within a time that the missing instances account for.
THEOREM Bounded == Spec => []BoundedBlocking
<1>1. Inv => BoundedBlocking
  BY DEF Inv, TimeInv, BoundedBlocking
<1> QED
  BY <1>1, InvHolds, PTL

\* Each instance that is missing or superfluous is handled once, and no other.
THEOREM ResizingImplemented == Spec => ImplementsResizing
<1>1. Init => Resizing!Init
  <2> SUFFICES ASSUME Init PROVE Resizing!Init
    OBVIOUS
  <2>1. pc = "begin" /\ handled = {}
    BY DEF Init
  <2>2. actual \in Nat /\ desired \in Int
    <3>1. TypeOK
      BY InitInv DEF Inv
    <3> QED
      BY <3>1, PodsInt DEF TypeOK
  <2>3. Plan = {}
    BY <2>1, <2>2 DEF Plan
  <2> QED
    BY <2>1, <2>3 DEF Resizing!Init
<1>2. Inv /\ [Next]_vars => [Resizing!Next]_(Resizing!vars)
  BY StepsRefine
<1> QED
  BY <1>1, <1>2, InvHolds, PTL DEF Spec, ImplementsResizing, Resizing!Spec

-----------------------------------------------------------------------------
(* The sets of module Ordinals.                                            *)

LEMMA ListedFinite ==
  ASSUME NEW slice, NEW n \in Nat, DOMAIN slice = 1..n
  PROVE  IsFiniteSet(Listed(slice))
<1> DEFINE f == [i \in 1..n |-> slice[i]]
<1>1. IsFiniteSet(1..n)
  BY FS_Interval
<1>2. f \in Surjection(1..n, Listed(slice))
  BY DEF Surjection, Listed
<1> HIDE DEF f
<1> QED
  BY <1>1, <1>2, FS_Surjection

LEMMA OwnOrdinals ==
  ASSUME NEW S, S \subseteq Instances
  PROVE  \A p \in S : p \in Int /\ Ordinal(p) = p
<1> TAKE p \in S
<1>1. p \in Nat /\ p \notin Strays
  BY ResizeAssumption
<1> QED
  BY <1>1 DEF Ordinal

\* A sorted slice of the operator's own pods ends in the surplus.
LEMMA BehindIsSurplus ==
  ASSUME NEW slice, NEW n \in Nat, DOMAIN slice = 1..n, Distinct(slice), Ascending(slice),
         NEW d \in Nat, d <= n, Listed(slice) \subseteq Instances
  PROVE  Behind(slice, d) = Surplus(Listed(slice), d)
<1>1. /\ Behind(slice, d) \in SUBSET Listed(slice)
      /\ \A p \in Behind(slice, d), q \in Listed(slice) \ Behind(slice, d) :
           Ordinal(q) <= Ordinal(p)
  BY BehindIsPlan
<1>2. \A p \in Listed(slice) : p \in Int /\ Ordinal(p) = p
  BY OwnOrdinals
<1>3. Cardinality(Behind(slice, d)) = n - d
  BY BehindSize
<1>4. Cardinality(Listed(slice)) = n
  BY ListedSize
<1>5. IsFiniteSet(Listed(slice))
  BY ListedFinite
<1>6. \A p \in Behind(slice, d), q \in Listed(slice) \ Behind(slice, d) : q <= p
  BY <1>1, <1>2
<1> QED
  BY <1>1, <1>2, <1>3, <1>4, <1>5, <1>6, SurplusUnique

LEMMA NextMatches ==
  ASSUME Inv, MatchesOrdinals, [Next]_vars
  PROVE  MatchesOrdinals'
<1> USE DEF Inv, loopVars
<1>a. /\ actual \in Nat /\ desired \in Int /\ pos \in Nat
      /\ pods \in [1..actual -> Pods]
      /\ Distinct(pods)
  BY PodsInt DEF TypeOK, LoopInv
<1>1. CASE pc' # "returned"
  BY <1>1 DEF MatchesOrdinals
<1>2. CASE UNCHANGED <<pc, pods, actual, desired, handled>>
  BY <1>2 DEF MatchesOrdinals, Listed, Missing, Surplus
<1>3. CASE NothingToDo
  <2>1. /\ actual = desired /\ handled' = {} /\ UNCHANGED <<pods, actual, desired>>
    BY <1>3 DEF NothingToDo, LoopInv
  <2>2. ASSUME Listed(pods) \subseteq Instances PROVE Surplus(Listed(pods), desired) = {}
    <3>1. Cardinality(Listed(pods)) = actual
      BY <1>a, ListedSize
    <3>2. IsFiniteSet(Listed(pods))
      BY <1>a, ListedFinite
    <3>3. \A p \in Listed(pods) : p \in Int
      BY <2>2, OwnOrdinals
    <3> QED
      BY <1>a, <2>1, <3>1, <3>2, <3>3, SurplusEmpty
  <2>3. /\ ~(actual' < desired') /\ Listed(pods)' = Listed(pods)
        /\ Surplus(Listed(pods), desired)' = Surplus(Listed(pods), desired)
    BY <1>a, <2>1 DEF Listed, Surplus
  <2> QED
    BY <2>1, <2>2, <2>3 DEF MatchesOrdinals
<1>4. CASE GrowDone
  <2>1. /\ pc = "grow" /\ pos > desired /\ UNCHANGED <<pods, actual, desired, handled>>
    BY <1>4 DEF GrowDone
  <2>2. /\ actual < desired /\ pos - 1 = desired
        /\ handled = {i \in 1..(pos - 1) : i \notin Listed(pods)}
    BY <1>a, <2>1 DEF LoopInv
  <2>3. handled = Missing(Listed(pods), desired)
    BY <2>2 DEF Missing
  <2> QED
    BY <2>1, <2>2, <2>3 DEF MatchesOrdinals, Listed, Missing
<1>5. CASE ShrinkDone
  <2>1. /\ pc = "shrink" /\ pos <= desired /\ UNCHANGED <<pods, actual, desired, handled>>
    BY <1>5 DEF ShrinkDone
  <2>2. /\ desired < actual /\ Ascending(pods) /\ pos = desired
        /\ handled = {pods[i] : i \in (pos + 1)..actual}
    BY <1>a, <2>1 DEF LoopInv
  <2>3. handled = Behind(pods, desired)
    <3>1. {k \in DOMAIN pods : k > desired} = (pos + 1)..actual
      BY <1>a, <2>2
    <3> QED
      BY <2>2, <3>1 DEF Behind
  <2>4. Listed(pods) \subseteq Instances => handled = Surplus(Listed(pods), desired)
    BY <1>a, <2>2, <2>3, BehindIsSurplus
  <2>5. /\ ~(actual' < desired') /\ handled' = handled /\ Listed(pods)' = Listed(pods)
        /\ Surplus(Listed(pods), desired)' = Surplus(Listed(pods), desired)
    BY <1>a, <2>1, <2>2 DEF Listed, Surplus
  <2> QED
    BY <2>4, <2>5 DEF MatchesOrdinals
<1>6. CASE BeginShrink \/ BeginGrow \/ SkipInstance \/ AddInstance \/ WaitForClaim
           \/ ClaimOrNot \/ RemoveInstance \/ IndexOutOfRange
  <2>1. pc' # "returned"
    BY <1>6 DEF BeginShrink, BeginGrow, SkipInstance, AddInstance, WaitForClaim,
                ClaimOrNot, RemoveInstance, IndexOutOfRange
  <2> QED
    BY <1>1, <2>1
<1>7. CASE Ended \/ UNCHANGED vars
  BY <1>2, <1>7 DEF Ended, vars
<1> QED
  BY <1>3, <1>4, <1>5, <1>6, <1>7 DEF Next

\* For own pods, listed in any order, and any number of replicas, a call that
\* returns has handled the missing or the surplus ordinals, no more and no less:
\* what modules Sync and Replication take for granted.
THEOREM OrdinalsMatched == Spec => []MatchesOrdinals
<1>1. Init => MatchesOrdinals
  BY DEF Init, MatchesOrdinals
<1>2. Inv /\ MatchesOrdinals /\ [Next]_vars => MatchesOrdinals'
  BY NextMatches
<1> QED
  BY <1>1, <1>2, InvHolds, PTL DEF Spec

=============================================================================
