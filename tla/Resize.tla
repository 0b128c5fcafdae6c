------------------------------- MODULE Resize -------------------------------
(***************************************************************************)
(* One call of resizeDeployment (pkg/operator/sync.go): the loops that     *)
(* modules Sync and Replication know as sets, with the volumes that they   *)
(* wait for (CreateAndWaitPVC, pkg/k8s/storage.go, and module Retry).      *)
(*                                                                         *)
(* The pods come from the informer's index, in any order.  They are those  *)
(* that have the labels of the runmode, and so perhaps some that somebody  *)
(* else has made: a stray pod.  What becomes of an instance that is added  *)
(* or removed is told by module Instance; resizeDeployment does not look.  *)
(***************************************************************************)
EXTENDS Retry, Ordinals

CONSTANTS
  MaxPods,        \* how many pods are listed at most: bounds the behaviours
  Instances,      \* the numbers of the pods that the operator has made
  Strays,         \* other pods with these labels, numbers below zero
  StrayOrdinal,   \* getOrdinal of each of them: -1 if the name does not end in one
  Replicas        \* the numbers of replicas a specification may ask for

ASSUME ResizeAssumption ==
  /\ MaxPods \in Nat
  /\ Instances \subseteq Nat \ {0}
  /\ Strays \subseteq Int \ Nat
  /\ StrayOrdinal \in [Strays -> Int]
  /\ Replicas \subseteq Int

Pods == Instances \cup Strays

\* getOrdinal
Ordinal(p) == IF p \in Strays THEN StrayOrdinal[p] ELSE p

VARIABLES
  pods,           \* the slice
  actual,         \* its length
  desired,        \* the number of replicas
  pc,             \* where resizeDeployment is
  pos,            \* i of the grow loop, last + 1 of the shrink loop
  handled,        \* the names it has called addInstance with, or removeInstance
  spent           \* the time it has taken

loopVars == <<pods, actual, desired, pos, handled>>
vars     == <<retryVars, loopVars, pc, spent>>

Listed(slice) == {slice[i] : i \in DOMAIN slice}

Distinct(slice) == \A i, j \in DOMAIN slice : slice[i] = slice[j] => i = j

TypeOK ==
  /\ RetryTypeOK
  /\ actual \in 0..MaxPods
  /\ pods \in [1..actual -> Pods]
  /\ desired \in Replicas
  /\ pc \in {"begin", "grow", "claim", "shrink", "returned", "panic"}
  /\ pos \in Nat
  /\ handled \in SUBSET Int
  /\ spent \in Nat

Init ==
  /\ RetryInit
  /\ actual \in 0..MaxPods
  /\ pods \in {slice \in [1..actual -> Pods] : Distinct(slice)}
  /\ desired \in Replicas
  /\ pc = "begin"
  /\ pos = 0
  /\ handled = {}
  /\ spent = 0

-----------------------------------------------------------------------------

\* A mutant: pods that are not the operator's own are left out of the order.
AscendingInstances(slice) ==
  \A i, j \in DOMAIN slice :
    i < j /\ slice[i] \notin Strays /\ slice[j] \notin Strays => slice[i] <= slice[j]

\* A mutant: the comparison is the wrong way round.
AscendingReversed(slice) ==
  \A i, j \in DOMAIN slice : i < j => Ordinal(slice[i]) >= Ordinal(slice[j])

\* ascendingOrdinal
Ascending(slice) ==
  \A i, j \in DOMAIN slice : i < j => Ordinal(slice[i]) <= Ordinal(slice[j])

\* sort.Sort is not stable: pods with the same ordinal come in any order.
BeginShrink ==
  /\ pc = "begin"
  /\ desired < actual
  /\ pods' \in {slice \in [1..actual -> Listed(pods)] :
                  Distinct(slice) /\ Listed(slice) = Listed(pods) /\ Ascending(slice)}
  /\ pos' = actual
  /\ pc' = "shrink"
  /\ UNCHANGED <<retryVars, actual, desired, handled, spent>>

BeginGrow ==
  /\ pc = "begin"
  /\ actual < desired
  /\ pos' = 1
  /\ pc' = "grow"
  /\ UNCHANGED <<retryVars, pods, actual, desired, handled, spent>>

NothingToDo ==
  /\ pc = "begin"
  /\ actual = desired
  /\ pc' = "returned"
  /\ UNCHANGED <<retryVars, loopVars, spent>>

-----------------------------------------------------------------------------
(* The grow loop.                                                          *)

\* isInSlice
SkipInstance ==
  /\ pc = "grow"
  /\ pos <= desired
  /\ pos \in Listed(pods)
  /\ pos' = pos + 1
  /\ UNCHANGED <<retryVars, pods, actual, desired, handled, pc, spent>>

\* Unless the claim cannot be created, addInstance waits for it.
AddInstance ==
  /\ pc = "grow"
  /\ pos <= desired
  /\ pos \notin Listed(pods)
  /\ handled' = handled \cup {pos}
  /\ \/ pos' = pos + 1 /\ UNCHANGED <<retryVars, pc>>
     \/ Start /\ pc' = "claim" /\ UNCHANGED pos
  /\ UNCHANGED <<pods, actual, desired, spent>>

WaitForClaim ==
  /\ pc = "claim"
  /\ \/ Pass /\ spent' = spent + 1
     \/ (CallReturns \/ NextTick) /\ UNCHANGED spent
  /\ UNCHANGED <<loopVars, pc>>

\* Whatever Retry has returned, and the rest of addInstance after it, the loop
\* goes on.
ClaimOrNot ==
  /\ pc = "claim"
  /\ rpc = "idle"
  /\ pos' = pos + 1
  /\ pc' = "grow"
  /\ UNCHANGED <<retryVars, pods, actual, desired, handled, spent>>

GrowDone ==
  /\ pc = "grow"
  /\ pos > desired
  /\ pc' = "returned"
  /\ UNCHANGED <<retryVars, loopVars, spent>>

-----------------------------------------------------------------------------
(* The shrink loop: removed is actual - pos, and total actual - desired.   *)

\* A mutant: the loop makes one round more.
RemoveOneMore ==
  /\ pc = "shrink"
  /\ pos >= desired
  /\ pos >= 1
  /\ handled' = handled \cup {pods[pos]}
  /\ pos' = pos - 1
  /\ UNCHANGED <<retryVars, pods, actual, desired, pc, spent>>

RemoveInstance ==
  /\ pc = "shrink"
  /\ pos > desired
  /\ pos >= 1
  /\ handled' = handled \cup {pods[pos]}
  /\ pos' = pos - 1
  /\ UNCHANGED <<retryVars, pods, actual, desired, pc, spent>>

\* pods[-1]
IndexOutOfRange ==
  /\ pc = "shrink"
  /\ pos > desired
  /\ pos < 1
  /\ pc' = "panic"
  /\ UNCHANGED <<retryVars, loopVars, spent>>

ShrinkDone ==
  /\ pc = "shrink"
  /\ pos <= desired
  /\ pc' = "returned"
  /\ UNCHANGED <<retryVars, loopVars, spent>>

\* The call is over.  There is no other state without a next one.
Ended == pc \in {"returned", "panic"} /\ UNCHANGED vars

Next ==
  \/ BeginShrink \/ BeginGrow \/ NothingToDo
  \/ SkipInstance \/ AddInstance \/ WaitForClaim \/ ClaimOrNot \/ GrowDone
  \/ RemoveInstance \/ IndexOutOfRange \/ ShrinkDone
  \/ Ended

Spec == Init /\ [][Next]_vars

-----------------------------------------------------------------------------
(* Properties.                                                             *)

\* resizeDeployment keeps the worker, and with it every other deployment, no
\* longer than the missing volumes of its own instances account for.
BoundedBlocking == spent <= Cardinality(handled) * Limit

\* The plan that the loops follow, and never write down.
Plan == IF pc = "begin" THEN {}
        ELSE IF actual < desired THEN Missing(Listed(pods), desired)
        ELSE {pods[i] : i \in {k \in 1..actual : k > desired}}

Resizing == INSTANCE Resizing
  WITH have  <- Listed(pods),
       plan  <- Plan,
       state <- CASE pc = "begin"    -> "deciding"
                  [] pc = "returned" -> "returned"
                  [] pc = "panic"    -> "panicked"
                  [] OTHER           -> "acting"

\* The loops do what module Resizing promises: whatever the order of the pods,
\* whatever pods have been deleted by hand or put there by others, and whichever
\* instances could not be added, each instance that is to be added or removed is
\* tried once and no other one is touched.
ImplementsResizing == Resizing!Spec

\* Where the operator has made all the pods, the loops handle exactly the sets by
\* which modules Sync and Replication know them, whatever order the pods come in.
MatchesOrdinals ==
  pc = "returned" /\ Listed(pods) \subseteq Instances =>
    handled = IF actual < desired THEN Missing(Listed(pods), desired)
                                  ELSE Surplus(Listed(pods), desired)

=============================================================================
