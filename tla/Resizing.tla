------------------------------ MODULE Resizing ------------------------------
(***************************************************************************)
(* What resizeDeployment promises to the rest of sync, whatever order the  *)
(* pods are listed in and whatever becomes of the instances it adds: it    *)
(* goes once through a plan.  If there are too few pods, the plan is every *)
(* name of an instance that no pod has.  If there are too many, it is as   *)
(* many of the pods as there are too many, and none of those that stay has *)
(* a greater ordinal.                                                      *)
(*                                                                         *)
(* A negative number of replicas is not refused: everything is removed,    *)
(* and then the operator panics.                                           *)
(***************************************************************************)
EXTENDS Ordinals

CONSTANT Ordinal(_)   \* the number at the end of a pod's name, or -1

VARIABLES have,       \* the pods that sync has listed for the runmode
          desired,    \* the number of replicas of the specification
          plan,       \* what is to be added or removed
          handled,    \* what has been
          state       \* "deciding", "acting", "returned" or "panicked"

vars == <<have, desired, plan, handled, state>>

Lowest(n) == IF n < 0 THEN 0 ELSE n

Plans ==
  IF Cardinality(have) < desired
    THEN {Missing(have, desired)}
    ELSE {gone \in SUBSET have :
            /\ Cardinality(gone) = Cardinality(have) - Lowest(desired)
            /\ \A p \in gone, q \in have \ gone : Ordinal(q) <= Ordinal(p)}

Init ==
  /\ plan = {}
  /\ handled = {}
  /\ state = "deciding"

Nothing ==
  /\ state = "deciding"
  /\ Cardinality(have) = desired
  /\ state' = "returned"
  /\ UNCHANGED <<have, desired, plan, handled>>

Decide ==
  /\ state = "deciding"
  /\ Cardinality(have) # desired
  /\ state' = "acting"
  /\ plan' \in Plans
  /\ UNCHANGED <<have, desired, handled>>

Handle ==
  /\ state = "acting"
  /\ \E x \in plan \ handled : handled' = handled \cup {x}
  /\ UNCHANGED <<have, desired, plan, state>>

End ==
  /\ state = "acting"
  /\ handled = plan
  /\ state' = IF desired < 0 THEN "panicked" ELSE "returned"
  /\ UNCHANGED <<have, desired, plan, handled>>

Next == Nothing \/ Decide \/ Handle \/ End

Spec == Init /\ [][Next]_vars

=============================================================================
