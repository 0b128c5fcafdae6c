------------------------------ MODULE Lifecycle -----------------------------
(***************************************************************************)
(* What the users of an AEMDeployment object are promised about it, with   *)
(* no mention of informer caches, resource versions or the worker:         *)
(*                                                                         *)
(*   - only a user creates, deletes or edits it: the operator never        *)
(*     changes what the user asked for, although it always writes the      *)
(*     whole object back;                                                  *)
(*   - only the operator moves the phase, and never backwards: an object   *)
(*     that has left the empty phase never looks new again, and one that   *)
(*     has been Running or Resizing never says it is being created.        *)
(***************************************************************************)
EXTENDS Naturals

CONSTANT Specs      \* the specifications a user may write

VARIABLES exists,   \* is there an object?
          spec,     \* what the user asked for
          phase     \* what the operator says of it

lifecycleVars == <<exists, spec, phase>>

\* status.go lines 7-13; "Failed" is declared there but no code writes it.
Phases == {"None", "Creating", "Resizing", "Running"}

\* How far an object in a phase has come.
Stage(ph) == CASE ph = "None"     -> 0
               [] ph = "Creating" -> 1
               [] OTHER           -> 2

Init == /\ exists = TRUE
        /\ spec \in Specs
        /\ phase = "None"

UserCreates == /\ ~exists
               /\ exists' = TRUE
               /\ spec' \in Specs
               /\ phase' = "None"

UserEdits == /\ exists
             /\ spec' \in Specs
             /\ UNCHANGED <<exists, phase>>

UserDeletes == /\ exists
               /\ exists' = FALSE
               /\ UNCHANGED <<spec, phase>>

OperatorAnnounces == /\ exists
                     /\ phase' \in Phases \ {"None"}
                     /\ Stage(phase') >= Stage(phase)
                     /\ UNCHANGED <<exists, spec>>

Next == UserCreates \/ UserEdits \/ UserDeletes \/ OperatorAnnounces

Spec == Init /\ [][Next]_lifecycleVars

=============================================================================
