------------------------------ MODULE Ordinals ------------------------------
(***************************************************************************)
(* What resizeDeployment (pkg/operator/sync.go) decides, as sets.          *)
(*                                                                         *)
(* The instances of one runmode are named <deployment>-<runmode>-<ordinal> *)
(* with ordinals counted from 1, so a slice of pods is represented by the  *)
(* set of its ordinals.                                                    *)
(***************************************************************************)
EXTENDS Integers, FiniteSets

\* Mistakes that a change of the loops could make; the mutants in PROJECT.json
\* put them in place of the definitions below.
MissingFromZero(actual, desired)    == (0..(desired - 1)) \ actual
MissingOneTooMany(actual, desired)  == (1..(desired + 1)) \ actual
MissingByCount(actual, desired)     == (Cardinality(actual) + 1)..desired
SurplusDescending(actual, desired)  ==
  {i \in actual : Cardinality({j \in actual : j > i}) >= desired}

\* The ordinals that a grow creates: the wanted names that no pod has.
Missing(actual, desired) == (1..desired) \ actual

\* The ordinals that a shrink deletes: in ascending order of ordinal, every
\* pod from position desired (counted from 0) on.
Surplus(actual, desired) ==
  {i \in actual : Cardinality({j \in actual : j < i}) >= desired}

=============================================================================
