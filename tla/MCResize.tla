------------------------------ MODULE MCResize ------------------------------
(***************************************************************************)
(* Values of the constants for the run of Resize.                          *)
(***************************************************************************)
EXTENDS Resize

\* A pod whose name ends in no number, and one whose ordinal is that of another.
TwoStrays       == {-1, -2}
TwoStraysNumber == [p \in TwoStrays |-> IF p = -1 THEN -1 ELSE 2]

\* Also negative, which nothing refuses.
FromMinusOne == -1..3
=============================================================================
