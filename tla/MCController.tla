---------------------------- MODULE MCController ----------------------------
(***************************************************************************)
(* Values of the constants for the runs of Controller.                     *)
(***************************************************************************)
EXTENDS Controller

CONSTANTS d1, d2, a1, p1

OneKey  == {d1}
TwoKeys == {d1, d2}

\* An author and a publisher: CleanUp has a loop to make.
TwoInstances == {a1, p1}
OneInstance  == {a1}
=============================================================================
