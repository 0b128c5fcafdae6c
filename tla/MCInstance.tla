----------------------------- MODULE MCInstance -----------------------------
(***************************************************************************)
(* Values of the constants for the runs of Instance.                       *)
(***************************************************************************)
EXTENDS Instance

\* A fresh password is one that the repository does not have: two are enough
\* to tell a password from the one before.
TwoPasswords == {"p1", "p2"}
=============================================================================
