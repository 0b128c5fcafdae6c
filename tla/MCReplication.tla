---------------------------- MODULE MCReplication ----------------------------
(***************************************************************************)
(* Small sets for the run of Replication.                                  *)
(***************************************************************************)
EXTENDS Replication

\* One publisher that stays and one that comes and goes.
OneOrTwo == {1, 2}
=============================================================================
