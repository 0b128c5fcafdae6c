------------------------------- MODULE MCSync -------------------------------
(***************************************************************************)
(* Sets of specifications for the runs of Sync.                            *)
(***************************************************************************)
EXTENDS Sync

Replicas(a, p, d) ==
  [m \in Modes |-> CASE m = "author" -> a [] m = "publish" -> p [] OTHER -> d]

Want(a, p, d) == [replicas |-> Replicas(a, p, d)]

\* A publisher that stays and one to add or to remove.
PublishSpecs == {Want(0, p, 0) : p \in 1..2}

\* The three-member deployment of the README.
ReadmeSpecs == {Want(1, 1, 1)}

\* An author or a dispatcher: a pod of each kind of volume.
EitherSpecs == {Want(1, 0, 0), Want(0, 0, 1)}

\* A dispatcher alone, or nothing at all.
DispatcherSpecs == {Want(0, 0, d) : d \in 0..1}
=============================================================================
