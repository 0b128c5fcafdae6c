----------------------------- MODULE Reconciler -----------------------------
(***************************************************************************)
(* What the controller is for, with no mention of watches, notifications,  *)
(* queues or delays: a level-triggered reconciler.                         *)
(*                                                                         *)
(*   - a change that the controller has seen makes it owe the deployment a *)
(*     sync, and seeing more changes before that sync does not owe more;   *)
(*   - it syncs one deployment at a time, only one that it owes a sync and *)
(*     that still exists, and always in the last version it has seen;      *)
(*   - a sync that fails is owed again, and so is a sync of everything     *)
(*     there is after a restart.                                           *)
(***************************************************************************)
EXTENDS Naturals

CONSTANT Keys       \* the names of the deployments

VARIABLES seen,     \* the deployments as last seen
          owed,     \* those that have to be synced
          busy,     \* the one that is being synced, as a set
          read,     \* the generation that the last sync of each has read
          synced    \* and the one that the last successful sync has read

reconcilerVars == <<seen, owed, busy, read, synced>>

Objects == [exists : BOOLEAN, gen : Nat]

\* Everything that is there at the start is owed a sync.
Init == /\ seen \in [Keys -> Objects]
        /\ owed = {k \in Keys : seen[k].exists}
        /\ busy = {}
        /\ read = [k \in Keys |-> 0]
        /\ synced = read

\* Changes are seen, or there is another reason to look at a deployment.
Learn == /\ seen' \in [Keys -> Objects]
         /\ owed' \in SUBSET Keys
         /\ owed \subseteq owed'
         /\ \A k \in Keys : seen'[k] # seen[k] /\ seen'[k].exists => k \in owed'
         /\ UNCHANGED <<busy, read, synced>>

\* What is owed is settled by beginning, unless it is owed anew.
Settle(k) == /\ busy = {}
             /\ k \in owed
             /\ owed' \in {owed, owed \ {k}}
             /\ UNCHANGED <<seen, synced>>

Begin(k) == /\ Settle(k)
            /\ seen[k].exists
            /\ busy' = {k}
            /\ read' = [read EXCEPT ![k] = seen[k].gen]

Drop(k) == /\ Settle(k)
           /\ ~seen[k].exists
           /\ UNCHANGED <<busy, read>>

Succeed(k) == /\ k \in busy
              /\ busy' = {}
              /\ synced' = [synced EXCEPT ![k] = read[k]]
              /\ UNCHANGED <<seen, owed, read>>

Fail(k) == /\ k \in busy
           /\ busy' = {}
           /\ owed' = owed \cup {k}
           /\ UNCHANGED <<seen, read, synced>>

Restart == /\ seen' \in [Keys -> Objects]
           /\ owed' = {k \in Keys : seen'[k].exists}
           /\ busy' = {}
           /\ UNCHANGED <<read, synced>>

Next == \/ Learn \/ Restart
        \/ \E k \in Keys : Begin(k) \/ Drop(k) \/ Succeed(k) \/ Fail(k)

Spec == Init /\ [][Next]_reconcilerVars

\* A deployment whose last version has not been synced successfully is owed a
\* sync, or being synced: nobody needs to look at it again for it to converge.
Covered == \A k \in Keys : seen[k].exists /\ synced[k] # seen[k].gen => k \in owed \cup busy

=============================================================================
