----------------------------- MODULE Credential -----------------------------
(***************************************************************************)
(* What the operator promises about the administrator's password of one    *)
(* instance: a password is put into the store before the repository takes  *)
(* it, the repository takes none but the stored one, and neither changes   *)
(* again.  Somebody who reads the store can therefore always log in.       *)
(***************************************************************************)
CONSTANT Passwords   \* neither "none" nor "default" is one

VARIABLES stored,    \* the password in the store; "none" when there is none
          accepted   \* the repository's; "default" is the one it ships with

credentialVars == <<stored, accepted>>

Init == stored = "none" /\ accepted = "default"

Put == /\ stored = "none"
       /\ stored' \in Passwords
       /\ UNCHANGED accepted

Take == /\ accepted = "default"
        /\ stored # "none"
        /\ accepted' = stored
        /\ UNCHANGED stored

Next == Put \/ Take

Spec == Init /\ [][Next]_credentialVars

=============================================================================
