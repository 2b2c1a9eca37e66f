------------------------------- MODULE MCMfa -------------------------------
(* Instances of Mfa for TLC. *)
EXTENDS Mfa
=============================================================================
