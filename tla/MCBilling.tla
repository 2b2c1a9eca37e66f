------------------------------ MODULE MCBilling ------------------------------
(* Two subscriptions of one tenant. *)
EXTENDS Billing

CONSTANTS s1, s2

TwoSubs == {s1, s2}
=============================================================================
