----------------------------- MODULE MCHandover -----------------------------
(* Instances of Handover for TLC. *)
EXTENDS Handover, TLC

HandoverSymmetry == Permutations(Tenants)
=============================================================================
