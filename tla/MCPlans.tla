------------------------------ MODULE MCPlans ------------------------------
(* Instances of Plans for TLC. *)
EXTENDS Plans, TLC

PlansSymmetry == Permutations(Plans) \cup Permutations(Tenants) \cup Permutations(Requests)
=============================================================================
