---------------------------- MODULE MCMembership ----------------------------
(* Three accounts; one role stands for those below ADMIN. *)
EXTENDS Membership, TLC

CONSTANTS alice, bob, carol

ThreeUsers == {alice, bob, carol}
OneJuniorRole == {"developer"}
UserSymmetry == Permutations(ThreeUsers)
=============================================================================
