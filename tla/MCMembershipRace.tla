-------------------------- MODULE MCMembershipRace --------------------------
(* Three members, one of them the owner, and three or four requests. *)
EXTENDS MembershipRace, TLC

CONSTANTS alice, bob, carol, p1, p2, p3, p4

ThreeUsers == {alice, bob, carol}
ThreeRequests == {p1, p2, p3}
FourRequests == {p1, p2, p3, p4}
AllKinds == {"change", "remove", "leave", "initiate", "accept"}
TransfersOnly == {"initiate", "accept"}
RequestSymmetry == Permutations(FourRequests) \cup Permutations({bob, carol})
=============================================================================
