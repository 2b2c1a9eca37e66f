----------------------------- MODULE MCSessions -----------------------------
(* Two accounts, one of them an administrator, and three token pairs. *)
EXTENDS Sessions, TLC

CONSTANTS alice, root, g1, g2, g3

AliceAndRoot == {alice, root}
JustRoot == {root}
AliceOneRootTwo == alice :> 1 @@ root :> 2
ThreeGrants == {g1, g2, g3}
GrantSymmetry == Permutations(ThreeGrants)
=============================================================================
