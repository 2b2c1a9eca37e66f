--------------------------- MODULE MCSessionRace ---------------------------
(* Two accounts and three concurrent requests. *)
EXTENDS SessionRace, TLC

CONSTANTS alice, bob, p1, p2, p3

TwoUsers == {alice, bob}
ThreeRequests == {p1, p2, p3}
RequestSymmetry == Permutations(ThreeRequests) \cup Permutations(TwoUsers)
=============================================================================
