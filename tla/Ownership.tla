------------------------------ MODULE Ownership ------------------------------
(***************************************************************************)
(* What tenants/service.py promises about the ownership of one tenant.     *)
(* There is at most one owner, from its creation on there always is one,   *)
(* and ownership passes in two steps only: the owner makes an offer to     *)
(* somebody else, and that member takes it.  An offer nobody takes may be  *)
(* replaced by a new one.                                                  *)
(***************************************************************************)
CONSTANTS Users, Nobody

VARIABLES
  owner,  \* the tenant's owner, Nobody before the tenant is created
  heir    \* whom ownership is offered to, Nobody when there is no offer

Init == owner = Nobody /\ heir = Nobody

Found(u) == owner = Nobody /\ owner' = u /\ UNCHANGED heir

Offer(u) ==
  /\ owner # Nobody
  /\ u # owner
  /\ heir' = u
  /\ UNCHANGED owner

Take ==
  /\ heir # Nobody
  /\ owner' = heir
  /\ heir' = Nobody

Next == (\E u \in Users : Found(u) \/ Offer(u)) \/ Take

Spec == Init /\ [][Next]_<<owner, heir>>
=============================================================================
