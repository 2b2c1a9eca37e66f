----------------------------- MODULE Membership -----------------------------
(***************************************************************************)
(* Members, invitations and ownership of one tenant (tenants/service.py,   *)
(* tenants/dependencies.py, the tenant operations of admin/service.py).    *)
(* Tenants share no rows, so one tenant stands for all.                    *)
(*                                                                         *)
(* A request is one action.  A request that raises is rolled back and has  *)
(* no action.                                                              *)
(* GET /current/transfer deletes an expired transfer but then answers 404, *)
(* which rolls the delete back; the same holds of accept_transfer.         *)
(***************************************************************************)
EXTENDS Naturals, FiniteSets

CONSTANTS
  Users,        \* accounts, identified with their email addresses
  Nobody,       \* from and to of a transfer that does not exist
  JuniorRoles,  \* the roles below ADMIN: developer, viewer
  MemberCap,    \* member_cap of the tenant's plan; 0 is unlimited
  MaxInvites    \* bound on the invitations sent to one address

ASSUME UsersAssumption == Nobody \notin Users
ASSUME RolesAssumption ==
  JuniorRoles \subseteq {"developer", "viewer"} /\ JuniorRoles # {}
ASSUME BoundsAssumption == MemberCap \in Nat /\ MaxInvites \in Nat

VARIABLES
  flags,       \* which of is_suspended, is_deleted are set on the tenant
  role,        \* role[u]: role of u's membership, "none" without one
  blocked,     \* memberships with is_blocked
  verified,    \* accounts with email_verified
  invitation,  \* invitation[u]: the row for u's address, UNIQUE per tenant
  transfer,    \* the ownership_transfers row, UNIQUE per tenant
  (* history *)
  actor,       \* who made the last request
  sent,        \* sent[u]: number of invitation links mailed to u
  spent        \* links that admitted somebody or were cancelled

tenantVars == <<flags, role, blocked, verified, invitation, transfer>>
historyVars == <<actor, sent, spent>>
vars == <<tenantVars, historyVars>>

GivenRoles == {"admin"} \cup JuniorRoles   \* _VALID_NON_OWNER_ROLES
AdminRoles == {"owner", "admin"}
Roles == {"owner"} \cup GivenRoles

Invitations == [status : {"pending", "lapsed", "accepted"},
                role : GivenRoles, link : Nat]
NoInvitation == [status |-> "none", role |-> "none", link |-> 0]
Transfers == [status : {"pending", "lapsed"}, from : Users, to : Users]
NoTransfer == [status |-> "none", from |-> Nobody, to |-> Nobody]

TypeOK ==
  /\ flags \subseteq {"suspended", "deleted"}
  /\ role \in [Users -> Roles \cup {"none"}]
  /\ blocked \subseteq Users
  /\ verified \subseteq Users
  /\ invitation \in [Users -> Invitations \cup {NoInvitation}]
  /\ transfer \in Transfers \cup {NoTransfer}
  /\ actor \in Users \cup {Nobody}
  /\ sent \in [Users -> Nat]
  /\ spent \subseteq Users \X Nat

Init ==
  /\ flags = {}
  /\ role = [u \in Users |-> "none"]
  /\ blocked = {}
  /\ verified \in SUBSET Users
  /\ invitation = [u \in Users |-> NoInvitation]
  /\ transfer = NoTransfer
  /\ actor = Nobody
  /\ sent = [u \in Users |-> 0]
  /\ spent = {}

Members == {u \in Users : role[u] # "none"}
Owners == {u \in Users : role[u] = "owner"}

-----------------------------------------------------------------------------
(* Who may do what. *)

(* Mutation: is_blocked is not looked at. *)
MutBlockedMayAct(a, allowed) == flags = {} /\ role[a] \in allowed

(* get_tenant_context and require_role. *)
Admitted(a, allowed) ==
  /\ flags = {}
  /\ a \notin blocked
  /\ role[a] \in allowed

MutAnyoneRemovable(u) == role[u] # "none"   \* mutation: the owner too

(* remove_member and leave_tenant do not take the owner. *)
Removable(u) == role[u] \in GivenRoles

(* Mutation: without the self-demotion guard. *)
MutSelfDemotion(a, u) ==
  role[u] # "none" /\ ~ (role[u] = "owner" /\ role[a] # "owner")

(* change_role.  The owner's row is out of reach: for the owner himself by *)
(* the self-demotion guard, for an admin by the guard on the actor's role. *)
RoleChangeAllowed(a, u) ==
  /\ role[u] # "none"
  /\ ~ (role[u] = "owner" /\ u = a)
  /\ ~ (role[u] = "owner" /\ role[a] # "owner")

(* enforce_member_cap counts memberships, not open invitations. *)
CapReached == MemberCap > 0 /\ Cardinality(Members) >= MemberCap

-----------------------------------------------------------------------------
(* Workspace and members. *)

By(a) ==
  /\ actor' = a
  /\ UNCHANGED flags

Quiet == UNCHANGED <<sent, spent>>

CreateWorkspace(u) ==
  /\ Members = {}
  /\ u \in verified
  /\ By(u)
  /\ role' = [role EXCEPT ![u] = "owner"]
  /\ Quiet
  /\ UNCHANGED <<blocked, verified, invitation, transfer>>

ChangeRole(a, u, r) ==
  /\ Admitted(a, AdminRoles)
  /\ RoleChangeAllowed(a, u)
  /\ By(a)
  /\ role' = [role EXCEPT ![u] = r]
  /\ Quiet
  /\ UNCHANGED <<blocked, verified, invitation, transfer>>

(* The row goes, and its is_blocked with it; a transfer to u stays. *)
DeleteMembership(u) ==
  /\ role' = [role EXCEPT ![u] = "none"]
  /\ blocked' = blocked \ {u}
  /\ Quiet
  /\ UNCHANGED <<verified, invitation, transfer>>

RemoveMember(a, u) ==
  /\ Admitted(a, AdminRoles)
  /\ u # a
  /\ Removable(u)
  /\ By(a)
  /\ DeleteMembership(u)

Leave(u) ==
  /\ Admitted(u, Roles)
  /\ Removable(u)
  /\ By(u)
  /\ DeleteMembership(u)

-----------------------------------------------------------------------------
(* Ownership transfer. *)

InitiateTransfer(a, u) ==
  /\ Admitted(a, {"owner"})
  /\ u # a
  /\ role[u] # "none"
  /\ transfer.status # "pending"
  /\ By(a)
  /\ transfer' = [status |-> "pending", from |-> a, to |-> u]
  /\ Quiet
  /\ UNCHANGED <<role, blocked, verified, invitation>>

(* Mutation: the acceptor is not promoted. *)
MutNoPromotion(from, to) == [role EXCEPT ![from] = "admin"]

(* accept_transfer: each of the two memberships is changed if it exists. *)
SwapRoles(from, to) ==
  [u \in Users |-> IF role[u] = "none" THEN "none"
                   ELSE IF u = to THEN "owner"
                   ELSE IF u = from THEN "admin"
                   ELSE role[u]]

AcceptTransfer(u) ==
  /\ Admitted(u, Roles)
  /\ transfer.status = "pending"
  /\ transfer.to = u
  /\ By(u)
  /\ role' = SwapRoles(transfer.from, u)
  /\ transfer' = NoTransfer
  /\ Quiet
  /\ UNCHANGED <<blocked, verified, invitation>>

-----------------------------------------------------------------------------
(* Invitations. *)

Invitable(a, u) ==
  /\ Admitted(a, AdminRoles)
  /\ ~ CapReached
  /\ role[u] = "none"
  /\ invitation[u].status # "pending"

(* invite_user.  The checks let an address pass whose row is lapsed or      *)
(* accepted, and the INSERT then breaks UNIQUE(email, tenant_id).          *)
Invite(a, u, r) ==
  /\ Invitable(a, u)
  /\ invitation[u] = NoInvitation
  /\ sent[u] < MaxInvites
  /\ By(a)
  /\ sent' = [sent EXCEPT ![u] = @ + 1]
  /\ invitation' = [invitation EXCEPT ![u] =
                      [status |-> "pending", role |-> r, link |-> sent'[u]]]
  /\ UNCHANGED <<role, blocked, verified, transfer, spent>>

CancelInvitation(a, u) ==
  /\ Admitted(a, AdminRoles)
  /\ invitation[u].status \in {"pending", "lapsed"}
  /\ By(a)
  /\ invitation' = [invitation EXCEPT ![u] = NoInvitation]
  /\ spent' = spent \cup {<<u, invitation[u].link>>}
  /\ UNCHANGED <<role, blocked, verified, transfer, sent>>

(* The invitation that turns u into a member now, if there is one. *)
Admits(u) == role[u] = "none" /\ invitation[u].status = "pending"

Join(u) ==
  /\ role' = [role EXCEPT ![u] = invitation[u].role]
  /\ invitation' = [invitation EXCEPT ![u].status = "accepted"]
  /\ spent' = spent \cup {<<u, invitation[u].link>>}

MutAnyLink(u, n) == TRUE   \* mutation: looked up by address alone

(* The row is looked up by the hash of the link's token. *)
LinkMatches(u, n) == invitation[u].link = n

AcceptInvitation(u, n) ==
  /\ u \in verified
  /\ n \in 1..sent[u]
  /\ LinkMatches(u, n)
  /\ Admits(u)
  /\ By(u)
  /\ Join(u)
  /\ UNCHANGED <<blocked, verified, transfer, sent>>

(* verify_email, and auto_join_pending_invitations in its transaction.     *)
VerifyEmail(u) ==
  /\ u \notin verified
  /\ By(u)
  /\ verified' = verified \cup {u}
  /\ IF Admits(u) THEN Join(u) ELSE UNCHANGED <<role, invitation, spent>>
  /\ UNCHANGED <<blocked, transfer, sent>>

-----------------------------------------------------------------------------
(* Platform administration, and time. *)

SetFlags(new) ==
  /\ Members # {}
  /\ flags' = new
  /\ actor' = Nobody
  /\ Quiet
  /\ UNCHANGED <<role, blocked, verified, invitation, transfer>>

SuspendTenant == "suspended" \notin flags /\ SetFlags(flags \cup {"suspended"})
ReactivateTenant == "suspended" \in flags /\ SetFlags(flags \ {"suspended"})
SoftDeleteTenant == "deleted" \notin flags /\ SetFlags(flags \cup {"deleted"})

SetBlocked(new) ==
  /\ blocked' = new
  /\ By(Nobody)
  /\ Quiet
  /\ UNCHANGED <<role, verified, invitation, transfer>>

BlockUser(u) == role[u] # "none" /\ SetBlocked(blocked \cup {u})
UnblockUser(u) == role[u] # "none" /\ SetBlocked(blocked \ {u})

TransferElapses ==
  /\ transfer.status = "pending"
  /\ transfer' = [transfer EXCEPT !.status = "lapsed"]
  /\ By(Nobody)
  /\ Quiet
  /\ UNCHANGED <<role, blocked, verified, invitation>>

InvitationElapses(u) ==
  /\ invitation[u].status = "pending"
  /\ invitation' = [invitation EXCEPT ![u].status = "lapsed"]
  /\ By(Nobody)
  /\ Quiet
  /\ UNCHANGED <<role, blocked, verified, transfer>>

Next ==
  \/ \E a, u \in Users :
       \/ \E r \in GivenRoles : ChangeRole(a, u, r) \/ Invite(a, u, r)
       \/ RemoveMember(a, u)
       \/ InitiateTransfer(a, u)
       \/ CancelInvitation(a, u)
  \/ \E u \in Users :
       \/ CreateWorkspace(u)
       \/ Leave(u)
       \/ AcceptTransfer(u)
       \/ \E n \in 1..MaxInvites : AcceptInvitation(u, n)
       \/ VerifyEmail(u)
       \/ BlockUser(u)
       \/ UnblockUser(u)
       \/ InvitationElapses(u)
  \/ SuspendTenant
  \/ ReactivateTenant
  \/ SoftDeleteTenant
  \/ TransferElapses

Spec == Init /\ [][Next]_vars

-----------------------------------------------------------------------------
(* Properties *)

(* A tenant has exactly one owner from its creation on: no role change,    *)
(* removal, departure, invitation or transfer, in any order, leaves it     *)
(* without one or with two.                                                *)
OneOwner ==
  /\ \A u, v \in Owners : u = v
  /\ Members # {} => Owners # {}

(* A transfer row was made by the present owner for somebody else, however *)
(* long ago and whatever happened to the memberships since.                *)
TransferNamesOwner ==
  transfer # NoTransfer => role[transfer.from] = "owner"
                           /\ transfer.to # transfer.from

(* A link admits its addressee once, by being opened or when the address   *)
(* is verified: not after it was cancelled, not again after the member was *)
(* removed, and only the newest of several links opens the tenant.         *)
LinkAdmitsOnce ==
  [][\A u \in Users :
       role[u] = "none" /\ role'[u] \in GivenRoles =>
         /\ <<u, invitation[u].link>> \in spent' \ spent
         /\ \A n \in 1..sent[u] : AcceptInvitation(u, n) => n = sent[u]]_vars

(* Nobody acts beyond his standing: a blocked member's own requests change *)
(* no row of the tenant, and a member below ADMIN moves nobody's role but  *)
(* by leaving or by taking the ownership he was offered.                   *)
StandingBoundsActions ==
  [][\A u \in Users : actor' = u =>
       /\ u \in blocked => UNCHANGED <<role, blocked, invitation, transfer>>
       /\ role[u] \in JuniorRoles =>
            \A v \in Users \ {u} :
              role'[v] = role[v] \/ (transfer.to = u /\ transfer.from = v)]_vars

(* Ownership, seen through the rows, moves as Ownership says. *)
TheOwner == IF Owners = {} THEN Nobody ELSE CHOOSE u \in Owners : TRUE

Promise == INSTANCE Ownership WITH owner <- TheOwner, heir <- transfer.to
OwnershipIsKept == Promise!Spec

=============================================================================
