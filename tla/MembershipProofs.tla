-------------------------- MODULE MembershipProofs --------------------------
(***************************************************************************)
(* The proofs about accounts: their memberships (Membership), and below    *)
(* them their second factor (Mfa).                                         *)
(*                                                                         *)
(* A tenant has exactly one owner after any sequence of requests, for any  *)
(* number of accounts, and ownership moves only as Ownership promises.     *)
(*                                                                         *)
(* OneOwner alone is not inductive: accept_transfer demotes the account    *)
(* the transfer row names, so that row has to name the present owner       *)
(* (TransferNamesOwner); and nobody may join a tenant that has no owner    *)
(* yet, so an invitation must imply that the tenant was founded.           *)
(***************************************************************************)
EXTENDS Membership, Mfa, FiniteSetTheorems, TLAPS

InvitationsNeedMembers ==
  \A u \in Users : invitation[u] # NoInvitation => Members # {}

IInv == TypeOK /\ OneOwner /\ TransferNamesOwner /\ InvitationsNeedMembers

USE DEF GivenRoles, AdminRoles, Roles, Members, Owners

(* The actions of Next, in groups that write the same variables. *)
MemberStep(a, u) ==
  \/ \E r \in GivenRoles : ChangeRole(a, u, r)
  \/ RemoveMember(a, u)
  \/ Leave(u)
TransferStep(a, u) == InitiateTransfer(a, u) \/ AcceptTransfer(u)
InvitationStep(a, u) ==
  \/ \E r \in GivenRoles : Invite(a, u, r)
  \/ CancelInvitation(a, u)
  \/ \E n \in 1..MaxInvites : AcceptInvitation(u, n)
  \/ VerifyEmail(u)
  \/ InvitationElapses(u)
BlockStep(u) == BlockUser(u) \/ UnblockUser(u)
TenantStep == SuspendTenant \/ ReactivateTenant \/ SoftDeleteTenant

LEMMA NextSteps ==
  Next <=> \/ \E a, u \in Users : \/ MemberStep(a, u)
                                  \/ TransferStep(a, u)
                                  \/ InvitationStep(a, u)
           \/ \E u \in Users : CreateWorkspace(u) \/ BlockStep(u)
           \/ TenantStep
           \/ TransferElapses
  BY DEF Next, MemberStep, TransferStep, InvitationStep, BlockStep, TenantStep

-----------------------------------------------------------------------------
(* Types. *)

(* Requests that only write memberships. *)
LEMMA MembershipTypes ==
  ASSUME TypeOK, NEW a \in Users, NEW u \in Users,
         CreateWorkspace(u) \/ MemberStep(a, u)
  PROVE  TypeOK'
  BY DEF TypeOK, CreateWorkspace, MemberStep, ChangeRole, RemoveMember, Leave,
         DeleteMembership, By, Quiet

(* Requests that write the transfer. *)
LEMMA TransferTypes ==
  ASSUME TypeOK, NEW a \in Users, NEW u \in Users,
         TransferStep(a, u)
  PROVE  TypeOK'
<1>1. CASE InitiateTransfer(a, u)
  BY <1>1 DEF TypeOK, InitiateTransfer, By, Quiet, Transfers
<1>2. CASE AcceptTransfer(u)
  BY <1>2 DEF TypeOK, AcceptTransfer, SwapRoles, By, Quiet
<1>3. QED  BY <1>1, <1>2 DEF TransferStep

LEMMA TransferElapsesTypes ==
  ASSUME TypeOK, TransferElapses
  PROVE  TypeOK'
  BY DEF TypeOK, TransferElapses, By, Quiet, Transfers, NoTransfer

(* Joining writes a role the invitation holds and marks it accepted. *)
LEMMA JoinTypes ==
  ASSUME TypeOK, NEW u \in Users, Admits(u), Join(u)
  PROVE  /\ role' \in [Users -> Roles \cup {"none"}]
         /\ role' = [role EXCEPT ![u] = invitation[u].role]
         /\ invitation[u].role \in GivenRoles
         /\ invitation' \in [Users -> Invitations \cup {NoInvitation}]
         /\ spent' \subseteq Users \X Nat
<1>1. invitation[u] \in Invitations
  BY DEF TypeOK, Admits, NoInvitation
<1>2. [invitation[u] EXCEPT !.status = "accepted"] \in Invitations
  BY <1>1 DEF Invitations
<1>3. invitation' \in [Users -> Invitations \cup {NoInvitation}]
  BY <1>2 DEF TypeOK, Join
<1>4. QED  BY <1>1, <1>3 DEF TypeOK, Join, Invitations

(* Requests that write invitations. *)
LEMMA InvitationTypes ==
  ASSUME TypeOK, NEW a \in Users, NEW u \in Users, InvitationStep(a, u)
  PROVE  TypeOK'
<1>1. ASSUME NEW r \in GivenRoles, Invite(a, u, r)
      PROVE  TypeOK'
  <2>1. sent' \in [Users -> Nat]
    BY <1>1 DEF TypeOK, Invite
  <2>2. [status |-> "pending", role |-> r, link |-> sent'[u]] \in Invitations
    BY <2>1 DEF Invitations
  <2>3. QED  BY <1>1, <2>1, <2>2 DEF TypeOK, Invite, By
<1>2. CASE CancelInvitation(a, u)
  <2>1. invitation[u].link \in Nat
    BY <1>2 DEF TypeOK, CancelInvitation, Invitations, NoInvitation
  <2>2. QED  BY <1>2, <2>1 DEF TypeOK, CancelInvitation, By
<1>3. ASSUME NEW n \in 1..MaxInvites, AcceptInvitation(u, n)
      PROVE  TypeOK'
  BY <1>3, JoinTypes DEF TypeOK, AcceptInvitation, By
<1>4. CASE VerifyEmail(u)
  BY <1>4, JoinTypes DEF TypeOK, VerifyEmail, By
<1>5. CASE InvitationElapses(u)
  <2>1. [invitation[u] EXCEPT !.status = "lapsed"] \in Invitations
    BY <1>5 DEF TypeOK, InvitationElapses, Invitations, NoInvitation
  <2>2. QED  BY <1>5, <2>1 DEF TypeOK, InvitationElapses, By, Quiet
<1>6. QED  BY <1>1, <1>2, <1>3, <1>4, <1>5 DEF InvitationStep

(* Platform administration. *)
LEMMA BlockTypes ==
  ASSUME TypeOK, NEW u \in Users, BlockStep(u)
  PROVE  TypeOK'
  BY DEF TypeOK, BlockStep, BlockUser, UnblockUser, SetBlocked, By, Quiet

LEMMA TenantTypes ==
  ASSUME TypeOK, TenantStep
  PROVE  TypeOK'
  BY DEF TypeOK, TenantStep, SuspendTenant, ReactivateTenant,
         SoftDeleteTenant, SetFlags, Quiet

LEMMA TypeInductive == TypeOK /\ [Next]_vars => TypeOK'
<1> SUFFICES ASSUME TypeOK, [Next]_vars PROVE TypeOK'
  OBVIOUS
<1>1. CASE Next
  BY <1>1, NextSteps, MembershipTypes, TransferTypes, TransferElapsesTypes,
     InvitationTypes, BlockTypes, TenantTypes
<1>2. CASE UNCHANGED vars
  BY <1>2 DEF TypeOK, vars, tenantVars, historyVars
<1>3. QED  BY <1>1, <1>2

-----------------------------------------------------------------------------
(* Ownership.  A step founds the tenant, offers it, hands it over, or      *)
(* leaves the set of owners and the parties of the transfer alone.         *)

Founds == \E u \in Users : /\ Members = {}
                           /\ Owners' = {u}
                           /\ UNCHANGED <<transfer, invitation>>
Offers == \E a, u \in Users : /\ role[a] = "owner" /\ u # a
                              /\ transfer'.from = a /\ transfer'.to = u
                              /\ transfer' # NoTransfer
                              /\ UNCHANGED <<role, invitation>>
Hands == /\ transfer # NoTransfer
         /\ Owners' = {transfer.to}
         /\ transfer' = NoTransfer
Keeps == /\ Owners' = Owners
         /\ \/ UNCHANGED <<role, invitation>>
            \/ Members # {}
         /\ transfer'.from = transfer.from /\ transfer'.to = transfer.to
         /\ transfer # NoTransfer <=> transfer' # NoTransfer

(* An assignment of a role below OWNER, or of none, to somebody who is not *)
(* the owner keeps ownership as it is.                                     *)
LEMMA MinorRoleKeeps ==
  ASSUME TypeOK, NEW u \in Users, NEW r \in GivenRoles \cup {"none"},
         role[u] # "owner", Members # {}, role' = [role EXCEPT ![u] = r],
         UNCHANGED transfer
  PROVE  Keeps
<1>1. \A v \in Users : role'[v] = "owner" <=> role[v] = "owner"
  <2> USE RolesAssumption
  <2> QED  BY DEF TypeOK
<1>2. QED  BY <1>1 DEF Keeps

(* change_role, remove_member, leave_tenant: the guards spare the owner. *)
LEMMA MemberRequestKeeps ==
  ASSUME IInv, NEW a \in Users, NEW u \in Users, MemberStep(a, u)
  PROVE  Keeps
<1>1. ASSUME NEW r \in GivenRoles, ChangeRole(a, u, r)
      PROVE  Keeps
  <2>1. role[u] # "owner"
    BY <1>1 DEF IInv, OneOwner, ChangeRole, RoleChangeAllowed
  <2>2. Members # {}
    BY <1>1 DEF ChangeRole, RoleChangeAllowed
  <2>3. QED  BY <1>1, <2>1, <2>2, MinorRoleKeeps DEF IInv, ChangeRole
<1>2. CASE RemoveMember(a, u)
  <2>1. role[u] # "owner" /\ Members # {}
    BY <1>2, RolesAssumption DEF RemoveMember, Removable
  <2>2. QED
    BY <1>2, <2>1, MinorRoleKeeps DEF IInv, RemoveMember, DeleteMembership
<1>3. CASE Leave(u)
  <2>1. role[u] # "owner" /\ Members # {}
    BY <1>3, RolesAssumption DEF Leave, Removable
  <2>2. QED
    BY <1>3, <2>1, MinorRoleKeeps DEF IInv, Leave, DeleteMembership
<1>4. QED  BY <1>1, <1>2, <1>3 DEF MemberStep

(* Whoever joins gets a role below OWNER, in a tenant that has members. *)
LEMMA JoinKeeps ==
  ASSUME IInv, NEW u \in Users, Admits(u), Join(u), UNCHANGED transfer
  PROVE  Keeps
<1>1. role' = [role EXCEPT ![u] = invitation[u].role]
      /\ invitation[u].role \in GivenRoles
  BY JoinTypes DEF IInv
<1>2. invitation[u] # NoInvitation
  BY DEF Admits, NoInvitation
<1>3. Members # {}
  BY <1>2 DEF IInv, InvitationsNeedMembers
<1>4. role[u] # "owner"
  BY DEF Admits
<1>5. QED  BY <1>1, <1>3, <1>4, MinorRoleKeeps DEF IInv

LEMMA InvitationRequestKeeps ==
  ASSUME IInv, NEW a \in Users, NEW u \in Users, InvitationStep(a, u)
  PROVE  Keeps
<1>1. ASSUME NEW r \in GivenRoles, Invite(a, u, r)
      PROVE  Keeps
  BY <1>1 DEF Invite, Invitable, Admitted, Keeps
<1>2. CASE CancelInvitation(a, u)
  BY <1>2 DEF CancelInvitation, Admitted, Keeps
<1>3. ASSUME NEW n \in 1..MaxInvites, AcceptInvitation(u, n)
      PROVE  Keeps
  BY <1>3, JoinKeeps DEF AcceptInvitation
<1>4. CASE VerifyEmail(u)
  <2>1. CASE Admits(u)
    BY <1>4, <2>1, JoinKeeps DEF VerifyEmail
  <2>2. CASE ~ Admits(u)
    BY <1>4, <2>2 DEF VerifyEmail, Keeps
  <2>3. QED  BY <2>1, <2>2
<1>5. CASE InvitationElapses(u)
  <2>1. Members # {}
    BY <1>5 DEF InvitationElapses, NoInvitation, IInv, InvitationsNeedMembers
  <2>2. QED  BY <1>5, <2>1 DEF InvitationElapses, Keeps
<1>6. QED  BY <1>1, <1>2, <1>3, <1>4, <1>5 DEF InvitationStep

LEMMA TransferRequestMoves ==
  ASSUME IInv, NEW a \in Users, NEW u \in Users, TransferStep(a, u)
  PROVE  Offers \/ Hands
<1>1. CASE InitiateTransfer(a, u)
  BY <1>1 DEF InitiateTransfer, Admitted, Offers, NoTransfer
<1>2. CASE AcceptTransfer(u)
  <2>1. transfer # NoTransfer
    BY <1>2 DEF AcceptTransfer, NoTransfer
  <2>2. /\ role[transfer.from] = "owner" /\ u # transfer.from
        /\ u = transfer.to /\ role[u] # "none"
    BY <1>2, <2>1, RolesAssumption
       DEF IInv, TransferNamesOwner, AcceptTransfer, Admitted
  <2>3. transfer.from \in Users
    BY <2>1 DEF IInv, TypeOK, Transfers
  <2>4. \A v \in Users : role'[v] = "owner" <=> v = u
    BY <1>2, <2>2, <2>3 DEF IInv, OneOwner, AcceptTransfer, SwapRoles
  <2>5. QED  BY <1>2, <2>1, <2>2, <2>4 DEF AcceptTransfer, Hands
<1>3. QED  BY <1>1, <1>2 DEF TransferStep

LEMMA TransferElapsesKeeps ==
  ASSUME IInv, TransferElapses
  PROVE  Keeps
  BY DEF IInv, TypeOK, Transfers, TransferElapses, NoTransfer, Keeps

LEMMA BlockKeeps ==
  ASSUME NEW u \in Users, BlockStep(u)
  PROVE  Keeps
  BY DEF Keeps, BlockStep, BlockUser, UnblockUser, SetBlocked

LEMMA TenantKeeps ==
  ASSUME TenantStep
  PROVE  Keeps
  BY DEF Keeps, TenantStep, SuspendTenant, ReactivateTenant,
         SoftDeleteTenant, SetFlags

LEMMA WorkspaceFounds ==
  ASSUME TypeOK, NEW u \in Users, CreateWorkspace(u)
  PROVE  Founds
  BY DEF TypeOK, CreateWorkspace, Founds

(* Every step does one of the four. *)
LEMMA StepKinds ==
  ASSUME IInv, [Next]_vars
  PROVE  Founds \/ Offers \/ Hands \/ Keeps
<1>1. CASE Next
  BY <1>1, NextSteps, MemberRequestKeeps, InvitationRequestKeeps,
     TransferRequestMoves, TransferElapsesKeeps, BlockKeeps, TenantKeeps,
     WorkspaceFounds DEF IInv
<1>2. CASE UNCHANGED vars
  BY <1>2 DEF Keeps, vars, tenantVars
<1>3. QED  BY <1>1, <1>2

-----------------------------------------------------------------------------
(* The inductive invariant and the theorems. *)

LEMMA InitIInv == Init => IInv
  BY DEF Init, IInv, TypeOK, OneOwner, TransferNamesOwner,
         InvitationsNeedMembers

LEMMA StepIInv == IInv /\ [Next]_vars => IInv'
<1> SUFFICES ASSUME IInv, [Next]_vars PROVE IInv'
  OBVIOUS
<1>1. TypeOK'
  BY TypeInductive DEF IInv
<1>2. CASE Founds
  BY <1>1, <1>2 DEF IInv, Founds, OneOwner, TransferNamesOwner,
                    InvitationsNeedMembers, TypeOK, Transfers
<1>3. CASE Offers
  BY <1>1, <1>3 DEF IInv, Offers, OneOwner, TransferNamesOwner,
                    InvitationsNeedMembers
<1>4. CASE Hands
  <2>1. transfer.to \in Users
    BY <1>4 DEF Hands, IInv, TypeOK, Transfers
  <2>2. QED
    BY <1>1, <1>4, <2>1 DEF IInv, Hands, OneOwner, TransferNamesOwner,
                            InvitationsNeedMembers
<1>5. CASE Keeps
  <2>1. Members' # {} => Owners' # {}
    BY <1>5 DEF Keeps, IInv, OneOwner
  <2>2. OneOwner'
    BY <1>5, <2>1 DEF Keeps, IInv, OneOwner
  <2>3. TransferNamesOwner'
    BY <1>1, <1>5 DEF Keeps, IInv, TransferNamesOwner, TypeOK, Transfers
  <2>4. Members' = {} => Members = {}
    BY <1>5 DEF Keeps, IInv, OneOwner
  <2>5. InvitationsNeedMembers'
    BY <1>5, <2>4 DEF Keeps, IInv, InvitationsNeedMembers
  <2>6. QED  BY <1>1, <2>2, <2>3, <2>5 DEF IInv
<1>6. QED  BY <1>2, <1>3, <1>4, <1>5, StepKinds

(* The tenant's rows keep their types. *)
THEOREM MembershipTypeCorrect == Spec => []TypeOK
<1>1. IInv => TypeOK
  BY DEF IInv
<1>2. QED  BY <1>1, InitIInv, StepIInv, PTL DEF Spec

(* After any sequence of requests a tenant that was founded has exactly    *)
(* one owner.                                                              *)
THEOREM ExactlyOneOwner == Spec => []OneOwner
<1>1. IInv => OneOwner
  BY DEF IInv
<1>2. QED  BY <1>1, InitIInv, StepIInv, PTL DEF Spec

(* A transfer row, pending or lapsed, was made by the present owner for    *)
(* somebody else.                                                          *)
THEOREM TransfersAreTheOwners == Spec => []TransferNamesOwner
<1>1. IInv => TransferNamesOwner
  BY DEF IInv
<1>2. QED  BY <1>1, InitIInv, StepIInv, PTL DEF Spec

(* The rows implement Ownership: the owner changes only when the member    *)
(* the owner named takes the transfer.                                     *)
THEOREM MembershipKeepsOwnership == Spec => OwnershipIsKept
<1>1. Init => Promise!Init
  BY DEF Init, Promise!Init, TheOwner, NoTransfer
<1>2. IInv /\ IInv' /\ [Next]_vars => [Promise!Next]_<<TheOwner, transfer.to>>
  <2> SUFFICES ASSUME IInv, IInv', [Next]_vars
               PROVE  [Promise!Next]_<<TheOwner, transfer.to>>
    OBVIOUS
  <2>1. CASE Founds
    <3>1. PICK u \in Users : Members = {} /\ Owners' = {u} /\ UNCHANGED transfer
      BY <2>1 DEF Founds
    <3>2. TheOwner = Nobody
      BY <3>1 DEF TheOwner
    <3>3. TheOwner' = u
      BY <3>1 DEF TheOwner
    <3>4. QED  BY <3>1, <3>2, <3>3 DEF Promise!Next, Promise!Found
  <2>2. CASE Offers
    <3>1. PICK a, u \in Users : /\ role[a] = "owner" /\ u # a
                               /\ transfer'.to = u /\ UNCHANGED role
      BY <2>2 DEF Offers
    <3>2. Owners = {a}
      BY <3>1 DEF IInv, OneOwner
    <3>3. TheOwner = a /\ TheOwner' = a
      BY <3>1, <3>2 DEF TheOwner
    <3>4. QED
      BY <3>1, <3>3, UsersAssumption DEF Promise!Next, Promise!Offer
  <2>3. CASE Hands
    <3>1. transfer.to \in Users
      BY <2>3 DEF Hands, IInv, TypeOK, Transfers
    <3>2. TheOwner' = transfer.to
      BY <2>3, <3>1 DEF Hands, TheOwner
    <3>3. transfer'.to = Nobody
      BY <2>3 DEF Hands, NoTransfer
    <3>4. QED
      BY <3>1, <3>2, <3>3, UsersAssumption DEF Promise!Next, Promise!Take
  <2>4. CASE Keeps
    <3>1. Owners' = Owners /\ transfer'.to = transfer.to
      BY <2>4 DEF Keeps
    <3>2. CASE Owners = {}
      BY <3>1, <3>2 DEF TheOwner
    <3>3. CASE Owners # {}
      <4>1. PICK u \in Users : Owners = {u}
        BY <3>3 DEF IInv, OneOwner
      <4>2. TheOwner = u /\ TheOwner' = u
        BY <3>1, <4>1 DEF TheOwner
      <4>3. QED  BY <3>1, <4>2
    <3>4. QED  BY <3>2, <3>3
  <2>5. QED  BY <2>1, <2>2, <2>3, <2>4, StepKinds
<1>3. QED
  BY <1>1, <1>2, InitIInv, StepIInv, PTL
     DEF Spec, OwnershipIsKept, Promise!Spec
-----------------------------------------------------------------------------
(* Invitations and standing.  A link that may still admit somebody is the  *)
(* newest sent to its address and was not spent, and every spent link was  *)
(* sent; a block never outlives its membership.                            *)

LinksAreFresh ==
  \A u \in Users :
    /\ invitation[u] # NoInvitation => invitation[u].link = sent[u]
    /\ invitation[u].status \in {"pending", "lapsed"} => <<u, sent[u]>> \notin spent
    /\ \A n \in Nat : <<u, n>> \in spent => n <= sent[u]

BlocksAreMembers == blocked \subseteq Members

SInv == TypeOK /\ LinksAreFresh /\ BlocksAreMembers

LEMMA InitSInv == Init => SInv
  BY InitIInv DEF IInv, Init, SInv, LinksAreFresh, BlocksAreMembers, NoInvitation

(* An invitation that joins was fresh, and its link is spent from now on.  *)
LEMMA JoinSpends ==
  ASSUME SInv, NEW u \in Users, Admits(u), Join(u), UNCHANGED sent
  PROVE  /\ LinksAreFresh'
         /\ invitation[u].link = sent[u]
         /\ <<u, invitation[u].link>> \in spent' \ spent
<1>1. /\ invitation[u] # NoInvitation
      /\ invitation[u].link = sent[u] /\ sent[u] \in Nat
      /\ <<u, sent[u]>> \notin spent
  BY DEF SInv, TypeOK, LinksAreFresh, Admits, NoInvitation
<1>2. invitation[u] \in Invitations
  BY <1>1 DEF SInv, TypeOK
<1>3. /\ invitation'[u].status = "accepted" /\ invitation'[u].link = sent[u]
      /\ \A v \in Users : v # u => invitation'[v] = invitation[v]
  BY <1>1, <1>2 DEF SInv, TypeOK, Join, Invitations
<1>4. spent' = spent \cup {<<u, sent[u]>>} /\ sent' = sent
  BY <1>1 DEF Join
<1>5. LinksAreFresh'
  BY <1>1, <1>3, <1>4 DEF SInv, LinksAreFresh
<1>6. QED  BY <1>1, <1>4, <1>5

LEMMA InvitationRequestKeepsSInv ==
  ASSUME SInv, NEW a \in Users, NEW u \in Users, InvitationStep(a, u)
  PROVE  LinksAreFresh' /\ BlocksAreMembers'
<1>1. ASSUME NEW r \in GivenRoles, Invite(a, u, r)
      PROVE  LinksAreFresh' /\ BlocksAreMembers'
  <2>1. /\ sent' = [sent EXCEPT ![u] = sent[u] + 1] /\ sent[u] \in Nat
        /\ sent'[u] = sent[u] + 1
        /\ \A v \in Users : v # u => sent'[v] = sent[v] /\ invitation'[v] = invitation[v]
        /\ invitation'[u].link = sent'[u] /\ spent' = spent
        /\ UNCHANGED <<role, blocked>>
    BY <1>1 DEF Invite, SInv, TypeOK
  <2>2. <<u, sent'[u]>> \notin spent /\ \A n \in Nat : <<u, n>> \in spent => n <= sent'[u]
    <3>1. \A n \in Nat : <<u, n>> \in spent => n <= sent[u]
      BY DEF SInv, LinksAreFresh
    <3> DEFINE old == sent[u]
               new == sent'[u]
    <3>2. old \in Nat /\ new = old + 1 /\ new \in Nat /\ ~ (new <= old)
      BY <2>1
    <3> HIDE DEF new, old
    <3>3. \A n \in Nat : n <= old => n <= new
      BY <3>2
    <3>4. \A n \in Nat : <<u, n>> \in spent => n <= old
      BY <3>1 DEF old
    <3>5. <<u, new>> \notin spent /\ \A n \in Nat : <<u, n>> \in spent => n <= new
      BY <3>2, <3>3, <3>4
    <3>6. QED  BY <3>5 DEF new
  <2>3. LinksAreFresh'
    <3> SUFFICES ASSUME NEW v \in Users
                 PROVE  (/\ invitation[v] # NoInvitation => invitation[v].link = sent[v]
                         /\ invitation[v].status \in {"pending", "lapsed"} =>
                              <<v, sent[v]>> \notin spent
                         /\ \A n \in Nat : <<v, n>> \in spent => n <= sent[v])'
      BY DEF LinksAreFresh
    <3>1. CASE v = u
      BY <3>1, <2>1, <2>2
    <3>2. CASE v # u
      BY <3>2, <2>1 DEF SInv, LinksAreFresh
    <3> QED  BY <3>1, <3>2
  <2>4. QED  BY <2>1, <2>3 DEF SInv, BlocksAreMembers
<1>2. CASE CancelInvitation(a, u)
  <2>0. invitation[u] # NoInvitation /\ sent[u] \in Nat
    BY <1>2 DEF CancelInvitation, SInv, TypeOK, NoInvitation
  <2>1. /\ invitation[u].link = sent[u] /\ sent[u] \in Nat
        /\ spent' = spent \cup {<<u, sent[u]>>} /\ sent' = sent
        /\ invitation'[u] = NoInvitation
        /\ \A v \in Users : v # u => invitation'[v] = invitation[v]
        /\ UNCHANGED <<role, blocked>>
    BY <1>2, <2>0 DEF CancelInvitation, SInv, TypeOK, LinksAreFresh
  <2>2. LinksAreFresh'
    BY <2>1 DEF SInv, LinksAreFresh, NoInvitation
  <2>3. QED  BY <2>1, <2>2 DEF SInv, BlocksAreMembers
<1>3. ASSUME Admits(u), Join(u), UNCHANGED <<sent, blocked>>
      PROVE  LinksAreFresh' /\ BlocksAreMembers'
  <2>1. role' = [role EXCEPT ![u] = invitation[u].role]
        /\ invitation[u].role \in GivenRoles
    BY <1>3, JoinTypes DEF SInv
  <2>2. BlocksAreMembers'
    BY <1>3, <2>1, RolesAssumption DEF SInv, BlocksAreMembers, TypeOK
  <2>3. QED  BY <1>3, <2>2, JoinSpends
<1>4. ASSUME NEW n \in 1..MaxInvites, AcceptInvitation(u, n)
      PROVE  LinksAreFresh' /\ BlocksAreMembers'
  BY <1>3, <1>4 DEF AcceptInvitation
<1>5. CASE VerifyEmail(u)
  <2>1. CASE Admits(u)
    BY <1>3, <1>5, <2>1 DEF VerifyEmail
  <2>2. CASE ~ Admits(u)
    BY <1>5, <2>2 DEF VerifyEmail, SInv, LinksAreFresh, BlocksAreMembers
  <2>3. QED  BY <2>1, <2>2
<1>6. CASE InvitationElapses(u)
  <2>1. /\ invitation[u] # NoInvitation
        /\ invitation'[u].link = sent[u] /\ <<u, sent[u]>> \notin spent
        /\ \A v \in Users : v # u => invitation'[v] = invitation[v]
        /\ UNCHANGED <<role, blocked, sent, spent>>
    BY <1>6 DEF InvitationElapses, Quiet, SInv, TypeOK, LinksAreFresh,
                NoInvitation, Invitations
  <2>2. LinksAreFresh'
    BY <2>1 DEF SInv, LinksAreFresh
  <2>3. QED  BY <2>1, <2>2 DEF SInv, BlocksAreMembers
<1>7. QED  BY <1>1, <1>2, <1>4, <1>5, <1>6 DEF InvitationStep

(* Every other request leaves the invitations alone and no membership      *)
(* disappears but with its block.                                          *)
LEMMA OtherStepsKeepSInv ==
  ASSUME SInv,
         \/ \E a, u \in Users : MemberStep(a, u) \/ TransferStep(a, u)
         \/ \E u \in Users : CreateWorkspace(u) \/ BlockStep(u)
         \/ TenantStep
         \/ TransferElapses
  PROVE  LinksAreFresh' /\ BlocksAreMembers'
<1> USE RolesAssumption DEF SInv, BlocksAreMembers, TypeOK
<1>1. UNCHANGED <<invitation, sent, spent>>
  BY DEF MemberStep, ChangeRole, RemoveMember, Leave, DeleteMembership,
         TransferStep, InitiateTransfer, AcceptTransfer, CreateWorkspace,
         BlockStep, BlockUser, UnblockUser, SetBlocked, TenantStep,
         SuspendTenant, ReactivateTenant, SoftDeleteTenant, SetFlags,
         TransferElapses, Quiet
<1>2. LinksAreFresh'
  BY <1>1 DEF LinksAreFresh
<1>3. ASSUME NEW a \in Users, NEW u \in Users, MemberStep(a, u)
      PROVE  BlocksAreMembers'
  BY <1>3 DEF MemberStep, ChangeRole, RemoveMember, Leave, DeleteMembership
<1>4. ASSUME NEW a \in Users, NEW u \in Users, TransferStep(a, u)
      PROVE  BlocksAreMembers'
  BY <1>4 DEF TransferStep, InitiateTransfer, AcceptTransfer, SwapRoles
<1>5. ASSUME NEW u \in Users, CreateWorkspace(u) \/ BlockStep(u)
      PROVE  BlocksAreMembers'
  BY <1>5 DEF CreateWorkspace, BlockStep, BlockUser, UnblockUser, SetBlocked
<1>6. CASE TenantStep \/ TransferElapses
  BY <1>2, <1>6 DEF TenantStep, SuspendTenant, ReactivateTenant, SoftDeleteTenant,
              SetFlags, TransferElapses
<1> HIDE RolesAssumption DEF SInv, BlocksAreMembers, TypeOK
<1>7. CASE \E a, u \in Users : MemberStep(a, u) \/ TransferStep(a, u)
  <2>1. PICK a \in Users, u \in Users : MemberStep(a, u) \/ TransferStep(a, u)
    BY <1>7
  <2>2. QED  BY <1>2, <2>1, <1>3, <1>4
<1>8. CASE \E u \in Users : CreateWorkspace(u) \/ BlockStep(u)
  <2>1. PICK u \in Users : CreateWorkspace(u) \/ BlockStep(u)
    BY <1>8
  <2>2. QED  BY <1>2, <2>1, <1>5
<1>9. QED  BY <1>2, <1>6, <1>7, <1>8

LEMMA StepSInv == SInv /\ [Next]_vars => SInv'
<1> SUFFICES ASSUME SInv, [Next]_vars PROVE SInv'
  OBVIOUS
<1>1. TypeOK'
  BY TypeInductive DEF SInv
<1>2. CASE Next
  BY <1>1, <1>2, NextSteps, InvitationRequestKeepsSInv, OtherStepsKeepSInv DEF SInv
<1>3. CASE UNCHANGED vars
  BY <1>1, <1>3 DEF SInv, LinksAreFresh, BlocksAreMembers, vars, tenantVars,
                    historyVars
<1>4. QED  BY <1>2, <1>3

(* Who is made a member was so by a fresh link. *)
LinkStep ==
  \A u \in Users :
    role[u] = "none" /\ role'[u] \in GivenRoles =>
      /\ <<u, invitation[u].link>> \in spent' \ spent
      /\ \A n \in 1..sent[u] : AcceptInvitation(u, n) => n = sent[u]

LEMMA JoinersHaveLinks ==
  ASSUME SInv, Next, NEW u \in Users, role[u] = "none", role'[u] \in GivenRoles
  PROVE  Admits(u) /\ Join(u) /\ UNCHANGED sent
<1> USE RolesAssumption DEF SInv, TypeOK
<1>1. ASSUME NEW a \in Users, NEW v \in Users,
             MemberStep(a, v) \/ TransferStep(a, v)
      PROVE  FALSE
  BY <1>1 DEF MemberStep, ChangeRole, RoleChangeAllowed, RemoveMember, Leave,
              DeleteMembership, TransferStep, InitiateTransfer,
              AcceptTransfer, SwapRoles
<1>2. ASSUME NEW v \in Users, CreateWorkspace(v) \/ BlockStep(v)
      PROVE  FALSE
  BY <1>2 DEF CreateWorkspace, BlockStep, BlockUser, UnblockUser, SetBlocked
<1>3. CASE TenantStep \/ TransferElapses
  BY <1>3 DEF TenantStep, SuspendTenant, ReactivateTenant, SoftDeleteTenant,
              SetFlags, TransferElapses
<1>4. ASSUME NEW a \in Users, NEW v \in Users, InvitationStep(a, v)
      PROVE  Admits(u) /\ Join(u) /\ UNCHANGED sent
  <2>1. /\ Admits(v) /\ Join(v) /\ UNCHANGED sent
    BY <1>4 DEF InvitationStep, Invite, CancelInvitation, AcceptInvitation,
                VerifyEmail, InvitationElapses
  <2>2. v = u
    BY <2>1 DEF Join
  <2>3. QED  BY <2>1, <2>2
<1>5. QED  BY <1>1, <1>2, <1>3, <1>4, NextSteps

(* A link admits its addressee once, and only the newest one does. *)
THEOREM LinksAdmitOnce == Spec => LinkAdmitsOnce
<1>1. SInv /\ [Next]_vars => [LinkStep]_vars
  <2> SUFFICES ASSUME SInv, Next PROVE LinkStep
    OBVIOUS
  <2> SUFFICES ASSUME NEW u \in Users, role[u] = "none", role'[u] \in GivenRoles
               PROVE  /\ <<u, invitation[u].link>> \in spent' \ spent
                      /\ \A n \in 1..sent[u] : AcceptInvitation(u, n) => n = sent[u]
    BY DEF LinkStep
  <2>1. /\ <<u, invitation[u].link>> \in spent' \ spent
        /\ invitation[u].link = sent[u]
    BY JoinersHaveLinks, JoinSpends
  <2>2. QED  BY <2>1 DEF AcceptInvitation, LinkMatches
<1>2. [][LinkStep]_vars => LinkAdmitsOnce
  BY PTL DEF LinkStep, LinkAdmitsOnce
<1>3. QED  BY <1>1, <1>2, InitSInv, StepSInv, PTL DEF Spec

(* What an actor's request may change. *)
StandingStep ==
  \A u \in Users : actor' = u =>
    /\ u \in blocked => UNCHANGED <<role, blocked, invitation, transfer>>
    /\ role[u] \in JuniorRoles =>
         \A v \in Users \ {u} :
           role'[v] = role[v] \/ (transfer.to = u /\ transfer.from = v)

LEMMA NextStands == SInv /\ Next => StandingStep
<1> SUFFICES ASSUME SInv, Next, NEW u \in Users, actor' = u
             PROVE  /\ u \in blocked => UNCHANGED <<role, blocked, invitation, transfer>>
                    /\ role[u] \in JuniorRoles =>
                         \A v \in Users \ {u} :
                           role'[v] = role[v] \/ (transfer.to = u /\ transfer.from = v)
  BY DEF StandingStep
<1> USE RolesAssumption, UsersAssumption DEF SInv, TypeOK, BlocksAreMembers
<1>1. ASSUME NEW a \in Users, NEW w \in Users, MemberStep(a, w)
      PROVE  u \notin blocked /\ (role[u] \in JuniorRoles =>
               \A v \in Users \ {u} : role'[v] = role[v])
  BY <1>1 DEF MemberStep, ChangeRole, RemoveMember, Leave, DeleteMembership,
              Admitted, By
<1>2. ASSUME NEW a \in Users, NEW w \in Users, TransferStep(a, w)
      PROVE  u \notin blocked /\ (role[u] \in JuniorRoles =>
               \A v \in Users \ {u} :
                 role'[v] = role[v] \/ (transfer.to = u /\ transfer.from = v))
  BY <1>2 DEF TransferStep, InitiateTransfer, AcceptTransfer, SwapRoles,
              Admitted, By
<1>3. ASSUME NEW a \in Users, NEW w \in Users, InvitationStep(a, w)
      PROVE  /\ u \in blocked => UNCHANGED <<role, blocked, invitation, transfer>>
             /\ role[u] \in JuniorRoles =>
                  \A v \in Users \ {u} : role'[v] = role[v]
  BY <1>3 DEF InvitationStep, Invite, Invitable, CancelInvitation,
              AcceptInvitation, VerifyEmail, InvitationElapses, Admits, Join,
              Admitted, By
<1>4. ASSUME NEW w \in Users, CreateWorkspace(w) \/ BlockStep(w)
      PROVE  u \notin blocked /\ role[u] \notin JuniorRoles
  BY <1>4 DEF CreateWorkspace, BlockStep, BlockUser, UnblockUser, SetBlocked, By
<1>5. ~ (TenantStep \/ TransferElapses)
  BY DEF TenantStep, SuspendTenant, ReactivateTenant, SoftDeleteTenant,
         SetFlags, TransferElapses, By
<1>6. QED  BY <1>1, <1>2, <1>3, <1>4, <1>5, NextSteps

(* Blocked members change nothing, and those below ADMIN move nobody's     *)
(* role but by leaving or by taking the ownership they were offered.       *)
THEOREM StandingIsKept == Spec => StandingBoundsActions
<1>1. SInv /\ [Next]_vars => [StandingStep]_vars
  BY NextStands
<1>2. [][StandingStep]_vars => StandingBoundsActions
  BY PTL DEF StandingStep, StandingBoundsActions
<1>3. QED  BY <1>1, <1>2, InitSInv, StepSInv, PTL DEF Spec

-----------------------------------------------------------------------------
(***************************************************************************)
(* Two-factor authentication, for any number of concurrent requests,       *)
(* secrets, backup codes and login sessions.  How often a code is used is  *)
(* counted together with the requests that have passed its check and not   *)
(* committed (Counted); while requests come one at a time, the enrolment   *)
(* that is confirmed is the one the account holds (OneAtATime).            *)
(***************************************************************************)

(* While requests come one at a time, one that commits an enrolment finds  *)
(* the account as it has read it.                                          *)
OneAtATime ==
  ~disturbed =>
    /\ \A r, s \in InProgress : r = s
    /\ \A r \in Requests : At(r, "begin") => ~enabled
    /\ \A r \in Requests : At(r, "confirm") => req[r].secret = secret /\ secret # NoSecret
    /\ enabled => secret = proved /\ secret # NoSecret

(* The requests that will have used a backup code, or a pending token.     *)
WithBackup(b) == {r \in Requests : "backup" \in DOMAIN req[r] /\ req[r].backup = b}
WithToken(t) == {r \in Requests : "token" \in DOMAIN req[r] /\ req[r].token = t}

Bound == IF disturbed THEN Cardinality(Requests) ELSE 1

(* What is left of a code or token counts the logins it has completed and  *)
(* those it still may: it is taken at its first use.                       *)
Counted ==
  /\ \A b \in Backups :
       /\ rows[b] = "unused" => redeemed[b] = 0
       /\ redeemed[b] + Cardinality(WithBackup(b)) <= Bound
  /\ \A t \in Tokens :
       /\ pending[t] # "none" =>
            issued[t] = 0 /\ \A r \in WithToken(t) : ~At(r, "commit")
       /\ issued[t] + Cardinality(WithToken(t)) <= Bound

MfaIInv == MfaTypeOK /\ OneAtATime /\ Counted

-----------------------------------------------------------------------------
(* Types *)

LEMMA CallForms ==
  ASSUME NEW c \in Calls
  PROVE  /\ c.step \in {"idle", "begin", "confirm", "disable", "consume", "commit"}
         /\ c.step = "idle" => c = Idle
         /\ c.step = "begin" => c.secret \in Secrets
         /\ c.step = "confirm" => c.secret \in Secrets \cup {NoSecret}
         /\ c.step \in {"consume", "commit"} =>
              /\ "token" \in DOMAIN c /\ c.token \in Tokens
              /\ \/ /\ "age" \in DOMAIN c /\ "backup" \notin DOMAIN c
                    /\ c.secret \in Secrets /\ c.age \in Ages
                 \/ /\ "age" \notin DOMAIN c /\ "backup" \in DOMAIN c
                    /\ c.backup \in Backups
         /\ c.step \notin {"consume", "commit"} =>
              "token" \notin DOMAIN c /\ "backup" \notin DOMAIN c
  BY DEF Calls, Idle

LEMMA IdleIsCall == Idle \in Calls /\ Idle.step = "idle"
  BY DEF Calls, Idle

LEMMA MfaInitTyped == MfaInit => MfaTypeOK
<1> SUFFICES ASSUME MfaInit PROVE MfaTypeOK
  OBVIOUS
<1>1. faults \in 0..MaxFaults
  BY MfaBoundsAssumption DEF MfaInit
<1>2. {device, enforced, session, disturbed} \subseteq BOOLEAN
  BY DEF MfaInit
<1>3. redeemed \in [Backups -> Nat] /\ issued \in [Tokens -> Nat]
  BY DEF MfaInit
<1>4. QED  BY <1>1, <1>2, <1>3, IdleIsCall DEF MfaInit, MfaTypeOK

LEMMA BeginTyped ==
  ASSUME MfaTypeOK, NEW r \in Requests, NEW call \in Calls, Begin(r, call)
  PROVE  MfaTypeOK'
  BY DEF MfaTypeOK, Begin, accountVars, redisVars, ownerVars, pastVars

LEMMA ConsumedTyped ==
  ASSUME NEW c \in Calls, c.step = "consume"
  PROVE  [c EXCEPT !.step = "commit"] \in Calls
  BY DEF Calls, Idle

LEMMA MfaNextTyped == MfaTypeOK /\ [MfaNext]_mfaVars => MfaTypeOK'
<1> SUFFICES ASSUME MfaTypeOK, [MfaNext]_mfaVars PROVE MfaTypeOK'
  OBVIOUS
<1> USE DEF accountVars, redisVars, ownerVars, pastVars
<1>1. CASE UNCHANGED mfaVars
  BY <1>1 DEF mfaVars, MfaTypeOK
<1>2. ASSUME NEW r \in Requests, NEW s \in Secrets, BeginEnrollment(r, s) PROVE MfaTypeOK'
  <2>1. [step |-> "begin", secret |-> s] \in Calls
    BY DEF Calls
  <2>2. QED  BY <1>2, <2>1, BeginTyped DEF BeginEnrollment
<1>3. ASSUME NEW r \in Requests, Confirm(r) PROVE MfaTypeOK'
  <2>1. [step |-> "confirm", secret |-> app] \in Calls
    BY DEF Calls, MfaTypeOK
  <2>2. QED  BY <1>3, <2>1, BeginTyped DEF Confirm
<1>4. ASSUME NEW r \in Requests, Disable(r) PROVE MfaTypeOK'
  <2>1. [step |-> "disable"] \in Calls
    BY DEF Calls
  <2>2. QED  BY <1>4, <2>1, BeginTyped DEF Disable
<1>5. ASSUME NEW r \in Requests, NEW t \in Tokens, NEW age \in Ages, SubmitTotp(r, t, age)
      PROVE  MfaTypeOK'
  <2>1. [step |-> "consume", token |-> t, secret |-> secret, age |-> age] \in Calls
    BY <1>5 DEF Calls, SubmitTotp, MfaTypeOK
  <2>2. QED  BY <1>5, <2>1, BeginTyped DEF SubmitTotp
<1>6. ASSUME NEW r \in Requests, NEW t \in Tokens, NEW b \in Backups, SubmitBackup(r, t, b)
      PROVE  MfaTypeOK'
  <2>1. [step |-> "consume", token |-> t, backup |-> b] \in Calls
    BY DEF Calls
  <2>2. QED  BY <1>6, <2>1, BeginTyped DEF SubmitBackup
<1>7. ASSUME NEW r \in Requests, CommitBegin(r) PROVE MfaTypeOK'
  <2>1. req[r].secret \in Secrets
    BY <1>7, CallForms DEF CommitBegin, At, MfaTypeOK
  <2>2. QED
    BY <1>7, <2>1, IdleIsCall DEF CommitBegin, Done, ForgetCodes, MfaTypeOK
<1>8. ASSUME NEW r \in Requests, CommitConfirm(r) PROVE MfaTypeOK'
  <2>1. req[r].secret \in Secrets \cup {NoSecret}
    BY <1>8, CallForms DEF CommitConfirm, At, MfaTypeOK
  <2>2. rows' \in [Backups -> {"none", "unused", "used"}] /\ redeemed' \in [Backups -> Nat]
    BY <1>8 DEF CommitConfirm, MfaTypeOK
  <2>3. QED
    BY <1>8, <2>1, <2>2, IdleIsCall DEF CommitConfirm, Done, MfaTypeOK
<1>9. ASSUME NEW r \in Requests, CommitDisable(r) PROVE MfaTypeOK'
  BY <1>9, IdleIsCall DEF CommitDisable, Done, ForgetCodes, MfaTypeOK
<1>10. ASSUME NEW r \in Requests, Consume(r) PROVE MfaTypeOK'
  <2>1. req[r] \in Calls /\ req[r].step = "consume" /\ req[r].token \in Tokens
        /\ (IsTotp(r) => req[r].age \in Ages)
    BY <1>10, CallForms DEF Consume, At, IsTotp, MfaTypeOK
  <2>2. used' \in Uses \cup {NotUsed}
    BY <1>10, <2>1 DEF Consume, Uses, Ticks, MfaTypeOK
  <2>3. req' \in [Requests -> Calls]
    BY <1>10, <2>1, ConsumedTyped DEF Consume, MfaTypeOK
  <2>4. pending' \in [Tokens -> {"none", "verify", "setup"}]
    BY <1>10 DEF Consume, Consumed, MfaTypeOK
  <2>5. QED  BY <1>10, <2>2, <2>3, <2>4 DEF Consume, MfaTypeOK
<1>11. ASSUME NEW r \in Requests, NEW trust \in BOOLEAN, CommitVerify(r, trust)
       PROVE  MfaTypeOK'
  <2>1. rows' \in [Backups -> {"none", "unused", "used"}] /\ redeemed' \in [Backups -> Nat]
    BY <1>11 DEF CommitVerify, MfaTypeOK
  <2>2. issued' \in [Tokens -> Nat]
    <3>1. req[r].token \in Tokens
      BY <1>11, CallForms DEF CommitVerify, At, MfaTypeOK
    <3>2. issued' = [issued EXCEPT ![req[r].token] = issued[req[r].token] + 1]
      BY <1>11 DEF CommitVerify
    <3>3. QED  BY <3>1, <3>2 DEF MfaTypeOK
  <2>3. {device', enforced', session', disturbed'} \subseteq BOOLEAN
    <3>1. device' \in BOOLEAN
      BY <1>11 DEF CommitVerify
    <3>2. {enforced', session', disturbed'} \subseteq BOOLEAN
      BY <1>11 DEF CommitVerify, Done, MfaTypeOK
    <3>3. QED  BY <3>1, <3>2
  <2>4. QED
    BY <1>11, <2>1, <2>2, <2>3, IdleIsCall DEF CommitVerify, Done, MfaTypeOK
<1>12. ASSUME NEW r \in Requests, BackupReplaced(r) PROVE MfaTypeOK'
  BY <1>12, IdleIsCall DEF BackupReplaced, Done, MfaTypeOK
<1>13. ASSUME NEW r \in Requests, Fail(r) PROVE MfaTypeOK'
  BY <1>13, IdleIsCall, MfaBoundsAssumption DEF Fail, MfaTypeOK
<1>14. ASSUME NEW t \in Tokens, Login(t) PROVE MfaTypeOK'
  <2>1. pending' \in [Tokens -> {"none", "verify", "setup"}] /\ session' \in BOOLEAN
    BY <1>14 DEF Login, MfaTypeOK
  <2>2. QED  BY <1>14, <2>1 DEF Login, MfaTypeOK
<1>15. ASSUME NEW t \in Tokens, PendingExpires(t) PROVE MfaTypeOK'
  BY <1>15 DEF PendingExpires, MfaTypeOK
<1>16. CASE OAuthLogin
  BY <1>16 DEF OAuthLogin, MfaTypeOK
<1>17. ASSUME NEW new \in BOOLEAN, SetEnforcement(new) PROVE MfaTypeOK'
  BY <1>17 DEF SetEnforcement, MfaTypeOK
<1>18. CASE DeviceExpires \/ SessionEnds
  BY <1>18 DEF DeviceExpires, SessionEnds, MfaTypeOK
<1>19. CASE Tick
  <2>1. used' \in Uses \cup {NotUsed}
    <3>1. CASE used = NotUsed
      BY <1>19, <3>1 DEF Tick, Lives, Older, NotUsed
    <3>2. CASE used \in Uses
      <4>1. Older(used).age = used.age + 1 /\ Older(used).left = used.left - 1
        BY <3>2 DEF Older, Uses
      <4>2. Lives(Older(used)) => used.age + 1 \in Ages /\ used.left - 1 \in 1..Ticks
        BY <3>2, <4>1 DEF Lives, Uses, Ticks
      <4>3. Lives(Older(used)) => Older(used) \in Uses
        BY <3>2, <4>2 DEF Older, Uses
      <4>4. QED  BY <1>19, <4>3 DEF Tick
    <3>3. QED  BY <3>1, <3>2 DEF MfaTypeOK
  <2>2. QED  BY <1>19, <2>1 DEF Tick, MfaTypeOK
<1>20. QED
  BY <1>1, <1>2, <1>3, <1>4, <1>5, <1>6, <1>7, <1>8, <1>9, <1>10, <1>11, <1>12, <1>13,
     <1>14, <1>15, <1>16, <1>17, <1>18, <1>19 DEF MfaNext, Submit, Step

(* The account, its pending logins and the requests keep their form, for   *)
(* any number of requests, secrets, codes and tokens.                      *)
THEOREM MfaIsTyped == MfaSpec => []MfaTypeOK
  BY MfaInitTyped, MfaNextTyped, PTL DEF MfaSpec

-----------------------------------------------------------------------------
(* One request at a time *)

LEMMA BeginIsAlone ==
  ASSUME MfaTypeOK, OneAtATime, NEW r \in Requests, NEW call \in Calls, Begin(r, call),
         call.step = "begin" => ~enabled,
         call.step = "confirm" => call.secret = secret /\ secret # NoSecret
  PROVE  OneAtATime'
<1> SUFFICES ASSUME ~disturbed'
             PROVE  /\ \A s, u \in InProgress' : s = u
                    /\ \A s \in Requests : At(s, "begin")' => ~enabled'
                    /\ \A s \in Requests : At(s, "confirm")' =>
                         req'[s].secret = secret' /\ secret' # NoSecret
                    /\ enabled' => secret' = proved' /\ secret' # NoSecret
  BY DEF OneAtATime
<1>1. ~disturbed /\ InProgress = {}
  BY DEF Begin
<1>2. req'[r] = call /\ \A s \in Requests \ {r} : req'[s] = req[s] /\ req[s].step = "idle"
  BY <1>1 DEF Begin, MfaTypeOK, InProgress, At
<1>3. UNCHANGED <<enabled, secret, proved>>
  BY DEF Begin, accountVars, pastVars
<1>4. QED  BY <1>1, <1>2, <1>3 DEF OneAtATime, InProgress, At

LEMMA EndIsAlone ==
  ASSUME MfaTypeOK, OneAtATime, NEW r \in InProgress,
         req' = [req EXCEPT ![r] = Idle], UNCHANGED disturbed,
         ~disturbed /\ enabled' => secret' = proved' /\ secret' # NoSecret
  PROVE  OneAtATime'
<1> SUFFICES ASSUME ~disturbed'
             PROVE  \A s \in Requests : req'[s].step = "idle"
  BY DEF OneAtATime, InProgress, At
<1>1. \A s \in Requests \ {r} : req'[s] = req[s] /\ req[s].step = "idle"
  BY DEF OneAtATime, InProgress, At, MfaTypeOK
<1>2. r \in Requests /\ req'[r] = Idle
  BY DEF InProgress, MfaTypeOK
<1>3. QED  BY <1>1, <1>2, IdleIsCall

LEMMA OneAtATimeStays ==
  ASSUME MfaTypeOK, OneAtATime, [MfaNext]_mfaVars
  PROVE  OneAtATime'
<1> USE DEF accountVars, redisVars, ownerVars, pastVars
<1>1. ASSUME UNCHANGED <<req, enabled, secret, proved, disturbed>> PROVE OneAtATime'
  BY <1>1 DEF OneAtATime, InProgress, At
<1>2. ASSUME NEW r \in Requests, NEW s \in Secrets, BeginEnrollment(r, s) PROVE OneAtATime'
  <2>1. [step |-> "begin", secret |-> s] \in Calls
    BY DEF Calls
  <2>2. QED  BY <1>2, <2>1, BeginIsAlone DEF BeginEnrollment
<1>3. ASSUME NEW r \in Requests, Confirm(r) PROVE OneAtATime'
  <2>1. [step |-> "confirm", secret |-> app] \in Calls
    BY DEF Calls, MfaTypeOK
  <2>2. QED  BY <1>3, <2>1, BeginIsAlone DEF Confirm, Confirmable
<1>4. ASSUME NEW r \in Requests, Disable(r) PROVE OneAtATime'
  <2>1. [step |-> "disable"] \in Calls
    BY DEF Calls
  <2>2. QED  BY <1>4, <2>1, BeginIsAlone DEF Disable
<1>5. ASSUME NEW r \in Requests, NEW t \in Tokens, NEW age \in Ages, SubmitTotp(r, t, age)
      PROVE  OneAtATime'
  <2>1. [step |-> "consume", token |-> t, secret |-> secret, age |-> age] \in Calls
    BY <1>5 DEF Calls, SubmitTotp, MfaTypeOK
  <2>2. QED  BY <1>5, <2>1, BeginIsAlone DEF SubmitTotp
<1>6. ASSUME NEW r \in Requests, NEW t \in Tokens, NEW b \in Backups, SubmitBackup(r, t, b)
      PROVE  OneAtATime'
  <2>1. [step |-> "consume", token |-> t, backup |-> b] \in Calls
    BY DEF Calls
  <2>2. QED  BY <1>6, <2>1, BeginIsAlone DEF SubmitBackup
<1>7. ASSUME NEW r \in Requests, CommitBegin(r) PROVE OneAtATime'
  <2>1. ~disturbed => ~enabled'
    BY <1>7 DEF CommitBegin, OneAtATime
  <2>2. QED  BY <1>7, <2>1, EndIsAlone DEF CommitBegin, Done, InProgress, At
<1>8. ASSUME NEW r \in Requests, CommitConfirm(r) PROVE OneAtATime'
  <2>1. ~disturbed => secret' = proved' /\ secret' # NoSecret
    BY <1>8 DEF CommitConfirm, OneAtATime
  <2>2. QED  BY <1>8, <2>1, EndIsAlone DEF CommitConfirm, Done, InProgress, At
<1>9. ASSUME NEW r \in Requests, CommitDisable(r) PROVE OneAtATime'
  BY <1>9, EndIsAlone DEF CommitDisable, Done, InProgress, At
<1>10. ASSUME NEW r \in Requests, Consume(r) PROVE OneAtATime'
  <2>1. /\ req'[r].step = "commit" /\ req[r].step = "consume"
        /\ \A s \in Requests \ {r} : req'[s] = req[s]
        /\ UNCHANGED <<enabled, secret, proved, disturbed>>
    <3>1. req[r] \in Calls /\ req[r].step = "consume"
      BY <1>10 DEF Consume, At, MfaTypeOK
    <3>2. [req[r] EXCEPT !.step = "commit"].step = "commit"
      BY <3>1 DEF Calls, Idle
    <3>3. QED  BY <1>10, <3>1, <3>2 DEF Consume, MfaTypeOK
  <2>2. QED  BY <2>1 DEF OneAtATime, InProgress, At
<1>11. ASSUME NEW r \in Requests, NEW trust \in BOOLEAN, CommitVerify(r, trust)
       PROVE  OneAtATime'
  <2>1. UNCHANGED <<enabled, secret, proved, disturbed>> /\ r \in InProgress
        /\ req' = [req EXCEPT ![r] = Idle]
    BY <1>11 DEF CommitVerify, Done, InProgress, At
  <2>2. QED  BY <2>1, EndIsAlone DEF OneAtATime
<1>12. ASSUME NEW r \in Requests, BackupReplaced(r) \/ Fail(r) PROVE OneAtATime'
  <2>1. UNCHANGED <<enabled, secret, proved, disturbed>> /\ r \in InProgress
        /\ req' = [req EXCEPT ![r] = Idle]
    BY <1>12 DEF BackupReplaced, Fail, Done, InProgress, At
  <2>2. QED  BY <2>1, EndIsAlone DEF OneAtATime
<1>13. ASSUME NEW t \in Tokens, Login(t) \/ PendingExpires(t) PROVE OneAtATime'
  BY <1>1, <1>13 DEF Login, PendingExpires
<1>14. CASE OAuthLogin \/ DeviceExpires \/ SessionEnds \/ Tick
  BY <1>1, <1>14 DEF OAuthLogin, DeviceExpires, SessionEnds, Tick
<1>15. ASSUME NEW new \in BOOLEAN, SetEnforcement(new) PROVE OneAtATime'
  BY <1>1, <1>15 DEF SetEnforcement
<1>16. CASE UNCHANGED mfaVars
  BY <1>1, <1>16 DEF mfaVars
<1>17. QED
  BY <1>2, <1>3, <1>4, <1>5, <1>6, <1>7, <1>8, <1>9, <1>10, <1>11, <1>12, <1>13, <1>14,
     <1>15, <1>16 DEF MfaNext, Submit, Step

-----------------------------------------------------------------------------
(* What a code or a token completes *)

LEMMA RequestsAreFinite ==
  /\ \A S \in SUBSET Requests :
       IsFiniteSet(S) /\ Cardinality(S) \in Nat /\ Cardinality(S) <= Cardinality(Requests)
  /\ Cardinality(Requests) \in Nat
  /\ \A r \in Requests : Cardinality({r}) = 1 /\ 1 <= Cardinality(Requests)
<1>1. \A S \in SUBSET Requests :
        IsFiniteSet(S) /\ Cardinality(S) \in Nat /\ Cardinality(S) <= Cardinality(Requests)
  BY RequestsAssumption, FS_Subset, FS_CardinalityType
<1>2. Cardinality(Requests) \in Nat
  BY RequestsAssumption, FS_CardinalityType
<1>3. \A r \in Requests : Cardinality({r}) = 1
  BY FS_Singleton
<1>4. \A r \in Requests : 1 <= Cardinality(Requests)
  <2>1. ASSUME NEW r \in Requests PROVE 1 <= Cardinality(Requests)
    <3>1. {r} \in SUBSET Requests
      OBVIOUS
    <3>2. Cardinality({r}) <= Cardinality(Requests)
      BY <1>1, <3>1
    <3>3. QED  BY <1>3, <3>2
  <2>2. QED  BY <2>1
<1>5. QED  BY <1>1, <1>2, <1>3, <1>4

(* A request that begins has room under the bound.                         *)
LEMMA BeginCounts ==
  ASSUME MfaTypeOK, NEW r \in Requests, NEW call, Begin(r, call)
  PROVE  /\ Bound \in Nat /\ Bound' \in Nat /\ Bound <= Bound'
         /\ \A S \in SUBSET InProgress : Cardinality(S \cup {r}) <= Bound'
<1>1. disturbed' = (disturbed \/ InProgress # {})
  BY DEF Begin
<1>2. Bound \in Nat /\ Bound' \in Nat /\ Bound <= Bound'
  <2>1. disturbed => disturbed'
    BY <1>1
  <2>2. Cardinality(Requests) \in Nat /\ 1 <= Cardinality(Requests)
    BY RequestsAreFinite
  <2>3. QED  BY <2>1, <2>2 DEF Bound
<1>3. ASSUME NEW S \in SUBSET InProgress PROVE Cardinality(S \cup {r}) <= Bound'
  <2>1. S \cup {r} \in SUBSET Requests
    BY DEF InProgress
  <2>2. CASE disturbed'
    BY <2>1, <2>2, RequestsAreFinite DEF Bound
  <2>3. CASE ~disturbed'
    <3>1. S = {}
      BY <1>1, <2>3
    <3>2. S \cup {r} = {r}
      BY <3>1
    <3>3. QED  BY <2>3, <3>2, RequestsAreFinite DEF Bound
  <2>4. QED  BY <2>2, <2>3
<1>4. QED  BY <1>2, <1>3

(* The requests with a code or a token are in progress.                    *)
LEMMA UsersInProgress ==
  MfaTypeOK => /\ \A b : WithBackup(b) \in SUBSET InProgress
               /\ \A t : WithToken(t) \in SUBSET InProgress
  BY CallForms DEF MfaTypeOK, WithBackup, WithToken, InProgress, At

(* A submission counts with the code and the token it names.               *)
LEMMA BeginKeepsCounts ==
  ASSUME MfaTypeOK, Counted, NEW r \in Requests, NEW call \in Calls, Begin(r, call),
         call.step # "commit",
         "backup" \in DOMAIN call => rows[call.backup] = "unused",
         "token" \in DOMAIN call => pending[call.token] # "none"
  PROVE  Counted'
<1>1. UNCHANGED <<rows, redeemed, pending, issued>>
  BY DEF Begin, accountVars, redisVars, pastVars
<1>2. req'[r] = call /\ (\A s \in Requests \ {r} : req'[s] = req[s]) /\ req[r] = Idle
  BY CallForms DEF Begin, MfaTypeOK, At
<1>3. ASSUME NEW b \in Backups
      PROVE  /\ rows[b] = "unused" => redeemed[b] = 0
             /\ redeemed[b] + Cardinality(WithBackup(b)') <= Bound'
  <2>1. /\ rows[b] = "unused" => redeemed[b] = 0
        /\ redeemed[b] + Cardinality(WithBackup(b)) <= Bound /\ redeemed[b] \in Nat
    BY DEF Counted, MfaTypeOK
  <2>2. WithBackup(b) \in SUBSET InProgress /\ Cardinality(WithBackup(b)) \in Nat
    BY UsersInProgress, RequestsAreFinite DEF WithBackup
  <2>3. WithBackup(b)' = IF "backup" \in DOMAIN call /\ call.backup = b
                         THEN WithBackup(b) \cup {r} ELSE WithBackup(b)
    BY <1>2 DEF WithBackup, Idle
  <2>4. CASE "backup" \in DOMAIN call /\ call.backup = b
    <3>1. redeemed[b] = 0
      BY <2>1, <2>4
    <3>2. Cardinality(WithBackup(b)') <= Bound'
      BY <2>2, <2>3, <2>4, BeginCounts
    <3>3. Cardinality(WithBackup(b)') \in Nat
      BY <2>2, <2>3, <2>4, RequestsAreFinite DEF InProgress
    <3>4. QED  BY <2>1, <3>1, <3>2, <3>3
  <2>5. CASE ~("backup" \in DOMAIN call /\ call.backup = b)
    BY <2>1, <2>2, <2>3, <2>5, BeginCounts
  <2>6. QED  BY <2>4, <2>5
<1>4. ASSUME NEW t \in Tokens
      PROVE  /\ pending[t] # "none" =>
                  issued[t] = 0 /\ \A s \in WithToken(t)' : ~At(s, "commit")'
             /\ issued[t] + Cardinality(WithToken(t)') <= Bound'
  <2>1. /\ pending[t] # "none" =>
             issued[t] = 0 /\ \A s \in WithToken(t) : ~At(s, "commit")
        /\ issued[t] + Cardinality(WithToken(t)) <= Bound /\ issued[t] \in Nat
    BY DEF Counted, MfaTypeOK
  <2>2. WithToken(t) \in SUBSET InProgress /\ Cardinality(WithToken(t)) \in Nat
    BY UsersInProgress, RequestsAreFinite DEF WithToken
  <2>3. WithToken(t)' = IF "token" \in DOMAIN call /\ call.token = t
                        THEN WithToken(t) \cup {r} ELSE WithToken(t)
    BY <1>2 DEF WithToken, Idle
  <2>4. pending[t] # "none" => \A s \in WithToken(t)' : ~At(s, "commit")'
    BY <1>2, <2>1 DEF WithToken, At
  <2>5. CASE "token" \in DOMAIN call /\ call.token = t
    <3>1. issued[t] = 0
      BY <2>1, <2>5
    <3>2. Cardinality(WithToken(t)') <= Bound'
      BY <2>2, <2>3, <2>5, BeginCounts
    <3>3. Cardinality(WithToken(t)') \in Nat
      BY <2>2, <2>3, <2>5, RequestsAreFinite DEF InProgress
    <3>4. QED  BY <2>1, <2>4, <3>1, <3>2, <3>3
  <2>6. CASE ~("token" \in DOMAIN call /\ call.token = t)
    BY <2>1, <2>2, <2>3, <2>4, <2>6, BeginCounts
  <2>7. QED  BY <2>5, <2>6
<1>5. QED  BY <1>1, <1>3, <1>4 DEF Counted

LEMMA EndCounts ==
  ASSUME NEW S \in SUBSET Requests, NEW r
  PROVE  /\ Cardinality(S \ {r}) \in Nat /\ Cardinality(S \ {r}) <= Cardinality(S)
         /\ r \in S => Cardinality(S \ {r}) + 1 = Cardinality(S)
<1>1. IsFiniteSet(S) /\ Cardinality(S) \in Nat /\ Cardinality(S \ {r}) \in Nat
  BY RequestsAreFinite
<1>2. Cardinality(S \ {r}) = IF r \in S THEN Cardinality(S) - 1 ELSE Cardinality(S)
  BY <1>1, FS_RemoveElement
<1>3. QED  BY <1>1, <1>2

(* A request that ends takes its code and token with it, and may count     *)
(* them as used.                                                           *)
LEMMA EndKeepsCounts ==
  ASSUME MfaTypeOK, Counted, NEW r \in Requests, req' = [req EXCEPT ![r] = Idle],
         UNCHANGED disturbed,
         \A b \in Backups :
           \/ redeemed'[b] = redeemed[b] /\ (rows'[b] = "unused" => rows[b] = "unused")
           \/ redeemed'[b] = redeemed[b] + 1 /\ r \in WithBackup(b) /\ rows'[b] # "unused"
           \/ redeemed'[b] = 0,
         \A t \in Tokens :
           \/ issued'[t] = issued[t] /\ pending'[t] = pending[t]
           \/ issued'[t] = issued[t] + 1 /\ r \in WithToken(t) /\ pending'[t] = "none"
  PROVE  Counted'
<1>1. req'[r] = Idle /\ (\A s \in Requests \ {r} : req'[s] = req[s])
  BY DEF MfaTypeOK
<1>2. Bound' = Bound /\ Bound \in Nat
  BY RequestsAreFinite DEF Bound
<1>3. ASSUME NEW b \in Backups
      PROVE  /\ rows'[b] = "unused" => redeemed'[b] = 0
             /\ redeemed'[b] + Cardinality(WithBackup(b)') <= Bound
  <2>1. /\ rows[b] = "unused" => redeemed[b] = 0
        /\ redeemed[b] + Cardinality(WithBackup(b)) <= Bound /\ redeemed[b] \in Nat
    BY DEF Counted, MfaTypeOK
  <2>2. PICK S \in SUBSET Requests : S = WithBackup(b)
    BY DEF WithBackup
  <2>3. WithBackup(b)' = S \ {r}
    BY <1>1, <2>2 DEF WithBackup, Idle
  <2>4. Cardinality(S) \in Nat
    BY RequestsAreFinite
  <2>5. QED  BY <1>2, <2>1, <2>2, <2>3, <2>4, EndCounts
<1>4. ASSUME NEW t \in Tokens
      PROVE  /\ pending'[t] # "none" =>
                  issued'[t] = 0 /\ \A s \in WithToken(t)' : ~At(s, "commit")'
             /\ issued'[t] + Cardinality(WithToken(t)') <= Bound
  <2>1. /\ pending[t] # "none" =>
             issued[t] = 0 /\ \A s \in WithToken(t) : ~At(s, "commit")
        /\ issued[t] + Cardinality(WithToken(t)) <= Bound /\ issued[t] \in Nat
    BY DEF Counted, MfaTypeOK
  <2>2. PICK S \in SUBSET Requests : S = WithToken(t)
    BY DEF WithToken
  <2>3. WithToken(t)' = S \ {r}
    BY <1>1, <2>2 DEF WithToken, Idle
  <2>4. Cardinality(S) \in Nat
    BY RequestsAreFinite
  <2>5. \A s \in S \ {r} : At(s, "commit")' = At(s, "commit")
    BY <1>1 DEF At
  <2>6. issued'[t] + Cardinality(S \ {r}) <= Bound
    BY <1>2, <2>1, <2>2, <2>4, EndCounts
  <2>7. pending'[t] # "none" => issued'[t] = 0 /\ \A s \in S \ {r} : ~At(s, "commit")'
    BY <2>1, <2>2, <2>5
  <2>8. QED  BY <2>3, <2>6, <2>7
<1>5. QED  BY <1>2, <1>3, <1>4 DEF Counted

(* Without a request, a token is dropped, or made while no request has it. *)
LEMMA QuietKeepsCounts ==
  ASSUME MfaTypeOK, Counted, UNCHANGED <<rows, redeemed, req, disturbed>>,
         \A t \in Tokens :
           \/ issued'[t] = issued[t] /\ (pending'[t] # "none" => pending'[t] = pending[t])
           \/ issued'[t] = 0 /\ WithToken(t) = {}
  PROVE  Counted'
<1>1. Bound' = Bound /\ Bound \in Nat
  BY RequestsAreFinite DEF Bound
<1>2. \A b \in Backups : WithBackup(b)' = WithBackup(b)
  BY DEF WithBackup
<1>3. ASSUME NEW t \in Tokens
      PROVE  /\ pending'[t] # "none" =>
                  issued'[t] = 0 /\ \A s \in WithToken(t)' : ~At(s, "commit")'
             /\ issued'[t] + Cardinality(WithToken(t)') <= Bound
  <2>1. WithToken(t)' = WithToken(t) /\ \A s : At(s, "commit")' = At(s, "commit")
    BY DEF WithToken, At
  <2>2. CASE WithToken(t) = {} /\ issued'[t] = 0
    <3>1. Cardinality(WithToken(t)') = 0 /\ 0 <= Bound
      BY <2>1, <2>2, FS_EmptySet, RequestsAreFinite DEF Bound
    <3>2. QED  BY <2>1, <2>2, <3>1
  <2>3. CASE issued'[t] = issued[t] /\ (pending'[t] # "none" => pending'[t] = pending[t])
    BY <1>1, <2>1, <2>3 DEF Counted
  <2>4. QED  BY <2>2, <2>3
<1>4. QED  BY <1>1, <1>2, <1>3 DEF Counted

LEMMA CountedStays ==
  ASSUME MfaTypeOK, Counted, [MfaNext]_mfaVars
  PROVE  Counted'
<1> USE DEF accountVars, redisVars, ownerVars, pastVars
<1>1. ASSUME NEW r \in Requests, NEW s \in Secrets, BeginEnrollment(r, s) PROVE Counted'
  <2> DEFINE call == [step |-> "begin", secret |-> s]
  <2>1. call \in Calls /\ "backup" \notin DOMAIN call /\ "token" \notin DOMAIN call
    BY DEF Calls
  <2>2. QED  BY <1>1, <2>1, BeginKeepsCounts DEF BeginEnrollment
<1>2. ASSUME NEW r \in Requests, Confirm(r) PROVE Counted'
  <2> DEFINE call == [step |-> "confirm", secret |-> app]
  <2>1. call \in Calls /\ "backup" \notin DOMAIN call /\ "token" \notin DOMAIN call
    BY DEF Calls, MfaTypeOK
  <2>2. QED  BY <1>2, <2>1, BeginKeepsCounts DEF Confirm
<1>3. ASSUME NEW r \in Requests, Disable(r) PROVE Counted'
  <2> DEFINE call == [step |-> "disable"]
  <2>1. call \in Calls /\ "backup" \notin DOMAIN call /\ "token" \notin DOMAIN call
    BY DEF Calls
  <2>2. QED  BY <1>3, <2>1, BeginKeepsCounts DEF Disable
<1>4. ASSUME NEW r \in Requests, NEW t \in Tokens, NEW age \in Ages, SubmitTotp(r, t, age)
      PROVE  Counted'
  <2> DEFINE call == [step |-> "consume", token |-> t, secret |-> secret, age |-> age]
  <2>1. call \in Calls /\ "backup" \notin DOMAIN call /\ call.token = t
    BY <1>4 DEF Calls, SubmitTotp, MfaTypeOK
  <2>2. QED  BY <1>4, <2>1, BeginKeepsCounts DEF SubmitTotp
<1>5. ASSUME NEW r \in Requests, NEW t \in Tokens, NEW b \in Backups, SubmitBackup(r, t, b)
      PROVE  Counted'
  <2> DEFINE call == [step |-> "consume", token |-> t, backup |-> b]
  <2>1. call \in Calls /\ call.backup = b /\ call.token = t
    BY DEF Calls
  <2>2. QED  BY <1>5, <2>1, BeginKeepsCounts DEF SubmitBackup, BackupValid
<1>6. ASSUME NEW r \in Requests, CommitBegin(r) \/ CommitDisable(r) PROVE Counted'
  <2>1. \A b \in Backups : redeemed'[b] = redeemed[b] /\ (rows'[b] = "unused" => rows[b] = "unused")
    BY <1>6 DEF CommitBegin, CommitDisable
  <2>2. QED  BY <1>6, <2>1, EndKeepsCounts DEF CommitBegin, CommitDisable, Done
<1>7. ASSUME NEW r \in Requests, CommitConfirm(r) PROVE Counted'
  <2>1. PICK new \in SUBSET Backups :
          /\ rows' = [b \in Backups |-> IF b \in new THEN "unused" ELSE "none"]
          /\ redeemed' = [b \in Backups |-> IF b \in new THEN 0 ELSE redeemed[b]]
    BY <1>7 DEF CommitConfirm
  <2>2. \A b \in Backups : \/ redeemed'[b] = redeemed[b] /\ rows'[b] # "unused"
                           \/ redeemed'[b] = 0
    BY <2>1
  <2>3. QED  BY <1>7, <2>2, EndKeepsCounts DEF CommitConfirm, Done
<1>8. ASSUME NEW r \in Requests, Consume(r) PROVE Counted'
  <2>1. req[r] \in Calls /\ req[r].step = "consume"
    BY <1>8 DEF Consume, At, MfaTypeOK
  <2>2. PICK t \in Tokens : t = req[r].token /\ "token" \in DOMAIN req[r]
    BY <2>1, CallForms
  <2>3. /\ DOMAIN req'[r] = DOMAIN req[r] /\ req'[r].token = t
        /\ "backup" \in DOMAIN req[r] => req'[r].backup = req[r].backup
    <3>1. req'[r] = [req[r] EXCEPT !.step = "commit"]
      BY <1>8 DEF Consume, MfaTypeOK
    <3>2. QED  BY <2>1, <2>2, <3>1 DEF Calls, Idle
  <2>4. \A s \in Requests \ {r} : req'[s] = req[s]
    BY <1>8 DEF Consume, MfaTypeOK
  <2>5. /\ \A b : WithBackup(b)' = WithBackup(b)
        /\ \A u : WithToken(u)' = WithToken(u)
    BY <2>2, <2>3, <2>4 DEF WithBackup, WithToken
  <2>6. pending'[t] = "none" /\ \A u \in Tokens \ {t} : pending'[u] = pending[u]
    BY <1>8, <2>2 DEF Consume, Consumed, MfaTypeOK
  <2>7. ASSUME NEW u \in Tokens, pending'[u] # "none"
        PROVE  issued[u] = 0 /\ \A s \in WithToken(u) : ~At(s, "commit")'
    <3>1. u # t /\ pending[u] # "none"
      BY <2>6, <2>7
    <3>2. r \notin WithToken(u)
      BY <2>2, <3>1 DEF WithToken
    <3>3. QED  BY <2>4, <3>1, <3>2 DEF Counted, WithToken, At
  <2>8. UNCHANGED <<rows, redeemed, issued>> /\ Bound' = Bound
    BY <1>8 DEF Consume, Bound
  <2>9. QED  BY <2>5, <2>7, <2>8 DEF Counted
<1>9. ASSUME NEW r \in Requests, NEW trust \in BOOLEAN, CommitVerify(r, trust)
       PROVE  Counted'
  <2>1. req[r] \in Calls /\ req[r].step = "commit"
    BY <1>9 DEF CommitVerify, At, MfaTypeOK
  <2>2. PICK t \in Tokens : t = req[r].token /\ "token" \in DOMAIN req[r]
    BY <2>1, CallForms
  <2>3. r \in WithToken(t) /\ At(r, "commit")
    BY <2>1, <2>2 DEF WithToken, At
  <2>4. pending[t] = "none"
    BY <2>3 DEF Counted
  <2>5. issued'[t] = issued[t] + 1 /\ \A u \in Tokens \ {t} : issued'[u] = issued[u]
    <3>1. issued' = [issued EXCEPT ![t] = issued[t] + 1]
      BY <1>9, <2>2 DEF CommitVerify
    <3>2. QED  BY <3>1 DEF MfaTypeOK
  <2>6. \A b \in Backups :
          \/ redeemed'[b] = redeemed[b] /\ rows'[b] = rows[b]
          \/ redeemed'[b] = redeemed[b] + 1 /\ r \in WithBackup(b) /\ rows'[b] # "unused"
    <3>1. CASE IsTotp(r)
      <4>1. UNCHANGED <<rows, redeemed>>
        BY <1>9, <3>1 DEF CommitVerify
      <4>2. QED  BY <4>1
    <3>2. CASE ~IsTotp(r)
      <4>1. PICK c \in Backups : c = req[r].backup /\ "backup" \in DOMAIN req[r]
        BY <2>1, <3>2, CallForms DEF IsTotp
      <4>2. /\ rows' = [rows EXCEPT ![c] = "used"]
            /\ redeemed' = [redeemed EXCEPT ![c] = redeemed[c] + 1]
        BY <1>9, <3>2, <4>1 DEF CommitVerify
      <4>3. QED  BY <4>1, <4>2 DEF MfaTypeOK, WithBackup
    <3>3. QED  BY <3>1, <3>2
  <2>7. UNCHANGED <<pending, disturbed>> /\ req' = [req EXCEPT ![r] = Idle]
    BY <1>9 DEF CommitVerify, Done
  <2>8. \A u \in Tokens :
           \/ issued'[u] = issued[u] /\ pending'[u] = pending[u]
           \/ issued'[u] = issued[u] + 1 /\ r \in WithToken(u) /\ pending'[u] = "none"
    BY <2>3, <2>4, <2>5, <2>7
  <2>9. QED  BY <2>6, <2>7, <2>8, EndKeepsCounts
<1>10. ASSUME NEW r \in Requests, BackupReplaced(r) \/ Fail(r) PROVE Counted'
  <2>1. UNCHANGED <<rows, redeemed, pending, issued, disturbed>>
        /\ req' = [req EXCEPT ![r] = Idle]
    BY <1>10 DEF BackupReplaced, Fail, Done
  <2>2. QED  BY <2>1, EndKeepsCounts
<1>11. ASSUME NEW t \in Tokens, Login(t) PROVE Counted'
  <2>1. WithToken(t) = {}
    <3>1. t \notin HeldTokens
      BY <1>11 DEF Login
    <3>2. QED  BY <3>1, UsersInProgress DEF HeldTokens, WithToken
  <2>2. issued'[t] = 0 /\ \A u \in Tokens \ {t} : issued'[u] = issued[u]
    BY <1>11 DEF Login, MfaTypeOK
  <2>3. \A u \in Tokens \ {t} : pending'[u] = pending[u]
    BY <1>11 DEF Login, MfaTypeOK
  <2>4. UNCHANGED <<rows, redeemed, req, disturbed>>
    BY <1>11 DEF Login
  <2>5. QED  BY <2>1, <2>2, <2>3, <2>4, QuietKeepsCounts
<1>12. ASSUME NEW t \in Tokens, PendingExpires(t) PROVE Counted'
  <2>1. \A u \in Tokens : pending'[u] # "none" => pending'[u] = pending[u]
    BY <1>12 DEF PendingExpires, MfaTypeOK
  <2>2. QED  BY <1>12, <2>1, QuietKeepsCounts DEF PendingExpires
<1>13. CASE OAuthLogin \/ DeviceExpires \/ SessionEnds \/ Tick
  BY <1>13, QuietKeepsCounts DEF OAuthLogin, DeviceExpires, SessionEnds, Tick
<1>14. ASSUME NEW new \in BOOLEAN, SetEnforcement(new) PROVE Counted'
  BY <1>14, QuietKeepsCounts DEF SetEnforcement
<1>15. CASE UNCHANGED mfaVars
  BY <1>15, QuietKeepsCounts DEF mfaVars
<1>16. QED
  BY <1>1, <1>2, <1>3, <1>4, <1>5, <1>6, <1>7, <1>8, <1>9, <1>10, <1>11, <1>12, <1>13,
     <1>14, <1>15 DEF MfaNext, Submit, Step

-----------------------------------------------------------------------------
(* The properties *)

LEMMA MfaInvariant == MfaSpec => []MfaIInv
<1>1. MfaInit => MfaIInv
  <2> SUFFICES ASSUME MfaInit PROVE MfaIInv
    OBVIOUS
  <2>1. OneAtATime
    BY DEF MfaInit, OneAtATime, InProgress, At, Idle
  <2>2. \A x : WithBackup(x) = {} /\ WithToken(x) = {}
    BY DEF MfaInit, WithBackup, WithToken, Idle
  <2>3. Counted
    BY <2>2, FS_EmptySet DEF MfaInit, Counted, Bound
  <2>4. QED  BY <2>1, <2>3, MfaInitTyped DEF MfaIInv
<1>2. MfaIInv /\ [MfaNext]_mfaVars => MfaIInv'
  BY MfaNextTyped, OneAtATimeStays, CountedStays DEF MfaIInv
<1>3. QED  BY <1>1, <1>2, PTL DEF MfaSpec

(* No order of enrolments, one request at a time, enables a second factor  *)
(* the owner has not confirmed.                                            *)
THEOREM SerialEnrolmentsAreConfirmed == MfaSpec => []SerialSecretIsConfirmed
<1>1. MfaIInv => SerialSecretIsConfirmed
  BY DEF MfaIInv, OneAtATime, SerialSecretIsConfirmed
<1>2. QED  BY <1>1, MfaInvariant, PTL

(* A backup code or a pending token completes one login, and as many as    *)
(* there are requests when they overlap, whatever fails or expires.        *)
THEOREM CodesAreSpent == MfaSpec => []SpendingIsBounded
<1>1. MfaIInv => SpendingIsBounded
  <2> SUFFICES ASSUME MfaIInv PROVE SpendingIsBounded
    OBVIOUS
  <2>1. Bound \in Nat
    BY RequestsAreFinite DEF Bound
  <2>2. ASSUME NEW b \in Backups PROVE redeemed[b] <= Bound
    <3>1. Cardinality(WithBackup(b)) \in Nat
      BY RequestsAreFinite DEF WithBackup
    <3>2. QED  BY <2>1, <3>1 DEF MfaIInv, Counted, MfaTypeOK
  <2>3. ASSUME NEW t \in Tokens PROVE issued[t] <= Bound
    <3>1. Cardinality(WithToken(t)) \in Nat
      BY RequestsAreFinite DEF WithToken
    <3>2. QED  BY <2>1, <3>1 DEF MfaIInv, Counted, MfaTypeOK
  <2>4. QED  BY <2>2, <2>3 DEF SpendingIsBounded, Bound
<1>2. QED  BY <1>1, MfaInvariant, PTL

=============================================================================
