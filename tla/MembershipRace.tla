--------------------------- MODULE MembershipRace ---------------------------
(***************************************************************************)
(* The member and ownership handlers of Membership with their transactions *)
(* interleaved.  Under READ COMMITTED, and with no FOR UPDATE in the code, *)
(* a request decides on what its SELECTs returned (the actor's membership  *)
(* in get_tenant_context, then the target's and the transfer) and its      *)
(* UPDATEs and DELETEs address rows by primary key when the session is     *)
(* flushed, whatever those rows hold by then.                              *)
(*                                                                         *)
(* Read stands for the SELECTs and the guards, the Commit actions for the  *)
(* flush and the commit.  SQLAlchemy writes only attributes that changed,  *)
(* fails the request when an UPDATE matches no row, and only warns when a  *)
(* DELETE does.  Nobody joins and no transfer lapses while requests run.   *)
(***************************************************************************)
EXTENDS Naturals, FiniteSets

CONSTANTS
  Users,     \* accounts
  Founder,   \* the owner at the start
  Requests,  \* requests; each runs once (bound)
  Kinds,     \* the operations the requests ask for (bound)
  Idle       \* no request, no account

ASSUME KindsAssumption ==
  Kinds \subseteq {"change", "remove", "leave", "initiate", "accept"}
ASSUME UsersAssumption == Founder \in Users /\ Idle \notin Users \cup Requests

VARIABLES
  role,        \* role[u], committed; "none" without a membership
  transfer,    \* the ownership_transfers row, committed
  pc,          \* pc[p]: what request p does next
  call,        \* call[p]: operation, actor, target and new role
  seen,        \* seen[p]: the rows p's SELECTs returned and p will update
  (* history *)
  overlapped   \* an accept_transfer was in flight with another request

vars == <<role, transfer, pc, call, seen, overlapped>>

Roles == {"owner", "admin", "developer"}
Calls == [kind : Kinds, actor : Users, target : Users, new : Roles \cup {"none"}]
NoCall == [kind |-> "none", actor |-> Idle, target |-> Idle, new |-> "none"]

(* A transfer row is known by the request that inserted it. *)
Transfers == [id : Requests \cup {Idle}, from : Users, to : Users]
NoTransfer == [id |-> Idle, from |-> Idle, to |-> Idle]
Rows == [target : Roles \cup {"none"}, from : Roles \cup {"none"},
         transfer : Transfers \cup {NoTransfer}]
Nothing == [target |-> "none", from |-> "none", transfer |-> NoTransfer]

TypeOK ==
  /\ role \in [Users -> Roles \cup {"none"}]
  /\ transfer \in Transfers \cup {NoTransfer}
  /\ pc \in [Requests -> {"read", "commit", "done", "failed"}]
  /\ call \in [Requests -> Calls \cup {NoCall}]
  /\ seen \in [Requests -> Rows]
  /\ overlapped \in BOOLEAN

Init ==
  /\ role \in {r \in [Users -> {"owner", "admin", "developer"}] :
                 \A u \in Users : r[u] = "owner" <=> u = Founder}
  /\ transfer \in {NoTransfer} \cup
                  {[id |-> Idle, from |-> Founder, to |-> u] : u \in Users \ {Founder}}
  /\ pc = [p \in Requests |-> "read"]
  /\ call = [p \in Requests |-> NoCall]
  /\ seen = [p \in Requests |-> Nothing]
  /\ overlapped = FALSE

Owners == {u \in Users : role[u] = "owner"}
InFlight == {p \in Requests : pc[p] = "commit"}
Accepting == {p \in InFlight : call[p].kind = "accept"}

-----------------------------------------------------------------------------
(* Read: the guards of the handlers, on the committed rows of this moment. *)

(* require_role *)
Standing(c) == CASE c.kind \in {"change", "remove"} -> {"owner", "admin"}
                 [] c.kind = "initiate" -> {"owner"}
                 [] OTHER -> Roles

(* Mutation: leave_tenant without its guard. *)
MutOwnerMayLeave(c) == c.kind = "remove" => role[c.target] # "owner"

SparesOwner(c) == c.kind \in {"remove", "leave"} => role[c.target] # "owner"

Guard(c) ==
  /\ role[c.actor] \in Standing(c)
  /\ role[c.target] # "none"
  /\ c.kind = "change" => /\ c.new \notin {"owner", "none"}
                          /\ role[c.target] = "owner" =>
                               c.target # c.actor /\ role[c.actor] = "owner"
  /\ c.kind # "change" => c.new = "none"
  /\ c.kind \in {"remove", "initiate"} => c.target # c.actor
  /\ c.kind \in {"leave", "accept"} => c.target = c.actor
  /\ SparesOwner(c)
  /\ c.kind = "initiate" => transfer = NoTransfer
  /\ c.kind = "accept" => transfer.to = c.actor

RowsToUpdate(c) ==
  CASE c.kind = "change" -> [Nothing EXCEPT !.target = role[c.target]]
    [] c.kind = "accept" -> [target |-> role[c.target],
                             from |-> role[transfer.from],
                             transfer |-> transfer]
    [] OTHER -> Nothing

Read(p) ==
  \E c \in Calls :
    /\ pc[p] = "read"
    /\ Guard(c)
    /\ pc' = [pc EXCEPT ![p] = "commit"]
    /\ call' = [call EXCEPT ![p] = c]
    /\ seen' = [seen EXCEPT ![p] = RowsToUpdate(c)]
    /\ overlapped' = (overlapped \/ Accepting # {}
                                 \/ (c.kind = "accept" /\ InFlight # {}))
    /\ UNCHANGED <<role, transfer>>

-----------------------------------------------------------------------------
(* Commit *)

Finish(p, kinds, outcome) ==
  /\ pc[p] = "commit"
  /\ call[p].kind \in kinds
  /\ pc' = [pc EXCEPT ![p] = outcome]
  /\ UNCHANGED <<call, seen, overlapped>>

(* An UPDATE of u's role from the loaded value old to new: none if nothing *)
(* changes or no row was found; lost if the row is gone.                   *)
Dirty(old, new) == old \notin {"none", new}
(* Mutation: rows are matched by the value read, too. *)
MutVersioned(u, old, new) == Dirty(old, new) /\ role[u] # old

Lost(u, old, new) == Dirty(old, new) /\ role[u] = "none"

CommitChange(p) ==
  LET c == call[p]
  IN /\ Finish(p, {"change"}, "done")
     /\ ~ Lost(c.target, seen[p].target, c.new)
     /\ role' = [role EXCEPT ![c.target] =
                   IF Dirty(seen[p].target, c.new) THEN c.new ELSE @]
     /\ UNCHANGED transfer

(* remove_member and leave_tenant *)
CommitDelete(p) ==
  /\ Finish(p, {"remove", "leave"}, "done")
  /\ role' = [role EXCEPT ![call[p].target] = "none"]
  /\ UNCHANGED transfer

CommitInitiate(p) ==
  /\ Finish(p, {"initiate"}, "done")
  /\ transfer = NoTransfer
  /\ transfer' = [id |-> p, from |-> call[p].actor, to |-> call[p].target]
  /\ UNCHANGED role

AcceptLost(p) ==
  \/ Lost(seen[p].transfer.from, seen[p].from, "admin")
  \/ Lost(call[p].actor, seen[p].target, "owner")

(* Mutation: the old owner is not demoted. *)
MutNoDemotion(p) == [role EXCEPT ![call[p].actor] = "owner"]

Swapped(p) ==
  [role EXCEPT ![seen[p].transfer.from] =
                 IF Dirty(seen[p].from, "admin") THEN "admin" ELSE @,
               ![call[p].actor] =
                 IF Dirty(seen[p].target, "owner") THEN "owner" ELSE @]

CommitAccept(p) ==
  /\ Finish(p, {"accept"}, "done")
  /\ ~ AcceptLost(p)
  /\ role' = Swapped(p)
  /\ transfer' = IF transfer.id = seen[p].transfer.id THEN NoTransfer ELSE transfer

(* StaleDataError, or UNIQUE(tenant_id) of the transfers: rolled back. *)
Fail(p) ==
  /\ Finish(p, {"change", "initiate", "accept"}, "failed")
  /\ CASE call[p].kind = "change" ->
             Lost(call[p].target, seen[p].target, call[p].new)
       [] call[p].kind = "initiate" -> transfer # NoTransfer
       [] OTHER -> AcceptLost(p)
  /\ UNCHANGED <<role, transfer>>

Next ==
  \E p \in Requests :
    \/ Read(p)
    \/ CommitChange(p)
    \/ CommitDelete(p)
    \/ CommitInitiate(p)
    \/ CommitAccept(p)
    \/ Fail(p)

Spec == Init /\ [][Next]_vars

-----------------------------------------------------------------------------
(* What holds whatever the interleaving. *)

Done(kind) == {p \in Requests : pc[p] = "done" /\ call[p].kind = kind}

(* Only a committed transfer can move ownership: until then the founder is *)
(* the one owner, whatever changes and removals race with each other.      *)
FounderOwnsUntilTransfer == Done("accept") = {} => Owners = {Founder}

(* As long as no acceptance ran while another request was in flight, the   *)
(* tenant has exactly one owner.                                           *)
SerialTransfersAreSafe ==
  ~ overlapped => \E u \in Users : Owners = {u}

(* A failed request is one whose decision was out of date: an acceptance   *)
(* fails only if a membership it was to change was deleted meanwhile.      *)
AcceptFailsOnlyOnDeparture ==
  \A p \in Requests :
    pc[p] = "failed" /\ call[p].kind = "accept" =>
      \E q \in Done("remove") \cup Done("leave") :
        call[q].target \in {call[p].actor, seen[p].transfer.from}

-----------------------------------------------------------------------------
(* What the documentation says, and overlapping requests do not keep. *)

(* accept_transfer: the old owner becomes admin, the accepting user owner. *)
TransferLeavesOneOwner == \A u, v \in Owners : u = v
=============================================================================
