------------------------ MODULE MembershipRaceProofs ------------------------
(***************************************************************************)
(* What holds of member and ownership requests whatever their              *)
(* interleaving, for any number of accounts and concurrent requests.       *)
(*                                                                         *)
(* Until a transfer commits, no request in flight has the founder as its   *)
(* target (FounderIsSpared): the guards spared the only owner there was.   *)
(* As long as an acceptance runs alone, the transfer it read names the one *)
(* owner, who still is (AloneIsCurrent).                                   *)
(***************************************************************************)
EXTENDS MembershipRace, TLAPS

Started == \A p \in Requests : pc[p] # "read" => call[p] \in Calls

(* Nobody joins, so a role is lost to a removal or a departure. *)
Gone(u) == \E q \in Done("remove") \cup Done("leave") : call[q].target = u
AbsentAreGone == \A u \in Users : role[u] = "none" => Gone(u)

Rewrites(p) == call[p].kind \in {"change", "remove", "leave"}
ChangesGiveJuniorRoles ==
  \A p \in InFlight : call[p].kind = "change" => call[p].new \in {"admin", "developer"}

AcceptsHaveTransfers ==
  \A p \in InFlight : call[p].kind = "accept" => seen[p].transfer \in Transfers

FounderIsSpared ==
  Done("accept") = {} => \A p \in InFlight : Rewrites(p) => call[p].target # Founder

IInv == /\ TypeOK
        /\ Started
        /\ AbsentAreGone
        /\ AcceptFailsOnlyOnDeparture
        /\ ChangesGiveJuniorRoles
        /\ AcceptsHaveTransfers
        /\ FounderIsSpared
        /\ FounderOwnsUntilTransfer

LEMMA InitIInv == Init => IInv
<1> SUFFICES ASSUME Init PROVE IInv
  OBVIOUS
<1>1. TypeOK
  <2>1. \A u \in Users \ {Founder} :
          [id |-> Idle, from |-> Founder, to |-> u] \in Transfers
    BY UsersAssumption DEF Transfers
  <2>2. transfer \in Transfers \cup {NoTransfer}
    BY <2>1 DEF Init
  <2>3. Nothing \in Rows
    BY DEF Nothing, Rows
  <2>4. QED  BY <2>2, <2>3 DEF Init, TypeOK, Roles
<1>2. /\ \A u \in Users : role[u] # "none" /\ (role[u] = "owner" <=> u = Founder)
      /\ \A p \in Requests : pc[p] = "read"
  BY DEF Init
<1>3. InFlight = {}
  BY <1>2 DEF InFlight
<1>4. Owners = {Founder}
  BY <1>2, UsersAssumption DEF Owners
<1>5. QED
  BY <1>1, <1>2, <1>3, <1>4 DEF IInv, Started, AbsentAreGone, AcceptFailsOnlyOnDeparture,
     ChangesGiveJuniorRoles, AcceptsHaveTransfers, FounderIsSpared,
     FounderOwnsUntilTransfer

(* What a finished request leaves alone. *)
LEMMA FinishMonotone ==
  ASSUME IInv, NEW p \in Requests, NEW kinds, NEW outcome \in {"done", "failed"},
         Finish(p, kinds, outcome)
  PROVE  /\ pc[p] = "commit" /\ call[p].kind \in kinds /\ call[p] \in Calls
         /\ pc' = [pc EXCEPT ![p] = outcome]
         /\ UNCHANGED <<call, seen, overlapped>>
         /\ pc' \in [Requests -> {"read", "commit", "done", "failed"}]
         /\ InFlight' = InFlight \ {p}
         /\ \A kind : Done(kind)' = Done(kind) \cup
                        {q \in {p} : outcome = "done" /\ call[p].kind = kind}
         /\ \A u : Gone(u) => Gone(u)'
         /\ Started' /\ ChangesGiveJuniorRoles' /\ AcceptsHaveTransfers'
<1>1. /\ pc[p] = "commit" /\ call[p].kind \in kinds
      /\ pc' = [pc EXCEPT ![p] = outcome]
      /\ UNCHANGED <<call, seen, overlapped>>
  BY DEF Finish
<1>2. InFlight' = InFlight \ {p}
  BY <1>1 DEF IInv, TypeOK, InFlight
<1>3. \A kind : Done(kind)' = Done(kind) \cup
                  {q \in {p} : outcome = "done" /\ call[p].kind = kind}
  BY <1>1 DEF IInv, TypeOK, Done
<1>4. \A u : Gone(u) => Gone(u)'
  BY <1>1, <1>3 DEF Gone
<1>5. QED
  BY <1>1, <1>2, <1>3, <1>4 DEF IInv, TypeOK, Started, ChangesGiveJuniorRoles,
     AcceptsHaveTransfers

(* The founder is the only owner until a transfer commits, and so not the  *)
(* target of a request that changes or removes.                            *)
LEMMA ReadKeepsIInv ==
  ASSUME IInv, NEW p \in Requests, Read(p)
  PROVE  IInv'
<1>1. PICK c \in Calls :
        /\ pc[p] = "read" /\ Guard(c)
        /\ pc' = [pc EXCEPT ![p] = "commit"]
        /\ call' = [call EXCEPT ![p] = c]
        /\ seen' = [seen EXCEPT ![p] = RowsToUpdate(c)]
        /\ overlapped' = (overlapped \/ Accepting # {}
                                     \/ (c.kind = "accept" /\ InFlight # {}))
        /\ UNCHANGED <<role, transfer>>
  BY DEF Read
<1>2. RowsToUpdate(c) \in Rows
  <2>1. c.target \in Users /\ role[c.target] \in Roles \cup {"none"}
    BY DEF IInv, TypeOK, Calls
  <2>2. CASE c.kind = "accept"
    <3>1. transfer \in Transfers
      BY <1>1, <2>2, UsersAssumption DEF IInv, TypeOK, Guard, NoTransfer, Calls
    <3>2. transfer.from \in Users /\ role[transfer.from] \in Roles \cup {"none"}
      BY <3>1 DEF IInv, TypeOK, Transfers
    <3>3. QED  BY <2>1, <2>2, <3>1, <3>2 DEF RowsToUpdate, Rows
  <2>3. CASE c.kind # "accept"
    BY <2>1, <2>3 DEF RowsToUpdate, Rows, Nothing
  <2>4. QED  BY <2>2, <2>3
<1>3. overlapped' \in BOOLEAN
  BY <1>1
<1>4. TypeOK'
  BY <1>1, <1>2, <1>3 DEF IInv, TypeOK
<1>5. InFlight' = InFlight \cup {p} /\ p \notin InFlight
  BY <1>1 DEF IInv, TypeOK, InFlight
<1>6. \A kind : Done(kind)' = Done(kind)
  BY <1>1 DEF IInv, TypeOK, Done
<1>7. \A q \in Requests : q # p => call'[q] = call[q] /\ seen'[q] = seen[q]
  BY <1>1 DEF IInv, TypeOK
<1>8. \A kind : p \notin Done(kind)
  BY <1>1 DEF Done
<1>9. AbsentAreGone' /\ AcceptFailsOnlyOnDeparture'
  BY <1>1, <1>6, <1>7, <1>8
     DEF IInv, TypeOK, AbsentAreGone, Gone, AcceptFailsOnlyOnDeparture, Done
<1>10. Started' /\ ChangesGiveJuniorRoles'
  BY <1>1, <1>5, <1>7
     DEF IInv, TypeOK, Started, ChangesGiveJuniorRoles, InFlight, Guard, Calls, Roles
<1>11. AcceptsHaveTransfers'
  <2>1. c.kind = "accept" => RowsToUpdate(c).transfer \in Transfers
    BY <1>1, UsersAssumption DEF IInv, TypeOK, Guard, NoTransfer, Calls, RowsToUpdate
  <2>2. QED  BY <1>1, <1>5, <1>7, <2>1 DEF IInv, TypeOK, AcceptsHaveTransfers, InFlight
<1>12. FounderOwnsUntilTransfer'
  BY <1>1, <1>6 DEF IInv, FounderOwnsUntilTransfer, Owners
<1>13. FounderIsSpared'
  <2> SUFFICES ASSUME Done("accept") = {}, c.kind \in {"change", "remove", "leave"}
               PROVE  c.target # Founder
    BY <1>1, <1>5, <1>6, <1>7 DEF IInv, TypeOK, FounderIsSpared, Rewrites, InFlight
  <2>1. Owners = {Founder}
    BY DEF IInv, FounderOwnsUntilTransfer
  <2>2. c.actor \in Users /\ c.target \in Users
    BY DEF Calls
  <2>3. QED  BY <1>1, <2>1, <2>2 DEF Guard, SparesOwner, Owners
<1>14. QED  BY <1>4, <1>9, <1>10, <1>11, <1>12, <1>13 DEF IInv

(* The commits, by what they make of the roles. *)
LEMMA CommitKeepsIInv ==
  ASSUME IInv, NEW p \in Requests, NEW kinds, Finish(p, kinds, "done"),
         role' \in [Users -> Roles \cup {"none"}],
         transfer' \in Transfers \cup {NoTransfer},
         \A u \in Users : role'[u] = "none" =>
           role[u] = "none" \/ (kinds = {"remove", "leave"} /\ u = call[p].target),
         \/ kinds = {"accept"}
         \/ \A u \in Users : role'[u] # role[u] =>
               role'[u] # "owner" /\ u = call[p].target /\ Rewrites(p)
  PROVE  IInv'
<1>1. /\ pc[p] = "commit" /\ call[p].kind \in kinds /\ call[p] \in Calls
      /\ pc' = [pc EXCEPT ![p] = "done"]
      /\ UNCHANGED <<call, seen, overlapped>>
      /\ pc' \in [Requests -> {"read", "commit", "done", "failed"}]
      /\ InFlight' = InFlight \ {p} /\ p \in InFlight
      /\ \A kind : Done(kind)' = Done(kind) \cup {q \in {p} : call[p].kind = kind}
      /\ \A u : Gone(u) => Gone(u)'
      /\ Started' /\ ChangesGiveJuniorRoles' /\ AcceptsHaveTransfers'
  BY FinishMonotone DEF InFlight
<1>2. TypeOK'
  BY <1>1 DEF IInv, TypeOK
<1>3. AbsentAreGone'
  <2> SUFFICES ASSUME NEW u \in Users, role'[u] = "none" PROVE Gone(u)'
    BY DEF AbsentAreGone
  <2>1. CASE role[u] = "none"
    BY <1>1, <2>1 DEF IInv, AbsentAreGone
  <2>2. CASE kinds = {"remove", "leave"} /\ u = call[p].target
    BY <1>1, <2>2 DEF Gone
  <2>3. QED  BY <2>1, <2>2
<1>4. AcceptFailsOnlyOnDeparture'
  <2> SUFFICES ASSUME NEW q \in Requests, pc'[q] = "failed", call[q].kind = "accept"
               PROVE  \E r \in (Done("remove") \cup Done("leave"))' :
                        call[r].target \in {call[q].actor, seen[q].transfer.from}
    BY <1>1 DEF AcceptFailsOnlyOnDeparture
  <2>1. pc[q] = "failed"
    BY <1>1 DEF IInv, TypeOK
  <2>2. QED  BY <1>1, <2>1 DEF IInv, AcceptFailsOnlyOnDeparture
<1>5. FounderIsSpared'
  BY <1>1 DEF IInv, FounderIsSpared, Rewrites
<1>6. FounderOwnsUntilTransfer'
  <2> SUFFICES ASSUME Done("accept")' = {} PROVE Owners' = {Founder}
    BY DEF FounderOwnsUntilTransfer
  <2>1. Done("accept") = {} /\ kinds # {"accept"}
    BY <1>1
  <2>2. Owners = {Founder}
    BY <2>1 DEF IInv, FounderOwnsUntilTransfer
  <2>3. Rewrites(p) => call[p].target # Founder
    BY <1>1, <2>1 DEF IInv, FounderIsSpared
  <2>4. QED  BY <2>1, <2>2, <2>3, UsersAssumption DEF Owners
<1>7. QED  BY <1>1, <1>2, <1>3, <1>4, <1>5, <1>6 DEF IInv

LEMMA ChangeKeepsIInv ==
  ASSUME IInv, NEW p \in Requests, CommitChange(p)
  PROVE  IInv'
<1>1. Finish(p, {"change"}, "done") /\ UNCHANGED transfer
  BY DEF CommitChange
<1>2. call[p].kind = "change" /\ p \in InFlight /\ call[p] \in Calls
  BY <1>1, FinishMonotone DEF InFlight
<1>3. call[p].new \in {"admin", "developer"} /\ call[p].target \in Users
  BY <1>2 DEF IInv, ChangesGiveJuniorRoles, Calls
<1>4. role' = role \/ role' = [role EXCEPT ![call[p].target] = call[p].new]
  BY DEF IInv, TypeOK, CommitChange
<1>5. /\ role' \in [Users -> Roles \cup {"none"}]
      /\ \A u \in Users : role'[u] = "none" => role[u] = "none"
      /\ \A u \in Users : role'[u] # role[u] => role'[u] # "owner" /\ u = call[p].target
  BY <1>3, <1>4 DEF IInv, TypeOK, Roles
<1>6. transfer' \in Transfers \cup {NoTransfer}
  BY <1>1 DEF IInv, TypeOK
<1>7. QED  BY <1>1, <1>2, <1>5, <1>6, CommitKeepsIInv DEF Rewrites

LEMMA DeleteKeepsIInv ==
  ASSUME IInv, NEW p \in Requests, CommitDelete(p)
  PROVE  IInv'
<1>1. Finish(p, {"remove", "leave"}, "done") /\ UNCHANGED transfer
      /\ role' = [role EXCEPT ![call[p].target] = "none"]
  BY DEF CommitDelete
<1>2. call[p].kind \in {"remove", "leave"}
  BY <1>1, FinishMonotone
<1>3. /\ role' \in [Users -> Roles \cup {"none"}]
      /\ \A u \in Users : role'[u] # role[u] => role'[u] = "none" /\ u = call[p].target
  BY <1>1 DEF IInv, TypeOK
<1>4. transfer' \in Transfers \cup {NoTransfer}
  BY <1>1 DEF IInv, TypeOK
<1>5. QED  BY <1>1, <1>2, <1>3, <1>4, CommitKeepsIInv DEF Rewrites

LEMMA InitiateKeepsIInv ==
  ASSUME IInv, NEW p \in Requests, CommitInitiate(p)
  PROVE  IInv'
<1>1. Finish(p, {"initiate"}, "done") /\ UNCHANGED role
      /\ transfer' = [id |-> p, from |-> call[p].actor, to |-> call[p].target]
  BY DEF CommitInitiate
<1>2. call[p] \in Calls
  BY <1>1, FinishMonotone
<1>3. transfer' \in Transfers \cup {NoTransfer}
  BY <1>1, <1>2 DEF Calls, Transfers
<1>4. role' \in [Users -> Roles \cup {"none"}]
  BY <1>1 DEF IInv, TypeOK
<1>5. QED  BY <1>1, <1>3, <1>4, CommitKeepsIInv

LEMMA AcceptKeepsIInv ==
  ASSUME IInv, NEW p \in Requests, CommitAccept(p)
  PROVE  IInv'
<1>1. Finish(p, {"accept"}, "done") /\ role' = Swapped(p)
      /\ transfer' = IF transfer.id = seen[p].transfer.id THEN NoTransfer ELSE transfer
  BY DEF CommitAccept
<1>2. transfer' \in Transfers \cup {NoTransfer}
  BY <1>1 DEF IInv, TypeOK
<1>3. /\ role' \in [Users -> Roles \cup {"none"}]
      /\ \A u \in Users : role'[u] = "none" => role[u] = "none"
  BY <1>1 DEF IInv, TypeOK, Swapped, Roles
<1>4. QED  BY <1>1, <1>2, <1>3, CommitKeepsIInv

(* A request fails for a role that is gone. *)
LEMMA FailKeepsIInv ==
  ASSUME IInv, NEW p \in Requests, Fail(p)
  PROVE  IInv'
<1>1. /\ Finish(p, {"change", "initiate", "accept"}, "failed")
      /\ UNCHANGED <<role, transfer>>
      /\ call[p].kind = "accept" => AcceptLost(p)
  BY DEF Fail
<1>2. /\ pc[p] = "commit" /\ call[p] \in Calls
      /\ pc' = [pc EXCEPT ![p] = "failed"]
      /\ UNCHANGED <<call, seen, overlapped>>
      /\ pc' \in [Requests -> {"read", "commit", "done", "failed"}]
      /\ InFlight' = InFlight \ {p}
      /\ \A kind : Done(kind)' = Done(kind)
      /\ \A u : Gone(u) => Gone(u)'
      /\ Started' /\ ChangesGiveJuniorRoles' /\ AcceptsHaveTransfers'
  <2>1. \A kind : Done(kind)' = Done(kind)
    BY <1>1 DEF Finish, IInv, TypeOK, Done
  <2>2. QED  BY <1>1, <2>1, FinishMonotone
<1>3. TypeOK'
  BY <1>1, <1>2 DEF IInv, TypeOK
<1>4. AbsentAreGone' /\ FounderIsSpared' /\ FounderOwnsUntilTransfer'
  BY <1>1, <1>2 DEF IInv, AbsentAreGone, FounderIsSpared, Rewrites,
     FounderOwnsUntilTransfer, Owners
<1>5. ASSUME call[p].kind = "accept"
      PROVE  Gone(call[p].actor) \/ Gone(seen[p].transfer.from)
  <2>1. call[p].actor \in Users
    BY <1>2 DEF Calls
  <2>2. seen[p].transfer.from \in Users
    BY <1>2, <1>5 DEF IInv, AcceptsHaveTransfers, InFlight, Transfers
  <2>3. QED  BY <1>1, <1>5, <2>1, <2>2 DEF AcceptLost, Lost, IInv, AbsentAreGone
<1>6. AcceptFailsOnlyOnDeparture'
  <2> SUFFICES ASSUME NEW q \in Requests, pc'[q] = "failed", call[q].kind = "accept"
               PROVE  \E r \in Done("remove") \cup Done("leave") :
                        call[r].target \in {call[q].actor, seen[q].transfer.from}
    BY <1>2 DEF AcceptFailsOnlyOnDeparture
  <2>1. CASE q = p
    BY <1>5, <2>1 DEF Gone
  <2>2. CASE q # p
    BY <1>2, <2>2 DEF IInv, TypeOK, AcceptFailsOnlyOnDeparture
  <2>3. QED  BY <2>1, <2>2
<1>7. QED  BY <1>2, <1>3, <1>4, <1>6 DEF IInv

LEMMA NextIInv == IInv /\ [Next]_vars => IInv'
<1> SUFFICES ASSUME IInv, [Next]_vars PROVE IInv'
  OBVIOUS
<1>1. CASE Next
  BY <1>1, ReadKeepsIInv, ChangeKeepsIInv, DeleteKeepsIInv, InitiateKeepsIInv,
     AcceptKeepsIInv, FailKeepsIInv DEF Next
<1>2. CASE UNCHANGED vars
  BY <1>2 DEF IInv, TypeOK, Started, AbsentAreGone, Gone, AcceptFailsOnlyOnDeparture,
     ChangesGiveJuniorRoles, AcceptsHaveTransfers, InFlight, FounderIsSpared, Rewrites,
     FounderOwnsUntilTransfer, Owners, Done, vars
<1>3. QED  BY <1>1, <1>2

(* Every variable keeps its type. *)
THEOREM MembershipRaceIsTyped == Spec => []TypeOK
<1>1. IInv => TypeOK
  BY DEF IInv
<1>2. QED  BY <1>1, InitIInv, NextIInv, PTL DEF Spec

(* However changes, removals and departures race, the founder is the one   *)
(* owner until a transfer commits.                                         *)
THEOREM FounderOwnsFirst == Spec => []FounderOwnsUntilTransfer
<1>1. IInv => FounderOwnsUntilTransfer
  BY DEF IInv
<1>2. QED  BY <1>1, InitIInv, NextIInv, PTL DEF Spec

(* An acceptance fails only for a membership deleted meanwhile. *)
THEOREM AcceptsFailOnDeparture == Spec => []AcceptFailsOnlyOnDeparture
<1>1. IInv => AcceptFailsOnlyOnDeparture
  BY DEF IInv
<1>2. QED  BY <1>1, InitIInv, NextIInv, PTL DEF Spec

-----------------------------------------------------------------------------
(* Tenants where no acceptance overlaps another request. *)

TransferIsOwners ==
  transfer # NoTransfer => role[transfer.from] = "owner" /\ transfer.to # transfer.from

RequestIsCurrent(p) ==
  /\ Rewrites(p) => role[call[p].target] # "owner"
  /\ call[p].kind = "initiate" =>
       role[call[p].actor] = "owner" /\ call[p].target # call[p].actor
  /\ call[p].kind = "accept" =>
       /\ InFlight = {p}
       /\ seen[p].transfer = transfer /\ transfer # NoTransfer
       /\ transfer.to = call[p].actor
       /\ seen[p].from = role[transfer.from]
       /\ seen[p].target = role[call[p].actor] /\ seen[p].target # "none"

AloneIsCurrent ==
  ~ overlapped => TransferIsOwners /\ \A p \in InFlight : RequestIsCurrent(p)

AInv == SerialTransfersAreSafe /\ AloneIsCurrent

LEMMA InitAInv == Init => AInv
<1> SUFFICES ASSUME Init PROVE AInv
  OBVIOUS
<1>1. /\ \A u \in Users : role[u] = "owner" <=> u = Founder
      /\ InFlight = {}
  BY DEF Init, InFlight
<1>2. Owners = {Founder}
  BY <1>1, UsersAssumption DEF Owners
<1>3. TransferIsOwners
  BY <1>1, UsersAssumption DEF Init, TransferIsOwners
<1>4. QED
  BY <1>1, <1>2, <1>3, UsersAssumption DEF AInv, SerialTransfersAreSafe, AloneIsCurrent

LEMMA ReadKeepsAInv ==
  ASSUME IInv, AInv, NEW p \in Requests, Read(p)
  PROVE  AInv'
<1>1. PICK c \in Calls :
        /\ pc[p] = "read" /\ Guard(c)
        /\ pc' = [pc EXCEPT ![p] = "commit"]
        /\ call' = [call EXCEPT ![p] = c]
        /\ seen' = [seen EXCEPT ![p] = RowsToUpdate(c)]
        /\ overlapped' = (overlapped \/ Accepting # {}
                                     \/ (c.kind = "accept" /\ InFlight # {}))
        /\ UNCHANGED <<role, transfer>>
  BY DEF Read
<1>2. InFlight' = InFlight \cup {p} /\ p \notin InFlight
  BY <1>1 DEF IInv, TypeOK, InFlight
<1>3. call'[p] = c /\ seen'[p] = RowsToUpdate(c)
      /\ \A q \in InFlight : q # p /\ call'[q] = call[q] /\ seen'[q] = seen[q]
  BY <1>1 DEF IInv, TypeOK, InFlight
<1>4. ~ overlapped' => /\ ~ overlapped /\ Accepting = {}
                       /\ c.kind = "accept" => InFlight = {}
  BY <1>1
<1>5. SerialTransfersAreSafe' /\ (~ overlapped' => TransferIsOwners')
  BY <1>1, <1>4 DEF AInv, SerialTransfersAreSafe, AloneIsCurrent, TransferIsOwners, Owners
<1>6. ASSUME ~ overlapped' PROVE RequestIsCurrent(p)'
  <2>1. \E u \in Users : Owners = {u}
    BY <1>4, <1>6 DEF AInv, SerialTransfersAreSafe
  <2>2. c.actor \in Users /\ c.target \in Users
    BY DEF Calls
  <2>3. c.kind \in {"change", "remove", "leave"} => role[c.target] # "owner"
    BY <1>1, <2>1, <2>2 DEF Guard, SparesOwner, Owners
  <2>4. c.kind = "initiate" => role[c.actor] = "owner" /\ c.target # c.actor
    BY <1>1 DEF Guard, Standing
  <2>5. c.kind = "accept" => /\ c.target = c.actor /\ transfer.to = c.actor
                             /\ transfer # NoTransfer /\ role[c.target] # "none"
                             /\ RowsToUpdate(c) = [target |-> role[c.target],
                                                   from |-> role[transfer.from],
                                                   transfer |-> transfer]
    BY <1>1, <2>2, UsersAssumption DEF Guard, NoTransfer, RowsToUpdate
  <2>6. QED
    BY <1>1, <1>2, <1>3, <1>4, <1>6, <2>3, <2>4, <2>5 DEF RequestIsCurrent, Rewrites
<1>7. ASSUME ~ overlapped', NEW q \in InFlight PROVE RequestIsCurrent(q)'
  <2>1. call[q].kind # "accept"
    BY <1>4, <1>7 DEF Accepting
  <2>2. RequestIsCurrent(q)
    BY <1>4, <1>7 DEF AInv, AloneIsCurrent
  <2>3. QED  BY <1>1, <1>3, <1>7, <2>1, <2>2 DEF RequestIsCurrent, Rewrites
<1>8. QED  BY <1>2, <1>5, <1>6, <1>7 DEF AInv, AloneIsCurrent

(* A request in flight beside one that ends is no acceptance, and stays    *)
(* current as long as the owners are the same.                             *)
LEMMA OwnersKeepAInv ==
  ASSUME IInv, AInv, NEW p \in Requests, NEW kinds, NEW outcome \in {"done", "failed"},
         Finish(p, kinds, outcome),
         ~ overlapped => /\ \A u \in Users : role'[u] = "owner" <=> role[u] = "owner"
                         /\ TransferIsOwners'
  PROVE  AInv'
<1>1. /\ InFlight' = InFlight \ {p} /\ p \in InFlight
      /\ UNCHANGED <<call, seen, overlapped>>
  BY FinishMonotone DEF InFlight
<1>2. SerialTransfersAreSafe'
  BY <1>1 DEF AInv, SerialTransfersAreSafe, Owners
<1>3. ASSUME ~ overlapped, NEW q \in InFlight, q # p PROVE RequestIsCurrent(q)'
  <2>1. RequestIsCurrent(q) /\ call[q].kind # "accept"
    BY <1>1, <1>3 DEF AInv, AloneIsCurrent, RequestIsCurrent
  <2>2. call[q].actor \in Users /\ call[q].target \in Users
    BY <1>3 DEF IInv, Started, InFlight, Calls
  <2>3. QED  BY <1>1, <1>3, <2>1, <2>2 DEF RequestIsCurrent, Rewrites
<1>4. QED  BY <1>1, <1>2, <1>3 DEF AInv, AloneIsCurrent

LEMMA ChangeKeepsAInv ==
  ASSUME IInv, AInv, NEW p \in Requests, CommitChange(p) \/ CommitDelete(p)
  PROVE  AInv'
<1>1. \E kinds : Finish(p, kinds, "done") /\ kinds \subseteq {"change", "remove", "leave"}
  BY DEF CommitChange, CommitDelete
<1>2. Rewrites(p) /\ p \in InFlight /\ call[p] \in Calls
  BY <1>1, FinishMonotone DEF Rewrites, InFlight
<1>3. call[p].target \in Users
  BY <1>2 DEF Calls
<1>4. \/ role' = role
      \/ \E r : r # "owner" /\ role' = [role EXCEPT ![call[p].target] = r]
  <2>1. CASE CommitChange(p)
    <3>1. call[p].kind = "change"
      BY <2>1 DEF CommitChange, Finish
    <3>2. call[p].new # "owner"
      BY <1>2, <3>1 DEF IInv, ChangesGiveJuniorRoles
    <3>3. QED  BY <2>1, <3>2 DEF IInv, TypeOK, CommitChange
  <2>2. CASE CommitDelete(p)
    BY <2>2 DEF CommitDelete
  <2>3. QED  BY <2>1, <2>2
<1>5. ~ overlapped => \A u \in Users : role'[u] = "owner" <=> role[u] = "owner"
  BY <1>2, <1>3, <1>4 DEF IInv, TypeOK, AInv, AloneIsCurrent, RequestIsCurrent
<1>6. transfer' = transfer /\ (transfer # NoTransfer => transfer.from \in Users)
  BY DEF IInv, TypeOK, Transfers, CommitChange, CommitDelete
<1>7. ~ overlapped => TransferIsOwners'
  BY <1>5, <1>6 DEF AInv, AloneIsCurrent, TransferIsOwners
<1>8. QED  BY <1>1, <1>5, <1>7, OwnersKeepAInv

LEMMA InitiateKeepsAInv ==
  ASSUME IInv, AInv, NEW p \in Requests, CommitInitiate(p) \/ Fail(p)
  PROVE  AInv'
<1>1. \E kinds : \E outcome \in {"done", "failed"} : Finish(p, kinds, outcome)
  BY DEF CommitInitiate, Fail
<1>2. UNCHANGED role
  BY DEF CommitInitiate, Fail
<1>3. p \in InFlight
  BY <1>1 DEF Finish, InFlight
<1>4. ~ overlapped => TransferIsOwners'
  <2>1. CASE CommitInitiate(p)
    <3>1. call[p].kind = "initiate"
          /\ transfer' = [id |-> p, from |-> call[p].actor, to |-> call[p].target]
      BY <2>1 DEF CommitInitiate, Finish
    <3>2. QED
      BY <1>2, <1>3, <3>1 DEF AInv, AloneIsCurrent, RequestIsCurrent, TransferIsOwners
  <2>2. CASE Fail(p)
    BY <1>2, <2>2 DEF Fail, AInv, AloneIsCurrent, TransferIsOwners
  <2>3. QED  BY <2>1, <2>2
<1>5. QED  BY <1>1, <1>2, <1>4, OwnersKeepAInv

(* The acceptance that ran alone demotes the owner and promotes one other. *)
LEMMA AcceptKeepsAInv ==
  ASSUME IInv, AInv, NEW p \in Requests, CommitAccept(p)
  PROVE  AInv'
<1>1. Finish(p, {"accept"}, "done") /\ role' = Swapped(p)
      /\ transfer' = IF transfer.id = seen[p].transfer.id THEN NoTransfer ELSE transfer
  BY DEF CommitAccept
<1>2. /\ call[p].kind = "accept" /\ call[p] \in Calls /\ p \in InFlight
      /\ InFlight' = InFlight \ {p} /\ UNCHANGED overlapped
  BY <1>1, FinishMonotone DEF InFlight
<1>3. ASSUME ~ overlapped
      PROVE  (\E u \in Users : Owners' = {u}) /\ transfer' = NoTransfer /\ InFlight' = {}
  <2> DEFINE from == transfer.from
             to == call[p].actor
  <2>1. PICK u \in Users : Owners = {u}
    BY <1>3 DEF AInv, SerialTransfersAreSafe
  <2>2. /\ InFlight = {p} /\ seen[p].transfer = transfer /\ transfer # NoTransfer
        /\ transfer.to = to /\ seen[p].from = role[from] /\ seen[p].target = role[to]
        /\ role[from] = "owner" /\ to # from /\ role[to] # "none"
    BY <1>2, <1>3 DEF AInv, AloneIsCurrent, RequestIsCurrent, TransferIsOwners
  <2>3. from \in Users /\ to \in Users
    BY <1>2, <2>2 DEF IInv, TypeOK, Transfers, Calls
  <2>4. from = u /\ role[to] # "owner" /\ role[to] \in Roles \cup {"none"}
    BY <2>1, <2>2, <2>3 DEF IInv, TypeOK, Owners
  <2>5. role'[from] = "admin" /\ role'[to] = "owner"
        /\ \A v \in Users : v # from /\ v # to => role'[v] = role[v]
    BY <1>1, <2>2, <2>3, <2>4 DEF IInv, TypeOK, Swapped, Dirty
  <2>6. Owners' = {to}
    BY <2>1, <2>3, <2>4, <2>5 DEF Owners
  <2>7. QED  BY <1>1, <1>2, <2>2, <2>3, <2>6
<1>4. QED
  BY <1>2, <1>3 DEF AInv, SerialTransfersAreSafe, AloneIsCurrent, TransferIsOwners

LEMMA NextAInv == IInv /\ AInv /\ [Next]_vars => AInv'
<1> SUFFICES ASSUME IInv, AInv, [Next]_vars PROVE AInv'
  OBVIOUS
<1>1. CASE Next
  BY <1>1, ReadKeepsAInv, ChangeKeepsAInv, InitiateKeepsAInv, AcceptKeepsAInv DEF Next
<1>2. CASE UNCHANGED vars
  BY <1>2 DEF AInv, SerialTransfersAreSafe, AloneIsCurrent, TransferIsOwners,
     RequestIsCurrent, Rewrites, InFlight, Owners, vars
<1>3. QED  BY <1>1, <1>2

(* A tenant has exactly one owner for as long as no acceptance of a        *)
(* transfer overlaps another request.                                      *)
THEOREM SerialTransfersStaySafe == Spec => []SerialTransfersAreSafe
<1>1. AInv => SerialTransfersAreSafe
  BY DEF AInv
<1>2. QED  BY <1>1, InitIInv, NextIInv, InitAInv, NextAInv, PTL DEF Spec
=============================================================================
