--------------------------- MODULE HandoverProofs ---------------------------
(***************************************************************************)
(* The proofs about tokens outside wxcode-adm: the hand-over codes         *)
(* (Handover), and below them the token handling of the browser            *)
(* (TokenClient).                                                          *)
(*                                                                         *)
(* A code delivers its pair once and engines get tokens that name their    *)
(* tenant, for any number of tenants and token pairs.                      *)
(*                                                                         *)
(* Delivery: a pair no login has wrapped yet is held by nobody and has no  *)
(* code (FreshPairs), and a pair with a code was not exchanged             *)
(* (CodesAreFresh).  Naming: what a login claims and where it redirects    *)
(* agree while its memberships are unbroken (LoginAgrees), its commit      *)
(* makes the last used tenant that of the engine it was sent to            *)
(* (RowIsLastUsed), and so a refresh claims the same tenant again.         *)
(***************************************************************************)
EXTENDS Handover, TokenClient, SequenceTheorems, TLAPS

RowsAreIssued ==
  /\ row \in 0..Latest
  /\ login # "none" => Latest > 0 /\ row # Latest

(* The pair of a login that has not answered is as untouched as one that   *)
(* was not issued.                                                         *)
Unwrapped(k) == k > Latest \/ (login = "issued" /\ k = Latest)
FreshPairs ==
  \A k \in Pairs : Unwrapped(k) =>
    codes[k] = NoTenant /\ handed[k] = 0 /\ \A t \in Tenants : engine[t] # k

CodesAreFresh ==
  \A k \in Pairs : codes[k] # NoTenant => handed[k] = 0 /\ \A t \in Tenants : engine[t] # k

IInv == TypeOK /\ RowsAreIssued /\ FreshPairs /\ CodesAreFresh /\ CodeDeliversOnce

LEMMA InitIInv == Init => IInv
  BY TenantsAssumption, MaxPairsAssumption
     DEF Init, IInv, TypeOK, RowsAreIssued, Latest, Unwrapped, FreshPairs,
         CodesAreFresh, CodeDeliversOnce, Pairs, NoPair

-----------------------------------------------------------------------------

LEMMA MembersKeepIInv ==
  ASSUME IInv, NEW t \in Tenants, Join(t) \/ Leave(t)
  PROVE  IInv'
<1>1. UNCHANGED <<linked, suspended, lastUsed, claims, row, codes, login, target,
                  engine, handed>>
  BY DEF Join, Leave, tokenVars
<1>2. members' \in Seq(Tenants)
  <2>1. CASE Join(t)
    BY <2>1 DEF IInv, TypeOK, Join
  <2>2. CASE Leave(t)
    <3>1. PICK p \in DOMAIN members :
            members' = [i \in 1..(Len(members) - 1) |->
                          members[IF i < p THEN i ELSE i + 1]]
      BY <2>2 DEF Leave
    <3>2. Len(members) \in Nat /\ DOMAIN members = 1..Len(members)
          /\ \A i \in 1..Len(members) : members[i] \in Tenants
      BY DEF IInv, TypeOK
    <3>3. Len(members) - 1 \in Nat
      BY <3>1, <3>2
    <3>4. members' \in [1..(Len(members) - 1) -> Tenants]
      BY <3>1, <3>2, <3>3
    <3>5. QED  BY <3>3, <3>4, SeqDef
  <2>3. QED  BY <2>1, <2>2
<1>3. kept' \in [Pairs -> SUBSET Tenants]
  BY DEF IInv, TypeOK, Join, Leave, Broken
<1>4. QED
  BY <1>1, <1>2, <1>3 DEF IInv, TypeOK, RowsAreIssued, Latest, Unwrapped, FreshPairs,
     CodesAreFresh, CodeDeliversOnce

LEMMA IssueKeepsIInv ==
  ASSUME IInv, NEW k \in Pairs, LoginIssues(k)
  PROVE  IInv'
<1>1. /\ k = Len(claims) + 1 /\ login = "none"
      /\ claims' = Append(claims, Claimed)
      /\ kept' = [kept EXCEPT ![k] = Memberships]
      /\ login' = "issued"
      /\ UNCHANGED <<linked, suspended, members, lastUsed, row, codes, target, engine,
                     handed>>
  BY DEF LoginIssues, Issue, Latest
<1>2. Claimed \in Tenants \cup {NoTenant} /\ Memberships \subseteq Tenants
  BY DEF IInv, TypeOK, Claimed, Newest, Memberships
<1>3. claims' \in Seq(Tenants \cup {NoTenant}) /\ Len(claims') = k
  BY <1>1, <1>2 DEF IInv, TypeOK
<1>4. TypeOK'
  BY <1>1, <1>2, <1>3, MaxPairsAssumption DEF IInv, TypeOK, Pairs
<1>5. Len(claims) \in Nat
  BY DEF IInv, TypeOK
<1>6. RowsAreIssued'
  BY <1>1, <1>3, <1>5 DEF IInv, RowsAreIssued, Latest
<1>7. FreshPairs'
  BY <1>1, <1>3, <1>5, MaxPairsAssumption DEF IInv, FreshPairs, Unwrapped, Latest, Pairs
<1>8. QED  BY <1>1, <1>4, <1>6, <1>7 DEF IInv, CodesAreFresh, CodeDeliversOnce

LEMMA AnswerKeepsIInv ==
  ASSUME IInv, LoginAnswers
  PROVE  IInv'
<1>1. /\ login = "issued" /\ login' = "answered"
      /\ target' = Redirect /\ codes' = [codes EXCEPT ![Latest] = Redirect]
      /\ UNCHANGED <<linked, suspended, members, lastUsed, claims, row, engine, kept,
                     handed>>
  BY DEF LoginAnswers
<1>2. Redirect \in Tenants \cup {NoTenant}
  BY DEF IInv, TypeOK, Redirect
<1>3. Latest \in Pairs /\ Latest' = Latest
  BY <1>1, MaxPairsAssumption DEF IInv, TypeOK, RowsAreIssued, Latest, Pairs
<1>4. TypeOK'
  BY <1>1, <1>2 DEF IInv, TypeOK
<1>5. RowsAreIssued'
  BY <1>1, <1>3 DEF IInv, RowsAreIssued
<1>6. FreshPairs'
  BY <1>1, <1>3, MaxPairsAssumption DEF IInv, TypeOK, FreshPairs, Unwrapped, Pairs
<1>7. CodesAreFresh'
  BY <1>1, <1>3 DEF IInv, TypeOK, FreshPairs, Unwrapped, CodesAreFresh
<1>8. QED  BY <1>1, <1>4, <1>5, <1>6, <1>7 DEF IInv, CodeDeliversOnce

LEMMA LoginEndsKeepIInv ==
  ASSUME IInv, LoginCommits \/ LoginFails
  PROVE  IInv'
<1>1. /\ login # "none" /\ login' = "none" /\ target' = NoTenant
      /\ row' \in {row, Latest} /\ lastUsed' \in {lastUsed, target}
      /\ UNCHANGED <<linked, suspended, members, claims, codes, engine, kept, handed>>
  BY DEF LoginCommits, LoginFails
<1>2. Latest \in Pairs /\ Latest' = Latest
  BY <1>1, MaxPairsAssumption DEF IInv, TypeOK, RowsAreIssued, Latest, Pairs
<1>3. TypeOK'
  BY <1>1, <1>2 DEF IInv, TypeOK
<1>4. RowsAreIssued'
  BY <1>1, <1>2, MaxPairsAssumption DEF IInv, RowsAreIssued, Pairs
<1>5. FreshPairs'
  BY <1>1, <1>2 DEF IInv, FreshPairs, Unwrapped
<1>6. QED  BY <1>1, <1>3, <1>4, <1>5 DEF IInv, CodesAreFresh, CodeDeliversOnce

(* The engine that exchanges a code is the first to hold its pair. *)
LEMMA ExchangeKeepsIInv ==
  ASSUME IInv, NEW t \in Tenants, NEW k \in Pairs, Exchange(t, k)
  PROVE  IInv'
<1>1. /\ codes[k] = t /\ codes' = [codes EXCEPT ![k] = NoTenant]
      /\ engine' = [engine EXCEPT ![t] = k]
      /\ handed' = [handed EXCEPT ![k] = @ + 1]
      /\ UNCHANGED <<linked, suspended, members, lastUsed, claims, row, login, target,
                     kept>>
  BY DEF Exchange, Taken
<1>2. t # NoTenant
  BY TenantsAssumption
<1>3. handed[k] = 0 /\ ~Unwrapped(k) /\ \A u \in Tenants : engine[u] # k
  BY <1>1, <1>2 DEF IInv, FreshPairs, CodesAreFresh
<1>4. TypeOK'
  BY <1>1 DEF IInv, TypeOK
<1>5. RowsAreIssued'
  BY <1>1 DEF IInv, RowsAreIssued, Latest
<1>6. FreshPairs' /\ CodesAreFresh'
  BY <1>1, <1>3 DEF IInv, TypeOK, FreshPairs, CodesAreFresh, Unwrapped, Latest
<1>7. CodeDeliversOnce'
  BY <1>1, <1>3, MaxPairsAssumption DEF IInv, TypeOK, CodeDeliversOnce, NoPair, Pairs
<1>8. QED  BY <1>4, <1>5, <1>6, <1>7 DEF IInv

LEMMA RefreshKeepsIInv ==
  ASSUME IInv, NEW t \in Tenants, NEW k \in Pairs, EngineRefreshes(t, k)
  PROVE  IInv'
<1>1. /\ login = "none" /\ engine[t] # NoPair /\ k = Len(claims) + 1
      /\ claims' = Append(claims, Claimed)
      /\ kept' = [kept EXCEPT ![k] = kept[engine[t]]]
      /\ row' = k /\ engine' = [engine EXCEPT ![t] = k]
      /\ UNCHANGED <<linked, suspended, members, lastUsed, codes, login, target, handed>>
  BY DEF EngineRefreshes, Issue, Latest
<1>2. Claimed \in Tenants \cup {NoTenant} /\ kept[engine[t]] \subseteq Tenants
  <2>1. Claimed \in Tenants \cup {NoTenant}
    BY DEF IInv, TypeOK, Claimed, Newest
  <2>2. engine[t] \in Pairs
    BY <1>1 DEF IInv, TypeOK
  <2>3. QED  BY <2>1, <2>2 DEF IInv, TypeOK
<1>3. claims' \in Seq(Tenants \cup {NoTenant}) /\ Len(claims') = k /\ Len(claims) \in Nat
  BY <1>1, <1>2 DEF IInv, TypeOK
<1>4. TypeOK'
  BY <1>1, <1>2, <1>3, MaxPairsAssumption DEF IInv, TypeOK, Pairs
<1>5. RowsAreIssued'
  BY <1>1, <1>3 DEF RowsAreIssued, Latest
<1>6. handed[k] = 0 /\ codes[k] = NoTenant /\ \A u \in Tenants : engine[u] # k
  BY <1>1, <1>3 DEF IInv, FreshPairs, Unwrapped, Latest
<1>7. FreshPairs' /\ CodesAreFresh'
  BY <1>1, <1>3, <1>6, MaxPairsAssumption
     DEF IInv, TypeOK, FreshPairs, CodesAreFresh, Unwrapped, Latest, Pairs
<1>8. CodeDeliversOnce'
  BY <1>1, <1>6 DEF IInv, TypeOK, CodeDeliversOnce
<1>9. QED  BY <1>4, <1>5, <1>7, <1>8 DEF IInv

(* A code expires, an engine is refused, an administrator suspends. *)
LEMMA LossKeepsIInv ==
  ASSUME IInv,
         \/ \E k \in Pairs : CodeExpires(k)
         \/ \E t \in Tenants : EngineIsRefused(t) \/ Suspend(t) \/ Reactivate(t)
  PROVE  IInv'
<1>1. /\ row' \in {row, NoPair}
      /\ \A j \in Pairs : codes'[j] \in {codes[j], NoTenant}
      /\ \A u \in Tenants : engine'[u] \in {engine[u], NoPair}
      /\ UNCHANGED <<linked, members, lastUsed, claims, login, target, kept, handed>>
  BY DEF IInv, TypeOK, CodeExpires, EngineIsRefused, Suspend, Reactivate, tokenVars
<1>2. TypeOK'
  BY MaxPairsAssumption DEF IInv, TypeOK, CodeExpires, EngineIsRefused, Suspend, Reactivate, tokenVars,
     NoPair
<1>3. RowsAreIssued'
  BY <1>1 DEF IInv, TypeOK, RowsAreIssued, Latest, NoPair
<1>4. NoPair \notin Pairs
  BY MaxPairsAssumption DEF NoPair, Pairs
<1>5. FreshPairs' /\ CodesAreFresh'
  BY <1>1, <1>4 DEF IInv, FreshPairs, CodesAreFresh, Unwrapped, Latest
<1>6. CodeDeliversOnce'
  BY <1>1 DEF IInv, CodeDeliversOnce
<1>7. QED  BY <1>2, <1>3, <1>5, <1>6 DEF IInv

LEMMA NextIInv == IInv /\ [Next]_vars => IInv'
<1> SUFFICES ASSUME IInv, [Next]_vars PROVE IInv'
  OBVIOUS
<1>1. CASE Next
  BY <1>1, MembersKeepIInv, IssueKeepsIInv, AnswerKeepsIInv, LoginEndsKeepIInv,
     ExchangeKeepsIInv, RefreshKeepsIInv, LossKeepsIInv DEF Next
<1>2. CASE UNCHANGED vars
  BY <1>2 DEF IInv, TypeOK, RowsAreIssued, Latest, Unwrapped, FreshPairs,
     CodesAreFresh, CodeDeliversOnce, vars, tokenVars
<1>3. QED  BY <1>1, <1>2

(* Every variable keeps its type. *)
THEOREM HandoverIsTyped == Spec => []TypeOK
<1>1. IInv => TypeOK
  BY DEF IInv
<1>2. QED  BY <1>1, InitIInv, NextIInv, PTL DEF Spec

(* In whatever order logins answer, commit and fail and codes are          *)
(* exchanged and expire, a code hands its pair over once and no two        *)
(* engines hold one pair.                                                  *)
THEOREM CodesDeliverOnce == Spec => []CodeDeliversOnce
<1>1. IInv => CodeDeliversOnce
  BY DEF IInv
<1>2. QED  BY <1>1, InitIInv, NextIInv, PTL DEF Spec

-----------------------------------------------------------------------------
(* Naming *)

KeptAreMembers == \A k \in Pairs : kept[k] \subseteq Memberships

LoginAgrees == login = "issued" => kept[Latest] = {} \/ claims[Latest] = Claimed

Holds(t, k) == engine[t] = k \/ codes[k] = t

AnswerIsTarget == login = "answered" => \A t \in Tenants : Holds(t, Latest) => target = t

RowIsLastUsed == row # NoPair => \A t \in Tenants : Holds(t, row) => lastUsed = t

Named ==
  linked = Tenants =>
    \A t \in Tenants, k \in Pairs : Holds(t, k) /\ t \in kept[k] => claims[k] = t

NInv == KeptAreMembers /\ LoginAgrees /\ AnswerIsTarget /\ RowIsLastUsed /\ Named

LEMMA InitNInv == Init => NInv
  BY TenantsAssumption, MaxPairsAssumption
     DEF Init, NInv, KeptAreMembers, LoginAgrees, AnswerIsTarget, RowIsLastUsed, Named,
         Holds, NoPair, Pairs

(* A login that a change of memberships falls into keeps none. *)
LEMMA MembersKeepNInv ==
  ASSUME IInv, NInv, NEW t \in Tenants, Join(t) \/ Leave(t)
  PROVE  NInv'
<1>1. UNCHANGED <<linked, suspended, lastUsed, claims, row, codes, login, target,
                  engine, handed>>
  BY DEF Join, Leave, tokenVars
<1>2. \A k \in Pairs : kept'[k] \subseteq kept[k]
  BY DEF IInv, TypeOK, Join, Leave, Broken
<1>3. login = "issued" => kept'[Latest] = {}
  <2>1. login = "issued" => Latest \in Pairs
    BY MaxPairsAssumption DEF IInv, TypeOK, RowsAreIssued, Latest, Pairs
  <2>2. QED  BY <2>1 DEF Join, Leave, Broken
<1>4. KeptAreMembers'
  <2>1. CASE Join(t)
    <3>1. Memberships \subseteq Memberships'
      BY <2>1 DEF IInv, TypeOK, Join, Memberships, IsMember
    <3>2. QED  BY <1>2, <3>1 DEF NInv, KeptAreMembers
  <2>2. CASE Leave(t)
    <3>1. PICK p \in DOMAIN members :
            /\ members[p] = t
            /\ members' = [i \in 1..(Len(members) - 1) |->
                            members[IF i < p THEN i ELSE i + 1]]
      BY <2>2 DEF Leave
    <3>2. DOMAIN members = 1..Len(members) /\ Len(members) \in Nat
      BY DEF IInv, TypeOK
    <3>3. ASSUME NEW u \in Memberships, u # t PROVE u \in Memberships'
      <4>1. PICK j \in DOMAIN members : members[j] = u
        BY DEF Memberships, IsMember
      <4>2. j # p
        BY <3>1, <3>3, <4>1
      <4>3. CASE j < p
        <5>1. j \in DOMAIN members' /\ members'[j] = u
          BY <3>1, <3>2, <4>1, <4>3
        <5>2. QED  BY <5>1 DEF Memberships, IsMember
      <4>4. CASE j > p
        <5>1. j - 1 \in DOMAIN members' /\ members'[j - 1] = u
          BY <3>1, <3>2, <4>1, <4>4
        <5>2. QED  BY <5>1 DEF Memberships, IsMember
      <4>5. QED  BY <3>2, <4>1, <4>2, <4>3, <4>4
    <3>4. \A k \in Pairs : t \notin kept'[k]
      BY <2>2 DEF IInv, TypeOK, Leave, Broken
    <3>5. QED  BY <1>2, <3>3, <3>4 DEF NInv, KeptAreMembers
  <2>3. QED  BY <2>1, <2>2
<1>5. QED
  BY <1>1, <1>2, <1>3, <1>4
     DEF NInv, LoginAgrees, AnswerIsTarget, RowIsLastUsed, Named, Holds, Latest

LEMMA IssueKeepsNInv ==
  ASSUME IInv, NInv, NEW k \in Pairs, LoginIssues(k)
  PROVE  NInv'
<1>1. /\ k = Len(claims) + 1 /\ login' = "issued"
      /\ claims' = Append(claims, Claimed)
      /\ kept' = [kept EXCEPT ![k] = Memberships]
      /\ UNCHANGED <<linked, suspended, members, lastUsed, row, codes, target, engine,
                     handed>>
  BY DEF LoginIssues, Issue, Latest
<1>2. Claimed \in Tenants \cup {NoTenant} /\ Claimed' = Claimed
      /\ Memberships' = Memberships
  BY <1>1 DEF IInv, TypeOK, Claimed, Newest, Memberships, IsMember
<1>3. /\ Len(claims) \in Nat /\ Len(claims') = k /\ claims'[k] = Claimed
      /\ \A j \in 1..Len(claims) : claims'[j] = claims[j]
  BY <1>1, <1>2 DEF IInv, TypeOK
<1>4. KeptAreMembers'
  BY <1>1, <1>2 DEF IInv, TypeOK, NInv, KeptAreMembers
<1>5. LoginAgrees' /\ AnswerIsTarget' /\ RowIsLastUsed'
  BY <1>1, <1>2, <1>3
     DEF NInv, LoginAgrees, AnswerIsTarget, RowIsLastUsed, Holds, Latest
<1>6. Named'
  <2> SUFFICES ASSUME linked = Tenants, NEW t \in Tenants, NEW j \in Pairs,
                      Holds(t, j), t \in kept'[j]
               PROVE  claims'[j] = t
    BY <1>1 DEF Named, Holds
  <2>1. j <= Len(claims)
    BY <1>3, TenantsAssumption, MaxPairsAssumption
       DEF IInv, FreshPairs, Unwrapped, Latest, Holds, Pairs
  <2>2. QED  BY <1>1, <1>3, <2>1, MaxPairsAssumption DEF IInv, TypeOK, NInv, Named, Pairs
<1>7. QED  BY <1>4, <1>5, <1>6 DEF NInv

(* The tenant of the redirect is the one claimed, if the user is still in  *)
(* it and every tenant has an engine.                                      *)
LEMMA AnswerKeepsNInv ==
  ASSUME IInv, NInv, LoginAnswers
  PROVE  NInv'
<1>1. /\ login = "issued" /\ login' = "answered"
      /\ target' = Redirect /\ codes' = [codes EXCEPT ![Latest] = Redirect]
      /\ UNCHANGED <<linked, suspended, members, lastUsed, claims, row, engine, kept,
                     handed>>
  BY DEF LoginAnswers
<1>2. Latest \in Pairs /\ Latest' = Latest /\ row # Latest
      /\ codes'[Latest] = Redirect /\ \A t \in Tenants : engine[t] # Latest
  BY <1>1, MaxPairsAssumption
     DEF IInv, TypeOK, RowsAreIssued, FreshPairs, Unwrapped, Latest, Pairs
<1>3. KeptAreMembers' /\ LoginAgrees'
  BY <1>1 DEF NInv, KeptAreMembers, LoginAgrees, Memberships, IsMember
<1>4. AnswerIsTarget'
  BY <1>1, <1>2 DEF AnswerIsTarget, Holds
<1>5. RowIsLastUsed'
  BY <1>1, <1>2 DEF IInv, TypeOK, NInv, RowIsLastUsed, Holds, RowsAreIssued, NoPair
<1>6. Named'
  <2> SUFFICES ASSUME linked = Tenants, NEW t \in Tenants, NEW j \in Pairs,
                      Holds(t, j)', t \in kept[j]
               PROVE  claims[j] = t
    BY <1>1 DEF Named
  <2>1. CASE j # Latest
    BY <1>1, <2>1 DEF IInv, TypeOK, NInv, Named, Holds
  <2>2. CASE j = Latest
    <3>1. t = Redirect
      BY <1>1, <1>2, <2>2 DEF Holds
    <3>2. IsMember(t) /\ claims[Latest] = Claimed
      BY <1>1, <2>2 DEF NInv, KeptAreMembers, Memberships, LoginAgrees
    <3>3. ~IsMember(NoTenant)
      BY TenantsAssumption DEF IInv, TypeOK, IsMember
    <3>4. QED
      BY <2>2, <3>1, <3>2, <3>3, TenantsAssumption DEF IInv, TypeOK, Redirect, Claimed
  <2>3. QED  BY <2>1, <2>2
<1>7. QED  BY <1>3, <1>4, <1>5, <1>6 DEF NInv

LEMMA LoginEndsKeepNInv ==
  ASSUME IInv, NInv, LoginCommits \/ LoginFails
  PROVE  NInv'
<1>1. /\ login' = "none"
      /\ UNCHANGED <<linked, suspended, members, claims, codes, engine, kept, handed>>
  BY DEF LoginCommits, LoginFails
<1>2. KeptAreMembers' /\ LoginAgrees' /\ AnswerIsTarget' /\ Named'
  BY <1>1 DEF NInv, KeptAreMembers, LoginAgrees, AnswerIsTarget, Named, Holds,
     Memberships, IsMember
<1>3. RowIsLastUsed'
  <2>1. CASE LoginCommits
    <3>1. login = "answered" /\ row' = Latest
          /\ lastUsed' = IF target = NoTenant THEN lastUsed ELSE target
      BY <2>1 DEF LoginCommits
    <3>2. QED
      BY <1>1, <3>1, TenantsAssumption DEF NInv, AnswerIsTarget, RowIsLastUsed, Holds
  <2>2. CASE LoginFails
    BY <2>2 DEF LoginFails, NInv, RowIsLastUsed, Holds
  <2>3. QED  BY <2>1, <2>2
<1>4. QED  BY <1>2, <1>3 DEF NInv

LEMMA ExchangeKeepsNInv ==
  ASSUME IInv, NInv, NEW t \in Tenants, NEW k \in Pairs, Exchange(t, k)
  PROVE  NInv'
<1>1. /\ codes[k] = t /\ codes' = [codes EXCEPT ![k] = NoTenant]
      /\ engine' = [engine EXCEPT ![t] = k]
      /\ UNCHANGED <<linked, suspended, members, lastUsed, claims, row, login, target,
                     kept>>
  BY DEF Exchange, Taken
<1>2. \A u \in Tenants, j \in Pairs : Holds(u, j)' => Holds(u, j)
  BY <1>1, TenantsAssumption DEF IInv, TypeOK, Holds
<1>3. login = "answered" => Latest \in Pairs
  BY MaxPairsAssumption DEF IInv, TypeOK, RowsAreIssued, Latest, Pairs
<1>4. row # NoPair => row \in Pairs
  BY DEF IInv, TypeOK
<1>5. AnswerIsTarget' /\ RowIsLastUsed'
  BY <1>1, <1>2, <1>3, <1>4 DEF NInv, AnswerIsTarget, RowIsLastUsed, Latest, Holds
<1>6. QED
  BY <1>1, <1>2, <1>5 DEF NInv, KeptAreMembers, Memberships, IsMember, LoginAgrees,
     Claimed, Newest, Latest, Named

(* The pair refreshed has the row, so its engine's tenant is the last used *)
(* one, and a membership kept until now makes the claim name it.           *)
LEMMA RefreshKeepsNInv ==
  ASSUME IInv, NInv, NEW t \in Tenants, NEW k \in Pairs, EngineRefreshes(t, k)
  PROVE  NInv'
<1>1. /\ login = "none" /\ engine[t] # NoPair /\ row = engine[t] /\ k = Len(claims) + 1
      /\ claims' = Append(claims, Claimed)
      /\ kept' = [kept EXCEPT ![k] = kept[engine[t]]]
      /\ row' = k /\ engine' = [engine EXCEPT ![t] = k]
      /\ UNCHANGED <<linked, suspended, members, lastUsed, codes, login, target, handed>>
  BY DEF EngineRefreshes, Issue, Latest
<1>2. Claimed \in Tenants \cup {NoTenant}
  BY DEF IInv, TypeOK, Claimed, Newest
<1>3. /\ Len(claims) \in Nat /\ claims'[k] = Claimed
      /\ \A j \in 1..Len(claims) : claims'[j] = claims[j]
  BY <1>1, <1>2 DEF IInv, TypeOK
<1>4. codes[k] = NoTenant /\ \A u \in Tenants : engine[u] # k
  BY <1>1, <1>3 DEF IInv, FreshPairs, Unwrapped, Latest
<1>5. engine[t] \in Pairs /\ lastUsed = t
  BY <1>1 DEF IInv, TypeOK, NInv, RowIsLastUsed, Holds
<1>6. KeptAreMembers'
  BY <1>1, <1>5 DEF IInv, TypeOK, NInv, KeptAreMembers, Memberships, IsMember
<1>7. LoginAgrees' /\ AnswerIsTarget'
  BY <1>1 DEF LoginAgrees, AnswerIsTarget
<1>8. RowIsLastUsed'
  BY <1>1, <1>4, <1>5, TenantsAssumption DEF IInv, TypeOK, RowIsLastUsed, Holds
<1>9. Named'
  <2> SUFFICES ASSUME linked = Tenants, NEW u \in Tenants, NEW j \in Pairs,
                      Holds(u, j)', u \in kept'[j]
               PROVE  claims'[j] = u
    BY <1>1 DEF Named
  <2>1. CASE j = k
    <3>1. u = t /\ u \in kept[engine[t]]
      BY <1>1, <1>4, <2>1, TenantsAssumption DEF IInv, TypeOK, Holds
    <3>2. IsMember(t)
      BY <1>5, <3>1 DEF NInv, KeptAreMembers, Memberships
    <3>3. QED  BY <1>3, <1>5, <2>1, <3>1, <3>2 DEF Claimed
  <2>2. CASE j # k
    <3>1. Holds(u, j) /\ u \in kept[j]
      BY <1>1, <2>2 DEF IInv, TypeOK, Holds
    <3>2. j \in 1..Len(claims)
      BY <1>3, <3>1, TenantsAssumption, MaxPairsAssumption
         DEF IInv, FreshPairs, Unwrapped, Latest, Holds, Pairs
    <3>3. QED  BY <1>3, <3>1, <3>2 DEF NInv, Named
  <2>3. QED  BY <2>1, <2>2
<1>10. QED  BY <1>6, <1>7, <1>8, <1>9 DEF NInv

LEMMA LossKeepsNInv ==
  ASSUME IInv, NInv,
         \/ \E k \in Pairs : CodeExpires(k)
         \/ \E t \in Tenants : EngineIsRefused(t) \/ Suspend(t) \/ Reactivate(t)
  PROVE  NInv'
<1>1. /\ row' \in {row, NoPair}
      /\ \A j \in Pairs : codes'[j] \in {codes[j], NoTenant}
      /\ \A u \in Tenants : engine'[u] \in {engine[u], NoPair}
      /\ UNCHANGED <<linked, members, lastUsed, claims, login, target, kept, handed>>
  BY DEF IInv, TypeOK, CodeExpires, EngineIsRefused, Suspend, Reactivate, tokenVars
<1>2. NoPair \notin Pairs
  BY MaxPairsAssumption DEF NoPair, Pairs
<1>3. \A u \in Tenants, j \in Pairs : Holds(u, j)' => Holds(u, j)
  BY <1>1, <1>2, TenantsAssumption DEF Holds
<1>4. login = "answered" => Latest \in Pairs
  BY MaxPairsAssumption DEF IInv, TypeOK, RowsAreIssued, Latest, Pairs
<1>5. row # NoPair => row \in Pairs
  BY DEF IInv, TypeOK
<1>6. AnswerIsTarget' /\ RowIsLastUsed'
  BY <1>1, <1>3, <1>4, <1>5 DEF NInv, AnswerIsTarget, RowIsLastUsed, Latest, Holds
<1>7. QED
  BY <1>1, <1>3, <1>6 DEF NInv, KeptAreMembers, Memberships, IsMember, LoginAgrees,
     Claimed, Newest, Latest, Named

LEMMA NextNInv == IInv /\ NInv /\ [Next]_vars => NInv'
<1> SUFFICES ASSUME IInv, NInv, [Next]_vars PROVE NInv'
  OBVIOUS
<1>1. CASE Next
  BY <1>1, MembersKeepNInv, IssueKeepsNInv, AnswerKeepsNInv, LoginEndsKeepNInv,
     ExchangeKeepsNInv, RefreshKeepsNInv, LossKeepsNInv DEF Next
<1>2. CASE UNCHANGED vars
  BY <1>2 DEF NInv, KeptAreMembers, Memberships, IsMember, LoginAgrees, Claimed,
     Newest, Latest, AnswerIsTarget, RowIsLastUsed, Named, Holds, vars, tokenVars
<1>3. QED  BY <1>1, <1>2

(* The token an engine holds claims that engine's tenant for a user who    *)
(* stayed in it, after any number of logins, refreshes and suspensions.    *)
THEOREM EngineTokensNameTheirTenant == Spec => []EngineTokenNamesItsTenant
<1>1. IInv /\ NInv => EngineTokenNamesItsTenant
  BY DEF IInv, TypeOK, NInv, Named, Holds, EngineTokenNamesItsTenant
<1>2. QED  BY <1>1, InitIInv, NextIInv, InitNInv, NextNInv, PTL DEF Spec

-----------------------------------------------------------------------------
(***************************************************************************)
(* Browser tabs, for any number of token pairs, calls in flight and        *)
(* transactions in progress.  The properties of a serial tab need to know  *)
(* where its refresh token is while a call is under way: in the tab, or in *)
(* the answer of a refresh that is to be stored (Current).  That token is  *)
(* the server's, and no open transaction ends it (Safe); in the user       *)
(* portal it is the only one that is left when they all have ended         *)
(* (Remaining).                                                            *)
(***************************************************************************)

Redeemed(c) == Answered(c, "refresh") /\ call[c].answer = "ok"

(* The refresh token that is to be the tab's. *)
Current(c) == IF Redeemed(c) THEN call[c].pair ELSE held

(* A logout the server has accepted. *)
LogoutServed(c) ==
  call[c].kind = "logout" /\ call[c].answer = "ok" /\ ~Redeemed(c)

Safe(p) == p \in live \cup Begun \cup past.lapsed /\ p \notin Ending

CallIsCurrent(c) ==
  /\ held # None
  /\ call[c].kind \in {"normal", "logout"}
  /\ call[c].pair = Current(c) /\ Current(c) # None
  /\ ~LogoutServed(c) => Safe(Current(c))

SerialTab ==
  /\ \A b, c \in Busy : b = c
  /\ \A c \in Busy : CallIsCurrent(c)
  /\ Busy = {} /\ held # None => Safe(held)

(* The refresh tokens there will be when the open transactions have ended. *)
Remaining == (live \ Ending) \cup (Begun \ {None})

UserCallIsCurrent(c) ==
  /\ Remaining \subseteq {Current(c)}
  /\ call[c].kind = "logout" =>
       call[c].step = "request" /\ call[c].body = held /\ call[c].answer # "401"

UserTab ==
  /\ \A c \in Busy : UserCallIsCurrent(c)
  /\ Busy = {} /\ held # None => Remaining \subseteq {held}
  /\ past.loggedOut => Remaining = {}

-----------------------------------------------------------------------------
(* Types *)

Records == [step : {"idle", "request", "refresh", "retry"},
            kind : {"none", "normal", "logout", "restore"},
            pair : MaybePair, body : MaybePair, answer : Answers]

Transactions == [ends : SUBSET TokenPairs, begins : MaybePair]
Pasts == Quiet \cup {Disturbed}

LEMMA TCInitTyped == TCInit => TCTypeOK
<1> SUFFICES ASSUME TCInit PROVE TCTypeOK
  OBVIOUS
<1>1. call \in [Calls -> Records]
  BY DEF TCInit, Idle, MaybePair, Answers, Records
<1>2. faults \in 0..MaxFaults
  BY BoundsAssumption DEF TCInit
<1>3. past \in Pasts
  BY DEF TCInit, NothingYet, Quiet, Pasts
<1>4. QED  BY <1>1, <1>2, <1>3 DEF TCInit, TCTypeOK, MaybePair, Records, Pasts

LEMMA EndKeepsTypes ==
  ASSUME TCTypeOK, NEW c \in Calls, NEW clears \in BOOLEAN, End(c, clears)
  PROVE  {held', stored'} \subseteq MaybePair /\ call' \in [Calls -> Records]
  BY DEF TCTypeOK, End, ClearTokens, KeepTokens, Idle, MaybePair, Answers, Records

LEMMA OpensKeepsTypes ==
  ASSUME TCTypeOK, NEW ends \in SUBSET TokenPairs, NEW begins \in MaybePair,
         Opens(ends, begins)
  PROVE  live' \subseteq TokenPairs /\ uncommitted' \subseteq Transactions
  BY DEF TCTypeOK, Opens, Transactions

(* What Notes is given is a history of an undisturbed tab, if it is one. *)
LEMMA NotesTyped ==
  ASSUME NEW quiet, Notes(quiet), past.disturbed \/ quiet \in Pasts
  PROVE  past' \in Pasts
  BY DEF Notes, Pasts

LEMMA QuietHistories ==
  ASSUME TCTypeOK, ~past.disturbed
  PROVE  /\ past \in Quiet
         /\ MadeAPair \in Quiet
         /\ [past EXCEPT !.hurried = Hurries] \in Quiet
         /\ [past EXCEPT !.hurried = Hurries, !.loggedOut = TRUE] \in Quiet
         /\ \A p \in TokenPairs : [past EXCEPT !.lapsed = @ \cup {p}] \in Quiet
<1>1. past \in Quiet
  BY DEF TCTypeOK, Disturbed, NothingYet
<1>2. Hurries \in BOOLEAN
  BY <1>1 DEF Hurries, Quiet
<1>3. QED  BY <1>1, <1>2 DEF Quiet, MadeAPair, NothingYet

LEMMA FaultKeepsTypes == TCTypeOK /\ Fault => faults' \in 0..MaxFaults /\ past' \in Pasts
  BY BoundsAssumption DEF TCTypeOK, Fault, Pasts

LEMMA NextKeepsTypes == TCTypeOK /\ [TCNext]_tcVars => TCTypeOK'
<1> SUFFICES ASSUME TCTypeOK, [TCNext]_tcVars PROVE TCTypeOK'
  OBVIOUS
<1> USE DEF TCTypeOK
<1>1. CASE UNCHANGED tcVars
  BY <1>1 DEF tcVars, tabVars, serverVars, rowVars, historyVars
<1>a. past \in Pasts /\ uncommitted \subseteq Transactions /\ call \in [Calls -> Records]
  BY DEF Pasts, Transactions, Records
<1>b. SUFFICES ASSUME TCNext, UNCHANGED portal
               PROVE  /\ {held', stored'} \subseteq MaybePair
                      /\ call' \in [Calls -> Records]
                      /\ live' \subseteq TokenPairs
                      /\ uncommitted' \subseteq Transactions
                      /\ fresh' \subseteq TokenPairs
                      /\ faults' \in 0..MaxFaults
                      /\ past' \in Pasts
  BY <1>1 DEF TCNext, Pasts, Transactions, Records
<1> DEFINE Typed ==
      /\ {held', stored'} \subseteq MaybePair
      /\ call' \in [Calls -> Records]
      /\ live' \subseteq TokenPairs
      /\ uncommitted' \subseteq Transactions
      /\ fresh' \subseteq TokenPairs
      /\ faults' \in 0..MaxFaults
      /\ past' \in Pasts
<1>2. CASE Login
  <2>1. PICK p \in TokenPairs : /\ Opens(IF portal = "user" THEN live ELSE {}, p)
                                /\ SetTokens(p)
                                /\ Accepts(fresh \cup {p})
    BY <1>2 DEF Login, Unused
  <2>2. live' \subseteq TokenPairs /\ uncommitted' \subseteq Transactions
    BY <2>1, OpensKeepsTypes DEF MaybePair
  <2>3. {held', stored'} \subseteq MaybePair /\ fresh' \subseteq TokenPairs
    BY <2>1 DEF SetTokens, Accepts, MaybePair
  <2>4. past' \in Pasts
    BY <1>2, QuietHistories DEF Login, Overlaps, Notes, Pasts
  <2>5. QED  BY <1>a, <1>2, <2>2, <2>3, <2>4 DEF Login
<1>3. ASSUME NEW c \in Calls, Start(c) \/ Logout(c) PROVE Typed
  <2>1. PICK kind \in {"normal", "logout"}, body \in MaybePair : Begin(c, kind, body)
    BY <1>3 DEF Start, Logout, MaybePair
  <2>2. call' \in [Calls -> Records]
    BY <2>1 DEF Begin, Send, Records, Answers, MaybePair
  <2>3. past' \in Pasts
    BY <1>a, <2>1 DEF Begin, Overlaps, Notes, Pasts
  <2>4. QED  BY <1>a, <2>1, <2>2, <2>3 DEF Begin, KeepTokens, serverVars, rowVars
<1>4. ASSUME NEW c \in Calls, Serve(c, "request") \/ Serve(c, "retry") PROVE Typed
  <2>1. UNCHANGED <<held, stored, faults>>
    BY <1>4 DEF Serve
  <2>2. ASSUME NEW a \in {"ok", "401"}, Answer(c, a) PROVE call' \in [Calls -> Records]
    BY <1>a, <2>2 DEF Answer, Answers, Records
  <2>3. CASE Answer(c, "401") /\ UNCHANGED <<serverVars, past>>
    BY <1>a, <2>1, <2>2, <2>3 DEF serverVars, rowVars
  <2>4. CASE ServeNormal(c)
    BY <1>a, <2>1, <2>2, <2>4 DEF ServeNormal, serverVars, rowVars
  <2>5. CASE ServeLogout(c)
    <3>1. live' \subseteq TokenPairs /\ uncommitted' \subseteq Transactions
      BY <2>5, OpensKeepsTypes DEF ServeLogout, MaybePair
    <3>2. past' \in Pasts
      BY <2>5, QuietHistories DEF ServeLogout, Notes, Pasts
    <3>3. call' \in [Calls -> Records] /\ fresh' \subseteq TokenPairs
      BY <2>2, <2>5 DEF ServeLogout
    <3>4. QED  BY <2>1, <3>1, <3>2, <3>3
  <2>6. QED  BY <1>4, <2>3, <2>4, <2>5 DEF Serve
<1>5. ASSUME NEW c \in Calls, ServeRefresh(c) PROVE Typed
  <2>1. UNCHANGED <<held, stored, faults>>
    BY <1>5 DEF ServeRefresh, KeepTokens
  <2>2. past' \in Pasts
    BY <1>5, QuietHistories DEF ServeRefresh, Notes, Pasts
  <2>3. CASE Answer(c, "401") /\ UNCHANGED serverVars
    <3>1. call' \in [Calls -> Records]
      BY <1>a, <2>3 DEF Answer, Answers, Records
    <3>2. QED  BY <1>a, <2>1, <2>2, <2>3, <3>1 DEF serverVars, rowVars
  <2>4. ASSUME NEW p \in TokenPairs, call[c].pair \in live,
               call' = [call EXCEPT ![c].pair = p, ![c].answer = "ok"],
               Opens({call[c].pair}, p), Accepts(fresh \cup {p})
        PROVE  Typed
    <3>1. [call[c] EXCEPT !.pair = p, !.answer = "ok"] \in Records
      BY <1>a DEF Answers, MaybePair, Records
    <3>2. call' = [call EXCEPT ![c] = [call[c] EXCEPT !.pair = p, !.answer = "ok"]]
      BY <2>4
    <3>3. call' \in [Calls -> Records]
      BY <1>a, <3>1, <3>2 DEF Records
    <3>4. live' \subseteq TokenPairs /\ uncommitted' \subseteq Transactions
      BY <2>4, OpensKeepsTypes DEF MaybePair
    <3>5. QED  BY <2>1, <2>2, <2>4, <3>3, <3>4 DEF Accepts
  <2>5. QED  BY <1>5, <2>3, <2>4 DEF ServeRefresh, Unused
<1>6. ASSUME NEW c \in Calls,
             ReceiveRequest(c) \/ ReceiveRefresh(c) \/ ReceiveRetry(c) \/ Refuse(c)
      PROVE  Typed
  <2>1. fresh' \subseteq TokenPairs /\ UNCHANGED <<live, uncommitted, faults, past>>
    BY <1>6 DEF ReceiveRequest, ReceiveRefresh, ReceiveRetry, Refuse, Accepts, rowVars,
                historyVars
  <2>2. ASSUME NEW clears \in BOOLEAN, End(c, clears) PROVE Typed
    BY <1>a, <2>1, <2>2, EndKeepsTypes
  <2>3. CASE Send(c, "refresh", call[c].kind, RefreshToken, call[c].body) /\ KeepTokens
    BY <1>a, <2>1, <2>3 DEF Send, RefreshToken, KeepTokens, Answers, MaybePair, Records
  <2>4. CASE Refreshed(call[c].pair)
             /\ \/ Send(c, "retry", call[c].kind, call[c].pair, call[c].body)
                \/ call' = [call EXCEPT ![c] = Idle]
    BY <1>a, <2>1, <2>4 DEF Send, Refreshed, SetTokens, Idle, Answers, MaybePair, Records
  <2>5. ClearsOnFailure \in BOOLEAN
        /\ (ClearsOnFailure /\ call[c].answer = "401") \in BOOLEAN
        /\ (ClearsOnFailure /\ call[c].step # "request") \in BOOLEAN
    BY DEF ClearsOnFailure
  <2>6. CASE ReceiveRequest(c)
    BY <2>2, <2>3, <2>5, <2>6 DEF ReceiveRequest
  <2>7. CASE ReceiveRefresh(c)
    BY <2>2, <2>4, <2>5, <2>7 DEF ReceiveRefresh
  <2>8. CASE ReceiveRetry(c)
    BY <2>2, <2>5, <2>8 DEF ReceiveRetry
  <2>9. CASE Refuse(c)
    BY <2>2, <2>5, <2>9 DEF Refuse
  <2>10. QED  BY <1>6, <2>6, <2>7, <2>8, <2>9
<1>7. ASSUME NEW c \in Calls, Reload(c) PROVE Typed
  <2>1. faults' \in 0..MaxFaults /\ past' \in Pasts
    BY <1>7, FaultKeepsTypes DEF Reload
  <2>2. call' \in [Calls -> Records] /\ {held', stored'} \subseteq MaybePair
    BY <1>7 DEF Reload, Idle, Answers, MaybePair, Records
  <2>3. QED  BY <1>a, <1>7, <2>1, <2>2 DEF Reload, Accepts, rowVars
<1>8. ASSUME NEW c \in Calls, Lose(c) PROVE Typed
  <2>1. faults' \in 0..MaxFaults /\ past' \in Pasts
    BY <1>8, FaultKeepsTypes DEF Lose
  <2>2. (ClearsOnFailure /\ call[c].step = "refresh") \in BOOLEAN
    BY DEF ClearsOnFailure
  <2>3. call' \in [Calls -> Records] /\ {held', stored'} \subseteq MaybePair
    BY <1>8, <2>2, EndKeepsTypes DEF Lose
  <2>4. QED  BY <1>a, <1>8, <2>1, <2>3 DEF Lose, Accepts, rowVars
<1>9. ASSUME NEW p \in TokenPairs, AccessExpires(p) PROVE Typed
  BY <1>a, <1>9 DEF AccessExpires, tabVars, rowVars, historyVars
<1>10. ASSUME NEW p \in TokenPairs, RefreshExpires(p) PROVE Typed
  <2>1. past' \in Pasts
    BY <1>10, QuietHistories DEF RefreshExpires, Notes, Pasts
  <2>2. QED  BY <1>a, <1>10, <2>1 DEF RefreshExpires, tabVars
<1>11. ASSUME NEW t \in uncommitted, Commit(t) PROVE Typed
  BY <1>a, <1>11 DEF Commit, Transactions, MaybePair, tabVars, historyVars
<1>12. ASSUME NEW t \in uncommitted, CommitFails(t) PROVE Typed
  BY <1>a, <1>12, FaultKeepsTypes DEF CommitFails, tabVars
<1>13. CASE Revoke
  BY <1>a, <1>13, FaultKeepsTypes DEF Revoke, tabVars
<1>14. QED
  BY <1>b, <1>2, <1>3, <1>4, <1>5, <1>6, <1>7, <1>8, <1>9, <1>10, <1>11, <1>12, <1>13
  DEF TCNext, Step

(* Every variable of the tab and of the server's rows keeps its type.       *)
THEOREM TokenClientIsTyped == TCSpec => []TCTypeOK
  BY TCInitTyped, NextKeepsTypes, PTL DEF TCSpec

-----------------------------------------------------------------------------
(* One call at a time *)

(* A call in progress keeps a serial tab busy by itself. *)
LEMMA TheOneCall ==
  ASSUME NEW c \in Calls, Busy \subseteq {c}, \A b \in Calls \ {c} : call'[b] = call[b]
  PROVE  Busy' \subseteq {c} /\ (call'[c] = Idle => Busy' = {})
  BY DEF Busy

LEMMA OneCallIsSerial ==
  ASSUME NEW c \in Calls, Busy' \subseteq {c}, call'[c] # Idle, CallIsCurrent(c)'
  PROVE  SerialTab'
  BY DEF SerialTab, Busy

LEMMA NoCallIsSerial ==
  ASSUME Busy' = {}, held' # None => Safe(held)'
  PROVE  SerialTab'
  BY DEF SerialTab

(* The tab's pair stays safe while the rows stay, *)
LEMMA SafeStays ==
  ASSUME NEW p, Safe(p), UNCHANGED <<live, uncommitted>>, past.lapsed \subseteq past'.lapsed
  PROVE  Safe(p)'
  BY DEF Safe, Begun, Ending

(* and the pair that a transaction begins is. *)
LEMMA BegunIsSafe ==
  ASSUME NEW ends \in SUBSET TokenPairs, NEW p \in Unused, Opens(ends, p), p \notin ends
  PROVE  Safe(p)'
<1>1. p # None /\ p \notin Ending
  BY TokenPairsAssumption DEF Unused, InUse
<1> DEFINE t == [ends |-> ends, begins |-> p]
<1>2. uncommitted' = uncommitted \cup {t} /\ t.begins = p /\ t.ends = ends
  BY <1>1 DEF Opens
<1> HIDE DEF t
<1>3. p \in Begun'
  BY <1>2 DEF Begun
<1>4. p \notin Ending'
  BY <1>1, <1>2 DEF Ending
<1>5. QED  BY <1>3, <1>4 DEF Safe

(* What holds of the one call that an action of it is about. *)
LEMMA ItsCall ==
  ASSUME TCTypeOK, SerialTab, NEW c \in Calls, call[c] # Idle
  PROVE  /\ c \in Busy /\ Busy \subseteq {c} /\ CallIsCurrent(c)
         /\ call[c] \in Records
  BY DEF SerialTab, Busy, TCTypeOK, Records

LEMMA EndIsSerial ==
  ASSUME TCTypeOK, SerialTab, NEW c \in Calls, call[c] # Idle, ~Redeemed(c),
         NEW clears \in BOOLEAN, End(c, clears), UNCHANGED <<live, uncommitted, past>>
  PROVE  SerialTab' /\ Busy' = {} /\ held' \in {held, None}
<1>1. Busy \subseteq {c} /\ CallIsCurrent(c)
  BY ItsCall
<1>2. call'[c] = Idle /\ \A b \in Calls \ {c} : call'[b] = call[b]
  BY DEF End, TCTypeOK
<1>3. Busy' = {}
  BY <1>1, <1>2, TheOneCall
<1>4. held' # None => held' = held /\ ~LogoutServed(c)
  BY DEF End, ClearTokens, KeepTokens, LogoutServed
<1>5. held' # None => Safe(held)'
  BY <1>1, <1>4, SafeStays DEF CallIsCurrent, Current
<1>6. held' \in {held, None}
  BY DEF End, ClearTokens, KeepTokens
<1>7. QED  BY <1>3, <1>5, <1>6, NoCallIsSerial

LEMMA DisturbedStays == TCTypeOK /\ TCNext /\ past.disturbed => past'.disturbed
<1> SUFFICES ASSUME TCNext, past.disturbed PROVE past' = past \/ past' = Disturbed
  BY DEF Disturbed, NothingYet
<1>1. CASE Login
  BY <1>1 DEF Login, Overlaps, Notes
<1>2. ASSUME NEW c \in Calls, Start(c) \/ Logout(c) PROVE past' = past \/ past' = Disturbed
  BY <1>2 DEF Start, Logout, Begin, Overlaps, Notes
<1>3. ASSUME NEW c \in Calls, Step(c) PROVE past' = past \/ past' = Disturbed
  BY <1>3 DEF Step, Serve, ServeNormal, ServeLogout, ServeRefresh, ReceiveRequest,
              ReceiveRefresh, ReceiveRetry, Refuse, Notes, historyVars
<1>4. ASSUME NEW c \in Calls, Reload(c) \/ Lose(c) PROVE past' = past \/ past' = Disturbed
  BY <1>4 DEF Reload, Lose, Fault
<1>5. ASSUME NEW p \in TokenPairs, AccessExpires(p) \/ RefreshExpires(p)
      PROVE  past' = past \/ past' = Disturbed
  BY <1>5 DEF AccessExpires, RefreshExpires, Notes, historyVars
<1>6. ASSUME NEW t \in uncommitted, Commit(t) \/ CommitFails(t)
      PROVE  past' = past \/ past' = Disturbed
  BY <1>6 DEF Commit, CommitFails, Fault, historyVars
<1>7. CASE Revoke
  BY <1>7 DEF Revoke, Fault
<1>8. QED  BY <1>1, <1>2, <1>3, <1>4, <1>5, <1>6, <1>7 DEF TCNext

LEMMA BeginIsSerial ==
  ASSUME TCTypeOK, SerialTab, NEW c \in Calls, NEW kind \in {"normal", "logout"},
         NEW body \in MaybePair, Begin(c, kind, body), ~past'.disturbed
  PROVE  /\ SerialTab' /\ Busy = {} /\ Busy' \subseteq {c} /\ UNCHANGED past
         /\ call'[c] = [step |-> "request", kind |-> kind, pair |-> held, body |-> body,
                        answer |-> "none"]
<1>1. Busy = {} /\ UNCHANGED past
  BY DEF Begin, Overlaps, Notes, Disturbed, NothingYet
<1>2. call'[c] = [step |-> "request", kind |-> kind, pair |-> held, body |-> body,
                  answer |-> "none"]
      /\ \A b \in Calls \ {c} : call'[b] = call[b]
  BY DEF Begin, Send, TCTypeOK
<1>3. Busy' \subseteq {c}
  BY <1>1, <1>2, TheOneCall
<1>4. held' = held /\ held # None /\ Safe(held)'
  BY <1>1, SafeStays DEF Begin, KeepTokens, SerialTab, serverVars, rowVars
<1>5. CallIsCurrent(c)'
  BY <1>2, <1>4 DEF CallIsCurrent, Current, Redeemed, Answered
<1>6. call'[c] # Idle
  BY <1>2 DEF Idle
<1>7. QED  BY <1>1, <1>2, <1>3, <1>5, <1>6, OneCallIsSerial

LEMMA ServeIsSerial ==
  ASSUME TCTypeOK, SerialTab, ~past.disturbed, NEW c \in Calls, NEW step \in {"request", "retry"},
         Serve(c, step)
  PROVE  SerialTab'
<1>1. Busy \subseteq {c} /\ CallIsCurrent(c) /\ call[c] \in Records
  BY ItsCall DEF Serve, Waiting, Idle
<1>2. PICK a \in {"ok", "401"} :
        /\ Answer(c, a)
        /\ \/ call[c].kind = "logout" /\ a = "ok"
           \/ UNCHANGED <<serverVars, past>> /\ (call[c].kind = "logout" => a = "401")
  BY DEF Serve, ServeNormal, ServeLogout
<1>3. call'[c] = [call[c] EXCEPT !.answer = a] /\ \A b \in Calls \ {c} : call'[b] = call[b]
  BY <1>2 DEF Answer, TCTypeOK
<1>4. /\ call'[c].step = step /\ call'[c].kind = call[c].kind
      /\ call'[c].pair = call[c].pair /\ call'[c].answer = a
  BY <1>1, <1>3 DEF Serve, Waiting, Records
<1>5. ~Redeemed(c) /\ ~Redeemed(c)' /\ ~LogoutServed(c) /\ held' = held
  BY <1>4 DEF Serve, Waiting, Redeemed, Answered, LogoutServed
<1>6. Current(c) = held /\ Current(c)' = held /\ Safe(held)
  BY <1>1, <1>5 DEF Current, CallIsCurrent
<1>7. ~LogoutServed(c)' => Safe(held)'
  BY <1>2, <1>4, <1>5, <1>6, SafeStays DEF LogoutServed, serverVars, rowVars
<1>8. CallIsCurrent(c)'
  BY <1>1, <1>4, <1>5, <1>6, <1>7 DEF CallIsCurrent
<1>9. Busy' \subseteq {c} /\ call'[c] # Idle
  BY <1>1, <1>3, <1>4, TheOneCall DEF Idle
<1>10. QED  BY <1>8, <1>9, OneCallIsSerial

LEMMA ServeRefreshIsSerial ==
  ASSUME TCTypeOK, SerialTab, ~past.disturbed, NEW c \in Calls, ServeRefresh(c)
  PROVE  SerialTab'
<1>1. Busy \subseteq {c} /\ CallIsCurrent(c) /\ call[c] \in Records
  BY ItsCall DEF ServeRefresh, Waiting, Idle
<1>2. call[c].step = "refresh" /\ ~Redeemed(c) /\ ~LogoutServed(c) /\ held' = held
  BY DEF ServeRefresh, Waiting, Redeemed, Answered, LogoutServed, KeepTokens
<1>3. call[c].pair = held /\ Current(c) = held /\ Safe(held)
  BY <1>1, <1>2 DEF CallIsCurrent, Current
<1>4. CASE Answer(c, "401") /\ UNCHANGED serverVars
           /\ Notes([past EXCEPT !.hurried = Hurries])
  <2>1. call'[c] = [call[c] EXCEPT !.answer = "401"]
        /\ \A b \in Calls \ {c} : call'[b] = call[b]
    BY <1>4 DEF Answer, TCTypeOK
  <2>2. /\ call'[c].step = "refresh" /\ call'[c].kind = call[c].kind
        /\ call'[c].pair = held /\ call'[c].answer = "401"
    BY <1>1, <1>2, <1>3, <2>1 DEF Records
  <2>3. past'.lapsed = past.lapsed
    BY <1>4, QuietHistories DEF Notes, Quiet
  <2>4. Safe(held)'
    BY <1>2, <1>3, <1>4, <2>3, SafeStays DEF serverVars, rowVars
  <2>5. Current(c)' = held
    BY <1>2, <2>2 DEF Current, Redeemed
  <2>6. CallIsCurrent(c)'
    BY <1>1, <1>2, <2>2, <2>4, <2>5 DEF CallIsCurrent
  <2>7. Busy' \subseteq {c} /\ call'[c] # Idle
    BY <1>1, <2>1, <2>2, TheOneCall DEF Idle
  <2>8. QED  BY <2>6, <2>7, OneCallIsSerial
<1>5. ASSUME NEW p \in Unused, call' = [call EXCEPT ![c].pair = p, ![c].answer = "ok"],
             call[c].pair \in live, Opens({call[c].pair}, p)
      PROVE  SerialTab'
  <2>1. /\ call'[c].step = "refresh" /\ call'[c].kind = call[c].kind
        /\ call'[c].pair = p /\ call'[c].answer = "ok"
        /\ \A b \in Calls \ {c} : call'[b] = call[b]
    BY <1>2, <1>5 DEF TCTypeOK
  <2>2. p # None /\ p # call[c].pair
    BY <1>5, TokenPairsAssumption DEF Unused, InUse
  <2>3. Safe(p)'
    <3>1. {call[c].pair} \in SUBSET TokenPairs
      BY <1>5 DEF TCTypeOK
    <3>2. QED  BY <1>5, <2>2, <3>1, BegunIsSafe
  <2>4. Current(c)' = p
    BY <2>1 DEF Current, Redeemed, Answered
  <2>5. CallIsCurrent(c)'
    BY <1>1, <1>2, <2>1, <2>2, <2>3, <2>4 DEF CallIsCurrent
  <2>6. Busy' \subseteq {c} /\ call'[c] # Idle
    BY <1>1, <2>1, TheOneCall DEF Idle
  <2>7. QED  BY <2>5, <2>6, OneCallIsSerial
<1>6. QED  BY <1>4, <1>5 DEF ServeRefresh

LEMMA ReceiveRequestIsSerial ==
  ASSUME TCTypeOK, SerialTab, NEW c \in Calls, ReceiveRequest(c)
  PROVE  /\ SerialTab' /\ held' \in {held, None}
         /\ Busy' = {} \/ /\ Busy' \subseteq {c} /\ held' = held
                          /\ call[c].answer = "401" /\ call'[c].step = "refresh"
                          /\ call'[c].kind = call[c].kind /\ call'[c].answer = "none"
<1>1. Busy \subseteq {c} /\ CallIsCurrent(c) /\ call[c] \in Records /\ call[c] # Idle
  BY ItsCall DEF ReceiveRequest, Answered, Idle
<1>2. ~Redeemed(c) /\ call[c].pair = held /\ RefreshToken = held /\ held # None
  BY <1>1 DEF ReceiveRequest, Redeemed, Answered, CallIsCurrent, Current, RefreshToken
<1>3. UNCHANGED <<live, uncommitted, past>>
  BY DEF ReceiveRequest, rowVars, historyVars
<1>4. CASE End(c, FALSE)
  BY <1>1, <1>2, <1>3, <1>4, EndIsSerial
<1>5. CASE Send(c, "refresh", call[c].kind, RefreshToken, call[c].body)
           /\ call[c].answer = "401" /\ KeepTokens
  <2>1. /\ call'[c] = [step |-> "refresh", kind |-> call[c].kind, pair |-> held,
                       body |-> call[c].body, answer |-> "none"]
        /\ \A b \in Calls \ {c} : call'[b] = call[b]
    BY <1>2, <1>5 DEF Send, TCTypeOK
  <2>2. ~Redeemed(c)' /\ Current(c)' = held /\ ~LogoutServed(c) /\ held' = held
    BY <1>5, <2>1 DEF Redeemed, Answered, LogoutServed, Current, KeepTokens
  <2>3. Safe(held)'
    BY <1>1, <1>2, <1>3, <2>2, SafeStays DEF CallIsCurrent, Current
  <2>4. CallIsCurrent(c)'
    BY <1>1, <1>2, <2>1, <2>2, <2>3 DEF CallIsCurrent
  <2>5. Busy' \subseteq {c} /\ call'[c] # Idle
    BY <1>1, <2>1, TheOneCall DEF Idle
  <2>6. QED  BY <1>5, <2>1, <2>2, <2>4, <2>5, OneCallIsSerial
<1>6. QED  BY <1>2, <1>4, <1>5 DEF ReceiveRequest

LEMMA ReceiveRefreshIsSerial ==
  ASSUME TCTypeOK, SerialTab, NEW c \in Calls, ReceiveRefresh(c)
  PROVE  /\ SerialTab'
         /\ \/ Busy' = {} /\ held' \in {held, None} /\ ~Redeemed(c)
            \/ /\ Busy' \subseteq {c} /\ held' = Current(c)
               /\ call'[c].step = "retry" /\ call'[c].kind = call[c].kind
               /\ call'[c].answer = "none"
<1>1. Busy \subseteq {c} /\ CallIsCurrent(c) /\ call[c] \in Records /\ call[c] # Idle
  BY ItsCall DEF ReceiveRefresh, Answered, Idle
<1>2. call[c].step = "refresh" /\ call[c].answer # "none" /\ call[c].kind # "restore"
  BY <1>1 DEF ReceiveRefresh, Answered, CallIsCurrent
<1>3. UNCHANGED <<live, uncommitted, past>>
  BY DEF ReceiveRefresh, rowVars, historyVars
<1>4. CASE End(c, ClearsOnFailure) /\ call[c].answer = "401"
  BY <1>1, <1>3, <1>4, EndIsSerial DEF Redeemed, ClearsOnFailure
<1>5. CASE Refreshed(call[c].pair) /\ call[c].answer = "ok"
           /\ Send(c, "retry", call[c].kind, call[c].pair, call[c].body)
  <2>1. Redeemed(c) /\ Current(c) = call[c].pair /\ ~LogoutServed(c)
    BY <1>2, <1>5 DEF Redeemed, Answered, Current, LogoutServed
  <2>2. held' = call[c].pair /\ held' # None
    BY <1>1, <1>5, <2>1 DEF Refreshed, SetTokens, CallIsCurrent
  <2>3. /\ call'[c] = [step |-> "retry", kind |-> call[c].kind, pair |-> call[c].pair,
                       body |-> call[c].body, answer |-> "none"]
        /\ \A b \in Calls \ {c} : call'[b] = call[b]
    BY <1>5 DEF Send, TCTypeOK
  <2>4. Safe(call[c].pair)'
    <3>1. Safe(call[c].pair)
      BY <1>1, <2>1 DEF CallIsCurrent
    <3> DEFINE p == call[c].pair
    <3>2. ASSUME NEW q, q = p PROVE q \in live' \cup Begun' \cup past'.lapsed /\ q \notin Ending'
      BY <1>3, <3>1, <3>2 DEF Safe, Begun, Ending
    <3>3. held' \in live' \cup Begun' \cup past'.lapsed /\ held' \notin Ending'
      BY <2>2, <3>2
    <3>4. call'[c].pair = held'
      BY <2>2, <2>3
    <3>5. QED  BY <3>3, <3>4 DEF Safe
  <2>5. Current(c)' = held' /\ call'[c].pair = held' /\ ~LogoutServed(c)'
    BY <2>2, <2>3 DEF Current, Redeemed, Answered, LogoutServed
  <2>6. CallIsCurrent(c)'
    BY <1>1, <2>2, <2>3, <2>4, <2>5 DEF CallIsCurrent, Safe
  <2>7. Busy' \subseteq {c} /\ call'[c] # Idle
    BY <1>1, <2>3, TheOneCall DEF Idle
  <2>8. QED  BY <2>1, <2>2, <2>3, <2>6, <2>7, OneCallIsSerial
<1>6. QED  BY <1>2, <1>4, <1>5 DEF ReceiveRefresh

LEMMA RowsMoveSerially ==
  ASSUME SerialTab, UNCHANGED tabVars,
         \A p : p # None /\ Safe(p) =>
                  p \in live' \cup Begun' \cup past'.lapsed /\ p \notin Ending'
  PROVE  SerialTab'
<1>1. Busy' = Busy
  BY DEF Busy, tabVars
<1>2. held # None /\ Safe(held) => Safe(held)'
  BY DEF Safe, tabVars
<1>3. ASSUME NEW c \in Busy PROVE CallIsCurrent(c)'
  <2>1. CallIsCurrent(c)
    BY <1>3 DEF SerialTab
  <2>2. Current(c)' = Current(c) /\ (LogoutServed(c)' <=> LogoutServed(c))
    BY DEF Current, LogoutServed, Redeemed, Answered, tabVars
  <2>3. Current(c) # None /\ Safe(Current(c)) => Safe(Current(c))'
    BY <2>2 DEF Safe
  <2>4. QED  BY <2>1, <2>2, <2>3 DEF CallIsCurrent, tabVars
<1>4. QED  BY <1>1, <1>2, <1>3 DEF SerialTab, tabVars

LEMMA NextKeepsSerial ==
  ASSUME TCTypeOK, ~past.disturbed => SerialTab, [TCNext]_tcVars, ~past'.disturbed
  PROVE  SerialTab'
<1>1. CASE UNCHANGED tcVars
  <2>1. SerialTab /\ UNCHANGED <<tabVars, live, uncommitted, past>>
    BY <1>1 DEF tcVars, serverVars, rowVars, historyVars
  <2>2. QED  BY <2>1, RowsMoveSerially DEF Safe, Begun, Ending
<1>2. SUFFICES ASSUME TCNext, SerialTab, ~past.disturbed PROVE SerialTab'
  BY <1>1, DisturbedStays
<1>3. CASE Login
  <2>1. PICK p \in Unused : Opens(IF portal = "user" THEN live ELSE {}, p) /\ SetTokens(p)
    BY <1>3 DEF Login
  <2>2. Busy = {} /\ call' = call
    BY <1>2, <1>3 DEF Login, Overlaps, Notes, Disturbed, NothingYet
  <2>3. Safe(p)'
    <3>1. (IF portal = "user" THEN live ELSE {}) \in SUBSET TokenPairs
          /\ p \notin (IF portal = "user" THEN live ELSE {})
      BY <2>1 DEF TCTypeOK, Unused, InUse
    <3>2. QED  BY <2>1, <3>1, BegunIsSafe
  <2>4. Busy' = {} /\ held' = p
    BY <2>1, <2>2 DEF Busy, SetTokens
  <2>5. QED  BY <2>3, <2>4, NoCallIsSerial DEF Safe
<1>4. ASSUME NEW c \in Calls, Start(c) \/ Logout(c) PROVE SerialTab'
  <2>1. PICK kind \in {"normal", "logout"}, body \in MaybePair : Begin(c, kind, body)
    BY <1>4 DEF Start, Logout, MaybePair, TCTypeOK
  <2>2. QED  BY <1>2, <2>1, BeginIsSerial
<1>5. ASSUME NEW c \in Calls, Refuse(c) PROVE SerialTab'
  <2>1. ~Redeemed(c) /\ UNCHANGED <<live, uncommitted, past>>
    BY <1>5 DEF Refuse, Redeemed, rowVars, historyVars
  <2>2. (ClearsOnFailure /\ call[c].step # "request") \in BOOLEAN
    BY DEF ClearsOnFailure
  <2>3. QED  BY <1>2, <1>5, <2>1, <2>2, EndIsSerial DEF Refuse
<1>6. ASSUME NEW c \in Calls, ReceiveRetry(c) PROVE SerialTab'
  <2>1. ~Redeemed(c) /\ UNCHANGED <<live, uncommitted, past>> /\ call[c] # Idle
    BY <1>6 DEF ReceiveRetry, Redeemed, Answered, Idle, rowVars, historyVars
  <2>2. (ClearsOnFailure /\ call[c].answer = "401") \in BOOLEAN
    BY DEF ClearsOnFailure
  <2>3. QED  BY <1>2, <1>6, <2>1, <2>2, EndIsSerial DEF ReceiveRetry
<1>7. ASSUME NEW c \in Calls, Step(c) PROVE SerialTab'
  BY <1>2, <1>5, <1>6, <1>7, ServeIsSerial, ServeRefreshIsSerial, ReceiveRequestIsSerial,
     ReceiveRefreshIsSerial DEF Step
<1>8. ASSUME NEW p \in TokenPairs, AccessExpires(p) PROVE SerialTab'
  <2>1. UNCHANGED <<tabVars, live, uncommitted, past>>
    BY <1>8 DEF AccessExpires, rowVars, historyVars
  <2>2. QED  BY <1>2, <2>1, RowsMoveSerially DEF Safe, Begun, Ending
<1>9. ASSUME NEW p \in TokenPairs, RefreshExpires(p) PROVE SerialTab'
  <2>1. past'.lapsed = past.lapsed \cup {p}
    BY <1>2, <1>9, QuietHistories DEF RefreshExpires, Notes, Quiet
  <2>2. QED  BY <1>2, <1>9, <2>1, RowsMoveSerially DEF RefreshExpires, Safe, Begun, Ending
<1>10. ASSUME NEW t \in uncommitted, Commit(t) PROVE SerialTab'
  <2>1. past' = past /\ UNCHANGED tabVars
    BY <1>10 DEF Commit, historyVars
  <2>2. ASSUME NEW p, p # None, Safe(p)
        PROVE  p \in live' \cup Begun' \cup past'.lapsed /\ p \notin Ending'
    <3>1. p \notin t.ends /\ p \notin Ending'
      BY <1>10, <2>2 DEF Commit, Safe, Ending
    <3>2. CASE p \in Begun
      BY <1>10, <2>2, <3>1, <3>2 DEF Commit, Begun
    <3>3. CASE p \in live \cup past.lapsed
      BY <1>10, <2>1, <3>1, <3>3 DEF Commit
    <3>4. QED  BY <2>2, <3>1, <3>2, <3>3 DEF Safe
  <2>3. QED  BY <1>2, <2>1, <2>2, RowsMoveSerially
<1>11. ~Fault
  BY DEF Fault, Disturbed, NothingYet
<1>12. ~Revoke /\ (\A c \in Calls : ~Reload(c) /\ ~Lose(c))
       /\ \A t \in uncommitted : ~CommitFails(t)
  BY <1>11 DEF Reload, Lose, Revoke, CommitFails
<1>13. QED
  BY <1>2, <1>3, <1>4, <1>7, <1>8, <1>9, <1>10, <1>12 DEF TCNext

LEMMA SerialTabAlways == TCSpec => [](~past.disturbed => SerialTab)
<1>1. TCInit => SerialTab
  BY DEF TCInit, SerialTab, Busy
<1>2. TCTypeOK /\ (~past.disturbed => SerialTab) /\ [TCNext]_tcVars
        => (~past.disturbed => SerialTab)'
  BY NextKeepsSerial
<1>3. QED  BY <1>1, <1>2, TokenClientIsTyped, PTL DEF TCSpec

(* A tab whose calls come one at a time keeps the refresh token the server *)
(* has for it, until that expires, over any number of rotations, refused   *)
(* calls, logins and transactions in progress.                             *)
THEOREM SerialTabsKeepTheirSession == TCSpec => []SerialTabKeepsSession
<1>1. (~past.disturbed => SerialTab) => SerialTabKeepsSession
  BY DEF SerialTab, Safe, SerialTabKeepsSession
<1>2. QED  BY <1>1, SerialTabAlways, PTL

-----------------------------------------------------------------------------
(* Logouts of the user portal *)

Unhurried == portal = "user" /\ ~past.disturbed /\ ~past.hurried

LEMMA RemainingStays ==
  ASSUME UNCHANGED <<live, uncommitted>>
  PROVE  Remaining' = Remaining
  BY DEF Remaining, Begun, Ending

(* A transaction opened while none is open decides what remains. *)
LEMMA OpensAlone ==
  ASSUME uncommitted = {}, NEW ends \in SUBSET live, NEW begins, Opens(ends, begins)
  PROVE  Remaining = live /\ Remaining' = (live \ ends) \cup ({begins} \ {None})
<1>1. Remaining = live
  BY DEF Remaining, Begun, Ending
<1>2. CASE ends = {} /\ begins = None
  BY <1>1, <1>2, RemainingStays DEF Opens
<1>3. CASE ~(ends = {} /\ begins = None)
  <2> DEFINE t == [ends |-> ends, begins |-> begins]
  <2>1. uncommitted' = {t} /\ t.ends = ends /\ t.begins = begins /\ live' = live
    BY <1>3 DEF Opens
  <2> HIDE DEF t
  <2>2. Begun' = {begins} /\ Ending' = ends
    BY <2>1 DEF Begun, Ending
  <2>3. QED  BY <1>1, <2>1, <2>2 DEF Remaining
<1>4. QED  BY <1>2, <1>3

LEMMA UnhurriedBefore ==
  ASSUME TCTypeOK, TCNext, Unhurried'
  PROVE  Unhurried
<1>1. portal = "user" /\ ~past.disturbed
  BY DisturbedStays DEF Unhurried, TCNext
<1>2. SUFFICES past' = Disturbed \/ past'.hurried = past.hurried \/ past'.hurried = Hurries
  <2>1. past' # Disturbed
    BY DEF Unhurried, Disturbed, NothingYet
  <2>2. ~past'.hurried /\ past.hurried \in BOOLEAN
    BY <1>1 DEF Unhurried, TCTypeOK, Quiet, Disturbed, NothingYet
  <2>3. QED  BY <1>1, <1>2, <2>1, <2>2 DEF Hurries, Unhurried
<1>3. past \in Quiet
  BY <1>1, QuietHistories
<1>4. CASE Login
  BY <1>1, <1>4 DEF Login, Overlaps, Notes, MadeAPair, NothingYet
<1>5. ASSUME NEW c \in Calls, Start(c) \/ Logout(c) PROVE past' = past \/ past' = Disturbed
  BY <1>1, <1>5 DEF Start, Logout, Begin, Overlaps, Notes
<1>6. ASSUME NEW c \in Calls, Serve(c, "request") \/ Serve(c, "retry") \/ ServeRefresh(c)
      PROVE  past'.hurried = past.hurried \/ past'.hurried = Hurries
  BY <1>1, <1>3, <1>6 DEF Serve, ServeNormal, ServeLogout, ServeRefresh, Notes, MadeAPair,
                          NothingYet, Quiet
<1>7. ASSUME NEW c \in Calls,
             ReceiveRequest(c) \/ ReceiveRefresh(c) \/ ReceiveRetry(c) \/ Refuse(c)
      PROVE  past' = past
  BY <1>7 DEF ReceiveRequest, ReceiveRefresh, ReceiveRetry, Refuse, historyVars
<1>8. ASSUME NEW c \in Calls, Reload(c) \/ Lose(c) PROVE past' = Disturbed
  BY <1>8 DEF Reload, Lose, Fault
<1>9. ASSUME NEW p \in TokenPairs, AccessExpires(p) \/ RefreshExpires(p)
      PROVE  past'.hurried = past.hurried
  BY <1>1, <1>3, <1>9 DEF AccessExpires, RefreshExpires, Notes, historyVars, Quiet
<1>10. ASSUME NEW t \in uncommitted, Commit(t) \/ CommitFails(t)
       PROVE  past' = past \/ past' = Disturbed
  BY <1>10 DEF Commit, CommitFails, Fault, historyVars
<1>11. CASE Revoke
  BY <1>11 DEF Revoke, Fault
<1>12. QED
  BY <1>4, <1>5, <1>6, <1>7, <1>8, <1>9, <1>10, <1>11 DEF TCNext, Step

LEMMA RowsSettle ==
  ASSUME UserTab, UNCHANGED tabVars, Remaining' \subseteq Remaining,
         past'.loggedOut = past.loggedOut
  PROVE  UserTab'
<1>1. Busy' = Busy
  BY DEF Busy, tabVars
<1>2. ASSUME NEW c \in Busy PROVE UserCallIsCurrent(c)'
  <2>1. Current(c)' = Current(c)
    BY DEF Current, Redeemed, Answered, tabVars
  <2>2. QED  BY <1>2, <2>1 DEF UserTab, UserCallIsCurrent, tabVars
<1>3. QED  BY <1>1, <1>2 DEF UserTab, tabVars

LEMMA UserTabOfOne ==
  ASSUME NEW c \in Calls, Busy' \subseteq {c}, UserCallIsCurrent(c)',
         past'.loggedOut => Remaining' = {}, Busy' # {}
  PROVE  UserTab'
  BY DEF UserTab

(* A call that ends leaves the tab with the pair it had, or with none. *)
LEMMA UserCallEnds ==
  ASSUME UserTab, NEW c \in Busy, ~Redeemed(c), Busy' = {}, held' \in {held, None},
         UNCHANGED <<live, uncommitted, past>>
  PROVE  UserTab'
<1>1. Remaining' = Remaining
  BY RemainingStays
<1>2. Remaining \subseteq {held}
  BY DEF UserTab, UserCallIsCurrent, Current
<1>3. QED  BY <1>1, <1>2 DEF UserTab

LEMMA ServeKeepsUserTab ==
  ASSUME TCTypeOK, SerialTab, SerialTab', UserTab, Unhurried, Unhurried',
         NEW c \in Calls, NEW step \in {"request", "retry"}, Serve(c, step)
  PROVE  UserTab'
<1>1. c \in Busy /\ Busy \subseteq {c} /\ call[c] \in Records /\ UserCallIsCurrent(c)
  BY ItsCall DEF Serve, Waiting, Idle, UserTab
<1>2. ASSUME NEW a \in {"ok", "401"}, Answer(c, a)
      PROVE  /\ call'[c].step = step /\ call'[c].kind = call[c].kind
             /\ call'[c].body = call[c].body /\ call'[c].answer = a
             /\ Busy' \subseteq {c} /\ Busy' # {}
  <2>1. call'[c] = [call[c] EXCEPT !.answer = a] /\ \A b \in Calls \ {c} : call'[b] = call[b]
    BY <1>2 DEF Answer, TCTypeOK
  <2>2. /\ call'[c].step = step /\ call'[c].kind = call[c].kind
        /\ call'[c].body = call[c].body /\ call'[c].answer = a
    BY <1>1, <2>1 DEF Serve, Waiting, Records
  <2>3. Busy' \subseteq {c} /\ c \in Busy'
    BY <1>1, <2>1, <2>2, TheOneCall DEF Busy, Idle
  <2>4. QED  BY <2>2, <2>3
<1>3. held' = held /\ Current(c) = held
  BY DEF Serve, Waiting, Current, Redeemed, Answered
<1>4. ASSUME NEW a \in {"ok", "401"}, Answer(c, a), call[c].kind = "logout" => a = "ok",
             Remaining' \subseteq {held}, past'.loggedOut => Remaining' = {}
      PROVE  UserTab'
  <2>1. Current(c)' = held
    BY <1>2, <1>3, <1>4 DEF Current, Redeemed, Answered
  <2>2. UserCallIsCurrent(c)'
    BY <1>1, <1>2, <1>3, <1>4, <2>1 DEF UserCallIsCurrent, Serve, Waiting
  <2>3. QED  BY <1>2, <1>4, <2>2, UserTabOfOne
<1>5. ASSUME UNCHANGED <<serverVars, past>>
      PROVE  Remaining' \subseteq {held} /\ (past'.loggedOut => Remaining' = {})
  BY <1>1, <1>3, <1>5, RemainingStays DEF UserCallIsCurrent, UserTab, serverVars, rowVars
<1>6. CASE ~Accepted(c) /\ Answer(c, "401") /\ UNCHANGED <<serverVars, past>>
  BY <1>4, <1>5, <1>6 DEF Accepted, Unhurried
<1>7. CASE ServeNormal(c)
  BY <1>4, <1>5, <1>7 DEF ServeNormal
<1>8. CASE ServeLogout(c)
  <2>1. uncommitted = {} /\ call[c].body = held
    <3>1. past'.hurried = Hurries
      BY <1>8, QuietHistories DEF ServeLogout, Notes, Unhurried, Quiet
    <3>2. QED  BY <1>1, <1>8, <3>1 DEF ServeLogout, Hurries, Unhurried, UserCallIsCurrent
  <2>2. Remaining = live /\ Remaining' = live \ {held}
    BY <1>8, <2>1, OpensAlone DEF ServeLogout
  <2>3. Remaining' = {}
    BY <1>1, <1>3, <2>2 DEF UserCallIsCurrent
  <2>4. QED  BY <1>4, <1>8, <2>3 DEF ServeLogout
<1>9. QED  BY <1>6, <1>7, <1>8 DEF Serve

LEMMA ServeRefreshKeepsUserTab ==
  ASSUME TCTypeOK, SerialTab, SerialTab', UserTab, Unhurried, Unhurried',
         NEW c \in Calls, ServeRefresh(c)
  PROVE  UserTab'
<1>1. /\ c \in Busy /\ Busy \subseteq {c} /\ call[c] \in Records
      /\ UserCallIsCurrent(c) /\ CallIsCurrent(c)
  BY ItsCall DEF ServeRefresh, Waiting, Idle, UserTab
<1>2. /\ call[c].step = "refresh" /\ call[c].kind # "logout" /\ held' = held
      /\ Current(c) = held /\ call[c].pair = held
  BY <1>1 DEF ServeRefresh, Waiting, Redeemed, Answered, Current, CallIsCurrent,
              UserCallIsCurrent, KeepTokens
<1>3. ASSUME /\ call'[c].step = "refresh" /\ call'[c].kind = call[c].kind
             /\ \A b \in Calls \ {c} : call'[b] = call[b],
             Remaining' \subseteq {Current(c)'}, past'.loggedOut => Remaining' = {}
      PROVE  UserTab'
  <2>1. Busy' \subseteq {c} /\ c \in Busy'
    BY <1>1, <1>3, TheOneCall DEF Busy, Idle
  <2>2. UserCallIsCurrent(c)'
    BY <1>2, <1>3 DEF UserCallIsCurrent
  <2>3. QED  BY <1>3, <2>1, <2>2, UserTabOfOne
<1>4. CASE Answer(c, "401") /\ UNCHANGED serverVars
           /\ Notes([past EXCEPT !.hurried = Hurries])
  <2>1. call'[c] = [call[c] EXCEPT !.answer = "401"]
        /\ \A b \in Calls \ {c} : call'[b] = call[b]
    BY <1>4 DEF Answer, TCTypeOK
  <2>2. call'[c].step = "refresh" /\ call'[c].kind = call[c].kind /\ call'[c].answer = "401"
    BY <1>1, <1>2, <2>1 DEF Records
  <2>3. Current(c)' = held
    BY <1>2, <2>2 DEF Current, Redeemed
  <2>4. past'.loggedOut = past.loggedOut
    BY <1>4, QuietHistories DEF Notes, Quiet, Unhurried
  <2>5. Remaining' = Remaining
    BY <1>4, RemainingStays DEF serverVars, rowVars
  <2>6. QED  BY <1>1, <1>2, <1>3, <2>1, <2>2, <2>3, <2>4, <2>5 DEF UserCallIsCurrent, UserTab
<1>5. ASSUME NEW p \in Unused, call' = [call EXCEPT ![c].pair = p, ![c].answer = "ok"],
             call[c].pair \in live, Opens({call[c].pair}, p), Notes(MadeAPair)
      PROVE  UserTab'
  <2>1. /\ call'[c].step = "refresh" /\ call'[c].kind = call[c].kind
        /\ call'[c].pair = p /\ call'[c].answer = "ok"
        /\ \A b \in Calls \ {c} : call'[b] = call[b]
    BY <1>2, <1>5 DEF TCTypeOK
  <2>2. Current(c)' = p
    BY <2>1 DEF Current, Redeemed, Answered
  <2>3. uncommitted = {} /\ ~past'.loggedOut
    BY <1>5 DEF Notes, MadeAPair, NothingYet, Hurries, Unhurried
  <2>4. Remaining = live /\ Remaining' = (live \ {call[c].pair}) \cup ({p} \ {None})
    BY <1>5, <2>3, OpensAlone
  <2>5. live \subseteq {call[c].pair}
    BY <1>1, <1>2, <2>4 DEF UserCallIsCurrent
  <2>6. QED  BY <1>3, <2>1, <2>2, <2>3, <2>4, <2>5
<1>6. QED  BY <1>4, <1>5 DEF ServeRefresh

LEMMA NextKeepsUserTab ==
  ASSUME TCTypeOK, SerialTab, SerialTab', UserTab, Unhurried, Unhurried', TCNext
  PROVE  UserTab'
<1>1. ~past.disturbed /\ ~past'.disturbed
  BY DEF Unhurried
<1>2. CASE Login
  <2>1. PICK p \in Unused : Opens(live, p) /\ SetTokens(p)
    BY <1>2 DEF Login, Unhurried
  <2>2. Busy = {} /\ call' = call /\ uncommitted = {} /\ ~past'.loggedOut
    BY <1>1, <1>2 DEF Login, Overlaps, Notes, Disturbed, MadeAPair, NothingYet, Hurries,
                      Unhurried
  <2>3. Remaining' = {p} \ {None}
    BY <2>1, <2>2, OpensAlone
  <2>4. Busy' = {} /\ held' = p
    BY <2>1, <2>2 DEF Busy, SetTokens
  <2>5. QED  BY <2>2, <2>3, <2>4 DEF UserTab
<1>3. ASSUME NEW c \in Calls, Start(c) \/ Logout(c) PROVE UserTab'
  <2>1. PICK kind \in {"normal", "logout"}, body \in MaybePair :
          Begin(c, kind, body) /\ (kind = "logout" => body = held)
    BY <1>3 DEF Start, Logout, MaybePair, TCTypeOK
  <2>2. /\ Busy = {} /\ Busy' \subseteq {c} /\ UNCHANGED past
        /\ call'[c] = [step |-> "request", kind |-> kind, pair |-> held, body |-> body,
                       answer |-> "none"]
    BY <1>1, <2>1, BeginIsSerial
  <2>3. held' = held /\ held # None /\ Remaining' = Remaining
    BY <2>1, RemainingStays DEF Begin, KeepTokens, serverVars, rowVars
  <2>4. UserCallIsCurrent(c)'
    BY <2>1, <2>2, <2>3 DEF UserCallIsCurrent, UserTab, Current, Redeemed, Answered
  <2>5. c \in Busy'
    BY <2>2 DEF Busy, Idle
  <2>6. QED  BY <2>2, <2>3, <2>4, <2>5, UserTabOfOne DEF UserTab
<1>4. ASSUME NEW c \in Calls, Refuse(c) \/ ReceiveRetry(c) PROVE UserTab'
  <2>1. /\ ~Redeemed(c) /\ call[c] # Idle /\ c \in Busy
        /\ UNCHANGED <<live, uncommitted, past>>
    BY <1>4 DEF Refuse, ReceiveRetry, Redeemed, Answered, Idle, Busy, rowVars, historyVars
  <2>2. PICK clears \in BOOLEAN : End(c, clears)
    BY <1>4 DEF Refuse, ReceiveRetry, ClearsOnFailure
  <2>3. Busy' = {} /\ held' \in {held, None}
    BY <2>1, <2>2, EndIsSerial
  <2>4. QED  BY <2>1, <2>3, UserCallEnds
<1>5. ASSUME NEW c \in Calls, ReceiveRequest(c) PROVE UserTab'
  <2>1. c \in Busy /\ ~Redeemed(c) /\ UNCHANGED <<live, uncommitted, past>>
    BY <1>5 DEF ReceiveRequest, Redeemed, Answered, Idle, Busy, rowVars, historyVars
  <2>2. CASE Busy' = {}
    BY <1>5, <2>1, <2>2, ReceiveRequestIsSerial, UserCallEnds
  <2>3. CASE Busy' # {}
    <3>1. /\ Busy' \subseteq {c} /\ held' = held /\ call[c].answer = "401"
          /\ call'[c].step = "refresh" /\ call'[c].kind = call[c].kind
          /\ call'[c].answer = "none"
      BY <1>5, <2>3, ReceiveRequestIsSerial
    <3>2. Current(c) = held /\ Current(c)' = held /\ Remaining' = Remaining
      BY <2>1, <3>1, RemainingStays DEF Current, Redeemed, Answered
    <3>3. UserCallIsCurrent(c)'
      BY <2>1, <3>1, <3>2 DEF UserTab, UserCallIsCurrent
    <3>4. QED  BY <2>1, <2>3, <3>1, <3>2, <3>3, UserTabOfOne DEF UserTab
  <2>4. QED  BY <2>2, <2>3
<1>6. ASSUME NEW c \in Calls, ReceiveRefresh(c) PROVE UserTab'
  <2>1. /\ c \in Busy /\ call[c].step = "refresh"
        /\ UNCHANGED <<live, uncommitted, past>>
    BY <1>6 DEF ReceiveRefresh, Answered, Idle, Busy, rowVars, historyVars
  <2>2. CASE Busy' = {} /\ ~Redeemed(c) /\ held' \in {held, None}
    BY <2>1, <2>2, UserCallEnds
  <2>3. CASE /\ Busy' \subseteq {c} /\ Busy' # {} /\ held' = Current(c)
             /\ call'[c].step = "retry" /\ call'[c].kind = call[c].kind
    <3>1. Current(c)' = Current(c) /\ Remaining' = Remaining /\ call[c].kind # "logout"
      BY <2>1, <2>3, RemainingStays DEF Current, Redeemed, Answered, UserTab,
                                        UserCallIsCurrent
    <3>2. UserCallIsCurrent(c)'
      BY <2>1, <2>3, <3>1 DEF UserTab, UserCallIsCurrent
    <3>3. QED  BY <2>1, <2>3, <3>1, <3>2, UserTabOfOne DEF UserTab
  <2>4. call'[c].step = "retry" => Busy' # {}
    BY DEF Busy, Idle
  <2>5. QED  BY <1>6, <2>2, <2>3, <2>4, ReceiveRefreshIsSerial
<1>7. ASSUME NEW c \in Calls, Step(c) PROVE UserTab'
  BY <1>4, <1>5, <1>6, <1>7, ServeKeepsUserTab, ServeRefreshKeepsUserTab DEF Step
<1>8. ASSUME NEW p \in TokenPairs, AccessExpires(p) PROVE UserTab'
  <2>1. UNCHANGED <<tabVars, live, uncommitted, past>>
    BY <1>8 DEF AccessExpires, rowVars, historyVars
  <2>2. QED  BY <2>1, RemainingStays, RowsSettle
<1>9. ASSUME NEW p \in TokenPairs, RefreshExpires(p) PROVE UserTab'
  <2>1. past'.loggedOut = past.loggedOut /\ UNCHANGED tabVars
    BY <1>1, <1>9, QuietHistories DEF RefreshExpires, Notes, Quiet
  <2>2. Remaining' \subseteq Remaining
    BY <1>9 DEF RefreshExpires, Remaining, Begun, Ending
  <2>3. QED  BY <2>1, <2>2, RowsSettle
<1>10. ASSUME NEW t \in uncommitted, Commit(t) PROVE UserTab'
  <2>1. past' = past /\ UNCHANGED tabVars
    BY <1>10 DEF Commit, historyVars
  <2>2. ASSUME NEW p \in Remaining' PROVE p \in Remaining
    <3>1. CASE p \in Begun' \ {None}
      BY <1>10, <3>1 DEF Commit, Begun, Remaining
    <3>2. CASE p \in live' \ Ending'
      <4>1. CASE p = t.begins /\ p # None
        BY <4>1 DEF Begun, Remaining
      <4>2. CASE p \in live \ t.ends
        BY <1>10, <3>2, <4>2 DEF Commit, Ending, Remaining
      <4>3. QED  BY <1>10, <3>2, <4>1, <4>2 DEF Commit
    <3>3. QED  BY <2>2, <3>1, <3>2 DEF Remaining
  <2>3. QED  BY <2>1, <2>2, RowsSettle
<1>11. ~Fault
  BY <1>1 DEF Fault, Disturbed, NothingYet
<1>12. ~Revoke /\ (\A c \in Calls : ~Reload(c) /\ ~Lose(c))
       /\ \A t \in uncommitted : ~CommitFails(t)
  BY <1>11 DEF Reload, Lose, Revoke, CommitFails
<1>13. QED
  BY <1>2, <1>3, <1>7, <1>8, <1>9, <1>10, <1>12 DEF TCNext

LEMMA UserTabAlways == TCSpec => [](Unhurried => UserTab)
<1>1. TCInit => UserTab
  BY DEF TCInit, UserTab, Busy, NothingYet
<1>2. TCTypeOK /\ (~past.disturbed => SerialTab) /\ (~past.disturbed => SerialTab)'
        /\ (Unhurried => UserTab) /\ [TCNext]_tcVars => (Unhurried => UserTab)'
  <2> SUFFICES ASSUME TCTypeOK, ~past.disturbed => SerialTab,
                      (~past.disturbed => SerialTab)', Unhurried => UserTab,
                      [TCNext]_tcVars, Unhurried'
               PROVE  UserTab'
    OBVIOUS
  <2>1. CASE TCNext
    <3>1. Unhurried
      BY <2>1, UnhurriedBefore
    <3>2. QED  BY <2>1, <3>1, NextKeepsUserTab DEF Unhurried
  <2>2. CASE UNCHANGED tcVars
    <3>1. UNCHANGED <<portal, tabVars, live, uncommitted, past>>
      BY <2>2 DEF tcVars, serverVars, rowVars, historyVars
    <3>2. Unhurried
      BY <3>1 DEF Unhurried
    <3>3. QED  BY <3>1, <3>2, RemainingStays, RowsSettle
  <2>3. QED  BY <2>1, <2>2
<1>3. QED  BY <1>1, <1>2, TokenClientIsTyped, SerialTabAlways, PTL DEF TCSpec

(* A logout that the server took from such a tab of the user client leaves *)
(* no refresh token, unless a request ran into an open transaction.        *)
THEOREM SerialLogoutsAreComplete == TCSpec => []SerialLogoutIsComplete
<1>1. (Unhurried => UserTab) => SerialLogoutIsComplete
  BY DEF Unhurried, UserTab, SerialLogoutIsComplete, Remaining, Ending, Begun
<1>2. QED  BY <1>1, UserTabAlways, PTL

=============================================================================
