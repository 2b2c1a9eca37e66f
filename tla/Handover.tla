------------------------------ MODULE Handover ------------------------------
(***************************************************************************)
(* Handing a user over to the wxcode engine of a tenant (auth/router.py:   *)
(* login, mfa_verify, wxcode_exchange; auth/service.py:                    *)
(* _build_regular_access_claims, get_redirect_url, create_wxcode_code,     *)
(* exchange_wxcode_code, refresh; admin/service.py: suspend_tenant).       *)
(*                                                                         *)
(* One user.  A login issues a token pair whose access token claims one of *)
(* the user's tenants, then picks the tenant to redirect to, wraps the     *)
(* pair in a one-time code and answers; the commit follows the answer, so  *)
(* that the engine may exchange the code first.  Each SELECT sees what is  *)
(* committed by then.  The user logs in one login at a time; requests that *)
(* overlap on the pairs themselves are in SessionRace.  A pair that was    *)
(* rotated or revoked is only refused, as the logout of a replay is rolled *)
(* back; role and MFA are in Membership and Mfa.                           *)
(***************************************************************************)
EXTENDS Naturals, Sequences

CONSTANTS
  Tenants,
  NoTenant,
  MaxPairs   \* bound on the token pairs issued

ASSUME TenantsAssumption == NoTenant \notin Tenants
ASSUME MaxPairsAssumption == MaxPairs \in Nat

VARIABLES
  linked,    \* the tenants with a wxcode_url
  suspended,
  members,   \* the user's memberships, oldest first
  lastUsed,  \* users.last_used_tenant_id
  claims,    \* claims[k]: the tenant the access token of pair k claims
  row,       \* the pair with a refresh_tokens row; 0 is none
  codes,     \* codes[k]: where the browser takes the code for k; NoTenant: no code
  login,     \* how far the login under way is
  target,    \* where it sends the browser
  engine,    \* engine[t]: the pair t's engine holds; 0 is none
  (* history *)
  kept,      \* kept[k]: memberships unbroken since the login that led to k
  handed     \* handed[k]: exchanges that returned k

tokenVars == <<claims, row, codes, login, target, engine>>
vars == <<linked, suspended, members, lastUsed, tokenVars, kept, handed>>

NoPair == 0
Pairs == 1..MaxPairs

TypeOK ==
  /\ linked \subseteq Tenants /\ suspended \subseteq Tenants
  /\ members \in Seq(Tenants)
  /\ lastUsed \in Tenants \cup {NoTenant}
  /\ claims \in Seq(Tenants \cup {NoTenant})
  /\ Len(claims) <= MaxPairs
  /\ row \in Pairs \cup {NoPair}
  /\ codes \in [Pairs -> Tenants \cup {NoTenant}]
  /\ login \in {"none", "issued", "answered"}
  /\ target \in Tenants \cup {NoTenant}
  /\ engine \in [Tenants -> Pairs \cup {NoPair}]
  /\ kept \in [Pairs -> SUBSET Tenants]
  /\ handed \in [Pairs -> Nat]

(* wxcode_url is set outside this code. *)
Init ==
  /\ linked \in SUBSET Tenants
  /\ suspended = {}
  /\ members = <<>>
  /\ lastUsed = NoTenant
  /\ claims = <<>>
  /\ row = NoPair
  /\ codes = [k \in Pairs |-> NoTenant]
  /\ login = "none"
  /\ target = NoTenant
  /\ engine = [t \in Tenants |-> NoPair]
  /\ kept = [k \in Pairs |-> {}]
  /\ handed = [k \in Pairs |-> 0]

IsMember(t) == \E i \in DOMAIN members : members[i] = t
Memberships == {t \in Tenants : IsMember(t)}
Newest == IF members = <<>> THEN NoTenant ELSE members[Len(members)]
Latest == Len(claims)

-----------------------------------------------------------------------------
(* The user's memberships, in pieces of other requests.  History: a login  *)
(* they fall into keeps nothing.                                           *)

Broken(lost) ==
  [k \in Pairs |-> IF login = "issued" /\ k = Latest THEN {} ELSE kept[k] \ lost]

Join(t) ==
  /\ ~IsMember(t)
  /\ members' = Append(members, t)
  /\ kept' = Broken({})
  /\ UNCHANGED <<linked, suspended, lastUsed, tokenVars, handed>>

Leave(t) ==
  /\ \E p \in DOMAIN members :
       /\ members[p] = t
       /\ members' = [i \in 1..(Len(members) - 1) |->
                       members[IF i < p THEN i ELSE i + 1]]
  /\ kept' = Broken({t})
  /\ UNCHANGED <<linked, suspended, lastUsed, tokenVars, handed>>

-----------------------------------------------------------------------------
(* login, mfa_verify *)

MutClaimed == Newest   \* mutation: last_used_tenant_id is not looked at
(* _build_regular_access_claims *)
Claimed == IF IsMember(lastUsed) THEN lastUsed ELSE Newest

Issue(k, unbroken) ==
  /\ Latest < MaxPairs
  /\ k = Latest + 1
  /\ claims' = Append(claims, Claimed)
  /\ kept' = [kept EXCEPT ![k] = unbroken]

(* _issue_tokens *)
LoginIssues(k) ==
  /\ login = "none"
  /\ Issue(k, Memberships)
  /\ login' = "issued"
  /\ UNCHANGED <<linked, suspended, members, lastUsed, row, codes, target, engine,
                 handed>>

(* get_redirect_url: the last used tenant, a member of it or not           *)
Redirect ==
  IF lastUsed \in linked THEN lastUsed ELSE IF Newest \in linked THEN Newest
                                       ELSE NoTenant

(* The code is in Redis, and the browser has its answer.                   *)
LoginAnswers ==
  /\ login = "issued"
  /\ login' = "answered"
  /\ target' = Redirect
  /\ codes' = [codes EXCEPT ![Latest] = Redirect]
  /\ UNCHANGED <<linked, suspended, members, lastUsed, claims, row, engine, kept,
                 handed>>

LoginCommits ==
  /\ login = "answered"
  /\ login' = "none"
  /\ row' = Latest
  /\ lastUsed' = IF target = NoTenant THEN lastUsed ELSE target
  /\ target' = NoTenant
  /\ UNCHANGED <<linked, suspended, members, claims, codes, engine, kept, handed>>

LoginFails ==
  /\ login # "none"
  /\ login' = "none"
  /\ target' = NoTenant
  /\ UNCHANGED <<linked, suspended, members, lastUsed, claims, row, codes, engine,
                 kept, handed>>

-----------------------------------------------------------------------------
(* The engine *)

MutTaken(k) == codes   \* mutation: GET instead of GETDEL
Taken(k) == [codes EXCEPT ![k] = NoTenant]

(* exchange_wxcode_code, for a code the browser brought; a second exchange *)
(* of it, or one that comes too late, is refused.                          *)
Exchange(t, k) ==
  /\ codes[k] = t
  /\ codes' = Taken(k)
  /\ engine' = [engine EXCEPT ![t] = k]
  /\ handed' = [handed EXCEPT ![k] = @ + 1]
  /\ UNCHANGED <<linked, suspended, members, lastUsed, claims, row, login, target,
                 kept>>

(* WXCODE_CODE_TTL *)
CodeExpires(k) ==
  /\ codes[k] # NoTenant
  /\ codes' = [codes EXCEPT ![k] = NoTenant]
  /\ UNCHANGED <<linked, suspended, members, lastUsed, claims, row, login, target,
                 engine, kept, handed>>

EngineRefreshes(t, k) ==
  /\ login = "none"
  /\ engine[t] # NoPair
  /\ row = engine[t]
  /\ Issue(k, kept[engine[t]])
  /\ row' = k
  /\ engine' = [engine EXCEPT ![t] = k]
  /\ UNCHANGED <<linked, suspended, members, lastUsed, codes, login, target, handed>>

(* InvalidTokenError or ReplayDetectedError: the engine has to send the    *)
(* user to log in.                                                         *)
EngineIsRefused(t) ==
  /\ engine[t] # NoPair
  /\ row # engine[t]
  /\ engine' = [engine EXCEPT ![t] = NoPair]
  /\ UNCHANGED <<linked, suspended, members, lastUsed, claims, row, codes, login,
                 target, kept, handed>>

-----------------------------------------------------------------------------
(* suspend_tenant, reactivate_tenant *)

Suspend(t) ==
  /\ t \notin suspended
  /\ suspended' = suspended \cup {t}
  /\ row' = IF IsMember(t) THEN NoPair ELSE row
  /\ UNCHANGED <<linked, members, lastUsed, claims, codes, login, target, engine,
                 kept, handed>>

Reactivate(t) ==
  /\ t \in suspended
  /\ suspended' = suspended \ {t}
  /\ UNCHANGED <<linked, members, lastUsed, tokenVars, kept, handed>>

-----------------------------------------------------------------------------

Next ==
  \/ \E k \in Pairs : LoginIssues(k) \/ CodeExpires(k)
  \/ LoginAnswers \/ LoginCommits \/ LoginFails
  \/ \E t \in Tenants :
       \/ Join(t) \/ Leave(t) \/ Suspend(t) \/ Reactivate(t)
       \/ EngineIsRefused(t)
       \/ \E k \in Pairs : Exchange(t, k) \/ EngineRefreshes(t, k)

Spec == Init /\ [][Next]_vars

-----------------------------------------------------------------------------
(* Properties *)

(* An engine's access token claims the engine's own tenant, over refreshes *)
(* and other logins, for a user who has stayed in that tenant and whose    *)
(* tenants all have an engine: the claim and the redirect are read in      *)
(* different places, and from different columns.                           *)
EngineTokenNamesItsTenant ==
  \A t \in Tenants :
    engine[t] # NoPair /\ t \in kept[engine[t]] /\ linked = Tenants =>
      claims[engine[t]] = t

(* A code hands its pair over once, and no two engines hold one pair, in   *)
(* whatever order logins answer, commit and fail and codes are exchanged.  *)
CodeDeliversOnce ==
  /\ \A k \in Pairs : handed[k] <= 1
  /\ \A t, u \in Tenants : engine[t] = engine[u] /\ engine[t] # NoPair => t = u
=============================================================================
