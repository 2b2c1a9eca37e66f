------------------------------ MODULE Bindings ------------------------------
(***************************************************************************)
(* What signing in with a provider promises: an external identity comes to *)
(* stand for one account, for good, either because the account was opened  *)
(* with it or because the account consented, and an account has one        *)
(* identity of each provider.  OAuthLink implements it.                    *)
(***************************************************************************)
CONSTANTS Identities, Users, NoUser,
          Provider   \* Provider[i]: who vouches for identity i

VARIABLES
  accounts,   \* accounts that exist
  owner,      \* owner[i]: the account identity i stands for
  consents    \* pairs <<i, u>>: account u agreed to identity i

vars == <<accounts, owner, consents>>

Free(i, u) ==
  /\ owner[i] = NoUser
  /\ \A j \in Identities : owner[j] = u => Provider[j] # Provider[i]

Init == accounts = {} /\ owner = [i \in Identities |-> NoUser] /\ consents = {}

Open(u) ==
  /\ accounts' = accounts \cup {u}
  /\ UNCHANGED <<owner, consents>>

OpenWith(i, u) ==
  /\ u \notin accounts
  /\ Free(i, u)
  /\ accounts' = accounts \cup {u}
  /\ owner' = [owner EXCEPT ![i] = u]
  /\ UNCHANGED consents

Consent(i, u) ==
  /\ u \in accounts
  /\ consents' = consents \cup {<<i, u>>}
  /\ UNCHANGED <<accounts, owner>>

Bind(i, u) ==
  /\ <<i, u>> \in consents
  /\ Free(i, u)
  /\ owner' = [owner EXCEPT ![i] = u]
  /\ UNCHANGED <<accounts, consents>>

Next ==
  \E u \in Users : Open(u) \/ \E i \in Identities : OpenWith(i, u) \/ Consent(i, u) \/ Bind(i, u)

Spec == Init /\ [][Next]_vars
=============================================================================
