-------------------------------- MODULE Chains --------------------------------
(***************************************************************************)
(* What wxcode-adm promises about refresh tokens, request by request.  A   *)
(* token is issued once, to one account, at the head of a chain that began *)
(* with an authentication under some password hash.  A login replaces all  *)
(* tokens of the account, a rotation one live token by another of the same *)
(* chain, and a new password leaves at most the chain of the caller, who   *)
(* has just proved it.  Sessions implements it; in SessionRace the         *)
(* requests of an account that do not overlap do.                          *)
(***************************************************************************)
EXTENDS Naturals

CONSTANTS
  Users,
  Admins,    \* accounts that may log in beside their other tokens
  Grants,    \* tokens
  Nobody     \* the account of a token not issued yet

VARIABLES
  live,      \* tokens that can be redeemed
  account,   \* account[g]: to whom g was issued
  version,   \* version[g]: the hash its chain has proved
  passwd     \* passwd[u]: the hash stored, counted

vars == <<live, account, version, passwd>>

Owned(u) == {g \in live : account[g] = u}

Init ==
  /\ account \in [Grants -> Users \cup {Nobody}]
  /\ live \subseteq {g \in Grants : account[g] # Nobody}
  /\ \A g, h \in live : account[g] = account[h] => g = h
  /\ \A g \in live : version[g] = passwd[account[g]]

Issue(u, g, v) ==
  /\ account[g] = Nobody
  /\ account' = [account EXCEPT ![g] = u]
  /\ version' = [version EXCEPT ![g] = v]
  /\ UNCHANGED passwd

Login(u, g) ==
  /\ Issue(u, g, passwd[u])
  /\ live' = (live \ Owned(u)) \cup {g}

LoginBeside(u, g) ==
  /\ u \in Admins
  /\ Issue(u, g, passwd[u])
  /\ live' = live \cup {g}

Rotate(old, new) ==
  /\ old \in live
  /\ Issue(account[old], new, version[old])
  /\ live' = (live \ {old}) \cup {new}

End(g) ==
  /\ live' = live \ {g}
  /\ UNCHANGED <<account, version, passwd>>

EndOthers(u, g) ==
  /\ live' = live \ (Owned(u) \ {g})
  /\ UNCHANGED <<account, version, passwd>>

Revoke(M) ==
  /\ live' = live \ UNION {Owned(u) : u \in M}
  /\ UNCHANGED <<account, version, passwd>>

ResetPassword(u) ==
  /\ passwd' = [passwd EXCEPT ![u] = @ + 1]
  /\ live' = live \ Owned(u)
  /\ UNCHANGED <<account, version>>

ChangePassword(g) ==
  LET u == account[g] IN
  /\ u # Nobody
  /\ passwd' = [passwd EXCEPT ![u] = @ + 1]
  /\ version' = [version EXCEPT ![g] = passwd[u] + 1]
  /\ live' = live \ (Owned(u) \ {g})
  /\ UNCHANGED account

Next ==
  \/ \E u \in Users, g \in Grants : Login(u, g) \/ LoginBeside(u, g) \/ EndOthers(u, g)
  \/ \E g, h \in Grants : Rotate(g, h)
  \/ \E g \in Grants : End(g) \/ ChangePassword(g)
  \/ \E u \in Users : ResetPassword(u)
  \/ \E M \in SUBSET Users : Revoke(M)

Spec == Init /\ [][Next]_vars
=============================================================================
