--------------------------- MODULE SessionsProofs ---------------------------
(***************************************************************************)
(* Proofs about Sessions, for any accounts, any pool of grants and any     *)
(* bounds.  The inductive invariant adds to the checked invariants that    *)
(* exactly the signed grants have an owner and that a row was signed:      *)
(* without it a fresh grant could already be live under another account.   *)
(***************************************************************************)
EXTENDS Sessions, TLAPS

Issued ==
  /\ \A g \in Grants : aud[g] # "none" <=> sub[g] \in Users
  /\ \A g \in rows : sub[g] \in Users

IInv == /\ TypeOK
        /\ Issued
        /\ LiveTokensAreCurrent

LEMMA InitIInv == Init => IInv
<1> SUFFICES ASSUME Init PROVE IInv
  OBVIOUS
<1>1. TypeOK
  BY DEF Init, TypeOK, Audiences, Reasons
<1>2. Issued
  BY UsersAssumption DEF Init, Issued
<1>3. LiveTokensAreCurrent
  BY DEF Init, LiveTokensAreCurrent
<1> QED BY <1>1, <1>2, <1>3 DEF IInv

(***************************************************************************)
(* What the shared effects do to the invariant.                            *)
(***************************************************************************)

(* Deleting rows keeps the types and introduces no row. *)
LEMMA DeleteEffect ==
  ASSUME TypeOK, NEW gone, NEW why \in Reasons, Delete(gone, why)
  PROVE  /\ rows' = rows \ gone
         /\ rows' \subseteq Grants
         /\ session' \in [Grants -> Grants \cup {NoSession}]
         /\ ended' \in [Grants -> Reasons]
         /\ sub' = sub /\ aud' = aud
  BY DEF Delete, Rewrite, TypeOK

(* Signing gives exactly grant g an owner and its chain's hash. *)
LEMMA SignEffect ==
  ASSUME IInv, NEW g \in Grants, NEW u \in Users, NEW v \in Nat,
         NEW audience \in {"user", "admin"}, Sign(g, u, audience, v)
  PROVE  /\ sub' \in [Grants -> Users \cup {NoUser}]
         /\ aud' \in [Grants -> Audiences]
         /\ authPw' \in [Grants -> Nat]
         /\ g \notin rows
         /\ sub'[g] = u /\ authPw'[g] = v
         /\ \A h \in rows : sub'[h] = sub[h] /\ authPw'[h] = authPw[h]
         /\ \A h \in Grants : aud'[h] # "none" <=> sub'[h] \in Users
  BY UsersAssumption DEF IInv, TypeOK, Issued, Sign, Unissued, Audiences

(* A request that signs one grant and replaces the rows in gone by it, for *)
(* an authentication under the hash now stored, keeps the invariant.       *)
LEMMA IssueKeepsIInv ==
  ASSUME IInv, NEW g \in Grants, NEW u \in Users,
         NEW audience \in {"user", "admin"}, NEW gone,
         NEW why \in Reasons, NEW id \in Grants \cup {NoSession},
         Sign(g, u, audience, passwd[u]), Rewrite(gone, why, {g}, id),
         shadow' \subseteq Grants,
         UNCHANGED <<accountVars, clockVars, faultVars, blacklist>>
  PROVE  IInv'
<1> passwd[u] \in Nat
  BY DEF IInv, TypeOK
<1>1. /\ rows' = (rows \ gone) \cup {g}
      /\ session' \in [Grants -> Grants \cup {NoSession}]
      /\ ended' \in [Grants -> Reasons]
  BY DEF Rewrite, IInv, TypeOK
<1>2. /\ sub' \in [Grants -> Users \cup {NoUser}]
      /\ aud' \in [Grants -> Audiences]
      /\ authPw' \in [Grants -> Nat]
      /\ sub'[g] = u /\ authPw'[g] = passwd[u]
      /\ \A h \in rows : sub'[h] = sub[h] /\ authPw'[h] = authPw[h]
      /\ \A h \in Grants : aud'[h] # "none" <=> sub'[h] \in Users
  BY SignEffect
<1>3. TypeOK'
  BY <1>1, <1>2 DEF IInv, TypeOK, accountVars, clockVars, faultVars
<1>4. Issued'
  BY <1>1, <1>2 DEF IInv, Issued
<1>5. LiveTokensAreCurrent'
  BY <1>1, <1>2 DEF IInv, LiveTokensAreCurrent, accountVars
<1> QED BY <1>3, <1>4, <1>5 DEF IInv

(* A request that only deletes rows, and touches neither hashes nor        *)
(* chains, keeps the invariant.                                            *)
LEMMA RevokeKeepsIInv ==
  ASSUME IInv, NEW gone, NEW why \in Reasons, Delete(gone, why),
         blacklist' \subseteq Grants, resetRequired' \subseteq Users,
         links' \subseteq Users \X Nat,
         UNCHANGED <<passwd, clockVars, faultVars, shadow, authPw>>
  PROVE  IInv'
<1>1. /\ rows' = rows \ gone
      /\ rows' \subseteq Grants
      /\ session' \in [Grants -> Grants \cup {NoSession}]
      /\ ended' \in [Grants -> Reasons]
      /\ sub' = sub /\ aud' = aud
  BY DeleteEffect DEF IInv
<1>2. TypeOK'
  BY <1>1 DEF IInv, TypeOK, clockVars, faultVars
<1>3. Issued'
  BY <1>1 DEF IInv, Issued
<1>4. LiveTokensAreCurrent'
  BY <1>1 DEF IInv, LiveTokensAreCurrent
<1> QED BY <1>2, <1>3, <1>4 DEF IInv

(***************************************************************************)
(* One lemma per action that changes a password or a chain.                *)
(***************************************************************************)

LEMMA LoginKeepsIInv ==
  ASSUME IInv, NEW u \in Users, NEW g \in Grants, Login(u, g)
  PROVE  IInv'
<1>1. SupersededShadow(u) \subseteq Grants
  BY DEF SupersededShadow, Superseded, RowsOf, IInv, TypeOK
<1>2. shadow' \subseteq Grants
  BY <1>1 DEF Login, IssueTokens, IInv, TypeOK
<1>3. /\ Sign(g, u, "user", passwd[u])
      /\ Rewrite(Superseded(u), "consumed", {g}, g)
      /\ UNCHANGED <<accountVars, clockVars, faultVars, blacklist>>
  BY DEF Login, IssueTokens
<1> QED BY <1>2, <1>3, IssueKeepsIInv DEF Reasons

LEMMA AdminLoginKeepsIInv ==
  ASSUME IInv, NEW u \in Users, NEW g \in Grants, AdminLogin(u, g)
  PROVE  IInv'
<1>1. /\ Sign(g, u, "admin", passwd[u])
      /\ Rewrite({}, "ended", {g}, NoSession)
      /\ shadow' = shadow
      /\ UNCHANGED <<accountVars, clockVars, faultVars, blacklist>>
  BY DEF AdminLogin
<1>2. shadow' \subseteq Grants
  BY <1>1 DEF IInv, TypeOK
<1> QED BY <1>1, <1>2, IssueKeepsIInv DEF Reasons

(* A rotation signs under the consumed token's own chain, which the        *)
(* invariant says is the stored hash.                                      *)
LEMMA RefreshKeepsIInv ==
  ASSUME IInv, NEW g \in Grants, NEW new \in Grants, Refresh(g, new)
  PROVE  IInv'
<1>1. g \in rows /\ sub[g] \in Users /\ authPw[g] = passwd[sub[g]]
  BY DEF Refresh, IInv, Issued, LiveTokensAreCurrent
<1>2. RotatedSession(g, new) = new
  BY DEF RotatedSession, IInv, TypeOK
<1>3. /\ Sign(new, sub[g], "user", passwd[sub[g]])
      /\ Rewrite({g}, "consumed", {new}, new)
      /\ UNCHANGED <<accountVars, clockVars, faultVars, blacklist>>
  BY <1>1, <1>2 DEF Refresh
<1>4. shadow' \subseteq Grants
  BY DEF Refresh, RotationShadow, IInv, TypeOK
<1> QED BY <1>1, <1>3, <1>4, IssueKeepsIInv DEF Reasons

LEMMA AdminRefreshKeepsIInv ==
  ASSUME IInv, NEW g \in Grants, NEW new \in Grants, AdminRefresh(g, new)
  PROVE  IInv'
<1>1. g \in rows /\ sub[g] \in Users /\ authPw[g] = passwd[sub[g]]
  BY DEF AdminRefresh, IInv, Issued, LiveTokensAreCurrent
<1>2. /\ Sign(new, sub[g], "admin", passwd[sub[g]])
      /\ Rewrite({g}, "ended", {new}, NoSession)
      /\ shadow' = shadow
      /\ UNCHANGED <<accountVars, clockVars, faultVars, blacklist>>
  BY <1>1 DEF AdminRefresh
<1>3. shadow' \subseteq Grants
  BY <1>2 DEF IInv, TypeOK
<1> QED BY <1>1, <1>2, <1>3, IssueKeepsIInv DEF Reasons

(* A reset deletes every row of the account before its hash moves on. *)
LEMMA ResetPasswordKeepsIInv ==
  ASSUME IInv, NEW u \in Users, NEW v, ResetPassword(u, v)
  PROVE  IInv'
<1>1. Delete(RowsOf(u), "ended") /\ "ended" \in Reasons
  BY DEF ResetPassword, ResetDeletes, Reasons
<1>2. /\ rows' = rows \ RowsOf(u)
      /\ rows' \subseteq Grants
      /\ session' \in [Grants -> Grants \cup {NoSession}]
      /\ ended' \in [Grants -> Reasons]
      /\ sub' = sub /\ aud' = aud
  BY <1>1, DeleteEffect DEF IInv
<1>3. /\ passwd' = [passwd EXCEPT ![u] = @ + 1]
      /\ passwd' \in [Users -> Nat]
      /\ authPw' = authPw
      /\ \A w \in Users : w # u => passwd'[w] = passwd[w]
  BY DEF ResetPassword, IInv, TypeOK
<1>4. TypeOK'
  BY <1>2, <1>3 DEF ResetPassword, LinksWithout, IInv, TypeOK, clockVars, faultVars
<1>5. Issued'
  BY <1>2 DEF IInv, Issued
<1>6. LiveTokensAreCurrent'
  <2> SUFFICES ASSUME NEW g \in rows' PROVE authPw'[g] = passwd'[sub'[g]]
    BY DEF LiveTokensAreCurrent
  <2>1. g \in rows /\ sub[g] # u /\ sub[g] \in Users
    BY <1>2 DEF RowsOf, IInv, Issued
  <2> QED BY <2>1, <1>2, <1>3 DEF IInv, LiveTokensAreCurrent
<1> QED BY <1>4, <1>5, <1>6 DEF IInv

(* A password change keeps at most the caller's own row of the account,    *)
(* whose chain has just proved the new hash.                               *)
LEMMA ChangePasswordKeepsIInv ==
  ASSUME IInv, NEW at \in Grants, ChangePassword(at)
  PROVE  IInv'
<1> DEFINE u == sub[at]
<1>1. u \in Users
  BY DEF ChangePassword, PasswordChangeAllowed, Usable, IInv, Issued
<1>2. Delete(OtherRows(at), "revoked") /\ "revoked" \in Reasons
  BY DEF ChangePassword, PasswordChangeDeletes, Reasons
<1>3. /\ rows' = rows \ OtherRows(at)
      /\ rows' \subseteq Grants
      /\ session' \in [Grants -> Grants \cup {NoSession}]
      /\ ended' \in [Grants -> Reasons]
      /\ sub' = sub /\ aud' = aud
  BY <1>2, DeleteEffect DEF IInv
<1>4. /\ passwd' = [passwd EXCEPT ![u] = @ + 1]
      /\ passwd'[u] = passwd[u] + 1
      /\ passwd' \in [Users -> Nat]
      /\ authPw' = [authPw EXCEPT ![at] = passwd[u] + 1]
      /\ authPw' \in [Grants -> Nat]
  BY <1>1 DEF ChangePassword, IInv, TypeOK
<1>5. blacklist' \subseteq Grants
  BY DEF ChangePassword, OtherJtis, SessionsOf, IInv, TypeOK
<1>6. TypeOK'
  BY <1>3, <1>4, <1>5 DEF ChangePassword, LinksWithout, IInv, TypeOK, clockVars, faultVars
<1>7. Issued'
  BY <1>3 DEF IInv, Issued
<1>8. LiveTokensAreCurrent'
  <2> SUFFICES ASSUME NEW g \in rows' PROVE authPw'[g] = passwd'[sub'[g]]
    BY DEF LiveTokensAreCurrent
  <2>1. g \in rows /\ g \in Grants /\ sub[g] \in Users
    BY <1>3 DEF IInv, Issued, TypeOK
  <2>2. CASE g = at
    BY <2>2, <1>3, <1>4, <1>1 DEF IInv, TypeOK
  <2>3. CASE g # at
    <3>1. sub[g] # u
      BY <2>1, <2>3, <1>3 DEF OtherRows, RowsOf
    <3> QED BY <3>1, <2>1, <2>3, <1>3, <1>4
            DEF IInv, TypeOK, LiveTokensAreCurrent
  <2> QED BY <2>2, <2>3
<1> QED BY <1>6, <1>7, <1>8 DEF IInv

(***************************************************************************)
(* The remaining actions delete rows only, or touch keys and clocks only.  *)
(***************************************************************************)

LEMMA LogoutKeepsIInv ==
  ASSUME IInv, NEW g \in Grants, NEW at \in Grants,
         Logout(g, at) \/ AdminLogout(g, at)
  PROVE  IInv'
<1>1. CASE Logout(g, at)
  <2>1. Delete({g}, "ended") /\ blacklist' \subseteq Grants
    BY <1>1 DEF Logout, LogoutBlacklists, IInv, TypeOK
  <2> QED BY <1>1, <2>1, RevokeKeepsIInv
          DEF Logout, Reasons, accountVars, IInv, TypeOK
<1>2. CASE AdminLogout(g, at)
  BY <1>2, RevokeKeepsIInv DEF AdminLogout, Reasons, accountVars, IInv, TypeOK
<1> QED BY <1>1, <1>2

LEMMA RevokeSessionKeepsIInv ==
  ASSUME IInv, NEW g \in Grants, NEW at \in Grants, RevokeSession(g, at)
  PROVE  IInv'
BY RevokeKeepsIInv DEF RevokeSession, Reasons, accountVars, IInv, TypeOK

LEMMA RevokeOtherSessionsKeepsIInv ==
  ASSUME IInv, NEW at \in Grants, RevokeOtherSessions(at)
  PROVE  IInv'
<1>1. OtherJtis(at) \subseteq Grants
  BY DEF OtherJtis, SessionsOf
<1> QED BY <1>1, RevokeKeepsIInv
        DEF RevokeOtherSessions, Reasons, accountVars, IInv, TypeOK

LEMMA ForcePasswordResetKeepsIInv ==
  ASSUME IInv, NEW u \in Users, NEW mailed \in BOOLEAN,
         ForcePasswordReset(u, mailed)
  PROVE  IInv'
<1>1. SessionJtis(u) \subseteq Grants /\ <<u, passwd[u]>> \in Users \X Nat
  BY DEF SessionJtis, SessionsOf, IInv, TypeOK
<1>2. /\ blacklist' \subseteq Grants
      /\ resetRequired' \subseteq Users
      /\ links' \subseteq Users \X Nat
      /\ Delete(RowsOf(u), "revoked")
      /\ UNCHANGED <<passwd, clockVars, faultVars, shadow, authPw>>
  BY <1>1 DEF ForcePasswordReset, IInv, TypeOK
<1> QED BY <1>2, RevokeKeepsIInv DEF Reasons

LEMMA RevokeMembersKeepsIInv ==
  ASSUME IInv, NEW M \in SUBSET Users, RevokeMembers(M)
  PROVE  IInv'
<1>1. UNION {SessionJtis(w) : w \in M} \subseteq Grants
  BY DEF SessionJtis, SessionsOf
<1> QED BY <1>1, RevokeKeepsIInv
        DEF RevokeMembers, Reasons, accountVars, IInv, TypeOK

LEMMA EnforceMfaKeepsIInv ==
  ASSUME IInv, NEW M \in SUBSET Users, NEW at \in Grants, EnforceMfa(at, M)
  PROVE  IInv'
BY RevokeKeepsIInv DEF EnforceMfa, Reasons, accountVars, IInv, TypeOK

(* Requests rolled back: keys that only a live token can have got. *)
Rollback ==
  \/ \E g \in Grants : RefreshFails(g) \/ RevocationFails(g) \/ AdminLogoutFails(g)
  \/ \E u \in Users : LoginFails(u)
  \/ \E M \in SUBSET Users : MassRevocationFails(M)

RollbackSpoils ==
  /\ \E spent \in SUBSET Grants :
       shadow' = shadow \cup spent /\ spoiled' = spoiled \cup spent
  /\ blacklist \subseteq blacklist' /\ blacklist' \subseteq Grants
  /\ rollbacks' \in Nat
  /\ UNCHANGED <<dbVars, accountVars, clockVars>>

LEMMA RolledBackEffect ==
  ASSUME IInv, NEW spent \in SUBSET Grants, NEW jtis \in SUBSET Grants,
         RolledBack(spent, jtis)
  PROVE  RollbackSpoils
  BY DEF RolledBack, RollbackSpoils, IInv, TypeOK

LEMMA RollbackEffect ==
  ASSUME IInv, Rollback
  PROVE  RollbackSpoils
<1>1. ASSUME NEW g \in Grants, RefreshFails(g) PROVE RollbackSpoils
  <2>1. RolledBack({g}, {})
    BY <1>1 DEF RefreshFails, RotationShadow
  <2> QED BY <2>1, RolledBackEffect
<1>2. ASSUME NEW g \in Grants, RevocationFails(g) PROVE RollbackSpoils
  <2>1. RolledBack({}, OtherJtis(g)) /\ OtherJtis(g) \in SUBSET Grants
    BY <1>2 DEF RevocationFails, OtherJtis, SessionsOf
  <2> QED BY <2>1, RolledBackEffect
<1>3. ASSUME NEW g \in Grants, AdminLogoutFails(g) PROVE RollbackSpoils
  <2>1. RolledBack({}, {g})
    BY <1>3 DEF AdminLogoutFails
  <2> QED BY <2>1, RolledBackEffect
<1>4. ASSUME NEW u \in Users, LoginFails(u) PROVE RollbackSpoils
  <2>1. RolledBack(RowsOf(u), {}) /\ RowsOf(u) \in SUBSET Grants
    BY <1>4 DEF LoginFails, SupersededShadow, Superseded, RowsOf, IInv, TypeOK
  <2> QED BY <2>1, RolledBackEffect
<1>5. ASSUME NEW M \in SUBSET Users, MassRevocationFails(M) PROVE RollbackSpoils
  <2> DEFINE jtis == UNION {SessionJtis(u) : u \in M}
  <2>1. RolledBack({}, jtis) /\ jtis \in SUBSET Grants
    BY <1>5 DEF MassRevocationFails, SessionJtis, SessionsOf
  <2> QED BY <2>1, RolledBackEffect
<1> QED BY <1>1, <1>2, <1>3, <1>4, <1>5 DEF Rollback

LEMMA RollbackKeepsIInv ==
  ASSUME IInv, Rollback
  PROVE  IInv'
<1>1. /\ shadow' \subseteq Grants /\ spoiled' \subseteq Grants
      /\ blacklist' \subseteq Grants
      /\ rollbacks' \in Nat
      /\ UNCHANGED <<dbVars, accountVars, clockVars>>
  BY RollbackEffect DEF RollbackSpoils, IInv, TypeOK
<1> QED BY <1>1 DEF IInv, TypeOK, Issued, LiveTokensAreCurrent, dbVars, accountVars,
                    clockVars

(* Steps that write keys, links or clocks: no row, chain or hash changes. *)
KeyStep ==
  \/ \E g \in Grants :
       \/ RefreshTokenElapses(g)
       \/ AccessTokenExpires(g)
       \/ ShadowExpires(g)
       \/ BlacklistExpires(g)
  \/ \E u \in Users : ForgotPassword(u)

LEMMA KeyStepKeepsIInv ==
  ASSUME IInv, KeyStep
  PROVE  IInv'
<1>1. /\ UNCHANGED <<dbVars, passwd, resetRequired>>
      /\ links' \subseteq Users \X Nat
      /\ elapsed' \subseteq Grants
      /\ stale' \subseteq Grants
      /\ shadow' \subseteq Grants
      /\ blacklist' \subseteq Grants
      /\ UNCHANGED faultVars
  BY DEF IInv, TypeOK, KeyStep, ForgotPassword,
         RefreshTokenElapses, AccessTokenExpires, ShadowExpires,
         BlacklistExpires, accountVars, clockVars, faultVars
<1> QED BY <1>1 DEF IInv, TypeOK, Issued, LiveTokensAreCurrent, dbVars, faultVars

LEMMA NextIInv == IInv /\ [Next]_vars => IInv'
<1> SUFFICES ASSUME IInv, [Next]_vars PROVE IInv'
  OBVIOUS
<1>1. CASE Next
  BY <1>1, LoginKeepsIInv, AdminLoginKeepsIInv, RefreshKeepsIInv,
     AdminRefreshKeepsIInv, LogoutKeepsIInv, RevokeSessionKeepsIInv,
     RevokeOtherSessionsKeepsIInv, ChangePasswordKeepsIInv,
     ResetPasswordKeepsIInv, ForcePasswordResetKeepsIInv,
     RevokeMembersKeepsIInv, EnforceMfaKeepsIInv, KeyStepKeepsIInv,
     RollbackKeepsIInv
  DEF Next, KeyStep, Rollback
<1>2. CASE UNCHANGED vars
  BY <1>2 DEF IInv, TypeOK, Issued, LiveTokensAreCurrent, vars, dbVars,
              accountVars, clockVars, faultVars
<1> QED BY <1>1, <1>2

(***************************************************************************)
(* Every variable keeps its type (Sessions!TypeOK).                        *)
(***************************************************************************)
THEOREM TypeCorrect == Spec => []TypeOK
<1>1. IInv => TypeOK
  BY DEF IInv
<1> QED BY InitIInv, NextIInv, <1>1, PTL DEF Spec

(***************************************************************************)
(* Every refresh token that can still be rotated descends from an          *)
(* authentication under the password hash now stored: no history of        *)
(* logins, rotations, administrator rotations, resets, password changes    *)
(* and revocations leaves an older chain alive.                            *)
(***************************************************************************)
THEOREM ChainsAreCurrent == Spec => []LiveTokensAreCurrent
<1>1. IInv => LiveTokensAreCurrent
  BY DEF IInv
<1> QED BY InitIInv, NextIInv, <1>1, PTL DEF Spec
(***************************************************************************)
(* Sessions, revocations and replay.  A second invariant on top of IInv:   *)
(* a row, and a grant not signed yet, never ended; a revoked grant is an   *)
(* administrator's or its access token is blacklisted or past its expiry.  *)
(* Usable(g) alone would not be inductive: the forced-reset flag it also   *)
(* looks at can fall.                                                      *)
(***************************************************************************)
NotEnded == \A g \in Grants : g \in rows \/ aud[g] = "none" => ended[g] = "no"

RevokedIsCut ==
  \A g \in Grants :
    ended[g] = "revoked" => aud[g] = "admin" \/ g \in stale \cup blacklist

SInv == /\ IInv
        /\ SessionsMirrorTokens
        /\ SingleSession
        /\ NotEnded
        /\ RevokedIsCut
        /\ ReplayExact

LEMMA InitSInv == Init => SInv
<1> SUFFICES ASSUME Init PROVE SInv
  OBVIOUS
<1>1. IInv
  BY InitIInv
<1> QED BY <1>1 DEF Init, SInv, SessionsMirrorTokens, SingleSession, NotEnded,
                    RevokedIsCut, ReplayExact

(* Rows that go take their session with them; they ended for the reason    *)
(* why, and for "revoked" their user access tokens are blacklisted.        *)
LEMMA DeleteKeepsSInv ==
  ASSUME SInv, IInv', NEW gone \in SUBSET rows,
         NEW why \in {"revoked", "ended"}, Delete(gone, why),
         blacklist \subseteq blacklist',
         why = "revoked" =>
           \A g \in gone : aud[g] = "user" => g \in blacklist',
         UNCHANGED <<clockVars, faultVars, shadow>>
  PROVE  SInv'
<1> USE DEF SInv, clockVars, faultVars
<1>1. /\ rows' = rows \ gone
      /\ rows \subseteq Grants /\ gone \subseteq Grants
      /\ sub' = sub /\ aud' = aud
      /\ \A g \in Grants :
           /\ session'[g] = IF g \in gone THEN NoSession ELSE session[g]
           /\ ended'[g] = IF g \in gone THEN why ELSE ended[g]
  BY DEF Delete, Rewrite, IInv, TypeOK
<1>2. SessionsMirrorTokens' /\ SingleSession'
  BY <1>1 DEF SessionsMirrorTokens, SingleSession
<1>3. \A g \in gone : aud[g] \in {"user", "admin"}
  BY <1>1 DEF IInv, Issued, TypeOK, Audiences
<1>4. NotEnded'
  BY <1>1, <1>3 DEF NotEnded
<1>5. RevokedIsCut'
  BY <1>1, <1>3 DEF RevokedIsCut
<1>6. ReplayExact'
  BY <1>1 DEF ReplayExact, NotEnded
<1> QED BY <1>2, <1>4, <1>5, <1>6

(* A grant that replaces the rows in gone: on the user endpoints it gets a *)
(* session and what it consumed a shadow key, on the administrator's       *)
(* neither.                                                                *)
LEMMA IssueKeepsSInv ==
  ASSUME SInv, IInv', NEW g \in Grants, NEW u \in Users,
         NEW audience \in {"user", "admin"}, NEW gone \in SUBSET rows,
         NEW id \in Grants \cup {NoSession}, NEW v \in Nat,
         NEW why \in {"consumed", "ended"},
         Sign(g, u, audience, v), Rewrite(gone, why, {g}, id),
         id # NoSession <=> audience = "user",
         u \in Superusers \/ RowsOf(u) \subseteq gone,
         shadow' = IF why = "consumed" THEN shadow \cup gone ELSE shadow,
         UNCHANGED <<clockVars, faultVars, blacklist>>
  PROVE  SInv'
<1> USE DEF SInv, clockVars, faultVars
<1>1. /\ rows' = (rows \ gone) \cup {g}
      /\ rows \subseteq Grants /\ gone \subseteq Grants
      /\ g \notin rows /\ aud[g] = "none"
      /\ sub'[g] = u /\ aud'[g] = audience
      /\ \A h \in Grants : h # g => sub'[h] = sub[h] /\ aud'[h] = aud[h]
      /\ session'[g] = id /\ ended'[g] = ended[g]
      /\ \A h \in Grants : h # g =>
           /\ session'[h] = IF h \in gone THEN NoSession ELSE session[h]
           /\ ended'[h] = IF h \in gone THEN why ELSE ended[h]
  BY UsersAssumption
     DEF Sign, Rewrite, Unissued, IInv, TypeOK, Issued, Audiences
<1>2. SessionsMirrorTokens'
  BY <1>1 DEF SessionsMirrorTokens
<1>3. SingleSession'
  <2> SUFFICES ASSUME NEW h \in rows', NEW k \in rows', sub'[h] = sub'[k],
                      sub'[h] \notin Superusers
               PROVE  h = k
    BY DEF SingleSession
  <2>1. \A x \in rows' : x = g \/ (x \in rows \ gone /\ sub'[x] = sub[x])
    BY <1>1
  <2>2. \A x \in rows' : x # g /\ sub'[x] \notin Superusers => sub'[x] # u
    BY <2>1 DEF RowsOf
  <2>3. sub'[g] = u
    BY <1>1
  <2> QED BY <2>1, <2>2, <2>3 DEF SingleSession
<1>4. \A h \in gone : aud[h] \in {"user", "admin"}
  BY <1>1 DEF IInv, Issued, TypeOK, Audiences
<1>5. NotEnded'
  BY <1>1, <1>4 DEF NotEnded
<1>6. RevokedIsCut'
  BY <1>1, <1>4 DEF RevokedIsCut, NotEnded
<1>7. ReplayExact'
  BY <1>1 DEF ReplayExact, NotEnded
<1> QED BY <1>2, <1>3, <1>5, <1>6, <1>7

LEMMA LoginKeepsSInv ==
  ASSUME SInv, NEW u \in Users, NEW g \in Grants, Login(u, g)
  PROVE  SInv'
<1>1. IInv'
  BY LoginKeepsIInv DEF SInv
<1>2. /\ Sign(g, u, "user", passwd[u])
      /\ Rewrite(RowsOf(u), "consumed", {g}, g)
      /\ shadow' = shadow \cup RowsOf(u)
      /\ UNCHANGED <<clockVars, faultVars, blacklist>>
  BY DEF Login, IssueTokens, Superseded, SupersededShadow
<1>3. passwd[u] \in Nat /\ RowsOf(u) \in SUBSET rows /\ g # NoSession
  BY GrantsAssumption DEF SInv, IInv, TypeOK, RowsOf
<1> QED BY <1>1, <1>2, <1>3, IssueKeepsSInv

LEMMA AdminLoginKeepsSInv ==
  ASSUME SInv, NEW u \in Users, NEW g \in Grants, AdminLogin(u, g)
  PROVE  SInv'
<1>1. IInv'
  BY AdminLoginKeepsIInv DEF SInv
<1>2. /\ u \in Superusers
      /\ Sign(g, u, "admin", passwd[u])
      /\ Rewrite({}, "ended", {g}, NoSession)
      /\ shadow' = shadow
      /\ UNCHANGED <<clockVars, faultVars, blacklist>>
  BY DEF AdminLogin
<1>3. passwd[u] \in Nat
  BY DEF SInv, IInv, TypeOK
<1> QED BY <1>1, <1>2, <1>3, IssueKeepsSInv

(* The consumed row is the only one of an ordinary account. *)
LEMMA RefreshKeepsSInv ==
  ASSUME SInv, NEW g \in Grants, NEW new \in Grants,
         Refresh(g, new) \/ AdminRefresh(g, new)
  PROVE  SInv'
<1>1. IInv'
  BY RefreshKeepsIInv, AdminRefreshKeepsIInv DEF SInv
<1>2. /\ g \in rows /\ {g} \in SUBSET rows /\ sub[g] \in Users
      /\ authPw[g] \in Nat
      /\ sub[g] \in Superusers \/ RowsOf(sub[g]) \subseteq {g}
  BY DEF Refresh, AdminRefresh, SInv, IInv, Issued, TypeOK, SingleSession,
         RowsOf
<1>3. CASE Refresh(g, new)
  <2>1. RotatedSession(g, new) = new /\ new # NoSession
    BY GrantsAssumption DEF RotatedSession, SInv, IInv, TypeOK
  <2>2. /\ Sign(new, sub[g], "user", authPw[g])
        /\ Rewrite({g}, "consumed", {new}, new)
        /\ shadow' = shadow \cup {g}
        /\ UNCHANGED <<clockVars, faultVars, blacklist>>
    BY <1>3, <2>1 DEF Refresh, RotationShadow
  <2> QED BY <1>1, <1>2, <2>1, <2>2, IssueKeepsSInv
<1>4. CASE AdminRefresh(g, new)
  <2>1. /\ Sign(new, sub[g], "admin", authPw[g])
        /\ Rewrite({g}, "ended", {new}, NoSession)
        /\ shadow' = shadow
        /\ UNCHANGED <<clockVars, faultVars, blacklist>>
    BY <1>4 DEF AdminRefresh
  <2> QED BY <1>1, <1>2, <2>1, IssueKeepsSInv
<1> QED BY <1>3, <1>4

(* Requests that delete rows and blacklist nothing they must. *)
LEMMA EndingKeepsSInv ==
  ASSUME SInv,
         \/ \E g, at \in Grants : Logout(g, at) \/ AdminLogout(g, at)
         \/ \E u \in Users : \E v \in 0..MaxPassword[u] : ResetPassword(u, v)
         \/ \E M \in SUBSET Users : \E g \in Grants : EnforceMfa(g, M)
  PROVE  SInv'
<1>1. IInv'
  BY LogoutKeepsIInv, ResetPasswordKeepsIInv, EnforceMfaKeepsIInv DEF SInv
<1>2. /\ \E gone \in SUBSET rows : Delete(gone, "ended")
      /\ blacklist \subseteq blacklist'
      /\ UNCHANGED <<clockVars, faultVars, shadow>>
  <2>1. CASE \E g, at \in Grants : Logout(g, at)
    BY <2>1 DEF Logout
  <2>2. CASE \E g, at \in Grants : AdminLogout(g, at)
    BY <2>2 DEF AdminLogout
  <2>3. CASE \E u \in Users : \E v \in 0..MaxPassword[u] : ResetPassword(u, v)
    BY <2>3 DEF ResetPassword, ResetDeletes, RowsOf
  <2>4. CASE \E M \in SUBSET Users : \E g \in Grants : EnforceMfa(g, M)
    BY <2>4 DEF EnforceMfa, RowsOf
  <2> QED BY <2>1, <2>2, <2>3, <2>4
<1> QED BY <1>1, <1>2, DeleteKeepsSInv

(* Every live user token has a session row, so blacklisting the sessions   *)
(* of an account covers every row that is deleted with them.               *)
LEMMA RowsHaveSessions ==
  ASSUME SInv, NEW u
  PROVE  /\ RowsOf(u) \in SUBSET rows
         /\ SessionsOf(u) \subseteq rows
         /\ \A g \in RowsOf(u) : aud[g] = "user" => g \in SessionsOf(u)
  BY DEF SInv, IInv, TypeOK, RowsOf, SessionsOf, SessionsMirrorTokens

LEMMA RevokeSessionKeepsSInv ==
  ASSUME SInv, NEW g \in Grants, NEW at \in Grants, RevokeSession(at, g)
  PROVE  SInv'
<1>1. IInv'
  BY RevokeSessionKeepsIInv DEF SInv
<1>2. {g} \in SUBSET rows
  BY RowsHaveSessions DEF RevokeSession
<1> QED BY <1>1, <1>2, DeleteKeepsSInv DEF RevokeSession

(* A caller whose token has no session has no row either. *)
LEMMA OthersAreCovered ==
  ASSUME SInv, NEW at \in Grants, Usable(at)
  PROVE  /\ OtherRows(at) \in SUBSET rows
         /\ \A g \in OtherRows(at) : aud[g] = "user" => g \in OtherJtis(at)
<1>1. session[at] = NoSession => at \notin rows
  BY DEF SInv, SessionsMirrorTokens, Usable
<1> QED BY <1>1, RowsHaveSessions DEF OtherRows, OtherJtis, RowsOf

LEMMA RevokeOthersKeepsSInv ==
  ASSUME SInv, NEW at \in Grants, RevokeOtherSessions(at) \/ ChangePassword(at)
  PROVE  SInv'
<1>1. IInv'
  BY RevokeOtherSessionsKeepsIInv, ChangePasswordKeepsIInv DEF SInv
<1>2. /\ Usable(at)
      /\ Delete(OtherRows(at), "revoked")
      /\ blacklist' = blacklist \cup OtherJtis(at)
      /\ UNCHANGED <<clockVars, faultVars, shadow>>
  BY DEF RevokeOtherSessions, ChangePassword, PasswordChangeAllowed,
         PasswordChangeDeletes
<1> QED BY <1>1, <1>2, OthersAreCovered, DeleteKeepsSInv

LEMMA RevokeAccountsKeepsSInv ==
  ASSUME SInv,
         \/ \E u \in Users : \E mailed \in BOOLEAN : ForcePasswordReset(u, mailed)
         \/ \E M \in SUBSET Users : RevokeMembers(M)
  PROVE  SInv'
<1>1. IInv'
  BY ForcePasswordResetKeepsIInv, RevokeMembersKeepsIInv DEF SInv
<1>2. CASE \E u \in Users : \E mailed \in BOOLEAN : ForcePasswordReset(u, mailed)
  <2> PICK u \in Users, mailed \in BOOLEAN : ForcePasswordReset(u, mailed)
    BY <1>2
  <2> QED BY <1>1, RowsHaveSessions, DeleteKeepsSInv
          DEF ForcePasswordReset, SessionJtis
<1>3. CASE \E M \in SUBSET Users : RevokeMembers(M)
  <2> PICK M \in SUBSET Users : RevokeMembers(M)
    BY <1>3
  <2> DEFINE gone == UNION {RowsOf(u) : u \in M}
             jtis == UNION {SessionJtis(u) : u \in M}
  <2>1. gone \in SUBSET rows
    BY RowsHaveSessions
  <2>2. \A g \in gone : aud[g] = "user" => g \in jtis
    BY RowsHaveSessions DEF SessionJtis
  <2>3. /\ Delete(gone, "revoked")
        /\ blacklist' = blacklist \cup jtis
        /\ UNCHANGED <<clockVars, faultVars, shadow>>
    BY DEF RevokeMembers
  <2> QED BY <1>1, <2>1, <2>2, <2>3, DeleteKeepsSInv
<1> QED BY <1>2, <1>3

(* A key goes only when the token it stands for has expired. *)
LEMMA KeyStepKeepsSInv ==
  ASSUME SInv, KeyStep
  PROVE  SInv'
<1>1. IInv'
  BY KeyStepKeepsIInv DEF SInv
<1>2. /\ UNCHANGED dbVars
      /\ elapsed \subseteq elapsed'
      /\ stale \cup blacklist \subseteq stale' \cup blacklist'
      /\ \A g \in Grants \ elapsed' : g \in shadow' <=> g \in shadow
      /\ spoiled' = spoiled
  BY DEF KeyStep, ForgotPassword, RefreshTokenElapses, AccessTokenExpires,
         ShadowExpires, ShadowMayExpire, BlacklistExpires, BlacklistMayExpire,
         accountVars, clockVars, faultVars
<1> QED BY <1>1, <1>2 DEF SInv, SessionsMirrorTokens, SingleSession, NotEnded,
                          RevokedIsCut, ReplayExact, dbVars

(* A token whose key a rolled back request has written is spoiled.         *)
LEMMA RollbackKeepsSInv ==
  ASSUME SInv, Rollback
  PROVE  SInv'
<1>1. IInv'
  BY RollbackKeepsIInv DEF SInv
<1>2. PICK spent \in SUBSET Grants :
        /\ shadow' = shadow \cup spent /\ spoiled' = spoiled \cup spent
        /\ blacklist \subseteq blacklist'
        /\ UNCHANGED <<dbVars, accountVars, clockVars>>
  BY RollbackEffect DEF RollbackSpoils, SInv
<1>3. ReplayExact'
  BY <1>2 DEF SInv, ReplayExact, dbVars, clockVars
<1> QED BY <1>1, <1>2, <1>3 DEF SInv, SessionsMirrorTokens, SingleSession, NotEnded,
                                RevokedIsCut, dbVars, clockVars

LEMMA NextSInv == SInv /\ [Next]_vars => SInv'
<1> SUFFICES ASSUME SInv, [Next]_vars PROVE SInv'
  OBVIOUS
<1>1. CASE Next
  BY <1>1, LoginKeepsSInv, AdminLoginKeepsSInv, RefreshKeepsSInv,
     EndingKeepsSInv, RevokeSessionKeepsSInv, RevokeOthersKeepsSInv,
     RevokeAccountsKeepsSInv, KeyStepKeepsSInv, RollbackKeepsSInv
  DEF Next, KeyStep, Rollback
<1>2. CASE UNCHANGED vars
  BY <1>2, NextIInv
     DEF SInv, SessionsMirrorTokens, SingleSession, NotEnded, RevokedIsCut,
         ReplayExact, vars, dbVars, clockVars, faultVars
<1> QED BY <1>1, <1>2

(***************************************************************************)
(* An ordinary account never holds two live refresh tokens.                *)
(***************************************************************************)
THEOREM OneSessionPerAccount == Spec => []SingleSession
<1>1. SInv => SingleSession
  BY DEF SInv
<1> QED BY InitSInv, NextSInv, <1>1, PTL DEF Spec

(***************************************************************************)
(* A session row exists exactly for the live user refresh tokens, although *)
(* rotation looks the session up under an id whose row is already gone.    *)
(***************************************************************************)
THEOREM SessionsAreTokens == Spec => []SessionsMirrorTokens
<1>1. SInv => SessionsMirrorTokens
  BY DEF SInv
<1> QED BY InitSInv, NextSInv, <1>1, PTL DEF Spec

(***************************************************************************)
(* The access token of a revoked session is never usable again.            *)
(***************************************************************************)
THEOREM RevocationsLast == Spec => []RevokedStaysUnusable
<1>1. SInv => RevokedStaysUnusable
  BY DEF SInv, RevokedIsCut, RevokedStaysUnusable, Usable
<1> QED BY InitSInv, NextSInv, <1>1, PTL DEF Spec

(***************************************************************************)
(* Replay detection knows exactly the refresh tokens that a rotation or a  *)
(* newer login consumed, or would have if it had not been rolled back.     *)
(***************************************************************************)
THEOREM ReplayIsExact == Spec => []ReplayExact
<1>1. SInv => ReplayExact
  BY DEF SInv
<1> QED BY InitSInv, NextSInv, <1>1, PTL DEF Spec

(***************************************************************************)
(* A pending forced reset ends only through a mailed link.                 *)
(***************************************************************************)
ResetStep ==
  \A u \in resetRequired :
    /\ passwd'[u] # passwd[u] => <<u, passwd[u]>> \in links
    /\ u \notin resetRequired' => passwd'[u] # passwd[u]

LEMMA NextResets == IInv /\ [Next]_vars => ResetStep
<1> SUFFICES ASSUME IInv, [Next]_vars PROVE ResetStep
  OBVIOUS
<1>1. CASE \E u \in Users : \E v \in 0..MaxPassword[u] : ResetPassword(u, v)
  <2> PICK u \in Users : \E v \in 0..MaxPassword[u] : ResetPassword(u, v)
    BY <1>1
  <2>1. /\ <<u, passwd[u]>> \in links
        /\ resetRequired' = resetRequired \ {u}
        /\ passwd' = [passwd EXCEPT ![u] = @ + 1]
        /\ passwd \in [Users -> Nat] /\ resetRequired \subseteq Users
    BY DEF ResetPassword, LinkVerifies, IInv, TypeOK
  <2>2. passwd'[u] = passwd[u] + 1 /\ passwd[u] \in Nat
    BY <2>1
  <2>3. \A w \in Users : w # u => passwd'[w] = passwd[w]
    BY <2>1
  <2> QED BY <2>1, <2>2, <2>3 DEF ResetStep
<1>2. CASE \E at \in Grants : ChangePassword(at)
  <2> PICK at \in Grants : ChangePassword(at)
    BY <1>2
  <2>1. /\ sub[at] \notin resetRequired
        /\ passwd' = [passwd EXCEPT ![sub[at]] = @ + 1]
        /\ resetRequired' = resetRequired
        /\ passwd \in [Users -> Nat] /\ resetRequired \subseteq Users
    BY DEF ChangePassword, PasswordChangeAllowed, Usable, IInv, TypeOK
  <2> QED BY <2>1 DEF ResetStep
<1>3. CASE \E u \in Users : \E mailed \in BOOLEAN : ForcePasswordReset(u, mailed)
  BY <1>3 DEF ForcePasswordReset, ResetStep
<1>4. CASE UNCHANGED <<passwd, resetRequired>>
  BY <1>4 DEF ResetStep
<1>5. ASSUME Rollback PROVE UNCHANGED <<passwd, resetRequired>>
  BY <1>5, RollbackEffect DEF RollbackSpoils, accountVars
<1>6. \/ \E u \in Users : \E v \in 0..MaxPassword[u] : ResetPassword(u, v)
      \/ \E at \in Grants : ChangePassword(at)
      \/ \E u \in Users : \E mailed \in BOOLEAN : ForcePasswordReset(u, mailed)
      \/ UNCHANGED <<passwd, resetRequired>>
  BY <1>5
     DEF Next, Rollback, vars, accountVars, Login, IssueTokens, AdminLogin, Refresh,
         AdminRefresh, Logout, AdminLogout, RevokeSession, RevokeOtherSessions,
         RefreshTokenElapses, AccessTokenExpires, ShadowExpires,
         BlacklistExpires, ForgotPassword, RevokeMembers, EnforceMfa
<1> QED BY <1>1, <1>2, <1>3, <1>4, <1>6

THEOREM ForcedResetsUseTheLink == Spec => ForcedResetByLink
<1>1. [][ResetStep]_vars => ForcedResetByLink
  BY PTL DEF ResetStep, ForcedResetByLink
<1>2. IInv /\ [Next]_vars => [ResetStep]_vars
  BY NextResets
<1> QED BY InitIInv, NextIInv, <1>1, <1>2, PTL DEF Spec

(***************************************************************************)
(* Sessions implements Chains: one step per request, a stutter for keys,   *)
(* links, clocks and requests rolled back.                                 *)
(***************************************************************************)
LEMMA OwnedAreRows == \A u : Promise!Owned(u) = RowsOf(u)
  BY DEF Promise!Owned, RowsOf

LEMMA InitRefines == Init => Promise!Init
  BY DEF Init, Promise!Init

(* A signature is an issue, of the chain it continues. *)
LEMMA SignIssues ==
  ASSUME NEW g, NEW u, NEW audience, NEW v, Sign(g, u, audience, v), passwd' = passwd
  PROVE  Promise!Issue(u, g, v)
  BY DEF Sign, Unissued, Promise!Issue

LEMMA LoginRefines ==
  ASSUME NEW u \in Users, NEW g \in Grants, Login(u, g) \/ AdminLogin(u, g)
  PROVE  Promise!Next
<1>1. CASE Login(u, g)
  <2>1. Sign(g, u, "user", passwd[u]) /\ passwd' = passwd
        /\ rows' = (rows \ RowsOf(u)) \cup {g}
    BY <1>1 DEF Login, IssueTokens, Superseded, Rewrite, accountVars
  <2>2. Promise!Login(u, g)
    BY <2>1, SignIssues, OwnedAreRows DEF Promise!Login
  <2> QED BY <2>2 DEF Promise!Next
<1>2. CASE AdminLogin(u, g)
  <2>1. u \in Superusers /\ Sign(g, u, "admin", passwd[u]) /\ passwd' = passwd
        /\ rows' = rows \cup {g}
    BY <1>2 DEF AdminLogin, Rewrite, accountVars
  <2>2. Promise!LoginBeside(u, g)
    BY <2>1, SignIssues DEF Promise!LoginBeside
  <2> QED BY <2>2 DEF Promise!Next
<1> QED BY <1>1, <1>2

LEMMA RefreshRefines ==
  ASSUME NEW g \in Grants, NEW new \in Grants, Refresh(g, new) \/ AdminRefresh(g, new)
  PROVE  Promise!Next
<1>1. /\ g \in rows /\ passwd' = passwd
      /\ \E audience : Sign(new, sub[g], audience, authPw[g])
      /\ rows' = (rows \ {g}) \cup {new}
  BY DEF Refresh, AdminRefresh, Rewrite, accountVars
<1>2. Promise!Rotate(g, new)
  BY <1>1, SignIssues DEF Promise!Rotate
<1> QED BY <1>2 DEF Promise!Next

LEMMA EndRefines ==
  ASSUME NEW g \in Grants, NEW at \in Grants,
         Logout(g, at) \/ AdminLogout(g, at) \/ RevokeSession(at, g)
  PROVE  Promise!Next
<1>1. rows' = rows \ {g} /\ UNCHANGED <<sub, authPw, passwd>>
  BY DEF Logout, AdminLogout, RevokeSession, Delete, Rewrite, accountVars
<1>2. Promise!End(g)
  BY <1>1 DEF Promise!End
<1> QED BY <1>2 DEF Promise!Next

(* The session the caller holds is the row kept; without one there is no   *)
(* row of its own to keep.                                                 *)
LEMMA OthersAreOwned ==
  ASSUME SInv, NEW at \in Grants, Usable(at)
  PROVE  /\ sub[at] \in Users /\ sub[at] # NoUser
         /\ rows \ OtherRows(at) = rows \ (Promise!Owned(sub[at]) \ {at})
<1>1. session[at] = NoSession => at \notin rows
  BY DEF SInv, SessionsMirrorTokens, Usable
<1>2. sub[at] \in Users
  BY DEF SInv, IInv, Issued, Usable
<1> QED BY <1>1, <1>2, UsersAssumption, OwnedAreRows DEF OtherRows, RowsOf

LEMMA OthersRefine ==
  ASSUME SInv, NEW at \in Grants, RevokeOtherSessions(at) \/ ChangePassword(at)
  PROVE  Promise!Next
<1>1. CASE RevokeOtherSessions(at)
  <2>1. Usable(at) /\ rows' = rows \ OtherRows(at)
        /\ UNCHANGED <<sub, authPw, passwd>>
    BY <1>1 DEF RevokeOtherSessions, Delete, Rewrite, accountVars
  <2>2. sub[at] \in Users /\ Promise!EndOthers(sub[at], at)
    BY <2>1, OthersAreOwned DEF Promise!EndOthers
  <2> QED BY <2>2 DEF Promise!Next
<1>2. CASE ChangePassword(at)
  <2>1. Usable(at) /\ rows' = rows \ OtherRows(at) /\ sub' = sub
        /\ passwd' = [passwd EXCEPT ![sub[at]] = @ + 1]
        /\ authPw' = [authPw EXCEPT ![at] = passwd[sub[at]] + 1]
    BY <1>2 DEF ChangePassword, PasswordChangeAllowed, PasswordChangeDeletes,
                Delete, Rewrite
  <2>2. Promise!ChangePassword(at)
    BY <2>1, OthersAreOwned DEF Promise!ChangePassword
  <2> QED BY <2>2 DEF Promise!Next
<1> QED BY <1>1, <1>2

LEMMA ResetRefines ==
  ASSUME NEW u \in Users, NEW v, ResetPassword(u, v)
  PROVE  Promise!Next
<1>1. rows' = rows \ RowsOf(u) /\ UNCHANGED <<sub, authPw>>
      /\ passwd' = [passwd EXCEPT ![u] = @ + 1]
  BY DEF ResetPassword, ResetDeletes, Delete, Rewrite
<1>2. Promise!ResetPassword(u)
  BY <1>1, OwnedAreRows DEF Promise!ResetPassword
<1> QED BY <1>2 DEF Promise!Next

LEMMA MassRevocationRefines ==
  ASSUME \/ \E u \in Users : \E mailed \in BOOLEAN : ForcePasswordReset(u, mailed)
         \/ \E M \in SUBSET Users : RevokeMembers(M)
         \/ \E M \in SUBSET Users : \E at \in Grants : EnforceMfa(at, M)
  PROVE  Promise!Next
<1>1. \E M \in SUBSET Users :
        /\ rows' = rows \ UNION {RowsOf(u) : u \in M}
        /\ UNCHANGED <<sub, authPw, passwd>>
  <2>1. CASE \E u \in Users : \E mailed \in BOOLEAN : ForcePasswordReset(u, mailed)
    <3> PICK u \in Users, mailed \in BOOLEAN : ForcePasswordReset(u, mailed)
      BY <2>1
    <3>1. rows' = rows \ RowsOf(u) /\ UNCHANGED <<sub, authPw, passwd>>
      BY DEF ForcePasswordReset, Delete, Rewrite
    <3>2. RowsOf(u) = UNION {RowsOf(w) : w \in {u}}
      OBVIOUS
    <3> WITNESS {u} \in SUBSET Users
    <3> QED BY <3>1, <3>2
  <2>2. CASE \E M \in SUBSET Users :
               RevokeMembers(M) \/ \E at \in Grants : EnforceMfa(at, M)
    BY <2>2 DEF RevokeMembers, EnforceMfa, Delete, Rewrite, accountVars
  <2> QED BY <2>1, <2>2
<1>2. \E M \in SUBSET Users : Promise!Revoke(M)
  BY <1>1, OwnedAreRows DEF Promise!Revoke
<1> QED BY <1>2 DEF Promise!Next

LEMMA KeyStepRefines ==
  ASSUME KeyStep
  PROVE  UNCHANGED Promise!vars
  BY DEF KeyStep, ForgotPassword, RefreshTokenElapses, AccessTokenExpires,
         ShadowExpires, BlacklistExpires, dbVars, accountVars, Promise!vars

LEMMA RollbackRefines ==
  ASSUME SInv, Rollback
  PROVE  UNCHANGED Promise!vars
  BY RollbackEffect DEF RollbackSpoils, SInv, dbVars, accountVars, Promise!vars

LEMMA StepRefines == SInv /\ [Next]_vars => [Promise!Next]_(Promise!vars)
<1> SUFFICES ASSUME SInv, [Next]_vars PROVE Promise!Next \/ UNCHANGED Promise!vars
  OBVIOUS
<1>1. CASE Next
  BY <1>1, LoginRefines, RefreshRefines, EndRefines, OthersRefine, ResetRefines,
     MassRevocationRefines, KeyStepRefines, RollbackRefines
  DEF Next, KeyStep, Rollback
<1>2. CASE UNCHANGED vars
  BY <1>2 DEF vars, dbVars, accountVars, Promise!vars
<1> QED BY <1>1, <1>2

(***************************************************************************)
(* Every request of Sessions is one step of Chains on the account's        *)
(* tokens, or leaves them alone.                                           *)
(***************************************************************************)
THEOREM SessionsKeepChains == Spec => ChainsAreKept
<1> QED BY InitSInv, NextSInv, InitRefines, StepRefines, PTL
        DEF Spec, ChainsAreKept, Promise!Spec
=============================================================================
