------------------------------ MODULE Sessions ------------------------------
(***************************************************************************)
(* Token issuance, rotation and revocation of the wxcode-adm backend       *)
(* (auth/service.py, users/service.py, admin/service.py).                  *)
(*                                                                         *)
(* Every successful authentication issues a grant: one opaque refresh      *)
(* token (a row of refresh_tokens), one signed access token (jti, sub,     *)
(* aud) and, on the user endpoints, one user_sessions row that holds the   *)
(* access token's jti.  The refresh token, the access token and the jti    *)
(* of one issuance share the grant's name.                                 *)
(*                                                                         *)
(* A request is one action: its database transaction and its Redis writes  *)
(* together.  A request that raises, or whose commit fails, is rolled back *)
(* by get_session: nothing changes in the database, and the keys it had    *)
(* written stay in Redis (the actions named ...Fails).  SessionRace        *)
(* refines the grain to single statements.                                 *)
(***************************************************************************)
EXTENDS Naturals, FiniteSets

CONSTANTS
  Users,        \* accounts; is_active is never written after creation
  Superusers,   \* the accounts whose is_superuser flag is set
  Grants,       \* the pool of token pairs that can be issued (bound)
  NoUser,       \* sub of a grant not issued yet
  NoSession,    \* a refresh token without a user_sessions row
  MaxPassword,  \* MaxPassword[u]: bound on the password hashes of account u
  MaxFaults     \* bound on token expiries observed and requests rolled back

ASSUME UsersAssumption == /\ Superusers \subseteq Users
                          /\ NoUser \notin Users
ASSUME GrantsAssumption == NoSession \notin Grants
ASSUME BoundsAssumption == MaxPassword \in [Users -> Nat] /\ MaxFaults \in Nat

VARIABLES
  sub,            \* sub[g]: the account the grant was issued to
  aud,            \* aud[g]: audience of its access token
  rows,           \* grants whose refresh_tokens row exists
  elapsed,        \* grants whose refresh token is past expires_at
  session,        \* session[g]: id of the user_sessions row of g's row
  shadow,         \* Redis auth:replay keys
  blacklist,      \* Redis auth:blacklist:jti keys
  stale,          \* grants whose access token is past exp
  passwd,         \* passwd[u]: which password hash is stored, 0 for NULL
  resetRequired,  \* accounts with password_reset_required
  links,          \* reset links: <<account, hash used as salt>>; a link is
                  \* forgotten with its hash, which never comes back
  (* history *)
  authPw,         \* authPw[g]: hash in force when g's chain authenticated
  ended,          \* ended[g]: how the row of g went
  spoiled,        \* grants a request rolled back gave a shadow key
  rollbacks       \* requests rolled back

dbVars == <<sub, aud, rows, session, authPw, ended>>
accountVars == <<passwd, resetRequired, links>>
clockVars == <<elapsed, stale>>
faultVars == <<spoiled, rollbacks>>
vars == <<dbVars, accountVars, clockVars, shadow, blacklist, faultVars>>

Audiences == {"none", "user", "admin"}
Reasons == {"no",
            "consumed",  \* by a rotation or a newer login, on the user endpoints
            "revoked",   \* with its session's access token
            "ended"}     \* without it

TypeOK ==
  /\ sub \in [Grants -> Users \cup {NoUser}]
  /\ aud \in [Grants -> Audiences]
  /\ rows \subseteq Grants
  /\ elapsed \subseteq Grants
  /\ session \in [Grants -> Grants \cup {NoSession}]
  /\ shadow \subseteq Grants
  /\ blacklist \subseteq Grants
  /\ stale \subseteq Grants
  /\ passwd \in [Users -> Nat]
  /\ resetRequired \subseteq Users
  /\ links \subseteq Users \X Nat
  /\ authPw \in [Grants -> Nat]
  /\ ended \in [Grants -> Reasons]
  /\ spoiled \subseteq Grants
  /\ rollbacks \in Nat

Init ==
  /\ sub = [g \in Grants |-> NoUser]
  /\ aud = [g \in Grants |-> "none"]
  /\ rows = {}
  /\ elapsed = {}
  /\ session = [g \in Grants |-> NoSession]
  /\ shadow = {}
  /\ blacklist = {}
  /\ stale = {}
  /\ passwd \in {p \in [Users -> 0..1] : \A u \in Superusers : p[u] = 1}
        \* 0: signed up through OAuth; the seed gives the superuser a password
  /\ resetRequired = {}
  /\ links = {}
  /\ authPw = [g \in Grants |-> 0]
  /\ ended = [g \in Grants |-> "no"]
  /\ spoiled = {}
  /\ rollbacks = 0

-----------------------------------------------------------------------------
(* Queries of the handlers. *)

Unissued(g) == sub[g] = NoUser
RowsOf(u) == {g \in rows : sub[g] = u}
SessionsOf(u) == {g \in Grants : sub[g] = u /\ session[g] # NoSession}

(* get_current_user: aud, exp, the blacklist and the forced-reset flag. *)
Usable(g) ==
  /\ aud[g] = "user"
  /\ g \notin stale \cup blacklist
  /\ sub[g] \notin resetRequired

(* require_admin: the same for the admin audience, plus is_superuser; it   *)
(* does not look at password_reset_required.                               *)
AdminUsable(g) ==
  /\ aud[g] = "admin"
  /\ g \notin stale \cup blacklist
  /\ sub[g] \in Superusers

(* The jtis a logout blacklists.  blacklist_access_token decodes without   *)
(* an audience and PyJWT rejects a token that carries one, so a token with *)
(* any aud claim is taken for malformed and skipped.                       *)
LogoutBlacklists(at) == {g \in {at} : aud[g] = "none"}

-----------------------------------------------------------------------------
(* Effects shared by the handlers. *)

(* Delete the rows in gone for the reason why; the foreign key of          *)
(* user_sessions cascades.  New rows are in fresh, with their session.     *)
Rewrite(gone, why, fresh, sess) ==
  /\ rows' = (rows \ gone) \cup fresh
  /\ session' = [g \in Grants |-> IF g \in fresh THEN sess
                                  ELSE IF g \in gone THEN NoSession
                                  ELSE session[g]]
  /\ ended' = [g \in Grants |-> IF g \in gone THEN why ELSE ended[g]]

(* Sign access token g and record under which hash its chain started. *)
Sign(g, u, audience, version) ==
  /\ Unissued(g)
  /\ sub' = [sub EXCEPT ![g] = u]
  /\ aud' = [aud EXCEPT ![g] = audience]
  /\ authPw' = [authPw EXCEPT ![g] = version]

Delete(gone, why) ==
  /\ Rewrite(gone, why, {}, NoSession)
  /\ UNCHANGED <<sub, aud>>

(* Mutation: a login leaves the account's tokens alone. *)
MutKeepsOldTokens(u) == {}

(* The tokens _issue_tokens finds for the account and revokes. *)
Superseded(u) == RowsOf(u)

(* Their shadow keys, written in one Redis pipeline. *)
SupersededShadow(u) == Superseded(u)

(* _issue_tokens, shared by every login path. *)
IssueTokens(u, g) ==
  /\ Sign(g, u, "user", passwd[u])
  /\ Rewrite(Superseded(u), "consumed", {g}, g)
  /\ shadow' = shadow \cup SupersededShadow(u)
  /\ UNCHANGED <<accountVars, clockVars, faultVars, blacklist>>

-----------------------------------------------------------------------------
(* Authentication endpoints. *)

(* login and mfa_verify (a password was checked) and the OAuth callbacks   *)
(* (none was) end in _issue_tokens; none of them looks at                  *)
(* password_reset_required.                                                *)
Login(u, g) == IssueTokens(u, g)

(* refresh, on a row that exists and has not expired: shadow key, delete,  *)
(* insert.  The session row is looked up by the deleted row's id after the *)
(* flush: the cascade has removed it, and a new one is created.  Otherwise *)
(* refresh deletes the expired row, or every row of the account whose      *)
(* token was replayed, and raises, which rolls the deletes back.           *)
MutNoRotationShadow(g) == {}   \* mutation: no shadow key on rotation
RotationShadow(g) == {g}
MutSessionDropped(g, new) == NoSession    \* mutation: no new session row
RotatedSession(g, new) ==
  LET flushed == [session EXCEPT ![g] = NoSession]
  IN  IF flushed[g] # NoSession THEN flushed[g] ELSE new
Refresh(g, new) ==
  /\ g \in rows \ elapsed
  /\ Sign(new, sub[g], "user", authPw[g])
  /\ Rewrite({g}, "consumed", {new}, RotatedSession(g, new))
  /\ shadow' = shadow \cup RotationShadow(g)
  /\ UNCHANGED <<accountVars, clockVars, faultVars, blacklist>>

(* logout: the refresh token in the body, any access token in the header. *)
Logout(g, at) ==
  /\ g \in rows
  /\ ~Unissued(at)
  /\ Delete({g}, "ended")
  /\ blacklist' = blacklist \cup LogoutBlacklists(at)
  /\ UNCHANGED <<accountVars, clockVars, faultVars, shadow, authPw>>

ForgotPassword(u) ==
  /\ links' = links \cup {<<u, passwd[u]>>}
  /\ UNCHANGED <<dbVars, passwd, resetRequired, clockVars, shadow, blacklist, faultVars>>

(* reset_password: the stored hash is the salt of the link's signature, so *)
(* only a link minted under the current hash verifies.                     *)
LinksWithout(u) == {l \in links : l[1] # u}
LinkVerifies(u, v) == <<u, v>> \in links /\ v = passwd[u]
MutResetDeletesNothing(u) == {}   \* mutation: reset revokes no token
ResetDeletes(u) == RowsOf(u)
ResetPassword(u, v) ==
  /\ LinkVerifies(u, v)
  /\ passwd[u] < MaxPassword[u]
  /\ passwd' = [passwd EXCEPT ![u] = @ + 1]
  /\ resetRequired' = resetRequired \ {u}
  /\ Delete(ResetDeletes(u), "ended")
  /\ links' = LinksWithout(u)
  /\ UNCHANGED <<clockVars, faultVars, shadow, blacklist, authPw>>

-----------------------------------------------------------------------------
(* Session management endpoints; at is the caller's access token. *)

(* revoke_session: id names a session row of the caller, not the current. *)
RevokeSession(at, g) ==
  /\ Usable(at)
  /\ g \in SessionsOf(sub[at]) \ {at}
  /\ Delete({g}, "revoked")
  /\ blacklist' = blacklist \cup {g}
  /\ UNCHANGED <<accountVars, clockVars, faultVars, shadow, authPw>>

(* What revoke_all_other_sessions and change_password blacklist, and which *)
(* rows they delete: all but the caller's current one, or all when the     *)
(* caller's jti is not that of a live session.                             *)
OtherJtis(at) == SessionsOf(sub[at]) \ {at}
OtherRows(at) == IF session[at] # NoSession
                 THEN RowsOf(sub[at]) \ {at}
                 ELSE RowsOf(sub[at])

RevokeOtherSessions(at) ==
  /\ Usable(at)
  /\ Delete(OtherRows(at), "revoked")
  /\ blacklist' = blacklist \cup OtherJtis(at)
  /\ UNCHANGED <<accountVars, clockVars, faultVars, shadow, authPw>>

(* The current session is kept, and has proved the password anew. *)
(* Mutation: get_current_user forgets the forced-reset flag. *)
MutNoResetGate(at) == aud[at] = "user" /\ at \notin stale \cup blacklist
PasswordChangeAllowed(at) == Usable(at)
PasswordChangeDeletes(at) == OtherRows(at)
ChangePassword(at) ==
  LET u == sub[at] IN
  /\ PasswordChangeAllowed(at)
  /\ passwd[u] \in 1..(MaxPassword[u] - 1)
  /\ passwd' = [passwd EXCEPT ![u] = @ + 1]
  /\ Delete(PasswordChangeDeletes(at), "revoked")
  /\ blacklist' = blacklist \cup OtherJtis(at)
  /\ authPw' = [authPw EXCEPT ![at] = passwd[u] + 1]
  /\ links' = LinksWithout(u)
  /\ UNCHANGED <<resetRequired, clockVars, faultVars, shadow>>

-----------------------------------------------------------------------------
(* Administrator endpoints and the revocations of other components. *)

AdminPresent == \E a \in Grants : AdminUsable(a)

(* admin_login adds a row beside the existing ones, without a session. *)
AdminLogin(u, g) ==
  /\ u \in Superusers
  /\ passwd[u] # 0
  /\ Sign(g, u, "admin", passwd[u])
  /\ Rewrite({}, "ended", {g}, NoSession)
  /\ UNCHANGED <<accountVars, clockVars, faultVars, shadow, blacklist>>

(* admin_refresh accepts any row of the shared table; no shadow key. *)
AdminRefresh(g, new) ==
  /\ g \in rows \ elapsed
  /\ Sign(new, sub[g], "admin", authPw[g])
  /\ Rewrite({g}, "ended", {new}, NoSession)
  /\ UNCHANGED <<accountVars, clockVars, faultVars, shadow, blacklist>>

AdminLogout(g, at) ==
  /\ AdminUsable(at)
  /\ Delete({g} \cap rows, "ended")
  /\ blacklist' = blacklist \cup {at}
  /\ UNCHANGED <<accountVars, clockVars, faultVars, shadow, authPw>>

(* The jtis blacklisted for an account: those of its session rows. *)
SessionJtis(u) == SessionsOf(u)

(* force_password_reset; the mail job is best effort (mailed). *)
ForcePasswordReset(u, mailed) ==
  /\ AdminPresent
  /\ resetRequired' = resetRequired \cup {u}
  /\ blacklist' = blacklist \cup SessionJtis(u)
  /\ Delete(RowsOf(u), "revoked")
  /\ links' = IF mailed THEN links \cup {<<u, passwd[u]>>} ELSE links
  /\ UNCHANGED <<passwd, clockVars, faultVars, shadow, authPw>>

(* suspend_tenant (by an administrator) and _handle_payment_failed (by the *)
(* worker), for the member accounts M of one tenant.                       *)
RevokeMembers(M) ==
  /\ blacklist' = blacklist \cup UNION {SessionJtis(u) : u \in M}
  /\ Delete(UNION {RowsOf(u) : u \in M}, "revoked")
  /\ UNCHANGED <<accountVars, clockVars, faultVars, shadow, authPw>>

(* enable_mfa_enforcement, by the owner, for the members M without MFA:    *)
(* refresh tokens only, the access tokens are left to expire.              *)
EnforceMfa(at, M) ==
  /\ Usable(at)
  /\ sub[at] \notin M
  /\ Delete(UNION {RowsOf(u) : u \in M}, "ended")
  /\ UNCHANGED <<accountVars, clockVars, faultVars, shadow, blacklist, authPw>>

-----------------------------------------------------------------------------
(* Requests that fail after their Redis writes: at a later statement, in   *)
(* the middle of a loop of such writes, or at the commit.  The link that a *)
(* forced reset may have mailed is one that ForgotPassword mails too, and  *)
(* a request that leaves no new key changes nothing.                       *)

FaultsLeft == Cardinality(elapsed) + Cardinality(stale) + rollbacks < MaxFaults

RolledBack(spent, jtis) ==
  /\ FaultsLeft
  /\ rollbacks' = rollbacks + 1
  /\ shadow' = shadow \cup spent
  /\ spoiled' = spoiled \cup spent
  /\ \E written \in SUBSET jtis : blacklist' = blacklist \cup written
  /\ <<shadow', blacklist'>> # <<shadow, blacklist>>
  /\ UNCHANGED <<dbVars, accountVars, clockVars>>

LoginFails(u) == RolledBack(SupersededShadow(u), {})

RefreshFails(g) ==
  /\ g \in rows \ elapsed
  /\ RolledBack(RotationShadow(g), {})

(* revoke_session, revoke_all_other_sessions, change_password.             *)
RevocationFails(at) ==
  /\ Usable(at)
  /\ RolledBack({}, OtherJtis(at))

AdminLogoutFails(at) ==
  /\ AdminUsable(at)
  /\ RolledBack({}, {at})

(* force_password_reset, suspend_tenant, _handle_payment_failed.           *)
MassRevocationFails(M) == RolledBack({}, UNION {SessionJtis(u) : u \in M})

-----------------------------------------------------------------------------
(* Time.  A Redis key is written with the whole lifetime of the token it   *)
(* stands for, so it can only disappear after the token's own expiry.  The *)
(* 24 hours of a reset link only take options away: a link that is never   *)
(* used stands for an expired one.                                         *)

RefreshTokenElapses(g) ==
  /\ FaultsLeft
  /\ ~Unissued(g)
  /\ elapsed' = elapsed \cup {g}
  /\ UNCHANGED <<dbVars, accountVars, stale, shadow, blacklist, faultVars>>

AccessTokenExpires(g) ==
  /\ FaultsLeft
  /\ ~Unissued(g)
  /\ stale' = stale \cup {g}
  /\ UNCHANGED <<dbVars, accountVars, elapsed, shadow, blacklist, faultVars>>

ShadowMayExpire(g) == g \in shadow \cap elapsed
ShadowExpires(g) ==
  /\ ShadowMayExpire(g)
  /\ shadow' = shadow \ {g}
  /\ UNCHANGED <<dbVars, accountVars, clockVars, faultVars, blacklist>>

MutShortBlacklist(g) == g \in blacklist   \* mutation: TTL below the token's
BlacklistMayExpire(g) == g \in blacklist \cap stale
BlacklistExpires(g) ==
  /\ BlacklistMayExpire(g)
  /\ blacklist' = blacklist \ {g}
  /\ UNCHANGED <<dbVars, accountVars, clockVars, faultVars, shadow>>

-----------------------------------------------------------------------------
Next ==
  \/ \E u \in Users, g \in Grants :
       \/ Login(u, g)
       \/ AdminLogin(u, g)
  \/ \E g, h \in Grants :
       \/ Refresh(g, h)
       \/ AdminRefresh(g, h)
       \/ Logout(g, h)
       \/ AdminLogout(g, h)
       \/ RevokeSession(g, h)
  \/ \E g \in Grants :
       \/ RevokeOtherSessions(g)
       \/ ChangePassword(g)
       \/ RefreshTokenElapses(g)
       \/ AccessTokenExpires(g)
       \/ ShadowExpires(g)
       \/ BlacklistExpires(g)
       \/ RefreshFails(g)
       \/ RevocationFails(g)
       \/ AdminLogoutFails(g)
  \/ \E u \in Users :
       \/ ForgotPassword(u)
       \/ LoginFails(u)
       \/ \E v \in 0..MaxPassword[u] : ResetPassword(u, v)
       \/ \E mailed \in BOOLEAN : ForcePasswordReset(u, mailed)
  \/ \E M \in SUBSET Users :
       \/ RevokeMembers(M)
       \/ MassRevocationFails(M)
       \/ \E g \in Grants : EnforceMfa(g, M)

Spec == Init /\ [][Next]_vars

-----------------------------------------------------------------------------
(* Safety. *)

(* Single-session policy: an ordinary account never has two live refresh   *)
(* tokens, whatever mix of logins, rotations and revocations ran.  An      *)
(* administrator's own logins add rows beside it (admin_login).            *)
SingleSession ==
  \A g, h \in rows : sub[g] = sub[h] /\ sub[g] \notin Superusers => g = h

(* A live refresh token always descends, through any number of rotations,  *)
(* from an authentication under the password hash now stored: changing or  *)
(* resetting the password cuts every other chain.                          *)
LiveTokensAreCurrent == \A g \in rows : authPw[g] = passwd[sub[g]]

(* Until it expires, a refresh token is known to the replay detection      *)
(* exactly when a rotation or a newer login consumed it, or tried to and   *)
(* was rolled back.  Revoking or logging out never makes a token look      *)
(* replayed; a rotation or login that failed before does.                  *)
ReplayExact ==
  \A g \in Grants \ elapsed :
    g \in shadow <=> ended[g] = "consumed" \/ g \in spoiled

(* A session row exists exactly for the live refresh tokens of the user    *)
(* endpoints, so revocation by session reaches each of them.               *)
SessionsMirrorTokens ==
  \A g \in Grants : session[g] # NoSession <=> g \in rows /\ aud[g] = "user"

(* The access token of a session ended by a revocation stays unusable for  *)
(* the rest of its life, whichever keys expire meanwhile.                  *)
RevokedStaysUnusable ==
  \A g \in Grants : ended[g] = "revoked" => ~Usable(g)

(* While a forced reset is pending, the password changes only through a    *)
(* mailed link, and the flag falls only together with the old hash.        *)
ForcedResetByLink ==
  [][\A u \in resetRequired :
       /\ passwd'[u] # passwd[u] => <<u, passwd[u]>> \in links
       /\ u \notin resetRequired' => passwd'[u] # passwd[u]]_vars

(* Refinement: every request keeps what Chains promises. *)
Promise == INSTANCE Chains WITH live <- rows, account <- sub, version <- authPw,
                                Admins <- Superusers, Nobody <- NoUser
ChainsAreKept == Promise!Spec

=============================================================================
