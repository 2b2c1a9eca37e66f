------------------------------ MODULE OAuthLink ------------------------------
(***************************************************************************)
(* Accounts and the provider identities linked to them (auth/service.py:   *)
(* signup, resolve_oauth_account, confirm_oauth_link, reset_password;      *)
(* users/service.py: update_profile).                                      *)
(*                                                                         *)
(* A request that checks uniqueness and inserts is one action: the UNIQUE  *)
(* constraints make its commit the moment that counts.  Confirming a link  *)
(* takes three: the reads, Redis' DEL of the link token, and the INSERT    *)
(* with its commit, so that confirmations overlap and fail midway.         *)
(*                                                                         *)
(* A callback for an identity that has an account is Login of Sessions and *)
(* changes nothing here; verification codes are in Otp.                    *)
(***************************************************************************)
EXTENDS Naturals, FiniteSets

CONSTANTS
  Users, NoUser,
  Emails,
  Passwords,
  Identities,   \* accounts at the providers
  Provider,     \* Provider[i]: "google" or "github"
  Links,        \* link tokens; one that is gone is used again
  Requests,     \* slots for the concurrent confirmations
  None,         \* no account, no password, no link, no request
  MaxFaults     \* bound on confirmations that fail midway

ASSUME ProviderAssumption == Provider \in [Identities -> {"google", "github"}]
ASSUME NullAssumption ==
  /\ NoUser \notin Users
  /\ None \notin Passwords
  /\ None \notin [email : Emails, pw : Passwords \cup {None}]
  /\ None \notin [user : Users, identity : Identities]
  /\ None \notin [link : Links, user : Users, identity : Identities, spent : BOOLEAN]
ASSUME FaultsAssumption == MaxFaults \in Nat

VARIABLES
  user,     \* user[u]: its row
  acct,     \* acct[i]: the user of i's oauth_accounts row
  link,     \* link[l]: what auth:oauth_link:<l> holds in Redis
  mail,     \* mail[i]: the address the provider reports for i
  req,      \* req[r]: the confirmation in r, from its reads on
  (* history *)
  proven,   \* pairs <<i, u>>: u's password was shown to link i
  made,     \* made[l]: links made with l since it was stored
  faults    \* confirmations that failed

vars == <<user, acct, link, mail, req, proven, made, faults>>

UserRows == [email : Emails, pw : Passwords \cup {None}]
LinkData == [user : Users, identity : Identities]
Confirmations == [link : Links, user : Users, identity : Identities, spent : BOOLEAN]

TypeOK ==
  /\ user \in [Users -> UserRows \cup {None}]
  /\ acct \in [Identities -> Users \cup {NoUser}]
  /\ link \in [Links -> LinkData \cup {None}]
  /\ mail \in [Identities -> Emails]
  /\ req \in [Requests -> Confirmations \cup {None}]
  /\ proven \subseteq Identities \X Users
  /\ made \in [Links -> Nat]
  /\ faults \in 0..MaxFaults

Init ==
  /\ user = [u \in Users |-> None]
  /\ acct = [i \in Identities |-> NoUser]
  /\ link = [l \in Links |-> None]
  /\ mail \in [Identities -> Emails]
  /\ req = [r \in Requests |-> None]
  /\ proven = {}
  /\ made = [l \in Links |-> 0]
  /\ faults = 0

Exists(u) == user[u] # None
Taken(e) == \E u \in Users : Exists(u) /\ user[u].email = e
LinkedTo(u) == {i \in Identities : acct[i] = u}

-----------------------------------------------------------------------------
(* Accounts *)

Signup(u, e, w) ==
  /\ ~Exists(u)
  /\ ~Taken(e)
  /\ user' = [user EXCEPT ![u] = [email |-> e, pw |-> w]]
  /\ UNCHANGED <<acct, link, mail, req, proven, made, faults>>

(* An account opened with a provider gets a password this way.             *)
ResetPassword(u, w) ==
  /\ Exists(u)
  /\ user' = [user EXCEPT ![u].pw = w]
  /\ UNCHANGED <<acct, link, mail, req, proven, made, faults>>

(* update_profile *)
ChangeEmail(u, e) ==
  /\ Exists(u)
  /\ ~Taken(e)
  /\ user' = [user EXCEPT ![u].email = e]
  /\ UNCHANGED <<acct, link, mail, req, proven, made, faults>>

ProviderChangesEmail(i, e) ==
  /\ mail' = [mail EXCEPT ![i] = e]
  /\ UNCHANGED <<user, acct, link, req, proven, made, faults>>

-----------------------------------------------------------------------------
(* resolve_oauth_account, for an identity without an account: a user with  *)
(* its address and a password gets a link token, one without a password is *)
(* a conflict, and otherwise the identity opens an account.                *)

InUse(l) == \E r \in Requests : req[r] # None /\ req[r].link = l

MutOffered(u) == user[u].pw = None   \* mutation: the two cases swapped
Offered(u) == user[u].pw # None

StoreLink(i, u, l) ==
  /\ acct[i] = NoUser
  /\ Exists(u) /\ user[u].email = mail[i] /\ Offered(u)
  /\ link[l] = None /\ ~InUse(l)
  /\ link' = [link EXCEPT ![l] = [user |-> u, identity |-> i]]
  /\ made' = [made EXCEPT ![l] = 0]
  /\ UNCHANGED <<user, acct, mail, req, proven, faults>>

CreateAccount(i, u) ==
  /\ acct[i] = NoUser
  /\ ~Exists(u)
  /\ ~Taken(mail[i])
  /\ user' = [user EXCEPT ![u] = [email |-> mail[i], pw |-> None]]
  /\ acct' = [acct EXCEPT ![i] = u]
  /\ UNCHANGED <<link, mail, req, proven, made, faults>>

(* MFA_PENDING_TTL_SECONDS *)
LinkExpires(l) ==
  /\ link[l] # None
  /\ link' = [link EXCEPT ![l] = None]
  /\ UNCHANGED <<user, acct, mail, req, proven, made, faults>>

-----------------------------------------------------------------------------
(* confirm_oauth_link *)

MutPasswordFits(u, w) == Exists(u)   \* mutation: the password is not verified
PasswordFits(u, w) == w # None /\ user[u].pw = w

(* GET, the user's row, and its password: w is what the caller typed, None *)
(* standing for anything that is nobody's password.                        *)
ReadConfirm(r, l, w) ==
  /\ req[r] = None
  /\ link[l] # None
  /\ PasswordFits(link[l].user, w)
  /\ req' = [req EXCEPT ![r] = [link |-> l, user |-> link[l].user,
                                identity |-> link[l].identity, spent |-> FALSE]]
  /\ proven' = IF w # None /\ user[link[l].user].pw = w
               THEN proven \cup {<<link[l].identity, link[l].user>>} ELSE proven
  /\ UNCHANGED <<user, acct, link, mail, made, faults>>

MutSpent(q) == link   \* mutation: the token is left to its TTL
Spent(q) == [link EXCEPT ![q.link] = None]

SpendLink(r) ==
  /\ req[r] # None
  /\ ~req[r].spent
  /\ req' = [req EXCEPT ![r].spent = TRUE]
  /\ link' = Spent(req[r])
  /\ UNCHANGED <<user, acct, mail, proven, made, faults>>

MutInserts(q) == TRUE   \* mutation: no UNIQUE constraints
(* UNIQUE (provider, provider_user_id) and UNIQUE (user_id, provider)      *)
Inserts(q) ==
  /\ acct[q.identity] = NoUser
  /\ \A j \in LinkedTo(q.user) : Provider[j] # Provider[q.identity]

CommitConfirm(r) ==
  /\ req[r] # None
  /\ req[r].spent
  /\ Inserts(req[r])
  /\ acct' = [acct EXCEPT ![req[r].identity] = req[r].user]
  /\ made' = [made EXCEPT ![req[r].link] = @ + 1]
  /\ req' = [req EXCEPT ![r] = None]
  /\ UNCHANGED <<user, link, mail, proven, faults>>

(* IntegrityError: rolled back, the link token being spent.                *)
ConfirmRefused(r) ==
  /\ req[r] # None
  /\ req[r].spent
  /\ ~Inserts(req[r])
  /\ req' = [req EXCEPT ![r] = None]
  /\ UNCHANGED <<user, acct, link, mail, proven, made, faults>>

(* Anything else that fails on the way, before or after the DEL.           *)
Fail(r) ==
  /\ req[r] # None
  /\ faults < MaxFaults
  /\ faults' = faults + 1
  /\ req' = [req EXCEPT ![r] = None]
  /\ UNCHANGED <<user, acct, link, mail, proven, made>>

-----------------------------------------------------------------------------

Next ==
  \/ \E u \in Users :
       \/ \E e \in Emails : ChangeEmail(u, e) \/ \E w \in Passwords : Signup(u, e, w)
       \/ \E w \in Passwords : ResetPassword(u, w)
       \/ \E i \in Identities : CreateAccount(i, u) \/ \E l \in Links : StoreLink(i, u, l)
  \/ \E i \in Identities, e \in Emails : ProviderChangesEmail(i, e)
  \/ \E l \in Links : LinkExpires(l)
  \/ \E r \in Requests :
       \/ \E l \in Links, w \in Passwords \cup {None} : ReadConfirm(r, l, w)
       \/ SpendLink(r) \/ CommitConfirm(r) \/ ConfirmRefused(r) \/ Fail(r)

Spec == Init /\ [][Next]_vars

Confirms(i) ==
  \E r \in Requests, l \in Links, w \in Passwords :
    link[l] # None /\ link[l].identity = i /\ ReadConfirm(r, l, w)

(* Requests are answered and link tokens expire; who wants to sign in with *)
(* an identity keeps coming back and types the account's password.         *)
FairSpec ==
  /\ Spec
  /\ \A l \in Links : WF_vars(LinkExpires(l))
  /\ \A r \in Requests :
       WF_vars(SpendLink(r)) /\ WF_vars(CommitConfirm(r) \/ ConfirmRefused(r))
  /\ \A i \in Identities :
       /\ SF_vars(\E u \in Users, l \in Links : StoreLink(i, u, l))
       /\ SF_vars(Confirms(i))

-----------------------------------------------------------------------------
(* Properties *)

(* A link token makes one link at the most, and none is left to use once   *)
(* it has: confirmations that overlap or fail midway included.             *)
LinkIsSpentOnce ==
  \A l \in Links : made[l] <= 1 /\ (made[l] = 1 => link[l] = None)

(* An identity comes to stand for one account, for good, which was opened  *)
(* with it or showed its password to link it, whatever happened to         *)
(* addresses and passwords in between.                                     *)
Promise ==
  INSTANCE Bindings WITH accounts <- {u \in Users : Exists(u)},
                         owner <- acct, consents <- proven
IdentitiesAreBound == Promise!Spec

(* An identity whose address is that of an account with a password and     *)
(* room for it ends up linked: no spent, expired or lost link token and no *)
(* failed confirmation shuts it out for good.                              *)
Linkable(i) ==
  \E u \in Users :
    /\ Exists(u) /\ user[u].pw # None /\ user[u].email = mail[i]
    /\ \A j \in LinkedTo(u) : Provider[j] # Provider[i]
LinkingSucceeds ==
  \A i \in Identities : <>[](acct[i] = NoUser => Linkable(i)) => <>(acct[i] # NoUser)
=============================================================================
