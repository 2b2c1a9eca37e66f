-------------------------------- MODULE Mfa --------------------------------
(***************************************************************************)
(* Two-factor authentication of one account (auth/service.py: login,       *)
(* mfa_begin_enrollment .. revoke_trusted_devices; tenants/service.py:     *)
(* MFA enforcement).                                                       *)
(*                                                                         *)
(* A request that changes something reads first and commits later; in      *)
(* between, mfa_verify has its Redis writes.  The UPDATE of the account's  *)
(* row serialises the commits.  Time advances between requests by a TOTP    *)
(* step of 30 seconds; a TOTP code is named by the secret and by its age   *)
(* in steps, and is valid from age -1 to age 1.                            *)
(***************************************************************************)
EXTENDS Integers, FiniteSets

CONSTANTS
  Requests,   \* requests that can be in progress together
  Secrets,    \* TOTP secrets
  NoSecret,   \* mfa_secret is NULL
  Backups,    \* backup codes; an enrolment makes BatchSize new ones
  BatchSize,
  Tokens,     \* mfa_pending tokens
  HasOAuth,   \* the account can also sign in through a provider
  MaxFaults   \* bound on requests that fail after their Redis writes

ASSUME SecretsAssumption == NoSecret \notin Secrets
ASSUME RequestsAssumption == IsFiniteSet(Requests)
ASSUME MfaBoundsAssumption ==
  {BatchSize, MaxFaults} \subseteq Nat /\ HasOAuth \in BOOLEAN

VARIABLES
  enabled,    \* User.mfa_enabled
  secret,     \* User.mfa_secret
  rows,       \* rows[b]: state of b's row in mfa_backup_codes
  device,     \* an unexpired trusted_devices row, its token in a cookie
  enforced,   \* the account is a member of a tenant with mfa_enforced
  pending,    \* pending[t]: value of auth:mfa_pending:t
  used,       \* auth:mfa:used:{user}: the code of the present secret it
              \* holds, and the ticks it has left
  app,        \* the secret in the owner's authenticator
  session,    \* the owner holds a valid access token
  req,        \* req[r]: what request r is about to do, and its locals
  (* history *)
  proved,     \* the secret the last completed enrolment was confirmed with
  redeemed,   \* redeemed[b]: logins completed with backup code b
  issued,     \* issued[t]: logins completed with pending token t
  faults,
  disturbed   \* two requests have overlapped

accountVars == <<enabled, secret, rows, device, enforced>>
redisVars == <<pending, used>>
ownerVars == <<app, session>>
pastVars == <<proved, redeemed, issued>>
mfaVars == <<accountVars, redisVars, ownerVars, req, pastVars, faults, disturbed>>

Ages == -1..1
Ticks == 2      \* ex=60
Uses == [age : Ages, left : 1..Ticks]
NotUsed == [age |-> 2, left |-> 0]   \* or a code of another secret

Idle == [step |-> "idle"]
Calls ==
  {Idle} \cup
  [step : {"begin"}, secret : Secrets] \cup
  [step : {"confirm"}, secret : Secrets \cup {NoSecret}] \cup
  [step : {"disable"}] \cup
  [step : {"consume", "commit"}, token : Tokens, secret : Secrets, age : Ages] \cup
  [step : {"consume", "commit"}, token : Tokens, backup : Backups]

MfaTypeOK ==
  /\ enabled \in BOOLEAN
  /\ secret \in Secrets \cup {NoSecret}
  /\ rows \in [Backups -> {"none", "unused", "used"}]
  /\ {device, enforced, session, disturbed} \subseteq BOOLEAN
  /\ pending \in [Tokens -> {"none", "verify", "setup"}]
  /\ used \in Uses \cup {NotUsed}
  /\ {app, proved} \subseteq Secrets \cup {NoSecret}
  /\ req \in [Requests -> Calls]
  /\ redeemed \in [Backups -> Nat]
  /\ issued \in [Tokens -> Nat]
  /\ faults \in 0..MaxFaults

MfaInit ==
  /\ enabled = FALSE /\ secret = NoSecret
  /\ rows = [b \in Backups |-> "none"]
  /\ device = FALSE /\ enforced = FALSE
  /\ pending = [t \in Tokens |-> "none"]
  /\ used = NotUsed
  /\ app = NoSecret /\ session = FALSE
  /\ req = [r \in Requests |-> Idle]
  /\ proved = NoSecret
  /\ redeemed = [b \in Backups |-> 0]
  /\ issued = [t \in Tokens |-> 0]
  /\ faults = 0 /\ disturbed = FALSE

-----------------------------------------------------------------------------
(* Requests. *)

At(r, step) == req[r].step = step
InProgress == {r \in Requests : ~At(r, "idle")}

Begin(r, call) ==
  /\ At(r, "idle")
  /\ req' = [req EXCEPT ![r] = call]
  /\ disturbed' = (disturbed \/ InProgress # {})
  /\ UNCHANGED <<accountVars, redisVars, ownerVars, pastVars, faults>>

Done(r) == req' = [req EXCEPT ![r] = Idle] /\ UNCHANGED <<faults, disturbed>>

HeldSecrets == {secret, app, proved} \cup
               {req[r].secret : r \in {q \in InProgress : "secret" \in DOMAIN req[q]}}
HeldTokens == {req[r].token : r \in {q \in InProgress : "token" \in DOMAIN req[q]}}
HeldBackups == {req[r].backup : r \in {q \in InProgress : "backup" \in DOMAIN req[q]}}

-----------------------------------------------------------------------------
(* Enrolment.  The routes need an access token (require_verified).         *)

(* The codes of a replaced secret equal no code of the next one. *)
ForgetCodes == used' = NotUsed

(* mfa_begin_enrollment *)
BeginEnrollment(r, s) ==
  /\ session /\ ~enabled
  /\ s \in Secrets \ HeldSecrets
  /\ Begin(r, [step |-> "begin", secret |-> s])

CommitBegin(r) ==
  /\ At(r, "begin")
  /\ secret' = req[r].secret
  /\ app' = req[r].secret
  /\ ForgetCodes
  /\ Done(r)
  /\ UNCHANGED <<enabled, rows, device, enforced, pending, session,
                 pastVars>>

MutConfirmable == session /\ ~enabled   \* mutation: without a begin

(* mfa_confirm_enrollment: the code is one of the stored secret. *)
Confirmable == session /\ ~enabled /\ secret # NoSecret /\ app = secret

Confirm(r) ==
  /\ Confirmable
  /\ Begin(r, [step |-> "confirm", secret |-> app])

CommitConfirm(r) ==
  /\ At(r, "confirm")
  /\ enabled' = TRUE
  /\ proved' = req[r].secret
  /\ \E new \in SUBSET {b \in Backups \ HeldBackups : rows[b] # "unused"} :
       /\ Cardinality(new) = BatchSize
       /\ rows' = [b \in Backups |-> IF b \in new THEN "unused" ELSE "none"]
       /\ redeemed' = [b \in Backups |-> IF b \in new THEN 0 ELSE redeemed[b]]
  /\ Done(r)
  /\ UNCHANGED <<secret, device, enforced, redisVars, ownerVars,
                 issued>>

(* mfa_disable *)
Disable(r) ==
  /\ session /\ enabled
  /\ app = secret \/ \E b \in Backups : rows[b] = "unused"
  /\ secret # NoSecret
  /\ Begin(r, [step |-> "disable"])

CommitDisable(r) ==
  /\ At(r, "disable")
  /\ enabled' = FALSE
  /\ secret' = NoSecret
  /\ rows' = [b \in Backups |-> "none"]
  /\ ForgetCodes
  /\ Done(r)
  /\ UNCHANGED <<device, enforced, pending, ownerVars,
                 pastVars>>

-----------------------------------------------------------------------------
(* Login. *)

(* login: a trusted device stands for the code unless a tenant enforces.   *)
DeviceSuffices == device /\ ~enforced

(* A password login, with or without the device's cookie. *)
Login(t) ==
  /\ pending[t] = "none" /\ t \notin HeldTokens
  /\ \/ /\ enforced /\ ~enabled
        /\ pending' = [pending EXCEPT ![t] = "setup"]
        /\ UNCHANGED session
     \/ /\ enabled
        /\ pending' = [pending EXCEPT ![t] = "verify"]
        /\ UNCHANGED session
     \/ /\ enabled => DeviceSuffices
        /\ enforced => enabled
        /\ session' = TRUE
        /\ UNCHANGED pending
  /\ issued' = [issued EXCEPT ![t] = 0]
  /\ UNCHANGED <<accountVars, used, app, req, proved, redeemed,
                 faults, disturbed>>

(* resolve_oauth_account asks for no second factor. *)
OAuthLogin ==
  /\ HasOAuth
  /\ session' = TRUE
  /\ UNCHANGED <<accountVars, redisVars, app, req, pastVars, faults, disturbed>>

(* mfa_verify up to its checks.  A setup token is refused, and without a   *)
(* secret the request dies.                                                *)
Fresh(age) == used.age # age

SubmitTotp(r, t, age) ==
  /\ pending[t] = "verify"
  /\ secret # NoSecret /\ app = secret
  /\ Fresh(age)
  /\ Begin(r, [step |-> "consume", token |-> t, secret |-> secret, age |-> age])

MutBackupValid(b) == rows[b] # "none"   \* mutation: used_at is not looked at

BackupValid(b) == rows[b] = "unused"

SubmitBackup(r, t, b) ==
  /\ pending[t] = "verify"
  /\ secret # NoSecret
  /\ BackupValid(b)
  /\ Begin(r, [step |-> "consume", token |-> t, backup |-> b])

IsTotp(r) == "age" \in DOMAIN req[r]

MutConsumed(t) == pending   \* mutation: the token is not deleted

Consumed(t) == [pending EXCEPT ![t] = "none"]

(* The Redis writes of mfa_verify. *)
Consume(r) ==
  /\ At(r, "consume")
  /\ pending' = Consumed(req[r].token)
  /\ \/ /\ IsTotp(r) /\ req[r].secret = secret
        /\ used' = [age |-> req[r].age, left |-> Ticks]
     \/ /\ IsTotp(r) /\ req[r].secret # secret
        /\ used' = NotUsed
     \/ ~IsTotp(r) /\ UNCHANGED used
  /\ req' = [req EXCEPT ![r].step = "commit"]
  /\ UNCHANGED <<accountVars, ownerVars, pastVars, faults, disturbed>>

(* Its database writes.  The UPDATE of a backup code that an enrolment has *)
(* replaced meanwhile matches no row, and the request dies.                *)
CommitVerify(r, trust) ==
  /\ At(r, "commit")
  /\ \/ IsTotp(r) /\ UNCHANGED <<rows, redeemed>>
     \/ /\ ~IsTotp(r) /\ rows[req[r].backup] # "none"
        /\ rows' = [rows EXCEPT ![req[r].backup] = "used"]
        /\ redeemed' = [redeemed EXCEPT ![req[r].backup] = @ + 1]
  /\ session' = TRUE
  /\ issued' = [issued EXCEPT ![req[r].token] = @ + 1]
  /\ device' = (device \/ trust)
  /\ Done(r)
  /\ UNCHANGED <<enabled, secret, enforced, redisVars, app, proved>>

BackupReplaced(r) ==
  /\ At(r, "commit") /\ ~IsTotp(r) /\ rows[req[r].backup] = "none"
  /\ Done(r)
  /\ UNCHANGED <<accountVars, redisVars, ownerVars, pastVars>>

Fail(r) ==
  /\ r \in InProgress
  /\ faults < MaxFaults
  /\ faults' = faults + 1
  /\ req' = [req EXCEPT ![r] = Idle]
  /\ UNCHANGED <<accountVars, redisVars, ownerVars, pastVars, disturbed>>

-----------------------------------------------------------------------------
(* Enforcement and time. *)

(* enable_mfa_enforcement and disable_mfa_enforcement, by the tenant's     *)
(* owner; an access token in use outlives the lockout.                     *)
SetEnforcement(new) ==
  /\ enforced' = new
  /\ UNCHANGED <<enabled, secret, rows, device, redisVars, ownerVars, req,
                 pastVars, faults, disturbed>>

(* reset_password touches nothing here: revoke_trusted_devices has no     *)
(* caller, so a device goes by its thirty days alone.                      *)
DeviceExpires ==
  /\ device
  /\ device' = FALSE
  /\ UNCHANGED <<enabled, secret, rows, enforced, redisVars, ownerVars, req,
                 pastVars, faults, disturbed>>

SessionEnds ==
  /\ session
  /\ session' = FALSE
  /\ UNCHANGED <<accountVars, redisVars, app, req, pastVars, faults, disturbed>>

PendingExpires(t) ==
  /\ pending[t] # "none"
  /\ pending' = [pending EXCEPT ![t] = "none"]
  /\ UNCHANGED <<accountVars, used, ownerVars, req, pastVars, faults, disturbed>>

Older(use) == [use EXCEPT !.left = @ - 1, !.age = @ + 1]

Lives(use) == use.left > 0 /\ use.age \in Ages

(* 30 seconds pass; a request takes less. *)
Tick ==
  /\ InProgress = {}
  /\ used' = IF Lives(Older(used)) THEN Older(used) ELSE NotUsed
  /\ UNCHANGED <<accountVars, pending, ownerVars, req, pastVars, faults,
                 disturbed>>

-----------------------------------------------------------------------------

Submit(r) ==
  \E t \in Tokens : \/ \E age \in Ages : SubmitTotp(r, t, age)
                    \/ \E b \in Backups : SubmitBackup(r, t, b)

Step(r) ==
  \/ CommitBegin(r) \/ CommitConfirm(r) \/ CommitDisable(r) \/ Consume(r)
  \/ \E trust \in BOOLEAN : CommitVerify(r, trust)
  \/ BackupReplaced(r)

MfaNext ==
  \/ \E r \in Requests :
       \/ \E s \in Secrets : BeginEnrollment(r, s)
       \/ Confirm(r) \/ Disable(r) \/ Submit(r) \/ Step(r) \/ Fail(r)
  \/ \E t \in Tokens : Login(t) \/ PendingExpires(t)
  \/ OAuthLogin
  \/ \E new \in BOOLEAN : SetEnforcement(new)
  \/ DeviceExpires \/ SessionEnds \/ Tick

MfaSpec == MfaInit /\ [][MfaNext]_mfaVars

(* Requests are answered, TTLs and the clock run; the owner without a      *)
(* session keeps logging in and submitting TOTP codes, and enrols whenever *)
(* the routes let him.                                                     *)
MfaFairSpec ==
  /\ MfaSpec
  /\ \A r \in Requests : WF_mfaVars(Step(r))
  /\ WF_mfaVars(Tick)
  /\ \A t \in Tokens : WF_mfaVars(PendingExpires(t))
  /\ SF_mfaVars(~session /\ \E t \in Tokens : Login(t))
  /\ SF_mfaVars(\E r \in Requests, t \in Tokens, age \in Ages : SubmitTotp(r, t, age))
  /\ SF_mfaVars(\E r \in Requests, s \in Secrets : BeginEnrollment(r, s))
  /\ SF_mfaVars(\E r \in Requests : Confirm(r))

-----------------------------------------------------------------------------
(* Properties *)

(* While requests come one at a time, a required second factor is one the  *)
(* owner has shown to have: no order of enrolments begun, abandoned,       *)
(* confirmed and disabled enables a secret that was not confirmed.         *)
SerialSecretIsConfirmed == ~disturbed /\ enabled => secret = proved /\ secret # NoSecret

(* A backup code completes one login between two enrolments and the token   *)
(* of a pending login completes one login, whatever failed or expired in    *)
(* between; requests that overlap complete no more logins with the same     *)
(* code or token than there are of them: once spent is spent.               *)
SpendingIsBounded ==
  LET bound == IF disturbed THEN Cardinality(Requests) ELSE 1
  IN  /\ \A b \in Backups : redeemed[b] <= bound
      /\ \A t \in Tokens : issued[t] <= bound

(* While requests come one at a time, an owner with MFA enabled who keeps  *)
(* trying gets in again: no replay key, expired token or failed request    *)
(* shuts him out for good. (Overlapping ones may: an enrolment begun       *)
(* before a confirmation and committed after it replaces the secret.)      *)
EnrolledOwnerReturns ==
  enabled /\ ~session ~> session \/ ~enabled \/ disturbed
=============================================================================
