-------------------------------- MODULE Otp --------------------------------
(***************************************************************************)
(* Email verification codes (auth/service.py: create_verification_code,    *)
(* verify_otp_code, check_resend_cooldown, verify_email,                   *)
(* resend_verification) of one account, Redis command by Redis command.    *)
(*                                                                         *)
(* signup leaves the account unverified, with a code stored and mailed and *)
(* the resend cooldown running; nobody can address the account before.     *)
(* Redis commands take effect at once; the account's row is read when a    *)
(* request begins and written when it commits.                             *)
(***************************************************************************)
EXTENDS Naturals, FiniteSets

CONSTANTS
  Requests,  \* requests that can be in progress together
  Codes,     \* six-digit codes; a new one differs from those in use
  NoCode,    \* no key, or a submitted string that was never a code
  MaxFaults  \* bound on expiries and on requests that fail midway

ASSUME CodesAssumption == NoCode \notin Codes
ASSUME BoundsAssumption == MaxFaults \in Nat

VARIABLES
  verified,   \* User.email_verified
  code,       \* auth:otp:{user}
  attempts,   \* auth:otp:attempts:{user}: its value, and when it expires
  cooldown,   \* auth:otp:cooldown:{user} exists
  mail,       \* the code of the last mail
  req,        \* req[r]: the next command of request r, and its locals
  (* history *)
  guesses,    \* guesses[c]: submissions compared with c that differed
  faults,     \* expiries and failures so far
  disturbed   \* two requests have overlapped, or one has failed midway

redisVars == <<code, attempts, cooldown>>
vars == <<verified, redisVars, mail, req, guesses, faults, disturbed>>

Steps == {"idle", "get", "spend", "commit", "incr", "drop",
          "cooldown", "setCode", "setAttempts", "setCooldown", "mail"}
Idle == [step |-> "idle", code |-> NoCode]

(* A missing counter and a counter INCR has made from a missing one have   *)
(* no expiry; both count on from n.                                        *)
NoCounter == [n |-> 0, expires |-> "never"]

TypeOK ==
  /\ verified \in BOOLEAN
  /\ code \in Codes \cup {NoCode}
  /\ attempts \in [n : Nat, expires : {"never", "with_code", "before_code"}]
  /\ cooldown \in BOOLEAN
  /\ mail \in Codes
  /\ req \in [Requests -> [step : Steps, code : Codes \cup {NoCode}]]
  /\ guesses \in [Codes -> Nat]
  /\ faults \in 0..MaxFaults
  /\ disturbed \in BOOLEAN

(* signup *)
Init ==
  /\ verified = FALSE
  /\ \E c \in Codes : code = c /\ mail = c
  /\ attempts = [n |-> 0, expires |-> "with_code"]
  /\ cooldown = TRUE
  /\ req = [r \in Requests |-> Idle]
  /\ guesses = [c \in Codes |-> 0]
  /\ faults = 0
  /\ disturbed = FALSE

-----------------------------------------------------------------------------
(* Requests. *)

InProgress == {r \in Requests : req[r] # Idle}
At(r, step) == req[r].step = step
Go(r, step, c) == req' = [req EXCEPT ![r] = [step |-> step, code |-> c]]
Done(r) == req' = [req EXCEPT ![r] = Idle]

(* The addressee waits for an answer; wrong guesses come at any time, any  *)
(* number of them.                                                         *)
UserMayStart == InProgress = {}

(* verify_email and resend_verification read the row first, and return     *)
(* when the address is verified already.                                   *)
Begin(r, step, c) ==
  /\ At(r, "idle")
  /\ ~verified
  /\ Go(r, step, c)
  /\ disturbed' = (disturbed \/ InProgress # {})
  /\ UNCHANGED <<verified, redisVars, mail, guesses, faults>>

SubmitMailed(r) == UserMayStart /\ Begin(r, "get", mail)
SubmitWrong(r) == Begin(r, "get", NoCode)
Resend(r) == UserMayStart /\ Begin(r, "cooldown", NoCode)

-----------------------------------------------------------------------------
(* verify_otp_code, and the commit of verify_email. *)

Get(r) ==
  /\ At(r, "get")
  /\ \/ code = NoCode /\ Done(r) /\ UNCHANGED guesses
     \/ /\ code # NoCode /\ req[r].code = code
        /\ Go(r, "spend", code)
        /\ UNCHANGED guesses
     \/ /\ code # NoCode /\ req[r].code # code
        /\ Go(r, "incr", NoCode)
        /\ guesses' = [guesses EXCEPT ![code] = @ + 1]
  /\ UNCHANGED <<verified, redisVars, mail, faults, disturbed>>

DropKeys == code' = NoCode /\ attempts' = NoCounter /\ UNCHANGED cooldown

Spend(r) ==
  /\ At(r, "spend")
  /\ DropKeys
  /\ Go(r, "commit", NoCode)
  /\ UNCHANGED <<verified, mail, guesses, faults, disturbed>>

Commit(r) ==
  /\ At(r, "commit")
  /\ verified' = TRUE
  /\ Done(r)
  /\ UNCHANGED <<redisVars, mail, guesses, faults, disturbed>>

MutLimit(n) == n > 3   \* mutation: one failure too late

(* The third failure invalidates the code. *)
Limit(n) == n >= 3

Incr(r) ==
  /\ At(r, "incr")
  /\ attempts' = [attempts EXCEPT !.n = @ + 1]
  /\ IF Limit(attempts.n + 1) THEN Go(r, "drop", NoCode) ELSE Done(r)
  /\ UNCHANGED <<verified, code, cooldown, mail, guesses, faults, disturbed>>

Drop(r) ==
  /\ At(r, "drop")
  /\ DropKeys
  /\ Done(r)
  /\ UNCHANGED <<verified, mail, guesses, faults, disturbed>>

-----------------------------------------------------------------------------
(* check_resend_cooldown, create_verification_code, and the mail. *)

InUse == {code, mail} \cup {req[r].code : r \in Requests}

CheckCooldown(r) ==
  /\ At(r, "cooldown")
  /\ \/ cooldown /\ Done(r) /\ UNCHANGED guesses
     \/ /\ ~cooldown
        /\ \E c \in Codes \ InUse :
             Go(r, "setCode", c)
        /\ guesses' = [c \in Codes |-> IF c \in InUse THEN guesses[c] ELSE 0]
  /\ UNCHANGED <<verified, redisVars, mail, faults, disturbed>>

SetCode(r) ==
  /\ At(r, "setCode")
  /\ code' = req[r].code
  /\ attempts' = [attempts EXCEPT !.expires =
                    IF @ = "never" THEN "never" ELSE "before_code"]
  /\ Go(r, "setAttempts", req[r].code)
  /\ UNCHANGED <<verified, cooldown, mail, guesses, faults, disturbed>>

MutCounterKept ==   \* mutation: the counter gets a new TTL only
  [attempts EXCEPT !.expires = "with_code"]

NewCounter == [n |-> 0, expires |-> "with_code"]

SetAttempts(r) ==
  /\ At(r, "setAttempts")
  /\ attempts' = NewCounter
  /\ Go(r, "setCooldown", req[r].code)
  /\ UNCHANGED <<verified, code, cooldown, mail, guesses, faults, disturbed>>

SetCooldown(r) ==
  /\ At(r, "setCooldown")
  /\ cooldown' = TRUE
  /\ Go(r, "mail", req[r].code)
  /\ UNCHANGED <<verified, code, attempts, mail, guesses, faults, disturbed>>

Mail(r) ==
  /\ At(r, "mail")
  /\ mail' = req[r].code
  /\ Done(r)
  /\ UNCHANGED <<verified, redisVars, guesses, faults, disturbed>>

-----------------------------------------------------------------------------
(* Time, and failures. *)

Count == faults < MaxFaults /\ faults' = faults + 1

MutCooldownExpires == FALSE   \* mutation: SET without ex=60

CooldownElapses == cooldown

CooldownExpires ==
  /\ CooldownElapses
  /\ cooldown' = FALSE
  /\ UNCHANGED <<verified, code, attempts, mail, req, guesses, faults, disturbed>>

(* 600 seconds; the cooldown of the same mail ended after 60.              *)
CodeExpires ==
  /\ code # NoCode /\ ~cooldown
  /\ Count
  /\ code' = NoCode
  /\ UNCHANGED <<verified, attempts, cooldown, mail, req, guesses, disturbed>>

(* The counter goes with its code, or before it when the request that      *)
(* stored the code did not come to reset the counter.                      *)
AttemptsExpire ==
  /\ \/ attempts.expires = "before_code"
     \/ attempts.expires = "with_code" /\ code = NoCode
  /\ Count
  /\ attempts' = NoCounter
  /\ UNCHANGED <<verified, code, cooldown, mail, req, guesses, disturbed>>

(* A Redis command, the queue or the commit fails: the row is rolled back, *)
(* what Redis has done stays.                                              *)
Fail(r) ==
  /\ req[r] # Idle
  /\ Count
  /\ Done(r)
  /\ disturbed' = TRUE
  /\ UNCHANGED <<verified, redisVars, mail, guesses>>

-----------------------------------------------------------------------------

Step(r) ==
  \/ Get(r) \/ Spend(r) \/ Commit(r) \/ Incr(r) \/ Drop(r)
  \/ CheckCooldown(r) \/ SetCode(r) \/ SetAttempts(r) \/ SetCooldown(r) \/ Mail(r)

Next ==
  \/ \E r \in Requests :
       SubmitMailed(r) \/ SubmitWrong(r) \/ Resend(r) \/ Step(r) \/ Fail(r)
  \/ CooldownExpires \/ CodeExpires \/ AttemptsExpire

Spec == Init /\ [][Next]_vars

(* Requests are answered and the cooldown's TTL runs; the addressee keeps  *)
(* trying the code of the last mail and asking for another.                *)
FairSpec ==
  /\ Spec
  /\ \A r \in Requests : WF_vars(Step(r))
  /\ WF_vars(CooldownExpires)
  /\ SF_vars(\E r \in Requests : SubmitMailed(r))
  /\ SF_vars(\E r \in Requests : Resend(r) /\ ~cooldown)

-----------------------------------------------------------------------------
(* Properties *)

(* While requests come one at a time, a code meets three wrong guesses at  *)
(* the most, through any number of resends and expiries.                   *)
SerialGuessesAreBounded == ~disturbed => \A c \in Codes : guesses[c] <= 3

(* While requests come one at a time, the counter between two of them is   *)
(* the number of wrong guesses at the stored code: no code starts with the *)
(* failures of another one, and none loses its own.                        *)
CounterCountsGuesses ==
  ~disturbed /\ InProgress = {} /\ code # NoCode => attempts.n = guesses[code]

(* Wrong guesses can deny the address its verification while they go on:   *)
(* three of them drop each code.  Once they stop, whatever they have left  *)
(* behind and whatever is still in progress, an addressee who keeps asking *)
(* for a code and submitting the one mailed gets verified.                 *)
EventuallyVerified ==
  <>[][~ \E r \in Requests : SubmitWrong(r)]_vars => <>verified

=============================================================================
