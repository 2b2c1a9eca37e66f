------------------------------ MODULE OtpProofs ------------------------------
(***************************************************************************)
(* The counter of wrong guesses, for any codes, any number of requests and *)
(* any bounds.                                                             *)
(*                                                                         *)
(* Both properties speak of requests that come one at a time, so that the  *)
(* request in progress, if any, is the only one (Alone).  The counter      *)
(* equals the guesses at the stored code except within three steps of that *)
(* request: between a comparison and its INCR it is one behind, at the     *)
(* fatal third it awaits the drop, and between a new code and the reset of *)
(* its counter it is still the old code's (CounterFollows).                *)
(***************************************************************************)
EXTENDS Otp, TLAPS

IdleIsIdle == \A r \in Requests : req[r].step = "idle" => req[r] = Idle

NewSteps == {"setCode", "setAttempts", "setCooldown", "mail"}
NewCodesAreCodes == \A r \in Requests : req[r].step \in NewSteps => req[r].code \in Codes

TInv == TypeOK /\ IdleIsIdle /\ NewCodesAreCodes

LEMMA InitTInv == Init => TInv
<1> SUFFICES ASSUME Init PROVE TInv
  OBVIOUS
<1>1. faults \in 0..MaxFaults
  BY BoundsAssumption DEF Init
<1>2. guesses \in [Codes -> Nat]
  BY DEF Init
<1>3. req \in [Requests -> [step : Steps, code : Codes \cup {NoCode}]]
  BY DEF Init, Idle, Steps
<1>4. attempts \in [n : Nat, expires : {"never", "with_code", "before_code"}]
  BY DEF Init
<1>5. IdleIsIdle /\ NewCodesAreCodes
  BY DEF Init, IdleIsIdle, NewCodesAreCodes, Idle, NewSteps
<1>6. QED
  BY <1>1, <1>2, <1>3, <1>4, <1>5 DEF Init, TInv, TypeOK

LEMMA BeginKeepsTInv ==
  ASSUME TInv, NEW r \in Requests, NEW step \in Steps, NEW c \in Codes \cup {NoCode},
         step \notin NewSteps \cup {"idle"}, Begin(r, step, c)
  PROVE  TInv'
  BY DEF TInv, TypeOK, IdleIsIdle, NewCodesAreCodes, Begin, Go, redisVars

LEMMA StepKeepsTInv ==
  ASSUME TInv, NEW r \in Requests, Step(r)
  PROVE  TInv'
<1> USE DEF TInv, TypeOK, IdleIsIdle, NewCodesAreCodes, Idle, Steps, NewSteps,
            At, Go, Done, redisVars
<1>1. CASE Get(r)
  <2>1. \/ req' = [req EXCEPT ![r] = Idle] /\ guesses' = guesses
        \/ req' = [req EXCEPT ![r] = [step |-> "spend", code |-> code]] /\ guesses' = guesses
        \/ /\ req' = [req EXCEPT ![r] = [step |-> "incr", code |-> NoCode]]
           /\ guesses' = [guesses EXCEPT ![code] = guesses[code] + 1] /\ code \in Codes
    BY <1>1 DEF Get
  <2>2. guesses' \in [Codes -> Nat]
    BY <2>1
  <2>3. QED  BY <1>1, <2>1, <2>2 DEF Get
<1>2. CASE Spend(r)
  BY <1>2 DEF Spend, DropKeys, NoCounter
<1>3. CASE Commit(r)
  BY <1>3 DEF Commit
<1>4. CASE Incr(r)
  <2>1. attempts' \in [n : Nat, expires : {"never", "with_code", "before_code"}]
    BY <1>4 DEF Incr
  <2>2. QED  BY <1>4, <2>1 DEF Incr
<1>5. CASE Drop(r)
  BY <1>5 DEF Drop, DropKeys, NoCounter
<1>6. CASE CheckCooldown(r)
  BY <1>6 DEF CheckCooldown
<1>7. CASE SetCode(r)
  BY <1>7 DEF SetCode
<1>8. CASE SetAttempts(r)
  BY <1>8 DEF SetAttempts, NewCounter
<1>9. CASE SetCooldown(r)
  BY <1>9 DEF SetCooldown
<1>10. CASE Mail(r)
  BY <1>10 DEF Mail
<1>11. QED
  BY <1>1, <1>2, <1>3, <1>4, <1>5, <1>6, <1>7, <1>8, <1>9, <1>10 DEF Step

LEMMA NextTInv == TInv /\ [Next]_vars => TInv'
<1> SUFFICES ASSUME TInv, [Next]_vars PROVE TInv'
  OBVIOUS
<1>1. ASSUME NEW r \in Requests, SubmitMailed(r) \/ SubmitWrong(r) \/ Resend(r)
      PROVE  TInv'
  <2>1. mail \in Codes
    BY DEF TInv, TypeOK
  <2>2. Begin(r, "get", mail) \/ Begin(r, "get", NoCode) \/ Begin(r, "cooldown", NoCode)
    BY <1>1 DEF SubmitMailed, SubmitWrong, Resend
  <2>3. QED  BY <2>1, <2>2, BeginKeepsTInv DEF Steps, NewSteps
<1>2. ASSUME NEW r \in Requests, Fail(r) PROVE TInv'
  <2>1. faults' \in 0..MaxFaults
    BY <1>2, BoundsAssumption DEF TInv, TypeOK, Fail, Count
  <2>2. /\ req' \in [Requests -> [step : Steps, code : Codes \cup {NoCode}]]
        /\ IdleIsIdle' /\ NewCodesAreCodes'
    BY <1>2 DEF TInv, TypeOK, IdleIsIdle, NewCodesAreCodes, Fail, Done, Idle, Steps,
                NewSteps
  <2>3. QED  BY <1>2, <2>1, <2>2 DEF TInv, TypeOK, Fail, redisVars
<1>3. CASE CooldownExpires \/ CodeExpires \/ AttemptsExpire
  <2>1. faults' \in 0..MaxFaults
    BY <1>3, BoundsAssumption
       DEF TInv, TypeOK, CooldownExpires, CodeExpires, AttemptsExpire, Count
  <2>2. UNCHANGED <<verified, mail, req, guesses, disturbed>>
    BY <1>3 DEF CooldownExpires, CodeExpires, AttemptsExpire
  <2>3. code' \in {code, NoCode} /\ attempts' \in {attempts, NoCounter}
    BY <1>3 DEF CooldownExpires, CodeExpires, AttemptsExpire
  <2>4. cooldown' = cooldown \/ cooldown' = FALSE
    BY <1>3 DEF CooldownExpires, CodeExpires, AttemptsExpire
  <2>5. attempts' \in [n : Nat, expires : {"never", "with_code", "before_code"}]
    <3>1. attempts \in [n : Nat, expires : {"never", "with_code", "before_code"}]
      BY DEF TInv, TypeOK
    <3>2. NoCounter \in [n : Nat, expires : {"never", "with_code", "before_code"}]
      BY DEF NoCounter
    <3>3. QED  BY <2>3, <3>1, <3>2
  <2>6. IdleIsIdle' /\ NewCodesAreCodes'
    BY <2>2 DEF TInv, IdleIsIdle, NewCodesAreCodes
  <2>7. cooldown' \in BOOLEAN /\ code' \in Codes \cup {NoCode}
    BY <2>3, <2>4 DEF TInv, TypeOK
  <2>8. QED  BY <2>1, <2>2, <2>5, <2>6, <2>7 DEF TInv, TypeOK
<1>4. CASE UNCHANGED vars
  BY <1>4 DEF TInv, TypeOK, IdleIsIdle, NewCodesAreCodes, vars, redisVars
<1>5. QED  BY <1>1, <1>2, <1>3, <1>4, StepKeepsTInv DEF Next

(* The account's row, its keys and the requests keep their types.          *)
THEOREM OtpIsTyped == Spec => []TypeOK
<1>1. TInv => TypeOK
  BY DEF TInv
<1>2. QED  BY <1>1, InitTInv, NextTInv, PTL DEF Spec

-----------------------------------------------------------------------------

(* The request in progress is the only one. *)
Alone == \A r, s \in Requests : req[r] # Idle /\ req[s] # Idle => r = s

Follows == attempts.n = guesses[code] /\ attempts.n <= 2

Between == {"get", "spend", "commit", "cooldown", "setCode", "setCooldown", "mail"}

CounterFollows ==
  code # NoCode =>
    /\ InProgress = {} => Follows
    /\ \A r \in Requests :
         /\ req[r].step \in Between => Follows
         /\ At(r, "incr") => attempts.n + 1 = guesses[code] /\ attempts.n <= 2
         /\ At(r, "setAttempts") => req[r].code = code /\ guesses[code] = 0
    /\ attempts.expires # "with_code" => \E r \in Requests : At(r, "setAttempts")

(* A code on its way to Redis was guessed at by nobody. *)
NewCodesAreFresh ==
  \A r \in Requests : At(r, "setCode") => guesses[req[r].code] = 0

AtMostThree == \A c \in Codes : guesses[c] <= 3

SInv == ~disturbed => Alone /\ CounterFollows /\ NewCodesAreFresh /\ AtMostThree

LEMMA InitSInv == Init => SInv
  BY CodesAssumption
     DEF Init, SInv, Alone, CounterFollows, Follows, Between, NewCodesAreFresh,
         AtMostThree, At, Idle

LEMMA BeginKeepsSInv ==
  ASSUME TInv, SInv, NEW r \in Requests, NEW step \in {"get", "cooldown"},
         NEW c \in Codes \cup {NoCode}, Begin(r, step, c)
  PROVE  SInv'
<1> SUFFICES ASSUME ~disturbed' PROVE SInv'
  BY DEF SInv
<1>1. /\ ~disturbed /\ InProgress = {}
      /\ \A s \in Requests : req[s] = Idle
      /\ req'[r] = [step |-> step, code |-> c]
      /\ \A s \in Requests : s # r => req'[s] = Idle
      /\ UNCHANGED <<code, attempts, guesses>>
  BY DEF Begin, Go, InProgress, redisVars, TInv, TypeOK
<1>2. Alone'
  BY <1>1 DEF Alone, Idle
<1>3. InProgress' # {}
  BY <1>1 DEF InProgress, Idle
<1>4. code # NoCode => Follows /\ attempts.expires = "with_code"
  BY <1>1 DEF SInv, CounterFollows, At, Idle
<1>5. CounterFollows'
  BY <1>1, <1>3, <1>4 DEF CounterFollows, Follows, Between, At, Idle
<1>6. NewCodesAreFresh' /\ AtMostThree'
  BY <1>1 DEF SInv, NewCodesAreFresh, AtMostThree, At, Idle
<1>7. QED  BY <1>2, <1>5, <1>6 DEF SInv

(* A step of the only request in progress.                                 *)
LEMMA StepKeepsSInv ==
  ASSUME TInv, TInv', SInv, NEW r \in Requests, Step(r)
  PROVE  SInv'
<1> SUFFICES ASSUME ~disturbed' PROVE SInv'
  BY DEF SInv
<1>0. /\ ~disturbed /\ req[r] # Idle
      /\ \E q \in [step : Steps, code : Codes \cup {NoCode}] :
           req' = [req EXCEPT ![r] = q]
  BY DEF Step, Get, Spend, Commit, Incr, Drop, CheckCooldown, SetCode, SetAttempts,
         SetCooldown, Mail, At, Go, Done, Idle, TInv, TypeOK, Steps
<1>1. /\ Alone /\ CounterFollows /\ NewCodesAreFresh /\ AtMostThree
      /\ \A s \in Requests : s # r => req[s] = Idle /\ req'[s] = Idle
  BY <1>0 DEF SInv, Alone, TInv, TypeOK
<1>2. Alone'
  BY <1>1 DEF Alone
<1>3. InProgress' = IF req'[r] = Idle THEN {} ELSE {r}
  BY <1>1 DEF InProgress
<1> HIDE DEF Alone
<1> USE DEF CounterFollows, Follows, Between, NewCodesAreFresh, AtMostThree, At, Idle,
            TInv, TypeOK
<1>4. CASE Get(r)
  <2>1. UNCHANGED <<code, attempts>>
    BY <1>4 DEF Get, redisVars
  <2>2. CASE code = NoCode
    <3>1. req'[r] = Idle /\ guesses' = guesses
      BY <1>4, <2>2 DEF Get, Done
    <3>2. QED  BY <1>1, <1>2, <1>3, <2>1, <2>2, <3>1 DEF SInv
  <2>3. CASE code # NoCode
    <3>1. attempts.n = guesses[code] /\ attempts.n <= 2 /\ attempts.n \in Nat
          /\ attempts.expires = "with_code" /\ code \in Codes
      BY <1>1, <1>4, <2>3 DEF Get
    <3>2. CASE req[r].code = code
      <4>1. req'[r] = [step |-> "spend", code |-> code] /\ guesses' = guesses
        BY <1>4, <2>3, <3>2 DEF Get, Go
      <4>2. QED  BY <1>1, <1>2, <1>3, <2>1, <3>1, <4>1 DEF SInv
    <3>3. CASE req[r].code # code
      <4>1. /\ req'[r] = [step |-> "incr", code |-> NoCode]
            /\ guesses' = [guesses EXCEPT ![code] = guesses[code] + 1]
        BY <1>4, <2>3, <3>3 DEF Get, Go
      <4>2. guesses'[code] = attempts.n + 1 /\ guesses'[code] <= 3
        BY <3>1, <4>1
      <4>3. AtMostThree'
        BY <1>1, <4>1, <4>2
      <4>4. CounterFollows' /\ NewCodesAreFresh'
        BY <1>1, <1>3, <2>1, <3>1, <4>1, <4>2
      <4>5. QED  BY <1>2, <4>3, <4>4 DEF SInv
    <3>4. QED  BY <3>2, <3>3
  <2>4. QED  BY <2>2, <2>3
<1>5. CASE Spend(r) \/ Drop(r)
  <2>1. code' = NoCode /\ guesses' = guesses /\ req'[r].step # "setCode"
    BY <1>5 DEF Spend, Drop, DropKeys, Go, Done
  <2>2. QED  BY <1>1, <1>2, <2>1 DEF SInv
<1>6. CASE Commit(r) \/ Mail(r)
  <2>1. /\ UNCHANGED <<code, attempts, guesses>> /\ req'[r] = Idle
        /\ req[r].step \in {"commit", "mail"}
    BY <1>6 DEF Commit, Mail, Done, redisVars
  <2>2. QED  BY <1>1, <1>2, <1>3, <2>1 DEF SInv
<1>7. CASE Incr(r)
  <2>1. UNCHANGED <<code, guesses>> /\ attempts' = [attempts EXCEPT !.n = attempts.n + 1]
    BY <1>7 DEF Incr
  <2>2. CASE Limit(attempts.n + 1)
    <3>1. req'[r] = [step |-> "drop", code |-> NoCode]
      BY <1>7, <2>2 DEF Incr, Go
    <3>2. code # NoCode => attempts.expires = "with_code"
      BY <1>1, <1>7 DEF Incr
    <3>3. QED  BY <1>1, <1>2, <1>3, <2>1, <3>1, <3>2 DEF SInv
  <2>3. CASE ~ Limit(attempts.n + 1)
    <3>1. req'[r] = Idle
      BY <1>7, <2>3 DEF Incr, Done
    <3>2. attempts'.n = attempts.n + 1 /\ attempts'.n <= 2
          /\ attempts'.expires = attempts.expires
      BY <2>1, <2>3 DEF Limit
    <3>3. code # NoCode =>
            attempts.expires = "with_code" /\ attempts.n + 1 = guesses[code]
      BY <1>1, <1>7 DEF Incr
    <3>4. CounterFollows'
      BY <1>1, <1>3, <2>1, <3>1, <3>2, <3>3
    <3>5. QED  BY <1>1, <1>2, <2>1, <3>1, <3>4 DEF SInv
  <2>4. QED  BY <2>2, <2>3
<1>8. CASE CheckCooldown(r)
  <2>1. /\ UNCHANGED <<code, attempts>> /\ At(r, "cooldown")
    BY <1>8 DEF CheckCooldown, redisVars
  <2>2. CASE cooldown
    <3>1. req'[r] = Idle /\ guesses' = guesses
      BY <1>8, <2>2 DEF CheckCooldown, Done
    <3>2. QED  BY <1>1, <1>2, <1>3, <2>1, <3>1 DEF SInv
  <2>3. CASE ~ cooldown
    <3>1. PICK c \in Codes \ InUse : req'[r] = [step |-> "setCode", code |-> c]
      BY <1>8, <2>3 DEF CheckCooldown, Go
    <3>2. guesses' = [d \in Codes |-> IF d \in InUse THEN guesses[d] ELSE 0]
      BY <1>8, <2>3 DEF CheckCooldown
    <3>3. guesses'[c] = 0 /\ \A d \in Codes : guesses'[d] \in {guesses[d], 0}
      BY <3>1, <3>2
    <3>4. code # NoCode => guesses'[code] = guesses[code]
      BY <3>2 DEF InUse
    <3>5. AtMostThree'
      BY <1>1, <3>3
    <3>6. CounterFollows' /\ NewCodesAreFresh'
      BY <1>1, <1>3, <2>1, <3>1, <3>3, <3>4
    <3>7. QED  BY <1>2, <3>5, <3>6 DEF SInv
  <2>4. QED  BY <2>2, <2>3
<1>9. CASE SetCode(r)
  <2>1. /\ code' = req[r].code /\ guesses' = guesses
        /\ req'[r] = [step |-> "setAttempts", code |-> req[r].code]
        /\ guesses[req[r].code] = 0
    BY <1>1, <1>9 DEF SetCode, Go
  <2>2. QED  BY <1>1, <1>2, <1>3, <2>1 DEF SInv
<1>10. CASE SetAttempts(r)
  <2>1. /\ attempts' = NewCounter /\ UNCHANGED <<code, guesses>>
        /\ req'[r].step = "setCooldown"
        /\ code # NoCode => guesses[code] = 0
    BY <1>1, <1>10 DEF SetAttempts, Go
  <2>2. QED  BY <1>1, <1>2, <1>3, <2>1 DEF SInv, NewCounter
<1>11. CASE SetCooldown(r)
  <2>1. /\ UNCHANGED <<code, attempts, guesses>>
        /\ req'[r].step = "mail" /\ req[r].step = "setCooldown"
    BY <1>11 DEF SetCooldown, Go
  <2>2. QED  BY <1>1, <1>2, <1>3, <2>1 DEF SInv
<1>12. QED
  BY <1>4, <1>5, <1>6, <1>7, <1>8, <1>9, <1>10, <1>11 DEF Step

LEMMA NextSInv == TInv /\ TInv' /\ SInv /\ [Next]_vars => SInv'
<1> SUFFICES ASSUME TInv, TInv', SInv, [Next]_vars PROVE SInv'
  OBVIOUS
<1>1. ASSUME NEW r \in Requests, SubmitMailed(r) \/ SubmitWrong(r) \/ Resend(r)
      PROVE  SInv'
  <2>1. mail \in Codes
    BY DEF TInv, TypeOK
  <2>2. Begin(r, "get", mail) \/ Begin(r, "get", NoCode) \/ Begin(r, "cooldown", NoCode)
    BY <1>1 DEF SubmitMailed, SubmitWrong, Resend
  <2>3. QED  BY <2>1, <2>2, BeginKeepsSInv
<1>2. ASSUME NEW r \in Requests, Fail(r) PROVE SInv'
  BY <1>2 DEF Fail, SInv
<1>3. CASE CooldownExpires \/ UNCHANGED vars
  <2>1. UNCHANGED <<code, attempts, req, guesses, disturbed>>
    BY <1>3 DEF CooldownExpires, vars, redisVars
  <2>2. QED
    BY <2>1 DEF SInv, Alone, CounterFollows, Follows, NewCodesAreFresh, AtMostThree,
                InProgress, At
<1>4. CASE CodeExpires
  BY <1>4 DEF CodeExpires, SInv, Alone, CounterFollows, NewCodesAreFresh, AtMostThree, At
<1>5. CASE AttemptsExpire
  <2>1. UNCHANGED <<code, req, guesses, disturbed>>
    BY <1>5 DEF AttemptsExpire
  <2>2. CASE code = NoCode
    BY <2>1, <2>2 DEF SInv, Alone, CounterFollows, NewCodesAreFresh, AtMostThree, At
  <2>3. CASE code # NoCode /\ ~ disturbed
    <3>1. attempts.expires # "with_code"
      BY <1>5, <2>3 DEF AttemptsExpire
    <3>2. Alone /\ CounterFollows /\ NewCodesAreFresh /\ AtMostThree
      BY <2>3 DEF SInv
    <3>3. PICK r \in Requests : At(r, "setAttempts")
      BY <2>3, <3>1, <3>2 DEF CounterFollows
    <3>4. \A s \in Requests : s # r => req[s] = Idle
      BY <3>2, <3>3 DEF Alone, At, Idle
    <3>5. InProgress # {}
      BY <3>3 DEF InProgress, At, Idle
    <3>6. CounterFollows'
      BY <2>1, <3>2, <3>3, <3>4, <3>5, <2>3
         DEF CounterFollows, Between, At, Idle, InProgress
    <3>7. QED
      BY <2>1, <3>2, <3>6 DEF SInv, Alone, NewCodesAreFresh, AtMostThree, At
  <2>4. QED  BY <2>1, <2>2, <2>3 DEF SInv
<1>6. QED  BY <1>1, <1>2, <1>3, <1>4, <1>5, StepKeepsSInv DEF Next

LEMMA Invariants == Spec => [](TInv /\ SInv)
BY InitTInv, InitSInv, NextTInv, NextSInv, PTL DEF Spec

(* Through any number of resends and expiries, a code meets three wrong    *)
(* guesses at the most while requests come one at a time.                  *)
THEOREM SerialGuessesStayBounded == Spec => []SerialGuessesAreBounded
<1>1. SInv => SerialGuessesAreBounded
  BY DEF SInv, AtMostThree, SerialGuessesAreBounded
<1>2. QED  BY <1>1, Invariants, PTL

(* Between two requests the counter is the number of wrong guesses at the  *)
(* stored code.                                                            *)
THEOREM CounterIsExact == Spec => []CounterCountsGuesses
<1>1. SInv => CounterCountsGuesses
  BY DEF SInv, CounterFollows, Follows, CounterCountsGuesses
<1>2. QED  BY <1>1, Invariants, PTL
=============================================================================
