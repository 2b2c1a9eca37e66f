---------------------------- MODULE TokenClient ----------------------------
(***************************************************************************)
(* The token handling of one browser tab (frontend/src/lib/auth.ts,        *)
(* lib/api-client.ts, providers/auth-provider.tsx and their counterparts   *)
(* for the admin portal), against the server's refresh and logout.         *)
(*                                                                         *)
(* A fetch is sent by a call, served by the server, and received by the    *)
(* call's continuation; JavaScript runs one continuation at a time, and    *)
(* other calls run between them.  The access and the refresh token are set *)
(* and cleared together, so a pair has one name.                           *)
(*                                                                         *)
(* get_session commits after the answer is on its way: what a request does *)
(* to refresh_tokens is a transaction that stays open until Commit, and    *)
(* the requests served until then do not see it.                           *)
(***************************************************************************)
EXTENDS Naturals, FiniteSets

CONSTANTS
  Calls,      \* calls that can be in progress together
  TokenPairs, \* token pairs; a new pair differs from those in use
  None,
  MaxFaults,  \* bound on lost messages, failed commits, revocations and page loads
  MaxOpen     \* bound on transactions in progress together

ASSUME TokenPairsAssumption == None \notin TokenPairs
ASSUME BoundsAssumption == {MaxFaults, MaxOpen} \subseteq Nat

VARIABLES
  portal,     \* the client in the tab: "user" or "admin"
  held,       \* _accessToken, _refreshToken
  stored,     \* localStorage (admin portal)
  call,       \* call[c]: where apiClient is, and its locals
  live,       \* server: pairs whose refresh_tokens row exists and has not expired
  uncommitted,\* server: the rows a transaction in progress ends, and the one it begins
  fresh,      \* server: of the pairs in the tab, those whose access token is accepted
  faults,
  past        \* history of the tab: see Quiet and Disturbed

tabVars == <<held, stored, call>>
rowVars == <<live, uncommitted>>
serverVars == <<rowVars, fresh>>
historyVars == <<faults, past>>
tcVars == <<portal, tabVars, serverVars, historyVars>>

MaybePair == TokenPairs \cup {None}
Answers == {"none", "ok", "401"}

(* No two calls have overlapped and there has been no fault.  hurried: a   *)
(* request that reads the rows was served while a transaction was open;    *)
(* loggedOut: the last thing the server took from the user was a logout;   *)
(* lapsed: the rows that have expired since the server made the last pair. *)
Quiet == [disturbed : {FALSE}, hurried : BOOLEAN, loggedOut : BOOLEAN,
          lapsed : SUBSET TokenPairs]

NothingYet == [disturbed |-> FALSE, hurried |-> FALSE, loggedOut |-> FALSE, lapsed |-> {}]
Disturbed == [NothingYet EXCEPT !.disturbed = TRUE]

Idle == [step |-> "idle", kind |-> "none", pair |-> None, body |-> None, answer |-> "none"]

TCTypeOK ==
  /\ portal \in {"user", "admin"}
  /\ {held, stored} \subseteq MaybePair
  /\ call \in [Calls -> [step : {"idle", "request", "refresh", "retry"},
                         kind : {"none", "normal", "logout", "restore"},
                         pair : MaybePair, body : MaybePair, answer : Answers]]
  /\ live \subseteq TokenPairs
  /\ uncommitted \subseteq [ends : SUBSET TokenPairs, begins : MaybePair]
  /\ fresh \subseteq TokenPairs
  /\ faults \in 0..MaxFaults
  /\ past \in Quiet \cup {Disturbed}

TCInit ==
  /\ portal \in {"user", "admin"}
  /\ held = None /\ stored = None
  /\ call = [c \in Calls |-> Idle]
  /\ live = {} /\ uncommitted = {} /\ fresh = {}
  /\ faults = 0 /\ past = NothingYet

-----------------------------------------------------------------------------

Busy == {c \in Calls : call[c] # Idle}
Waiting(c, step) == call[c].step = step /\ call[c].answer = "none"
Answered(c, step) == call[c].step = step /\ call[c].answer # "none"

InTab == {held, stored} \cup UNION {{call[c].pair, call[c].body} : c \in Calls}
Begun == {t.begins : t \in uncommitted}
Ending == UNION {t.ends : t \in uncommitted}
InUse == live \cup InTab \cup Begun \cup Ending
Unused == TokenPairs \ InUse

(* A bound: a login leaves a pair for the refreshes in progress. *)
PairsLast == Cardinality(Unused) > 1

SetTokens(p) ==
  /\ held' = p
  /\ stored' = IF portal = "admin" THEN p ELSE None

ClearTokens == held' = None /\ stored' = None
KeepTokens == UNCHANGED <<held, stored>>

Send(c, step, kind, pair, body) ==
  call' = [call EXCEPT ![c] = [step |-> step, kind |-> kind, pair |-> pair,
                               body |-> body, answer |-> "none"]]

Answer(c, a) == call' = [call EXCEPT ![c].answer = a]

(* Access tokens that are no longer in the tab are forgotten. *)
Accepts(pairs) == fresh' = pairs \cap InTab'

(* The call is over; the provider's logout then clears the tokens whatever *)
(* has come of it, and otherwise the call clears them or not.              *)
End(c, clears) ==
  /\ call' = [call EXCEPT ![c] = Idle]
  /\ IF clears \/ call[c].kind = "logout" THEN ClearTokens ELSE KeepTokens

(* A transaction that deletes the rows of ends and inserts one for begins; *)
(* at the bound, the request waits.                                        *)
Opens(ends, begins) ==
  /\ uncommitted' = IF ends = {} /\ begins = None THEN uncommitted
                    ELSE uncommitted \cup {[ends |-> ends, begins |-> begins]}
  /\ ends # {} \/ begins # None => Cardinality(uncommitted) < MaxOpen
  /\ UNCHANGED live

(* What the tab's history becomes; quiet is what it would, undisturbed. *)
Notes(quiet) == past' = IF past.disturbed THEN Disturbed ELSE quiet
Hurries == past.hurried \/ uncommitted # {}
MadeAPair == [NothingYet EXCEPT !.hurried = Hurries]
Overlaps(quiet) == Notes(IF Busy = {} THEN quiet ELSE Disturbed)

-----------------------------------------------------------------------------
(* The user. *)

(* The login page, and the server's login: the user login deletes the      *)
(* account's other refresh tokens, the admin login does not.               *)
Login ==
  /\ held = None
  /\ PairsLast
  /\ UNCHANGED call
  /\ \E p \in Unused :
       /\ Opens(IF portal = "user" THEN live ELSE {}, p)
       /\ SetTokens(p)
       /\ Accepts(fresh \cup {p})
  /\ Overlaps(MadeAPair)
  /\ UNCHANGED faults

Begin(c, kind, body) ==
  /\ call[c] = Idle
  /\ held # None
  /\ Send(c, "request", kind, held, body)
  /\ Overlaps(past)
  /\ KeepTokens
  /\ UNCHANGED <<serverVars, faults>>

Start(c) == Begin(c, "normal", None)

Logout(c) ==
  /\ \A b \in Calls : call[b].kind # "logout"
  /\ Begin(c, "logout", held)

-----------------------------------------------------------------------------
(* The server. *)

MutAccepted(c) == call[c].pair \in fresh   \* mutation: every logout does

(* The user logout asks for no valid access token. *)
Accepted(c) ==
  \/ call[c].pair \in fresh
  \/ portal = "user" /\ call[c].kind = "logout"

(* Some calls of the user portal answer 401 to a token that is accepted (a *)
(* wrong password or MFA code).                                            *)
ServeNormal(c) ==
  /\ Accepted(c) /\ call[c].kind = "normal"
  /\ Answer(c, "ok") \/ (portal = "user" /\ Answer(c, "401"))
  /\ UNCHANGED <<serverVars, past>>

(* The admin logout blacklists the access token; the user logout does not  *)
(* succeed in that.  Both delete the row of the token in the body, if they *)
(* see one.                                                                *)
ServeLogout(c) ==
  /\ Accepted(c) /\ call[c].kind = "logout"
  /\ Answer(c, "ok")
  /\ Opens({call[c].body} \cap live, None)
  /\ fresh' = IF portal = "admin" THEN fresh \ {call[c].pair} ELSE fresh
  /\ Notes([past EXCEPT !.hurried = Hurries, !.loggedOut = TRUE])

Serve(c, step) ==
  /\ Waiting(c, step)
  /\ \/ ~Accepted(c) /\ Answer(c, "401") /\ UNCHANGED <<serverVars, past>>
     \/ ServeNormal(c)
     \/ ServeLogout(c)
  /\ UNCHANGED <<held, stored, faults>>

(* A rotation; the new pair travels as the call's pair.  A token without a *)
(* row and one whose row has expired are refused alike.                    *)
ServeRefresh(c) ==
  /\ Waiting(c, "refresh")
  /\ KeepTokens
  /\ \/ /\ call[c].pair \notin live
        /\ Notes([past EXCEPT !.hurried = Hurries])
        /\ Answer(c, "401")
        /\ UNCHANGED serverVars
     \/ /\ call[c].pair \in live
        /\ Notes(MadeAPair)
        /\ \E p \in Unused :
             /\ call' = [call EXCEPT ![c].pair = p, ![c].answer = "ok"]
             /\ Opens({call[c].pair}, p)
             /\ Accepts(fresh \cup {p})
  /\ UNCHANGED faults

Commit(t) ==
  /\ t \in uncommitted
  /\ uncommitted' = uncommitted \ {t}
  /\ live' = (live \ t.ends) \cup ({t.begins} \ {None})
  /\ UNCHANGED <<tabVars, fresh, historyVars>>

-----------------------------------------------------------------------------
(* The continuations of apiClient and refreshTokens. *)

(* refreshTokens falls back on localStorage; without a token it fails at   *)
(* once.                                                                   *)
RefreshToken == IF held # None THEN held ELSE stored

MutClearsOnFailure == FALSE   \* mutation: a failed refresh is ignored

(* clearTokens after a refresh or a retry that failed: user client only.   *)
ClearsOnFailure == portal = "user"

ReceiveRequest(c) ==
  /\ Answered(c, "request")
  /\ \/ /\ call[c].answer # "401"
        /\ End(c, FALSE)
     \/ /\ call[c].answer = "401" /\ RefreshToken = None
        /\ End(c, ClearsOnFailure)
     \/ /\ call[c].answer = "401" /\ RefreshToken # None
        /\ Send(c, "refresh", call[c].kind, RefreshToken, call[c].body)
        /\ KeepTokens
  /\ Accepts(fresh)
  /\ UNCHANGED <<rowVars, historyVars>>

MutRefreshed(p) == KeepTokens   \* mutation: the new tokens are not stored

Refreshed(p) == SetTokens(p)

ReceiveRefresh(c) ==
  /\ Answered(c, "refresh")
  /\ \/ /\ call[c].answer = "ok" /\ call[c].kind # "restore"
        /\ Refreshed(call[c].pair)
        /\ Send(c, "retry", call[c].kind, call[c].pair, call[c].body)
     \/ /\ call[c].answer = "ok" /\ call[c].kind = "restore"
        /\ Refreshed(call[c].pair)
        /\ call' = [call EXCEPT ![c] = Idle]
     \/ /\ call[c].answer = "401"
        /\ End(c, ClearsOnFailure)
  /\ Accepts(fresh)
  /\ UNCHANGED <<rowVars, historyVars>>

(* A second 401 is not refreshed again. *)
ReceiveRetry(c) ==
  /\ Answered(c, "retry")
  /\ End(c, ClearsOnFailure /\ call[c].answer = "401")
  /\ Accepts(fresh)
  /\ UNCHANGED <<rowVars, historyVars>>

(* The limiter or an error answers, the server changes nothing, and the    *)
(* call fails: a refresh or a retry as it does after a 401.                *)
Refuse(c) ==
  /\ call[c] # Idle /\ call[c].answer = "none"
  /\ End(c, ClearsOnFailure /\ call[c].step # "request")
  /\ Accepts(fresh)
  /\ UNCHANGED <<rowVars, historyVars>>

-----------------------------------------------------------------------------
(* Page loads, time and faults. *)

Fault == faults < MaxFaults /\ faults' = faults + 1 /\ past' = Disturbed

(* The module variables and the calls are gone.  The admin provider        *)
(* restores the session from localStorage when it mounts.                  *)
Reload(c) ==
  /\ Fault
  /\ held' = None
  /\ call' = [b \in Calls |->
               IF b = c /\ stored # None
               THEN [Idle EXCEPT !.step = "refresh", !.kind = "restore", !.pair = stored]
               ELSE Idle]
  /\ stored' = stored
  /\ Accepts(fresh)
  /\ UNCHANGED rowVars

AccessExpires(p) ==
  /\ p \in fresh
  /\ fresh' = fresh \ {p}
  /\ UNCHANGED <<tabVars, rowVars, historyVars>>

(* A refresh token outlives the access token it came with and ends with    *)
(* its expires_at.                                                         *)
RefreshExpires(p) ==
  /\ p \in live \ fresh
  /\ live' = live \ {p}
  /\ Notes([past EXCEPT !.lapsed = @ \cup {p}])
  /\ UNCHANGED <<tabVars, uncommitted, fresh, faults>>

(* The session is ended from elsewhere. *)
Revoke ==
  /\ live # {}
  /\ Fault
  /\ live' = {}
  /\ UNCHANGED <<tabVars, uncommitted, fresh>>

(* A transaction fails after its request was answered. *)
CommitFails(t) ==
  /\ t \in uncommitted
  /\ Fault
  /\ uncommitted' = uncommitted \ {t}
  /\ UNCHANGED <<tabVars, live, fresh>>

(* A request does not arrive, or its answer does not.  A retry throws      *)
(* before the tokens are cleared.                                          *)
Lose(c) ==
  /\ call[c] # Idle
  /\ Fault
  /\ End(c, ClearsOnFailure /\ call[c].step = "refresh")
  /\ Accepts(fresh)
  /\ UNCHANGED rowVars

-----------------------------------------------------------------------------

Step(c) ==
  \/ Refuse(c) \/ Serve(c, "request") \/ ServeRefresh(c) \/ Serve(c, "retry")
  \/ ReceiveRequest(c) \/ ReceiveRefresh(c) \/ ReceiveRetry(c)

TCNext ==
  /\ \/ Login
     \/ \E c \in Calls : Start(c) \/ Logout(c) \/ Step(c) \/ Reload(c) \/ Lose(c)
     \/ \E p \in TokenPairs : AccessExpires(p) \/ RefreshExpires(p)
     \/ \E t \in uncommitted : Commit(t) \/ CommitFails(t)
     \/ Revoke
  /\ UNCHANGED portal

TCSpec == TCInit /\ [][TCNext]_tcVars

(* Fetches settle; the pages keep calling, and the limiter does not refuse *)
(* them for ever.                                                          *)
TCFairSpec ==
  /\ TCSpec
  /\ WF_tcVars((\E c \in Calls : Step(c)) /\ UNCHANGED portal)
  /\ SF_tcVars((\E c \in Calls : Start(c)) /\ UNCHANGED portal)
  /\ SF_tcVars((\E c \in Calls : Serve(c, "request")) /\ UNCHANGED portal)

-----------------------------------------------------------------------------
(* Properties *)

(* A tab whose calls come one at a time does not lose its session: between *)
(* two calls the refresh token it holds is the one the server has a row    *)
(* for, or is about to commit one for, until that row expires, through any *)
(* number of rotations, refused and failed calls, logouts and logins.      *)
SerialTabKeepsSession ==
  ~past.disturbed /\ Busy = {} /\ held # None => held \in live \cup Begun \cup past.lapsed

(* In such a tab of the user client a logout that the server takes leaves  *)
(* no refresh token behind, also when its access token had expired, unless *)
(* a request ran into the open transaction of the one before.              *)
SerialLogoutIsComplete ==
  /\ portal = "user" /\ Busy = {} /\ uncommitted = {}
  /\ ~past.disturbed /\ ~past.hurried /\ past.loggedOut
  => live = {}

(* A user's tab does not stay in a session that has ended: once its tokens *)
(* are neither accepted nor redeemable, it drops them or gets others.      *)
Ended == held # None /\ held \notin live \cup fresh
DeadSessionIsLeft == portal = "user" /\ Ended ~> ~Ended

=============================================================================
