----------------------------- MODULE SessionRace -----------------------------
(***************************************************************************)
(* The token handlers of Sessions, statement by statement.  Requests run   *)
(* concurrently in PostgreSQL's READ COMMITTED isolation: every statement  *)
(* sees what was committed when it began, a row another transaction has    *)
(* deleted meanwhile is skipped, Redis writes take effect at once.         *)
(*                                                                         *)
(* A request takes three steps.  Read: its SELECTs, the checks on them and *)
(* its Redis writes.  Scan: the snapshot of its DELETE on refresh_tokens.  *)
(* Commit: the rows the DELETE found are gone, and the INSERTs and the new *)
(* password hash become visible.  The row locks a DELETE waits for need no *)
(* step: it resumes after the other commit, with its own snapshot.         *)
(***************************************************************************)
EXTENDS Naturals, FiniteSets

CONSTANTS
  Users,     \* accounts
  Requests,  \* requests; each runs once (bound)
  Idle       \* the state of a request that has not started

ASSUME RequestsAssumption == Requests \cap Users = {} /\ Idle \notin Users

(* The refresh token a request issues has the request's name; the token an *)
(* account holds at the start has the account's.                           *)
Grants == Users \cup Requests

VARIABLES
  rows,        \* refresh_tokens rows, committed
  sub,         \* sub[g]: the account of grant g, Idle until issued
  shadow,      \* Redis auth:replay keys
  passwd,      \* passwd[u]: number of the committed password hash
  authPw,      \* authPw[g]: hash in force when g's chain authenticated
  pc,          \* pc[p]: what request p does next
  call,        \* call[p]: what was requested, and for whom
  seen,        \* seen[p]: hash number read by p's SELECT on users
  doomed,      \* doomed[p]: rows p's DELETE finds
  (* history *)
  known,       \* known[p]: rows of the account committed when p began
  overlapped   \* accounts two of whose requests were in flight at once

requestVars == <<pc, call, seen, doomed>>
tokenVars == <<rows, sub, authPw, passwd>>
historyVars == <<known, overlapped>>
vars == <<tokenVars, shadow, requestVars, historyVars>>

Kinds == {"login", "refresh", "logout", "reset", "revoke"}
Calls == [kind : Kinds, user : Users, token : Grants]
NoCall == [kind |-> "none", user |-> Idle, token |-> Idle]

TypeOK ==
  /\ rows \subseteq Grants
  /\ sub \in [Grants -> Users \cup {Idle}]
  /\ shadow \subseteq Grants
  /\ passwd \in [Users -> Nat]
  /\ authPw \in [Grants -> Nat]
  /\ pc \in [Requests -> {"read", "scan", "commit", "done"}]
  /\ call \in [Requests -> Calls \cup {NoCall}]
  /\ seen \in [Requests -> Nat]
  /\ doomed \in [Requests -> SUBSET Grants]
  /\ overlapped \subseteq Users
  /\ known \in [Requests -> SUBSET Grants]

Init ==
  /\ rows \in SUBSET Users
  /\ sub = [g \in Grants |-> IF g \in Users THEN g ELSE Idle]
  /\ shadow = {}
  /\ passwd = [u \in Users |-> 0]
  /\ authPw = [g \in Grants |-> 0]
  /\ pc = [p \in Requests |-> "read"]
  /\ call = [p \in Requests |-> NoCall]
  /\ seen = [p \in Requests |-> 0]
  /\ doomed = [p \in Requests |-> {}]
  /\ overlapped = {}
  /\ known = [p \in Requests |-> {}]

RowsOf(u) == {g \in rows : sub[g] = u}
InFlight(u) == {p \in Requests : pc[p] \in {"scan", "commit"} /\ call[p].user = u}

-----------------------------------------------------------------------------
(* Read *)

Start(p, kind, u, g) ==
  /\ pc[p] = "read"
  /\ pc' = [pc EXCEPT ![p] = "scan"]
  /\ call' = [call EXCEPT ![p] = [kind |-> kind, user |-> u, token |-> g]]
  /\ seen' = [seen EXCEPT ![p] = passwd[u]]
  /\ known' = [known EXCEPT ![p] = RowsOf(u)]
  /\ overlapped' = overlapped \cup {w \in {u} : InFlight(w) # {}}
  /\ UNCHANGED <<tokenVars, doomed>>

(* login: the password is checked, then _issue_tokens selects the tokens   *)
(* to revoke and writes their shadow keys.                                 *)
LoginRead(p, u) ==
  /\ Start(p, "login", u, u)
  /\ shadow' = shadow \cup RowsOf(u)

(* refresh of a row that exists; its shadow key is written first. *)
RefreshRead(p, g) ==
  /\ g \in rows
  /\ Start(p, "refresh", sub[g], g)
  /\ shadow' = shadow \cup {g}

LogoutRead(p, g) ==
  /\ g \in rows
  /\ Start(p, "logout", sub[g], g)
  /\ UNCHANGED shadow

(* reset_password, with a link whose salt is the hash the SELECT returns. *)
ResetRead(p, u) ==
  /\ Start(p, "reset", u, u)
  /\ UNCHANGED shadow

(* force_password_reset, suspend_tenant, _handle_payment_failed and        *)
(* enable_mfa_enforcement, for one of their accounts.                      *)
RevokeRead(p, u) ==
  /\ Start(p, "revoke", u, u)
  /\ UNCHANGED shadow

-----------------------------------------------------------------------------
(* Scan: DELETE WHERE user_id, or the ORM's delete of one row by its key. *)

MutFoundToken(c) == {c.token}   \* mutation: every request deletes one row

Found(c) == IF c.kind \in {"refresh", "logout"}
            THEN {c.token}
            ELSE RowsOf(c.user)

Scan(p) ==
  /\ pc[p] = "scan"
  /\ pc' = [pc EXCEPT ![p] = "commit"]
  /\ doomed' = [doomed EXCEPT ![p] = Found(call[p])]
  /\ UNCHANGED <<tokenVars, shadow, call, seen, historyVars>>

-----------------------------------------------------------------------------
(* Commit.  An ORM delete that matches no row only warns, so a refresh     *)
(* whose row is already gone inserts its new token all the same.           *)

Finish(p, kinds) ==
  /\ pc[p] = "commit"
  /\ call[p].kind \in kinds
  /\ pc' = [pc EXCEPT ![p] = "done"]
  /\ UNCHANGED <<shadow, call, seen, doomed, historyVars>>

Issue(p, version) ==
  /\ rows' = (rows \ doomed[p]) \cup {p}
  /\ sub' = [sub EXCEPT ![p] = call[p].user]
  /\ authPw' = [authPw EXCEPT ![p] = version]
  /\ UNCHANGED passwd

LoginCommit(p) ==
  /\ Finish(p, {"login"})
  /\ Issue(p, seen[p])

RefreshCommit(p) ==
  /\ Finish(p, {"refresh"})
  /\ Issue(p, authPw[call[p].token])

DeleteCommit(p) ==
  /\ Finish(p, {"logout", "revoke"})
  /\ rows' = rows \ doomed[p]
  /\ UNCHANGED <<sub, authPw, passwd>>

ResetCommit(p) ==
  /\ Finish(p, {"reset"})
  /\ rows' = rows \ doomed[p]
  /\ passwd' = [passwd EXCEPT ![call[p].user] = @ + 1]
  /\ UNCHANGED <<sub, authPw>>

Next ==
  \E p \in Requests :
    \/ \E u \in Users : LoginRead(p, u) \/ ResetRead(p, u) \/ RevokeRead(p, u)
    \/ \E g \in Grants : RefreshRead(p, g) \/ LogoutRead(p, g)
    \/ Scan(p)
    \/ LoginCommit(p)
    \/ RefreshCommit(p)
    \/ DeleteCommit(p)
    \/ ResetCommit(p)

Spec == Init /\ [][Next]_vars

-----------------------------------------------------------------------------
(* What holds whatever the interleaving. *)

Done(kinds) == {p \in Requests : pc[p] = "done" /\ call[p].kind \in kinds}

(* As long as no two requests of an account have been in flight together,  *)
(* it has at most one live refresh token, of a chain under the stored      *)
(* password hash, however the requests of other accounts interleave.       *)
SerialAccountsAreSafe ==
  \A u \in Users \ overlapped :
    /\ \A g, h \in RowsOf(u) : g = h
    /\ \A g \in RowsOf(u) : authPw[g] = passwd[u]

(* A login, a reset or a mass revocation that has committed has removed    *)
(* every refresh token that existed when it began, and none comes back.    *)
RevocationReachesKnown ==
  \A p \in Done({"login", "reset", "revoke"}) : known[p] \cap rows = {}

(* A request that overlaps no other of its account is atomic: its commit   *)
(* has the effect Chains gives the whole request, on the rows as they then *)
(* are, however the requests of other accounts interleave.                 *)
Promise == INSTANCE Chains WITH live <- rows, account <- sub, version <- authPw,
                                Admins <- {}, Nobody <- Idle
WholeEffect(p) ==
  LET c == call[p] IN
  \/ c.kind = "login" /\ Promise!Login(c.user, p)
  \/ c.kind = "refresh" /\ Promise!Rotate(c.token, p)
  \/ c.kind = "logout" /\ c.token \in rows /\ Promise!End(c.token)
  \/ c.kind = "revoke" /\ Promise!Revoke({c.user})
  \/ c.kind = "reset" /\ Promise!ResetPassword(c.user)
SerialRequestsAreAtomic ==
  [][\A p \in Requests :
       pc[p] # "done" /\ pc'[p] = "done" /\ call[p].user \notin overlapped =>
         WholeEffect(p)]_vars

=============================================================================
