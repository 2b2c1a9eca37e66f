-------------------------- MODULE SessionRaceProofs --------------------------
(***************************************************************************)
(* What holds of token requests whatever their interleaving, for any       *)
(* number of accounts and concurrent requests.                             *)
(*                                                                         *)
(* A mass revocation reaches the tokens it knew because no row comes back: *)
(* a request inserts the one row that has its name, in the step that ends  *)
(* it (KnownAreIssued).  A request that runs alone finds the rows at its   *)
(* commit that it read (AloneIsCurrent), and those of other accounts touch *)
(* other rows (DoomedAreOwn).                                              *)
(***************************************************************************)
EXTENDS SessionRace, TLAPS

Started == \A p \in Requests : pc[p] # "read" => call[p] \in Calls

(* A grant that has been in the database: one from the start or issued.    *)
Issued(g) == g \in Users \/ (g \in Requests /\ pc[g] = "done")

RowsAreIssued ==
  /\ \A u \in Users : sub[u] = u
  /\ \A g \in rows : Issued(g) /\ sub[g] \in Users

(* The token a refresh or logout was called with. *)
TokensAreOwn ==
  \A p \in Requests : pc[p] # "read" =>
    Issued(call[p].token) /\ sub[call[p].token] = call[p].user

KnownAreIssued ==
  \A p \in Requests : \A g \in known[p] : Issued(g) /\ sub[g] = call[p].user

DoomedAreOwn ==
  \A p \in Requests : pc[p] = "commit" =>
    \A g \in doomed[p] : Issued(g) /\ sub[g] = call[p].user

Mass(p) == call[p].kind \in {"login", "reset", "revoke"}
DoomReachesKnown ==
  \A p \in Requests : pc[p] = "commit" /\ Mass(p) => known[p] \cap rows \subseteq doomed[p]

IInv == /\ TypeOK
        /\ Started
        /\ RowsAreIssued
        /\ TokensAreOwn
        /\ KnownAreIssued
        /\ DoomedAreOwn
        /\ DoomReachesKnown
        /\ RevocationReachesKnown

LEMMA InitIInv == Init => IInv
  BY RequestsAssumption
     DEF Init, IInv, TypeOK, Grants, Started, RowsAreIssued, Issued, TokensAreOwn,
         KnownAreIssued, DoomedAreOwn, DoomReachesKnown, RevocationReachesKnown, Done

-----------------------------------------------------------------------------

(* A request begins: with a token of its account that is in the database,  *)
(* or, for want of one, with the name of the account.                      *)
LEMMA StartKeepsIInv ==
  ASSUME IInv, NEW p \in Requests, NEW kind \in Kinds, NEW u \in Users, NEW g \in Grants,
         Issued(g), sub[g] = u, Start(p, kind, u, g),
         shadow' \subseteq Grants
  PROVE  IInv'
<1> DEFINE c == [kind |-> kind, user |-> u, token |-> g]
<1>1. /\ pc[p] = "read" /\ pc' = [pc EXCEPT ![p] = "scan"]
      /\ call' = [call EXCEPT ![p] = c]
      /\ seen' = [seen EXCEPT ![p] = passwd[u]]
      /\ known' = [known EXCEPT ![p] = RowsOf(u)]
      /\ overlapped' = overlapped \cup {w \in {u} : InFlight(w) # {}}
      /\ UNCHANGED <<rows, sub, authPw, passwd, doomed>>
  BY DEF Start, tokenVars
<1>2. c \in Calls /\ c.token = g /\ c.user = u
  BY DEF Calls
<1> HIDE DEF c
<1>3. RowsOf(u) \subseteq Grants
  BY DEF IInv, TypeOK, RowsOf
<1>4. TypeOK'
  BY <1>1, <1>2, <1>3 DEF IInv, TypeOK
<1>5. \A h : Issued(h) => Issued(h)'
  BY <1>1 DEF IInv, TypeOK, Issued
<1>6. Started' /\ RowsAreIssued' /\ TokensAreOwn'
  BY <1>1, <1>2, <1>5 DEF IInv, TypeOK, Started, RowsAreIssued, TokensAreOwn
<1>7. KnownAreIssued'
  BY <1>1, <1>2, <1>5 DEF IInv, TypeOK, KnownAreIssued, RowsAreIssued, RowsOf
<1>8. DoomedAreOwn' /\ DoomReachesKnown' /\ RevocationReachesKnown'
  BY <1>1, <1>5 DEF IInv, TypeOK, DoomedAreOwn, DoomReachesKnown, RevocationReachesKnown,
     Mass, Done
<1>9. QED  BY <1>4, <1>6, <1>7, <1>8 DEF IInv

LEMMA ReadKeepsIInv ==
  ASSUME IInv, NEW p \in Requests,
         \/ \E u \in Users : LoginRead(p, u) \/ ResetRead(p, u) \/ RevokeRead(p, u)
         \/ \E g \in Grants : RefreshRead(p, g) \/ LogoutRead(p, g)
  PROVE  IInv'
<1>1. CASE \E u \in Users : LoginRead(p, u) \/ ResetRead(p, u) \/ RevokeRead(p, u)
  <2>1. PICK u \in Users : LoginRead(p, u) \/ ResetRead(p, u) \/ RevokeRead(p, u)
    BY <1>1
  <2>2. u \in Grants /\ Issued(u) /\ sub[u] = u
    BY DEF IInv, RowsAreIssued, Issued, Grants
  <2>3. shadow' \subseteq Grants
    BY <2>1 DEF IInv, TypeOK, LoginRead, ResetRead, RevokeRead, RowsOf
  <2>4. \E kind \in Kinds : Start(p, kind, u, u)
    BY <2>1 DEF LoginRead, ResetRead, RevokeRead, Kinds
  <2>5. QED  BY <2>2, <2>3, <2>4, StartKeepsIInv
<1>2. CASE \E g \in Grants : RefreshRead(p, g) \/ LogoutRead(p, g)
  <2>1. PICK g \in Grants : RefreshRead(p, g) \/ LogoutRead(p, g)
    BY <1>2
  <2>2. Issued(g) /\ sub[g] \in Users /\ shadow' \subseteq Grants
    BY <2>1 DEF IInv, TypeOK, RowsAreIssued, RefreshRead, LogoutRead
  <2>3. \E kind \in Kinds : Start(p, kind, sub[g], g)
    BY <2>1 DEF RefreshRead, LogoutRead, Kinds
  <2>4. QED  BY <2>2, <2>3, StartKeepsIInv
<1>3. QED  BY <1>1, <1>2

LEMMA ScanKeepsIInv ==
  ASSUME IInv, NEW p \in Requests, Scan(p)
  PROVE  IInv'
<1>1. /\ pc[p] = "scan" /\ pc' = [pc EXCEPT ![p] = "commit"]
      /\ doomed' = [doomed EXCEPT ![p] = Found(call[p])]
      /\ UNCHANGED <<rows, sub, authPw, passwd, shadow, call, seen, known, overlapped>>
  BY DEF Scan, tokenVars, historyVars
<1>2. call[p] \in Calls
  BY <1>1 DEF IInv, Started
<1>3. Found(call[p]) \subseteq Grants
  BY <1>2 DEF IInv, TypeOK, Found, RowsOf, Calls
<1>4. TypeOK'
  BY <1>1, <1>3 DEF IInv, TypeOK
<1>5. \A h : Issued(h) => Issued(h)'
  BY <1>1 DEF IInv, TypeOK, Issued
<1>6. Started' /\ RowsAreIssued' /\ TokensAreOwn' /\ KnownAreIssued'
  BY <1>1, <1>5 DEF IInv, TypeOK, Started, RowsAreIssued, TokensAreOwn, KnownAreIssued
<1>7. \A g \in Found(call[p]) : Issued(g) /\ sub[g] = call[p].user
  BY <1>1 DEF IInv, TokensAreOwn, RowsAreIssued, Found, RowsOf
<1>8. Mass(p) => known[p] \cap rows \subseteq Found(call[p])
  BY DEF IInv, KnownAreIssued, Mass, Found, RowsOf
<1>9. DoomedAreOwn' /\ DoomReachesKnown' /\ RevocationReachesKnown'
  BY <1>1, <1>5, <1>7, <1>8 DEF IInv, TypeOK, DoomedAreOwn, DoomReachesKnown,
     RevocationReachesKnown, Mass, Done
<1>10. QED  BY <1>4, <1>6, <1>9 DEF IInv

(* The four commits: rows go, and the one row that has the request's name  *)
(* may come.                                                               *)
Commits(p) ==
  /\ pc[p] = "commit" /\ pc' = [pc EXCEPT ![p] = "done"]
  /\ UNCHANGED <<shadow, call, seen, doomed, known, overlapped>>
  /\ \/ /\ rows' = (rows \ doomed[p]) \cup {p}
        /\ sub' = [sub EXCEPT ![p] = call[p].user]
        /\ \E v \in Nat : authPw' = [authPw EXCEPT ![p] = v]
        /\ UNCHANGED passwd
     \/ /\ rows' = rows \ doomed[p]
        /\ UNCHANGED <<sub, authPw>>
        /\ \/ UNCHANGED passwd
           \/ passwd' = [passwd EXCEPT ![call[p].user] = @ + 1]

LEMMA CommitsAreCommits ==
  ASSUME IInv, NEW p \in Requests,
         LoginCommit(p) \/ RefreshCommit(p) \/ DeleteCommit(p) \/ ResetCommit(p)
  PROVE  Commits(p)
<1>1. pc[p] = "commit" /\ call[p] \in Calls
  BY DEF IInv, Started, LoginCommit, RefreshCommit, DeleteCommit, ResetCommit, Finish
<1>2. seen[p] \in Nat /\ authPw[call[p].token] \in Nat
  BY <1>1 DEF IInv, TypeOK, Calls
<1>3. QED
  BY <1>1, <1>2 DEF LoginCommit, RefreshCommit, DeleteCommit, ResetCommit, Finish, Issue,
     Commits, historyVars

LEMMA CommitKeepsIInv ==
  ASSUME IInv, NEW p \in Requests, Commits(p)
  PROVE  IInv'
<1>1. /\ pc[p] = "commit" /\ pc' = [pc EXCEPT ![p] = "done"]
      /\ UNCHANGED <<shadow, call, seen, doomed, known, overlapped>>
      /\ rows' \subseteq (rows \ doomed[p]) \cup {p}
  BY DEF Commits
<1>2. call[p] \in Calls /\ p \in Grants
  BY <1>1 DEF IInv, Started, Grants
<1>3. TypeOK'
  BY <1>1, <1>2 DEF IInv, TypeOK, Commits, Calls
<1>4. ~Issued(p) /\ \A h : Issued(h)' <=> Issued(h) \/ h = p
  BY <1>1, RequestsAssumption DEF IInv, TypeOK, Issued
<1>5. \A h \in Grants : h # p => sub'[h] = sub[h]
  BY <1>2 DEF IInv, TypeOK, Commits
<1>6. Started' /\ RowsAreIssued'
  <2>1. \A g \in rows' : Issued(g)' /\ sub'[g] \in Users
    <3>1. CASE rows' \subseteq rows /\ sub' = sub
      BY <1>4, <3>1 DEF IInv, RowsAreIssued
    <3>2. CASE sub' = [sub EXCEPT ![p] = call[p].user]
      BY <1>1, <1>2, <1>4, <3>2 DEF IInv, TypeOK, RowsAreIssued, Calls
    <3>3. QED  BY <3>1, <3>2 DEF Commits
  <2>2. \A u \in Users : sub'[u] = u
    BY <1>5, RequestsAssumption DEF IInv, RowsAreIssued, Grants
  <2>3. QED  BY <1>1, <2>1, <2>2 DEF IInv, TypeOK, Started, RowsAreIssued
<1>7. TokensAreOwn'
  BY <1>1, <1>4, <1>5 DEF IInv, TypeOK, Started, Calls, TokensAreOwn
<1>8. KnownAreIssued'
  BY <1>1, <1>4, <1>5 DEF IInv, TypeOK, KnownAreIssued
<1>9. DoomedAreOwn'
  BY <1>1, <1>4, <1>5 DEF IInv, TypeOK, DoomedAreOwn
<1>10. DoomReachesKnown' /\ RevocationReachesKnown'
  BY <1>1, <1>4 DEF IInv, TypeOK, KnownAreIssued, DoomReachesKnown,
     RevocationReachesKnown, Mass, Done
<1>11. QED  BY <1>3, <1>6, <1>7, <1>8, <1>9, <1>10 DEF IInv

LEMMA NextIInv == IInv /\ [Next]_vars => IInv'
<1> SUFFICES ASSUME IInv, [Next]_vars PROVE IInv'
  OBVIOUS
<1>1. CASE Next
  BY <1>1, ReadKeepsIInv, ScanKeepsIInv, CommitsAreCommits, CommitKeepsIInv DEF Next
<1>2. CASE UNCHANGED vars
  BY <1>2 DEF IInv, TypeOK, Started, RowsAreIssued, Issued, TokensAreOwn, KnownAreIssued,
     DoomedAreOwn, DoomReachesKnown, RevocationReachesKnown, Mass, Done, vars, tokenVars,
     requestVars, historyVars
<1>3. QED  BY <1>1, <1>2

(* Every variable keeps its type. *)
THEOREM SessionRaceIsTyped == Spec => []TypeOK
<1>1. IInv => TypeOK
  BY DEF IInv
<1>2. QED  BY <1>1, InitIInv, NextIInv, PTL DEF Spec

(* However requests interleave, a login, reset or mass revocation that has *)
(* committed has removed every token that existed when it began.           *)
THEOREM RevocationsReachKnown == Spec => []RevocationReachesKnown
<1>1. IInv => RevocationReachesKnown
  BY DEF IInv
<1>2. QED  BY <1>1, InitIInv, NextIInv, PTL DEF Spec

-----------------------------------------------------------------------------
(* Accounts whose requests have not overlapped: the request in flight, if  *)
(* any, is the only one, and what it read still holds.                     *)

AloneIsCurrent ==
  \A u \in Users \ overlapped :
    /\ \A p, q \in InFlight(u) : p = q
    /\ \A p \in InFlight(u) :
         /\ seen[p] = passwd[u]
         /\ call[p].kind \in {"refresh", "logout"} => call[p].token \in rows
         /\ pc[p] = "commit" => RowsOf(u) \subseteq doomed[p]

AInv == SerialAccountsAreSafe /\ AloneIsCurrent

LEMMA InitAInv == Init => AInv
  BY RequestsAssumption
     DEF Init, AInv, SerialAccountsAreSafe, AloneIsCurrent, InFlight, RowsOf, Grants

LEMMA ReadKeepsAInv ==
  ASSUME IInv, AInv, NEW p \in Requests, NEW kind \in Kinds, NEW u \in Users,
         NEW g \in Grants, Start(p, kind, u, g),
         kind \in {"refresh", "logout"} => g \in rows
  PROVE  AInv'
<1> DEFINE c == [kind |-> kind, user |-> u, token |-> g]
<1>1. /\ pc[p] = "read" /\ pc' = [pc EXCEPT ![p] = "scan"]
      /\ call' = [call EXCEPT ![p] = c]
      /\ seen' = [seen EXCEPT ![p] = passwd[u]]
      /\ overlapped' = overlapped \cup {w \in {u} : InFlight(w) # {}}
      /\ UNCHANGED <<rows, sub, authPw, passwd, doomed>>
  BY DEF Start, tokenVars
<1>2. c.kind = kind /\ c.token = g /\ c.user = u
  OBVIOUS
<1> HIDE DEF c
<1>3. SerialAccountsAreSafe'
  BY <1>1 DEF AInv, SerialAccountsAreSafe, RowsOf
<1>4. \A w \in Users : /\ RowsOf(w)' = RowsOf(w)
                      /\ InFlight(w)' = IF w = u THEN InFlight(w) \cup {p} ELSE InFlight(w)
  BY <1>1, <1>2 DEF IInv, TypeOK, RowsOf, InFlight
<1>5. u \notin overlapped' => InFlight(u) = {}
  BY <1>1
<1>6. \A w \in Users : p \notin InFlight(w)
  BY <1>1 DEF InFlight
<1>7. AloneIsCurrent'
  <2> SUFFICES ASSUME NEW w \in Users, w \notin overlapped'
               PROVE  /\ \A q, r \in InFlight(w)' : q = r
                      /\ \A q \in InFlight(w)' :
                           /\ seen'[q] = passwd[w]
                           /\ call'[q].kind \in {"refresh", "logout"} =>
                                call'[q].token \in rows
                           /\ pc'[q] = "commit" => RowsOf(w) \subseteq doomed[q]
    BY <1>1, <1>4 DEF AloneIsCurrent
  <2>1. CASE w = u
    <3>1. InFlight(w)' = {p}
      BY <1>4, <1>5, <2>1
    <3>2. QED  BY <1>1, <1>2, <2>1, <3>1 DEF IInv, TypeOK
  <2>2. CASE w # u
    <3>1. w \notin overlapped /\ InFlight(w)' = InFlight(w)
      BY <1>1, <1>4, <2>2
    <3>2. InFlight(w) \subseteq Requests
      BY DEF InFlight
    <3>3. QED
      BY <1>1, <1>6, <3>1, <3>2 DEF IInv, TypeOK, AInv, AloneIsCurrent
  <2>3. QED  BY <2>1, <2>2
<1>8. QED  BY <1>3, <1>7 DEF AInv

LEMMA ScanKeepsAInv ==
  ASSUME IInv, AInv, NEW p \in Requests, Scan(p)
  PROVE  AInv'
<1>1. /\ pc[p] = "scan" /\ pc' = [pc EXCEPT ![p] = "commit"]
      /\ doomed' = [doomed EXCEPT ![p] = Found(call[p])]
      /\ UNCHANGED <<rows, sub, authPw, passwd, shadow, call, seen, known, overlapped>>
  BY DEF Scan, tokenVars, historyVars
<1>2. SerialAccountsAreSafe'
  BY <1>1 DEF AInv, SerialAccountsAreSafe, RowsOf
<1>3. \A w \in Users : RowsOf(w)' = RowsOf(w) /\ InFlight(w)' = InFlight(w)
  BY <1>1 DEF IInv, TypeOK, RowsOf, InFlight
<1>4. ASSUME call[p].user \in Users \ overlapped
      PROVE  RowsOf(call[p].user) \subseteq Found(call[p])
  <2>1. CASE call[p].kind \in {"refresh", "logout"}
    <3>1. p \in InFlight(call[p].user)
      BY <1>1 DEF InFlight
    <3>2. call[p].token \in RowsOf(call[p].user)
      BY <1>1, <1>4, <2>1, <3>1 DEF IInv, TokensAreOwn, AInv, AloneIsCurrent, RowsOf
    <3>3. QED  BY <1>4, <2>1, <3>2 DEF AInv, SerialAccountsAreSafe, Found
  <2>2. CASE call[p].kind \notin {"refresh", "logout"}
    BY <2>2 DEF Found
  <2>3. QED  BY <2>1, <2>2
<1>5. AloneIsCurrent'
  <2> SUFFICES ASSUME NEW w \in Users \ overlapped, NEW q \in InFlight(w),
                      pc'[q] = "commit"
               PROVE  RowsOf(w) \subseteq doomed'[q]
    BY <1>1, <1>3 DEF AInv, AloneIsCurrent
  <2>1. q \in Requests /\ call[q].user = w
    BY DEF InFlight
  <2>2. CASE q = p
    BY <1>1, <1>4, <2>1, <2>2 DEF IInv, TypeOK
  <2>3. CASE q # p
    BY <1>1, <2>1, <2>3 DEF IInv, TypeOK, AInv, AloneIsCurrent
  <2>4. QED  BY <2>2, <2>3
<1>6. QED  BY <1>2, <1>5 DEF AInv

(* A commit leaves the rows and requests of other accounts alone. *)
LEMMA CommitSparesOthers ==
  ASSUME IInv, NEW p \in Requests, Commits(p), NEW w \in Users, w # call[p].user
  PROVE  /\ RowsOf(w)' = RowsOf(w)
         /\ InFlight(w)' = InFlight(w)
         /\ passwd'[w] = passwd[w]
         /\ \A g \in RowsOf(w) : authPw'[g] = authPw[g]
<1>1. p \notin rows /\ p \in Grants /\ call[p].user \in Users
  BY RequestsAssumption
     DEF IInv, TypeOK, RowsAreIssued, Issued, Started, Calls, Commits, Grants
<1>2. \A g \in doomed[p] : sub[g] # w
  BY DEF IInv, DoomedAreOwn, Commits
<1>3. RowsOf(w)' = RowsOf(w)
  BY <1>1, <1>2 DEF IInv, TypeOK, Commits, RowsOf
<1>4. InFlight(w)' = InFlight(w)
  BY DEF IInv, TypeOK, Commits, InFlight
<1>5. QED
  BY <1>1, <1>3, <1>4 DEF IInv, TypeOK, Commits, RowsOf

LEMMA CommitKeepsAInv ==
  ASSUME IInv, AInv, NEW p \in Requests,
         LoginCommit(p) \/ RefreshCommit(p) \/ DeleteCommit(p) \/ ResetCommit(p)
  PROVE  AInv'
<1> DEFINE u == call[p].user
<1>1. Commits(p)
  BY CommitsAreCommits
<1>2. /\ pc[p] = "commit" /\ pc' = [pc EXCEPT ![p] = "done"]
      /\ UNCHANGED <<shadow, call, seen, doomed, known, overlapped>>
  BY <1>1 DEF Commits
<1>3. u \in Users /\ call[p] \in Calls /\ p \in InFlight(u)
  BY <1>2 DEF IInv, Started, Calls, InFlight
<1>4. ASSUME u \notin overlapped
      PROVE  /\ InFlight(u)' = {}
             /\ \A g \in RowsOf(u)' : g = p /\ authPw'[g] = passwd'[u]
  <2>1. /\ \A q \in InFlight(u) : q = p
        /\ RowsOf(u) \subseteq doomed[p] /\ seen[p] = passwd[u]
        /\ call[p].kind = "refresh" => call[p].token \in rows
    BY <1>2, <1>3, <1>4 DEF AInv, AloneIsCurrent
  <2>2. InFlight(u)' = {}
    BY <1>2, <2>1 DEF IInv, TypeOK, InFlight
  <2>3. call[p].kind = "refresh" => authPw[call[p].token] = passwd[u]
    BY <1>2, <1>3, <1>4, <2>1
       DEF IInv, TokensAreOwn, AInv, SerialAccountsAreSafe, RowsOf
  <2>4. p \in Grants
    BY DEF Grants
  <2>5. \A g \in RowsOf(u)' : g = p
    BY <1>1, <2>1, <2>4 DEF IInv, TypeOK, Commits, RowsOf
  <2>6. p \notin rows
    BY <1>2, RequestsAssumption DEF IInv, RowsAreIssued, Issued
  <2>7. p \in rows' => authPw'[p] = passwd'[u]
    <3>1. CASE LoginCommit(p)
      BY <2>1, <2>4, <3>1 DEF IInv, TypeOK, LoginCommit, Issue
    <3>2. CASE RefreshCommit(p)
      BY <2>3, <2>4, <3>2 DEF IInv, TypeOK, RefreshCommit, Finish, Issue
    <3>3. CASE DeleteCommit(p) \/ ResetCommit(p)
      BY <2>6, <3>3 DEF DeleteCommit, ResetCommit
    <3>4. QED  BY <3>1, <3>2, <3>3
  <2>8. QED  BY <2>2, <2>5, <2>7 DEF RowsOf
<1>5. ASSUME NEW w \in Users, w # u
      PROVE  /\ RowsOf(w)' = RowsOf(w)
             /\ InFlight(w)' = InFlight(w)
             /\ passwd'[w] = passwd[w]
             /\ \A g \in RowsOf(w) : authPw'[g] = authPw[g]
  BY <1>1, <1>5, CommitSparesOthers
<1>6. SerialAccountsAreSafe'
  BY <1>2, <1>4, <1>5 DEF AInv, SerialAccountsAreSafe
<1>7. AloneIsCurrent'
  <2> SUFFICES ASSUME NEW w \in Users \ overlapped
               PROVE  /\ \A q, r \in InFlight(w)' : q = r
                      /\ \A q \in InFlight(w)' :
                           /\ seen[q] = passwd'[w]
                           /\ call[q].kind \in {"refresh", "logout"} =>
                                call[q].token \in rows'
                           /\ pc'[q] = "commit" => RowsOf(w)' \subseteq doomed[q]
    BY <1>2 DEF AloneIsCurrent
  <2>1. CASE w = u
    <3>1. InFlight(w)' = {}
      BY <1>2, <1>4, <2>1 DEF InFlight
    <3>2. QED  BY <3>1
  <2>2. CASE w # u
    <3>1. \A q \in InFlight(w) : q \in Requests /\ q # p /\ call[q].user = w
                                /\ pc[q] # "read"
      BY <2>2 DEF InFlight
    <3>2. \A q \in InFlight(w) : call[q].kind \in {"refresh", "logout"} =>
            call[q].token \in RowsOf(w)
      BY <3>1 DEF IInv, TokensAreOwn, AInv, AloneIsCurrent, RowsOf
    <3>3. RowsOf(w)' \subseteq rows'
      BY DEF RowsOf
    <3>4. QED
      BY <1>2, <1>5, <2>2, <3>1, <3>2, <3>3 DEF IInv, TypeOK, AInv, AloneIsCurrent
  <2>3. QED  BY <2>1, <2>2
<1>8. QED  BY <1>6, <1>7 DEF AInv

LEMMA NextAInv == IInv /\ AInv /\ [Next]_vars => AInv'
<1> SUFFICES ASSUME IInv, AInv, [Next]_vars PROVE AInv'
  OBVIOUS
<1>1. ASSUME NEW p \in Requests, NEW u \in Users,
             LoginRead(p, u) \/ ResetRead(p, u) \/ RevokeRead(p, u)
      PROVE  AInv'
  <2>1. \E kind \in {"login", "reset", "revoke"} : Start(p, kind, u, u)
    BY <1>1 DEF LoginRead, ResetRead, RevokeRead
  <2>2. QED  BY <2>1, ReadKeepsAInv DEF Kinds, Grants
<1>2. ASSUME NEW p \in Requests, NEW g \in Grants, RefreshRead(p, g) \/ LogoutRead(p, g)
      PROVE  AInv'
  <2>1. g \in rows /\ \E kind \in {"refresh", "logout"} : Start(p, kind, sub[g], g)
    BY <1>2 DEF RefreshRead, LogoutRead
  <2>2. sub[g] \in Users
    BY <2>1 DEF IInv, RowsAreIssued
  <2>3. QED  BY <2>1, <2>2, ReadKeepsAInv DEF Kinds
<1>3. CASE UNCHANGED vars
  BY <1>3 DEF AInv, SerialAccountsAreSafe, AloneIsCurrent, InFlight, RowsOf, vars,
     tokenVars, requestVars, historyVars
<1>4. QED  BY <1>1, <1>2, <1>3, ScanKeepsAInv, CommitKeepsAInv DEF Next

(* An account whose requests never overlapped has one live token at most,  *)
(* of the password in force, whatever other accounts' requests do.         *)
THEOREM SerialAccountsStaySafe == Spec => []SerialAccountsAreSafe
<1>1. AInv => SerialAccountsAreSafe
  BY DEF AInv
<1>2. QED  BY <1>1, InitIInv, NextIInv, InitAInv, NextAInv, PTL DEF Spec

-----------------------------------------------------------------------------
(* Atomicity.  The token a request will issue is nobody's until it commits *)
(* (Fresh), and a request that runs alone deletes at its commit the rows   *)
(* its account then has: together they make the commit one step of Chains. *)

Fresh == \A p \in Requests : pc[p] # "done" => sub[p] = Idle

LEMMA InitFresh == Init => Fresh
  BY RequestsAssumption DEF Init, Fresh, Grants

LEMMA NextFresh == IInv /\ Fresh /\ [Next]_vars => Fresh'
<1> SUFFICES ASSUME IInv, Fresh, [Next]_vars PROVE Fresh'
  OBVIOUS
<1>1. ASSUME NEW p \in Requests, pc[p] # "done", UNCHANGED sub,
             \E step \in {"scan", "commit"} : pc' = [pc EXCEPT ![p] = step]
      PROVE  Fresh'
  BY <1>1 DEF IInv, TypeOK, Fresh
<1>2. ASSUME NEW p \in Requests, NEW kind, NEW u, NEW g, Start(p, kind, u, g)
      PROVE  Fresh'
  BY <1>1, <1>2 DEF Start, tokenVars
<1>3. ASSUME NEW p \in Requests, Scan(p)
      PROVE  Fresh'
  BY <1>1, <1>3 DEF Scan, tokenVars
<1>4. ASSUME NEW p \in Requests, Commits(p)
      PROVE  Fresh'
  BY <1>4 DEF IInv, TypeOK, Fresh, Commits, Grants
<1>5. CASE UNCHANGED vars
  BY <1>5 DEF Fresh, vars, tokenVars, requestVars
<1>6. QED
  BY <1>2, <1>3, <1>4, <1>5, CommitsAreCommits
     DEF Next, LoginRead, ResetRead, RevokeRead, RefreshRead, LogoutRead

(* What a request that runs alone finds at its commit. *)
LEMMA AloneAtCommit ==
  ASSUME IInv, AInv, Fresh, NEW p \in Requests, pc[p] = "commit",
         call[p].user \notin overlapped
  PROVE  /\ call[p] \in Calls
         /\ call[p].kind \in {"refresh", "logout"} => call[p].token \in rows
         /\ sub[call[p].token] = call[p].user
         /\ doomed[p] \cap rows = RowsOf(call[p].user)
         /\ seen[p] = passwd[call[p].user]
         /\ sub[p] = Idle
<1>1. call[p] \in Calls /\ call[p].user \in Users /\ p \in InFlight(call[p].user)
  BY DEF IInv, Started, Calls, InFlight
<1>2. RowsOf(call[p].user) \subseteq doomed[p]
  BY <1>1 DEF AInv, AloneIsCurrent
<1>3. \A g \in doomed[p] : sub[g] = call[p].user
  BY DEF IInv, DoomedAreOwn
<1>4. QED
  BY <1>1, <1>2, <1>3 DEF AInv, AloneIsCurrent, IInv, TokensAreOwn, Fresh, RowsOf

LEMMA CommitIsWhole ==
  ASSUME IInv, AInv, Fresh, NEW p \in Requests, call[p].user \notin overlapped,
         LoginCommit(p) \/ RefreshCommit(p) \/ DeleteCommit(p) \/ ResetCommit(p)
  PROVE  WholeEffect(p)
<1> DEFINE u == call[p].user
<1>1. pc[p] = "commit"
  BY DEF LoginCommit, RefreshCommit, DeleteCommit, ResetCommit, Finish
<1>2. /\ call[p] \in Calls
      /\ call[p].kind \in {"refresh", "logout"} => call[p].token \in rows
      /\ sub[call[p].token] = u
      /\ doomed[p] \cap rows = RowsOf(u)
      /\ seen[p] = passwd[u]
      /\ sub[p] = Idle
  BY <1>1, AloneAtCommit
<1>3. rows \ doomed[p] = rows \ RowsOf(u)
  BY <1>2
<1>4. RowsOf(u) = Promise!Owned(u)
  BY DEF RowsOf, Promise!Owned
<1>5. call[p].kind \in {"refresh", "logout"} => RowsOf(u) = {call[p].token}
  BY <1>2 DEF AInv, SerialAccountsAreSafe, RowsOf, Calls
<1>6. CASE LoginCommit(p)
  <2>1. Promise!Login(u, p)
    BY <1>2, <1>3, <1>4, <1>6 DEF LoginCommit, Issue, Promise!Login, Promise!Issue
  <2>2. QED  BY <1>6, <2>1 DEF LoginCommit, Finish, WholeEffect
<1>7. CASE RefreshCommit(p)
  <2>1. call[p].kind = "refresh"
    BY <1>7 DEF RefreshCommit, Finish
  <2>2. Promise!Rotate(call[p].token, p)
    BY <1>2, <1>3, <1>5, <1>7, <2>1
       DEF RefreshCommit, Issue, Promise!Rotate, Promise!Issue
  <2>3. QED  BY <2>1, <2>2 DEF WholeEffect
<1>8. CASE DeleteCommit(p)
  <2>1. CASE call[p].kind = "logout"
    <3>1. Promise!End(call[p].token)
      BY <1>3, <1>5, <1>8, <2>1 DEF DeleteCommit, Promise!End
    <3>2. QED  BY <1>2, <2>1, <3>1 DEF WholeEffect
  <2>2. CASE call[p].kind = "revoke"
    <3>1. Promise!Revoke({u})
      BY <1>3, <1>4, <1>8 DEF DeleteCommit, Promise!Revoke
    <3>2. QED  BY <2>2, <3>1 DEF WholeEffect
  <2>3. QED  BY <1>8, <2>1, <2>2 DEF DeleteCommit, Finish
<1>9. CASE ResetCommit(p)
  <2>1. Promise!ResetPassword(u)
    BY <1>3, <1>4, <1>9 DEF ResetCommit, Promise!ResetPassword
  <2>2. QED  BY <1>9, <2>1 DEF ResetCommit, Finish, WholeEffect
<1>10. QED  BY <1>6, <1>7, <1>8, <1>9

AtomicStep ==
  \A p \in Requests :
    pc[p] # "done" /\ pc'[p] = "done" /\ call[p].user \notin overlapped => WholeEffect(p)

LEMMA NextIsAtomic == IInv /\ AInv /\ Fresh /\ [Next]_vars => AtomicStep
<1> SUFFICES ASSUME IInv, AInv, Fresh, [Next]_vars, NEW p \in Requests,
                    pc[p] # "done", pc'[p] = "done", call[p].user \notin overlapped
             PROVE  WholeEffect(p)
  BY DEF AtomicStep
<1>1. ASSUME NEW q \in Requests, NEW kind, NEW u, NEW g, Start(q, kind, u, g)
      PROVE  FALSE
  BY <1>1 DEF IInv, TypeOK, Start
<1>2. ASSUME NEW q \in Requests, Scan(q)
      PROVE  FALSE
  BY <1>2 DEF IInv, TypeOK, Scan
<1>3. ASSUME NEW q \in Requests,
             LoginCommit(q) \/ RefreshCommit(q) \/ DeleteCommit(q) \/ ResetCommit(q)
      PROVE  WholeEffect(p)
  <2>1. q = p
    BY <1>3 DEF IInv, TypeOK, LoginCommit, RefreshCommit, DeleteCommit, ResetCommit, Finish
  <2>2. QED  BY <1>3, <2>1, CommitIsWhole
<1>4. CASE UNCHANGED vars
  BY <1>4 DEF vars, requestVars
<1>5. QED
  BY <1>1, <1>2, <1>3, <1>4
     DEF Next, LoginRead, ResetRead, RevokeRead, RefreshRead, LogoutRead

(* Requests of an account that do not overlap are atomic, whatever the     *)
(* requests of the other accounts do meanwhile.                            *)
THEOREM SerialRequestsRunAtomically == Spec => SerialRequestsAreAtomic
<1>1. [][AtomicStep]_vars => SerialRequestsAreAtomic
  BY PTL DEF AtomicStep, SerialRequestsAreAtomic
<1>2. IInv /\ AInv /\ Fresh /\ [Next]_vars => [AtomicStep]_vars
  BY NextIsAtomic
<1>3. QED
  BY InitIInv, NextIInv, InitAInv, NextAInv, InitFresh, NextFresh, <1>1, <1>2, PTL DEF Spec
=============================================================================
