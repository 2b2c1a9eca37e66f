--------------------------- MODULE OAuthLinkProofs ---------------------------
(***************************************************************************)
(* A link token makes one link, and OAuthLink implements Bindings, for any *)
(* number of users, addresses, identities, providers and overlapping or    *)
(* failing confirmations.                                                  *)
(*                                                                         *)
(* Neither is inductive.  That a spent token makes no second link needs    *)
(* the confirmations that read one token to agree on the identity          *)
(* (OneIdentity) and that identity to be bound once one of them committed  *)
(* (MadeIsBound): the UNIQUE constraint then refuses the others.  That a   *)
(* step is one of Bindings needs every confirmation under way to have      *)
(* shown the password (RequestsAreProven).                                 *)
(***************************************************************************)
EXTENDS OAuthLink, TLAPS

(* Identities, link tokens and confirmations refer to users that exist.    *)
OwnersExist ==
  /\ \A i \in Identities : acct[i] # NoUser => Exists(acct[i])
  /\ \A l \in Links : link[l] # None => Exists(link[l].user)
  /\ \A r \in Requests : req[r] # None => Exists(req[r].user)

RequestsAreProven ==
  \A r \in Requests : req[r] # None => <<req[r].identity, req[r].user>> \in proven

SpentIsGone ==
  \A r \in Requests : req[r] # None /\ req[r].spent => link[req[r].link] = None

OneIdentity ==
  \A r \in Requests : req[r] # None =>
    /\ link[req[r].link] # None => link[req[r].link].identity = req[r].identity
    /\ \A s \in Requests :
         req[s] # None /\ req[s].link = req[r].link => req[s].identity = req[r].identity

MadeIsBound ==
  \A r \in Requests :
    req[r] # None /\ made[req[r].link] = 1 => acct[req[r].identity] # NoUser

IInv == /\ TypeOK
        /\ OwnersExist
        /\ RequestsAreProven
        /\ SpentIsGone
        /\ OneIdentity
        /\ MadeIsBound
        /\ LinkIsSpentOnce

LEMMA InitIInv == Init => IInv
  BY NullAssumption, FaultsAssumption
     DEF Init, IInv, TypeOK, OwnersExist, RequestsAreProven, SpentIsGone,
         OneIdentity, MadeIsBound, LinkIsSpentOnce

-----------------------------------------------------------------------------
(* Users and providers: no link token or confirmation is touched, and an   *)
(* account once there stays.                                               *)

LEMMA UserKeepsIInv ==
  ASSUME IInv,
         \/ \E u \in Users, e \in Emails, w \in Passwords : Signup(u, e, w)
         \/ \E u \in Users, e \in Emails : ChangeEmail(u, e)
         \/ \E u \in Users, w \in Passwords : ResetPassword(u, w)
         \/ \E u \in Users, i \in Identities : CreateAccount(i, u)
         \/ \E i \in Identities, e \in Emails : ProviderChangesEmail(i, e)
  PROVE  IInv'
<1>1. TypeOK'
  BY NullAssumption DEF IInv, TypeOK, UserRows, Signup, ResetPassword, ChangeEmail,
     CreateAccount, ProviderChangesEmail, Exists
<1>2. \A v \in Users : Exists(v) => Exists(v)'
  BY NullAssumption DEF IInv, TypeOK, UserRows, Signup, ResetPassword, ChangeEmail,
     CreateAccount, ProviderChangesEmail, Exists
<1>3. UNCHANGED <<link, req, proven, made>>
  BY DEF Signup, ResetPassword, ChangeEmail, CreateAccount, ProviderChangesEmail
<1>4. \/ UNCHANGED acct
      \/ \E u \in Users, i \in Identities :
           acct[i] = NoUser /\ acct' = [acct EXCEPT ![i] = u] /\ Exists(u)'
  BY NullAssumption DEF IInv, TypeOK, UserRows, Signup, ResetPassword, ChangeEmail,
     CreateAccount, ProviderChangesEmail, Exists
<1>5. \A j \in Identities : acct[j] # NoUser => acct'[j] = acct[j]
  BY <1>4 DEF IInv, TypeOK
<1>6. OwnersExist'
  <2>1. ASSUME NEW j \in Identities, acct'[j] # NoUser PROVE Exists(acct[j])'
    BY <1>2, <1>4, <2>1 DEF IInv, TypeOK, OwnersExist
  <2>2. ASSUME NEW l \in Links, link'[l] # None PROVE Exists(link[l].user)'
    BY <1>2, <1>3, <2>2 DEF IInv, TypeOK, LinkData, OwnersExist
  <2>3. ASSUME NEW r \in Requests, req'[r] # None PROVE Exists(req[r].user)'
    BY <1>2, <1>3, <2>3 DEF IInv, TypeOK, Confirmations, OwnersExist
  <2>4. QED  BY <2>1, <2>2, <2>3 DEF OwnersExist
<1>7. MadeIsBound'
  BY <1>3, <1>5 DEF IInv, TypeOK, Confirmations, MadeIsBound
<1>8. QED
  BY <1>1, <1>3, <1>6, <1>7
     DEF IInv, RequestsAreProven, SpentIsGone, OneIdentity, LinkIsSpentOnce

-----------------------------------------------------------------------------
(* Link tokens: no confirmation holds one that is stored. *)

LEMMA StoreLinkKeepsIInv ==
  ASSUME IInv, NEW i \in Identities, NEW u \in Users, NEW l \in Links, StoreLink(i, u, l)
  PROVE  IInv'
<1>1. TypeOK'
  BY NullAssumption DEF IInv, TypeOK, LinkData, StoreLink
<1>2. /\ link' = [link EXCEPT ![l] = [user |-> u, identity |-> i]]
      /\ made' = [made EXCEPT ![l] = 0]
      /\ UNCHANGED <<user, acct, req, proven>>
  BY DEF StoreLink
<1>3. \A r \in Requests : req[r] # None => req[r].link # l
  BY DEF StoreLink, InUse
<1>4. OwnersExist'
  BY <1>2 DEF IInv, TypeOK, OwnersExist, Exists, StoreLink
<1>5. SpentIsGone' /\ OneIdentity' /\ MadeIsBound'
  BY <1>2, <1>3 DEF IInv, TypeOK, Confirmations, SpentIsGone, OneIdentity, MadeIsBound
<1>6. LinkIsSpentOnce'
  BY <1>2 DEF IInv, TypeOK, LinkIsSpentOnce
<1>7. QED  BY <1>1, <1>2, <1>4, <1>5, <1>6 DEF IInv, RequestsAreProven

LEMMA LinkExpiresKeepsIInv ==
  ASSUME IInv, NEW l \in Links, LinkExpires(l)
  PROVE  IInv'
<1>1. link' = [link EXCEPT ![l] = None] /\ UNCHANGED <<user, acct, req, proven, made>>
  BY DEF LinkExpires
<1>2. TypeOK'
  BY DEF IInv, TypeOK, LinkExpires
<1>3. OwnersExist' /\ LinkIsSpentOnce'
  BY <1>1 DEF IInv, TypeOK, OwnersExist, Exists, LinkIsSpentOnce
<1>4. SpentIsGone' /\ OneIdentity' /\ MadeIsBound'
  BY <1>1 DEF IInv, TypeOK, Confirmations, SpentIsGone, OneIdentity, MadeIsBound
<1>5. QED  BY <1>1, <1>2, <1>3, <1>4 DEF IInv, RequestsAreProven

-----------------------------------------------------------------------------
(* Confirmations *)

LEMMA ReadKeepsIInv ==
  ASSUME IInv, NEW r \in Requests, NEW l \in Links, NEW w \in Passwords \cup {None},
         ReadConfirm(r, l, w)
  PROVE  IInv'
<1> DEFINE q == [link |-> l, user |-> link[l].user, identity |-> link[l].identity,
                 spent |-> FALSE]
<1>1. /\ req' = [req EXCEPT ![r] = q]
      /\ proven' = proven \cup {<<q.identity, q.user>>}
      /\ link[l] # None
      /\ UNCHANGED <<user, acct, link, mail, made, faults>>
  BY DEF ReadConfirm, PasswordFits
<1>2. q \in Confirmations /\ q # None
  <2>1. link[l] \in LinkData
    BY <1>1 DEF IInv, TypeOK
  <2>2. q \in Confirmations
    BY <2>1 DEF LinkData, Confirmations
  <2>3. QED  BY <2>2, NullAssumption DEF Confirmations
<1> HIDE DEF q
<1>3. q.link = l /\ q.identity = link[l].identity /\ q.spent = FALSE
  BY DEF q
<1>4. TypeOK'
  BY <1>1, <1>2 DEF IInv, TypeOK, Confirmations
<1>5. RequestsAreProven' /\ SpentIsGone'
  BY <1>1, <1>3 DEF IInv, TypeOK, RequestsAreProven, SpentIsGone
<1>6. OneIdentity'
  BY <1>1, <1>3 DEF IInv, TypeOK, Confirmations, OneIdentity
<1>7. made[l] # 1
  BY <1>1 DEF IInv, LinkIsSpentOnce
<1>8. MadeIsBound'
  BY <1>1, <1>3, <1>7 DEF IInv, TypeOK, MadeIsBound
<1>9. q.user = link[l].user
  BY DEF q
<1>10. OwnersExist'
  BY <1>1, <1>9 DEF IInv, TypeOK, OwnersExist, Exists
<1>11. QED
  BY <1>1, <1>4, <1>5, <1>6, <1>8, <1>10 DEF IInv, LinkIsSpentOnce

LEMMA SpendKeepsIInv ==
  ASSUME IInv, NEW r \in Requests, SpendLink(r)
  PROVE  IInv'
<1>1. /\ req[r] # None
      /\ req' = [req EXCEPT ![r].spent = TRUE]
      /\ link' = [link EXCEPT ![req[r].link] = None]
      /\ UNCHANGED <<user, acct, mail, proven, made, faults>>
  BY DEF SpendLink, Spent
<1>2. req[r] \in Confirmations
  BY <1>1 DEF IInv, TypeOK
<1>3. TypeOK'
  BY <1>1, <1>2 DEF IInv, TypeOK, Confirmations
<1>4. \A s \in Requests : /\ req'[s] # None => req[s] # None
                          /\ req[s] # None => /\ req'[s].link = req[s].link
                                              /\ req'[s].identity = req[s].identity
                                              /\ req'[s].user = req[s].user
                                              /\ req'[s].spent =>
                                                   req[s].spent \/ s = r
  BY <1>1, <1>2 DEF IInv, TypeOK, Confirmations
<1>5. \A l \in Links : link'[l] # None => link'[l] = link[l]
  BY <1>1, <1>2 DEF IInv, TypeOK, Confirmations
<1>6. OwnersExist' /\ LinkIsSpentOnce'
  BY <1>1, <1>4, <1>5 DEF IInv, TypeOK, OwnersExist, Exists, LinkIsSpentOnce
<1>7. RequestsAreProven' /\ MadeIsBound'
  BY <1>1, <1>4 DEF IInv, RequestsAreProven, MadeIsBound
<1>8. SpentIsGone'
  <2>1. link'[req[r].link] = None
    BY <1>1, <1>2 DEF IInv, TypeOK, Confirmations
  <2>2. QED  BY <1>4, <1>5, <2>1 DEF IInv, TypeOK, Confirmations, SpentIsGone
<1>9. OneIdentity'
  BY <1>4, <1>5 DEF IInv, TypeOK, Confirmations, OneIdentity
<1>10. QED  BY <1>3, <1>6, <1>7, <1>8, <1>9 DEF IInv

(* The commit is the first of its token: a second one would find its       *)
(* identity bound.                                                         *)
LEMMA CommitKeepsIInv ==
  ASSUME IInv, NEW r \in Requests, CommitConfirm(r)
  PROVE  IInv'
<1> DEFINE q == req[r]
<1>1. /\ q # None /\ q.spent /\ acct[q.identity] = NoUser
      /\ acct' = [acct EXCEPT ![q.identity] = q.user]
      /\ made' = [made EXCEPT ![q.link] = @ + 1]
      /\ req' = [req EXCEPT ![r] = None]
      /\ UNCHANGED <<user, link, mail, proven, faults>>
  BY DEF CommitConfirm, Inserts
<1>2. q \in Confirmations
  BY <1>1 DEF IInv, TypeOK
<1>3. made[q.link] = 0
  <2>1. made[q.link] # 1
    BY <1>1 DEF IInv, MadeIsBound
  <2>2. q.link \in Links
    BY <1>2 DEF Confirmations
  <2>3. QED  BY <2>1, <2>2 DEF IInv, TypeOK, LinkIsSpentOnce
<1>4. \A s \in Requests : req'[s] # None => req[s] # None /\ req'[s] = req[s]
  BY <1>1 DEF IInv, TypeOK
<1>5. Exists(q.user)
  BY <1>1 DEF IInv, OwnersExist
<1>6. link[q.link] = None /\ \A s \in Requests :
        req[s] # None /\ req[s].link = q.link => req[s].identity = q.identity
  BY <1>1 DEF IInv, SpentIsGone, OneIdentity
<1> HIDE DEF q
<1>7. TypeOK'
  BY <1>1, <1>2, <1>3 DEF IInv, TypeOK, Confirmations
<1>8. OwnersExist'
  BY <1>1, <1>2, <1>4, <1>5 DEF IInv, TypeOK, Confirmations, OwnersExist, Exists
<1>9. RequestsAreProven' /\ SpentIsGone' /\ OneIdentity'
  BY <1>1, <1>4 DEF IInv, RequestsAreProven, SpentIsGone, OneIdentity
<1>10. LinkIsSpentOnce'
  BY <1>1, <1>2, <1>3, <1>6 DEF IInv, TypeOK, Confirmations, LinkIsSpentOnce
<1>11. MadeIsBound'
  <2> SUFFICES ASSUME NEW s \in Requests, req'[s] # None, made'[req'[s].link] = 1
               PROVE  acct'[req'[s].identity] # NoUser
    BY DEF MadeIsBound
  <2>1. req[s] # None /\ req'[s] = req[s] /\ req[s] \in Confirmations
    BY <1>4 DEF IInv, TypeOK
  <2>2. CASE req[s].link = q.link
    BY <1>1, <1>2, <1>6, <2>1, <2>2, NullAssumption DEF IInv, TypeOK, Confirmations
  <2>3. CASE req[s].link # q.link
    <3>1. acct[req[s].identity] # NoUser
      BY <1>1, <1>2, <2>1, <2>3 DEF IInv, TypeOK, Confirmations, MadeIsBound
    <3>2. QED  BY <1>1, <1>2, <2>1, <3>1, NullAssumption DEF IInv, TypeOK, Confirmations
  <2>4. QED  BY <2>2, <2>3
<1>12. QED  BY <1>7, <1>8, <1>9, <1>10, <1>11 DEF IInv

LEMMA EndKeepsIInv ==
  ASSUME IInv, NEW r \in Requests, ConfirmRefused(r) \/ Fail(r)
  PROVE  IInv'
<1>1. /\ req' = [req EXCEPT ![r] = None]
      /\ UNCHANGED <<user, acct, link, mail, proven, made>>
  BY DEF ConfirmRefused, Fail
<1>2. TypeOK'
  BY FaultsAssumption DEF IInv, TypeOK, ConfirmRefused, Fail
<1>3. \A s \in Requests : req'[s] # None => req[s] # None /\ req'[s] = req[s]
  BY <1>1 DEF IInv, TypeOK
<1>4. QED
  BY <1>1, <1>2, <1>3 DEF IInv, OwnersExist, Exists, RequestsAreProven, SpentIsGone,
     OneIdentity, MadeIsBound, LinkIsSpentOnce

-----------------------------------------------------------------------------

LEMMA NextIInv == IInv /\ [Next]_vars => IInv'
<1> SUFFICES ASSUME IInv, [Next]_vars PROVE IInv'
  OBVIOUS
<1>1. CASE Next
  BY <1>1, UserKeepsIInv, StoreLinkKeepsIInv, LinkExpiresKeepsIInv, ReadKeepsIInv,
     SpendKeepsIInv, CommitKeepsIInv, EndKeepsIInv DEF Next
<1>2. CASE UNCHANGED vars
  BY <1>2 DEF IInv, TypeOK, OwnersExist, Exists, RequestsAreProven, SpentIsGone,
     OneIdentity, MadeIsBound, LinkIsSpentOnce, vars
<1>3. QED  BY <1>1, <1>2

(* Every variable keeps its type. *)
THEOREM OAuthLinkIsTyped == Spec => []TypeOK
<1>1. IInv => TypeOK
  BY DEF IInv
<1>2. QED  BY <1>1, InitIInv, NextIInv, PTL DEF Spec

(* However confirmations of it overlap and fail, a link token makes at     *)
(* most one link and is of no use afterwards.                              *)
THEOREM LinkTokensAreSpentOnce == Spec => []LinkIsSpentOnce
<1>1. IInv => LinkIsSpentOnce
  BY DEF IInv
<1>2. QED  BY <1>1, InitIInv, NextIInv, PTL DEF Spec

-----------------------------------------------------------------------------
(* Refinement *)

LEMMA InitRefines == Init => Promise!Init
  BY DEF Init, Exists, Promise!Init

LEMMA AccountRefines ==
  ASSUME IInv, NEW u \in Users,
         \/ \E e \in Emails, w \in Passwords : Signup(u, e, w)
         \/ \E e \in Emails : ChangeEmail(u, e)
         \/ \E w \in Passwords : ResetPassword(u, w)
  PROVE  Promise!Open(u)
<1>1. \A v \in Users : Exists(v)' <=> Exists(v) \/ v = u
  BY NullAssumption DEF IInv, TypeOK, UserRows, Signup, ResetPassword, ChangeEmail, Exists
<1>2. UNCHANGED <<acct, proven>>
  BY DEF Signup, ResetPassword, ChangeEmail
<1>3. QED  BY <1>1, <1>2 DEF Promise!Open

LEMMA CreateAccountRefines ==
  ASSUME IInv, NEW i \in Identities, NEW u \in Users, CreateAccount(i, u)
  PROVE  Promise!OpenWith(i, u)
<1>1. \A v \in Users : Exists(v)' <=> Exists(v) \/ v = u
  BY NullAssumption DEF IInv, TypeOK, UserRows, CreateAccount, Exists
<1>2. ~Exists(u) /\ acct[i] = NoUser /\ acct' = [acct EXCEPT ![i] = u]
      /\ proven' = proven
  BY DEF CreateAccount
<1>3. \A j \in Identities : acct[j] # u
  BY <1>2, NullAssumption DEF IInv, TypeOK, OwnersExist
<1>4. Promise!Free(i, u)
  BY <1>2, <1>3 DEF Promise!Free
<1>5. QED  BY <1>1, <1>2, <1>4 DEF Promise!OpenWith

LEMMA ReadRefines ==
  ASSUME IInv, NEW r \in Requests, NEW l \in Links, NEW w \in Passwords \cup {None},
         ReadConfirm(r, l, w)
  PROVE  \E u \in Users, i \in Identities : Promise!Consent(i, u)
<1> DEFINE u == link[l].user
           i == link[l].identity
<1>1. u \in Users /\ i \in Identities /\ Exists(u)
  BY DEF IInv, TypeOK, LinkData, OwnersExist, ReadConfirm
<1>2. proven' = proven \cup {<<i, u>>} /\ UNCHANGED <<user, acct>>
  BY DEF ReadConfirm, PasswordFits
<1>3. Promise!Consent(i, u)
  BY <1>1, <1>2 DEF Promise!Consent, Exists
<1>4. QED  BY <1>1, <1>3

LEMMA CommitRefines ==
  ASSUME IInv, NEW r \in Requests, CommitConfirm(r)
  PROVE  \E u \in Users, i \in Identities : Promise!Bind(i, u)
<1> DEFINE u == req[r].user
           i == req[r].identity
<1>1. u \in Users /\ i \in Identities /\ <<i, u>> \in proven
  BY DEF IInv, TypeOK, Confirmations, RequestsAreProven, CommitConfirm
<1>2. acct' = [acct EXCEPT ![i] = u] /\ UNCHANGED <<user, proven>>
  BY DEF CommitConfirm
<1>3. Promise!Free(i, u)
  BY DEF CommitConfirm, Inserts, LinkedTo, Promise!Free
<1>4. Promise!Bind(i, u)
  BY <1>1, <1>2, <1>3 DEF Promise!Bind, Exists
<1>5. QED  BY <1>1, <1>4

(* Expiry, storing and spending link tokens, refused and failed            *)
(* confirmations and changes at the provider are stutters of Bindings.     *)
LEMMA StepRefines == IInv /\ [Next]_vars => [Promise!Next]_(Promise!vars)
<1> SUFFICES ASSUME IInv, [Next]_vars PROVE Promise!Next \/ UNCHANGED Promise!vars
  OBVIOUS
<1>1. CASE \E u \in Users : \/ \E e \in Emails : ChangeEmail(u, e)
                            \/ \E e \in Emails, w \in Passwords : Signup(u, e, w)
                            \/ \E w \in Passwords : ResetPassword(u, w)
  BY <1>1, AccountRefines DEF Promise!Next
<1>2. CASE \E u \in Users, i \in Identities : CreateAccount(i, u)
  BY <1>2, CreateAccountRefines DEF Promise!Next
<1>3. CASE \E r \in Requests, l \in Links, w \in Passwords \cup {None} : ReadConfirm(r, l, w)
  BY <1>3, ReadRefines DEF Promise!Next
<1>4. CASE \E r \in Requests : CommitConfirm(r)
  BY <1>4, CommitRefines DEF Promise!Next
<1>5. CASE UNCHANGED <<user, acct, proven>>
  BY <1>5 DEF Promise!vars, Exists
<1>6. QED
  BY <1>1, <1>2, <1>3, <1>4, <1>5 DEF Next, vars, StoreLink, ProviderChangesEmail,
     LinkExpires, SpendLink, ConfirmRefused, Fail

(* An identity is bound to one account for good, which was opened with it  *)
(* or showed its password: every step is a step of Bindings or a stutter.  *)
THEOREM OAuthLinkImplementsBindings == Spec => IdentitiesAreBound
<1>1. QED  BY InitIInv, NextIInv, InitRefines, StepRefines, PTL
           DEF Spec, IdentitiesAreBound, Promise!Spec
=============================================================================
