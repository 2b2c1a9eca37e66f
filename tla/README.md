# TLA+ verification of wxcode-adm

wxcode-adm is a multi-tenant administration backend (FastAPI, PostgreSQL, Redis,
an arq worker, Stripe) with a Next.js frontend. This directory models the parts
of it that keep state over several steps and several actors, checks them with
TLC on small instances, and proves the most important results for every
instance with TLAPS.

Contents: [Inventory](#1-inventory), [Plan](#2-plan),
[Modules and the code](#3-modules-and-the-code),
[What the runs check](#4-what-the-runs-check),
[Fairness](#5-fairness), [What is proved](#6-what-is-proved),
[Deviations](#7-where-the-code-departs-from-its-documents),
[What is not modelled](#8-what-is-not-modelled),
[Running it](#9-running-it).

Paths are relative to `src/backend/src/wxcode_adm/` unless they start with
`src/`.

## 1. Inventory

The backend is a set of FastAPI routers over service functions. Every request
runs in one database session (`dependencies.py: get_session`): the session
commits when the handler returns and rolls back when it raises anything, an
HTTP error included. Redis commands take effect at once and are not rolled
back. PostgreSQL runs in READ COMMITTED isolation, the code takes no row locks
(`FOR UPDATE` occurs nowhere), and several requests and the worker run at once.
These four facts are where most of the hard behaviour comes from.

| Component | State it keeps | Operations | Talks to |
|---|---|---|---|
| Tokens and sessions (`auth/service.py`, `auth/dependencies.py`, `users/service.py`, `admin/service.py`) | `refresh_tokens`, `user_sessions`, password hash and reset flag; Redis replay keys and access-token blacklist | login, refresh with rotation, logout, password reset and change, session revocation, admin login/refresh/logout, forced reset, mass revocation | every component that must end sessions: tenants (suspension, MFA enforcement), billing (failed payment) |
| Tenants and members (`tenants/service.py`, `tenants/dependencies.py`) | tenant flags, memberships and their block, invitations, one ownership transfer per tenant | workspace creation, role change, removal, leaving, invite/cancel/accept, auto-join at verification, transfer, administrator's block/suspend/delete | email verification calls auto-join; billing supplies the member cap |
| Subscriptions (`billing/service.py`, `billing/webhook_router.py`, `tasks/worker.py`) | `tenant_subscriptions`, `webhook_events`, the job queue | checkout, webhook delivery and redelivery, five event handlers | Stripe; ends sessions when a payment fails |
| Email codes (`auth/service.py`) | Redis code, attempt counter, cooldown; `email_verified` | signup's code, verify, resend | tenants (auto-join) |
| Two-factor authentication (`auth/service.py`, `tenants/service.py`) | secret, enabled flag, backup codes, trusted devices; Redis pending logins and replay key; tenant enforcement | enrol, confirm, disable, two-step login, trust a device, enforce | login, tenants |
| Browser token store (`src/frontend/src/lib`, `src/frontend/src/providers`) | token pair in memory, refresh token in localStorage (admin) | call with silent refresh and retry, login, logout, restore | the token endpoints |
| Account linking (`auth/service.py`, `users/service.py`) | users, `oauth_accounts` (UNIQUE per provider identity and per user and provider); Redis link tokens | signup, provider callback (open an account, offer a link, conflict), confirm link, address change, password reset | the providers; a known identity logs in through the token component |
| wxcode hand-over (`auth/service.py`, `auth/router.py`, `admin/service.py`) | tenant claim of each access token, `last_used_tenant_id`, `wxcode_url`, suspension; Redis one-time codes | login and its redirect, exchange, the engine's refreshes, suspension | tokens, members, the tenants' wxcode engines |
| Plans (`billing/service.py`) | plan rows, and at Stripe a product and two prices for each | create, update, delete; free subscriptions and checkouts that refer to a plan | Stripe, subscriptions, workspace creation |
| Limits (`billing/dependencies.py`) | nothing of their own | member cap, token quota | plans, members |
| Provisioning, profile, audit, dashboard, mail, rate limits | single rows, files, logs | single-row updates, listings | |

Hard behaviours, and what makes each component correct:

- **Tokens.** Requests of one account overlap; Redis and the database disagree
  after a rollback; keys and tokens expire at different times. Correct when an
  ordinary account has one live refresh token, each live token descends from an
  authentication under the present password, a consumed token is recognised and
  no other is, session rows and live tokens agree, revoked access tokens stay
  refused, and a forced reset is left only through a mailed link.
- **Membership.** Transfers and invitations outlive the membership they were
  made for, and handlers write to rows they read earlier. Correct when a tenant
  has one owner at all times, ownership moves only as offered and accepted, a
  link admits once, and nobody acts beyond his standing.
- **Billing.** Stripe delivers at least once and in any order, jobs run
  concurrently, a worker may die at any point. Correct when an event takes
  effect once, the row says what Stripe's state means when events came in order,
  and no event is left behind by duplicates and crashes.
- **Email codes.** Checks and counters are separate Redis commands with separate
  expiries. Correct when a code meets three wrong guesses, the counter belongs
  to the stored code, and the addressee gets verified once nobody guesses any
  more.
- **MFA.** Reads are separated from commits, several keys expire on their own,
  and enrolments can be abandoned. Correct when the enabled secret is the
  confirmed one, a backup code or pending login is spent once (and by overlapping
  requests no more often than there are of them), and an enrolled owner can
  always get in again.
- **Browser.** Calls overlap at every await; answers get lost after the server
  acted; the server answers before it commits. Correct when a tab keeps a live
  session, a logout the server took is complete, and a tab leaves a session that
  has ended.

`PROJECT.json` lists 40 hazards by source line with the properties that cover
each, and says why where none does.

## 2. Plan

The modules were written in this order, the most important behaviour first.

1. `Sessions`, then `SessionRace` for the same handlers at the grain of single
   statements, and `Chains`, the abstract specification of both.
2. `Membership` with the abstract specification `Ownership` it implements, then
   `MembershipRace`.
3. `Billing`.
4. `Otp`, `Mfa`.
5. `TokenClient`, the browser against the server's refresh and logout.
6. `Plans`; `OAuthLink` with the abstract specification `Bindings` it implements;
   `Handover`.
7. The `...Proofs` modules, one per component or per pair of neighbouring
  components: `BillingProofs` is about `Billing` and `Plans`, `HandoverProofs`
  about `Handover` and `TokenClient`, `MembershipProofs` about `Membership` and
  `Mfa`, and the others about the module they are named after.

Composition: `Sessions` and `SessionRace` instantiate `Chains`, `Membership`
instantiates `Ownership` and `OAuthLink` instantiates `Bindings`. The detailed models share the token vocabulary but are checked apart,
because a product of them only multiplies states: where one component acts on
another, the effect is an action of the affected one. `RevokeMembers` and
`EnforceMfa` of `Sessions` are what billing and tenants do to tokens,
`VerifyEmail` of `Membership` is what verification does to invitations,
`BootstrapFreeSubscription` and `CheckoutCompleted` of `Plans` are what workspace
creation and billing do to plans, and `Suspend` and `Join` of `Handover` are what
administrators and members do to a user on the way to an engine.

## 3. Modules and the code

`PROJECT.json` maps each definition to its lines. In all modules an action is a
whole handler, or a whole step of one where a module's header says the grain is
finer; guards are the handler's conditions and early returns. Error paths have
no action where they change nothing, since `get_session` rolls them back.
Definitions whose name starts with `Mut` are mutated forms used to confirm that
a property can fail; nothing else refers to them.

**Sessions.** A *grant* is one issuance: refresh token, access token and jti
share its name. `rows` is `refresh_tokens`, `session[g]` the `user_sessions` row
attached to it (deleted with it by the foreign key), `shadow` and `blacklist`
the Redis keys, `stale` and `elapsed` the expired access and refresh tokens.
Passwords are numbered; `links` holds reset links with the hash that salts them.
Each handler is one action; `Login` is every path into `_issue_tokens`. The
actions named `...Fails` are requests that are rolled back after they have
written to Redis: replay keys and blacklist entries stay, the rows do too.
History: `authPw` (under which password a chain authenticated), `ended` (how a
row went), `spoiled` (the tokens whose replay key such a request left behind)
and `rollbacks`.

**SessionRace.** The same tables with each request in three steps: `...Read`
(SELECTs, checks and Redis writes), `Scan` (the snapshot of its DELETE) and the
commit. Under READ COMMITTED a DELETE skips rows another transaction has
deleted, and an ORM delete that matches no row only warns.

**Chains.** What refresh tokens promise: a token is issued once, to one account,
at the head of a chain that began with an authentication under some password; a
login replaces the tokens of the account, a rotation one live token by another
of its chain, and a new password leaves at most the chain of the caller.
`Sessions` implements it under `live <- rows, account <- sub, version <-
authPw`, with `Admins <- Superusers` for the administrators who log in beside
their other tokens. `SessionRace` does not, since overlapping requests of an
account are not atomic; `SerialRequestsAreAtomic` says that the others are:
`WholeEffect(p)` is the step of `Chains` that belongs to the request.

**Membership.** One tenant (tenants share no rows). `Admitted` is
`get_tenant_context` with `require_role`; `invitation[u]` and `transfer` are
single records since the tables have UNIQUE constraints. Invitation links are
numbered per address, so that an old link and a new one differ.

**Ownership.** What members may rely on: the tenant is founded by someone, the
owner offers, the heir takes. Nothing else moves ownership. `Membership`
implements it under `owner <- TheOwner, heir <- transfer.to`.

**MembershipRace.** Five handlers as `Read` and commit. SQLAlchemy's unit of
work is modelled from its use: only changed attributes are written, an UPDATE
that matches no row fails the request, a DELETE that matches none does not.

**Billing.** Stripe (external, modelled from the events the code handles) moves
subscriptions through its own statuses and emits, for a change, the reason
(checkout, paid, failed) and the update in either order; `stage[e]` follows an
event through delivery, queue and worker; `Start` is the idempotency check and
the handler's SELECT, `Commit` the UPDATE of the changed columns and the
`webhook_events` row. `Mapped` is the conversion of a status
(`billing/service.py:765`): trialing counts as active, `incomplete_expired` as
canceled, and for one the code does not know the row keeps its status while the
period is stored. `shown[s]`, a history, is what `s` last was that the row has a
word for. A checkout starts as `active`, since the code asks for no trial; later
changes go through every status.

**Otp.** One action per Redis command: `Get`, `Incr`, `Drop`, `Spend` of
`verify_otp_code`, `SetCode`, `SetAttempts`, `SetCooldown` of
`create_verification_code`. The counter's expiry is tracked relative to the
code's, because `INCR` on a missing key creates one without expiry. Wrong guesses are
not bounded.

**Mfa.** A request reads first and commits later; `Consume` is the Redis part of
`mfa_verify` in between. A TOTP code is its secret and its age in 30-second
steps; it is valid from age -1 to 1 (`valid_window=1`).

**TokenClient.** A call is in one of three awaits (`request`, `refresh`,
`retry`); the server serves it, then the continuation runs. `portal` is chosen
at the start and selects between the two clients, which differ in localStorage
and in what a failed refresh does. What a request does to `refresh_tokens` is a
member of `uncommitted` until `Commit`, after its answer; requests served
meanwhile do not see it, and `CommitFails` drops it. `live` are the rows that
exist and have not expired (`RefreshExpires` takes any of them, one the tab
holds included; the server refuses both kinds alike). `Refuse` is the limiter's
429 or a server error at any of the three awaits: nothing changes at the server
and the call fails, a refused logout included, whose tab clears its tokens all
the same. `ServeNormal` may answer 401 to a valid token, as a wrong password
does. `past` is the tab's history: whether calls overlapped or something failed
(`disturbed`), a request ran into an open transaction (`hurried`), the last thing
the server took was a logout (`loggedOut`), and which rows expired since the last
pair was made (`lapsed`).

**Plans.** A fee is what the plan row says, a price what Stripe charges:
`Charge` takes the monthly fee and the overage rate to Stripe's unit, as the code
hands them over. `Begin` is the SELECT of an administrator's request and the list of
Stripe calls (`todo`) it will make, `CallStripe` one of them, `Commits` the
UPDATE of the changed columns; `StripeFails` is a call that raises, with or
without effect, after which the rest is skipped and the row committed, and
`RollsBack` a request that ends without a commit. `prices` only grows, as at
Stripe, and a price's id is its place. `stale[p]` and `disturbed` are history:
the fees whose last change failed or overlapped another, and the plans at which
something was left half done. A checkout reads the row and opens its session in
two steps (`ReadCheckout`, `OpenSession`).

**OAuthLink.** `user[u]` is a row with address and password, `acct[i]` the user
of identity `i`'s `oauth_accounts` row, `link[l]` the Redis key of link token
`l`. Requests that check uniqueness and insert are one action, since the UNIQUE
constraints decide at their commit; `confirm_oauth_link` is three: its reads
(`ReadConfirm`), the `DEL` of the token (`SpendLink`), and the INSERT
(`CommitConfirm`, or `ConfirmRefused` on an `IntegrityError`). `proven` records
whose password was shown for which identity.

**Bindings.** What signing in with a provider promises: an account is opened, or
opened with an identity, or consents to an identity and is bound to it; no
identity changes hands. `OAuthLink` implements it under `accounts <- {u \in Users
: Exists(u)}, owner <- acct, consents <- proven`.

**Handover.** One user, several tenants. A login is three steps: `LoginIssues`
(the pair and its tenant claim), `LoginAnswers` (the redirect and the code in
Redis), `LoginCommits` or `LoginFails`. `engine[t]` is the pair the engine of
`t` holds; it came by `Exchange` and is replaced by `EngineRefreshes`. `kept[k]`
is history: the memberships that lasted since the login that led to pair `k`.

## 4. What the runs check

Distinct states are those TLC reports. The longest runs (`sessions`,
`token_client`) take about three minutes with two workers.

| Run | Instance | States | What it shows |
|---|---|---|---|
| `sessions` | an account and an administrator, 3 grants, 2 passwords, 1 expiry or rollback | 937,380 | `SingleSession`, `SessionsMirrorTokens`, `LiveTokensAreCurrent`, `ReplayExact`, `RevokedStaysUnusable`, `ForcedResetByLink`, and the refinement `ChainsAreKept` |
| `session_race` | 2 accounts, 3 overlapping requests | 17 thousand | what every interleaving keeps: `SerialAccountsAreSafe`, `RevocationReachesKnown`, `SerialRequestsAreAtomic` |
| `membership` | 3 accounts, cap 2, 2 invitations per address | 247,190 | `OneOwner`, `TransferNamesOwner`, `LinkAdmitsOnce`, `StandingBoundsActions`, and the refinement `OwnershipIsKept` |
| `membership_race` | 3 members, 3 requests of any of the five kinds | 50 thousand | `FounderOwnsUntilTransfer`, `SerialTransfersAreSafe`, `AcceptFailsOnlyOnDeparture` |
| `billing` | a tenant that is new or subscribed, 2 subscriptions, 4 events, 2 jobs at once, 1 failing job, duplicate or crash | 583,872 | `AppliedOnce`, `SyncedInOrder`, and the liveness of `EventsTakeEffect` |
| `plans` | 1 plan, 1 tenant, 2 requests at once, fees free or not, 6 prices, 1 failed call or rollback | 1.09 million | `PricesFollowFees`, `NothingElseIsSold`, `SessionsFollowFees` |
| `otp` | 2 requests at once, 3 codes, any number of wrong guesses, 1 expiry or failure | 562,893 | `SerialGuessesAreBounded`, `CounterCountsGuesses`, and the liveness of `EventuallyVerified` |
| `mfa` | 2 requests at once, 2 secrets, 1 backup code, 1 pending login, 1 failure | 267,248 | `SerialSecretIsConfirmed`, `SpendingIsBounded`, and the liveness of `EnrolledOwnerReturns` |
| `token_client` | either portal, 2 calls, 3 pairs, 1 open transaction, 1 fault | 555,551 | `SerialTabKeepsSession`, `SerialLogoutIsComplete`, and the liveness of `DeadSessionIsLeft` |
| `oauth` | 2 accounts, 2 addresses, 1 password, 2 identities of one provider, 2 link tokens, 2 confirmations at once, 1 failure | 454,620 | `LinkIsSpentOnce`, the refinement `IdentitiesAreBound`, and the liveness of `LinkingSucceeds` |
| `handover` | 2 tenants, 3 token pairs | 2.27 million | `EngineTokenNamesItsTenant`, `CodeDeliversOnce` |
| `MembershipRace_TransferLeavesOneOwner` | 4 requests on transfers | violated | an acceptance overlapping another transfer leaves two owners |

Each module states one type invariant. The runs do not check it, since it is
proved for every module (section 6).

Properties named `Serial...` hold under the condition that requests (of the
account, or on transfers) did not overlap; the condition is a history variable,
so that the same run contains the overlapping behaviours too, and what those
keep is stated by the unconditional properties beside them. `Plans` does the
same with `stale` and `disturbed`, plan by plan and fee by fee: a fee leaves
`stale` again with the next change that goes through.

**Why the bounds are enough.** A property of two actors needs those two and one
more that neither names; the instances have that, or a further actor has nothing
to do that those two cannot. Three grants are a chain with a consumed, a current
and a foreign token, or two rotations; two passwords are the old and the new one;
one observed expiry separates the order of the expiries of a token and of its
key, and one rolled-back request leaves a key to every later step. Three requests are two that collide and one before, between or after them.
Two invitation links are an old and a newer one. Four events are two reports of
one change interleaved with two of another, or a checkout, its update and what
follows. Two calls of a tab
collide once per refresh; three pairs are the one the tab holds, the one a call
carries and a new one (`PairsLast` keeps one for the refresh under way). One
open transaction is one that the next requests run into; a request that would
open a second waits, so the run does not show two at once, while the theorems
about the tab hold for any `MaxOpen`. Six
prices are a plan's two and those of two updates, overlapping or one after the
other; plans share nothing, so one is enough. Two identities of one provider
compete for one account, and one identity for two accounts. Three pairs of the
hand-over are one at an engine, its refresh, and a login in between. `MaxFaults`
and `MaxMishaps` bound how often something fails; one failure reaches each step
at which it can happen. Pools that are used up (grants, events, requests, pairs,
prices) stop a behaviour: the runs `billing`, `session_race`, `membership_race`,
`plans`, `handover`, `oauth` and `otp` disable the deadlock check for that
reason, or because a verified account or one with nothing to link has nothing
left to do; in all others it is on.

Symmetry is used in runs without liveness only, over sets whose members the
specification does not tell apart.

## 5. Fairness

| Run | Assumed | Because |
|---|---|---|
| `billing` | weak fairness of delivery, job start, job end | Stripe retries until it gets a 200; arq polls its queue and `max_jobs` bounds only how many run at once; a handler returns or raises. Nobody repeats a job that raised, so `EventsTakeEffect` leaves its event out |
| `otp` | weak fairness of each request's steps and of the cooldown's TTL; strong fairness of the addressee's submitting the mailed code and asking for another | a request runs to its end; Redis expires keys; the addressee is the one who wants to be verified, and the endpoints are disabled while the cooldown runs, so weak fairness would assume nothing. `EventuallyVerified` is conditional on the guessing stopping: `/verify-email` has no limit of its own beyond the global one (`auth/router.py:137`) and three wrong guesses drop the stored code (`auth/service.py:174`), so that who goes on guessing keeps the addressee from being verified |
| `mfa` | weak fairness of requests, clock and TTLs; strong fairness of the owner's logging in, submitting and enrolling | as above |
| `token_client` | weak fairness of the steps of the calls; strong fairness of starting some call and of the server's taking some request | fetches settle with an answer or an error; a session matters only to a user who goes on using the pages, and each of them calls; the limiter's window passes, so that it does not refuse for ever |
| `oauth` | weak fairness of each confirmation's steps and of the link tokens' TTL; strong fairness, for each identity, of the offer of a link and of a confirmation with the right password | a request runs to its end; Redis expires keys; the one who wants to sign in comes back and knows the password, but addresses, passwords and tokens change meanwhile, so the steps are not enabled all the time. `LinkingSucceeds` promises nothing where the identity's address has for ever stopped to be that of an account with a password and room for it |

`EventsTakeEffect` says that a moment comes at which every event that was
delivered to the queue, and whose job did not raise, has taken effect; such a
moment exists because `MaxEvents` ends Stripe's events.

No fairness is assumed of failures, of wrong guesses, of Stripe's changes, of
resets or of any other actor's choice.

## 6. What is proved

Every safety property the runs check is proved for all values of the constants
that satisfy the named assumptions. These are no more than that the null values
and the names of requests are not members of the other sets, that bounds and fees
are natural numbers, that only finitely many requests overlap at one account
(`Mfa`), and what the sets of roles and providers contain:

| Theorem | States | Argument |
|---|---|---|
| `SessionsProofs!TypeCorrect` | `Spec => []TypeOK` | one lemma per handler |
| `SessionsProofs!ChainsAreCurrent` | `Spec => []LiveTokensAreCurrent` | not inductive by itself: a rotation signs a *new* grant for the account in the old one's `sub`. `IInv` adds `Issued`, that a live row's grant was signed, so that a fresh grant is none of the live ones and their `authPw` stays. Only resets and changes of a password change `passwd`, and they delete all rows of the account but the caller's, whose `authPw` moves along |
| `SessionsProofs!OneSessionPerAccount`, `SessionsAreTokens`, `ReplayIsExact` | `Spec => []SingleSession`, `[]SessionsMirrorTokens`, `[]ReplayExact` | a second invariant `SInv`, on top of `IInv`: these three hold together with `NotEnded` (a row, or a grant nobody signed yet, never ended), because a login or rotation gives a fresh grant a row, a session and no replay key, and what it consumes must have had a row to get its key. `ReplayIsExact` says that a token has a replay key exactly if a rotation or login consumed it, or one that was rolled back left the key (`spoiled`) |
| `SessionsProofs!RevocationsLast` | `Spec => []RevokedStaysUnusable` | `Usable` also looks at the forced-reset flag, which can fall, so the property would break at a reset; `SInv` has the stronger `RevokedIsCut`: a revoked grant is an administrator's, or its access token is blacklisted or past its expiry, and a blacklist key lives as long as its token |
| `SessionsProofs!ForcedResetsUseTheLink` | `Spec => ForcedResetByLink` | an action property: the steps that change a password while a reset is pending redeem a link salted with the stored hash |
| `SessionsProofs!SessionsKeepChains` | `Spec => ChainsAreKept` | one step of `Chains` per request, a stutter for keys, links and clocks. Revoking the other sessions needs `SInv`: a caller whose access token belongs to no session has no row to be spared |
| `SessionRaceProofs!SessionRaceIsTyped`, `RevocationsReachKnown` | `Spec => []TypeOK`, `[]RevocationReachesKnown` | no row comes back: a request inserts the one row that has its name, in the step that ends it (`KnownAreIssued`), and its DELETE reaches what is left of what it knew (`DoomReachesKnown`) |
| `SessionRaceProofs!SerialAccountsStaySafe` | `Spec => []SerialAccountsAreSafe` | for an account whose requests did not overlap, what the request in flight read still holds at its commit (`AloneIsCurrent`), and requests of other accounts delete other rows (`DoomedAreOwn`) |
| `SessionRaceProofs!SerialRequestsRunAtomically` | `Spec => SerialRequestsAreAtomic` | by the same invariants the rows such a request deletes are, at its commit, all the rows of its account, and the token it inserts is nobody's before (`Fresh`) |
| `MembershipProofs!MembershipTypeCorrect` | `Spec => []TypeOK` | |
| `MembershipProofs!ExactlyOneOwner`, `TransfersAreTheOwners` | `Spec => []OneOwner`, `[]TransferNamesOwner` | each needs the other: an acceptance demotes the transfer's giver, who must be the owner; an offer names the owner. Both need `InvitationsNeedMembers` (nobody joins a tenant without an owner). Every action is one of four kinds, `Founds`, `Offers`, `Hands`, `Keeps` (`StepKinds`), and each kind keeps the conjunction |
| `MembershipProofs!MembershipKeepsOwnership` | `Spec => Promise!Spec` | the four kinds map to `Found`, `Offer`, `Take` and a stutter of `Ownership`, by the same invariant |
| `MembershipProofs!LinksAdmitOnce` | `Spec => LinkAdmitsOnce` | `LinksAreFresh`: a link that may still admit is the newest sent to its address and was not spent, and links are numbered upwards, so that a new one was never spent |
| `MembershipProofs!StandingIsKept` | `Spec => StandingBoundsActions` | the admission checks, and `BlocksAreMembers`: a block goes with its membership, so that a blocked user is no outsider whom an invitation would let act |
| `MembershipRaceProofs!MembershipRaceIsTyped`, `AcceptsFailOnDeparture` | `Spec => []TypeOK`, `[]AcceptFailsOnlyOnDeparture` | nobody joins in this model, so a lost role means a removal or departure that committed (`AbsentAreGone`) |
| `MembershipRaceProofs!FounderOwnsFirst` | `Spec => []FounderOwnsUntilTransfer` | until a transfer commits, no request in flight has the founder as its target (`FounderIsSpared`): the guards it passed spared the only owner there was |
| `MembershipRaceProofs!SerialTransfersStaySafe` | `Spec => []SerialTransfersAreSafe` | while no acceptance overlapped another request, what each request in flight read of owner and transfer still holds (`AloneIsCurrent`) |
| `BillingProofs!EventsApplyOnce` | `Spec => []AppliedOnce` | the invariant adds `RunningIsNew`: the event of a job that runs is not recorded yet, which the idempotency check establishes and which lasts because an event has one job (the job id is the event id) |
| `BillingProofs!BillingIsTyped` | `Spec => []TypeOK` | what a handler makes of an event needs the event to be there, so the invariant adds that only emitted events have a stage |
| `BillingProofs!OrderedEventsSyncTheRow` | `Spec => []SyncedInOrder` | the property speaks of moments at which nothing is on its way, the invariant `OInv` of every moment. About Stripe's log (`Reported`): the last event of a subscription that the row has a word for tells what it shows, and the last update its period. About the order (`NoneOvertaken`, `RunningIsCurrent`): the events recorded are the first ones, and a running job has read the row as it is. About the row (`RowFollows`): its status is what Stripe last showed unless some event of its subscription is unapplied, its period Stripe's unless an update is, or the update came before the checkout that made the row know the subscription (`PeriodTold`). A commit that applies the last of them brings the row in line; any other leaves one unapplied |
| `BillingProofs!PlansAreTyped` | `PlansSpec => []PlansTypeOK` | |
| `BillingProofs!PlansPricesFollow`, `PlansSellNothingElse` | `PlansSpec => []PricesFollowFees`, `[]NothingElseIsSold` | what holds when a request commits is the sum of its Stripe calls, so the invariant follows its remaining ones: a fee's new price is the last call about it and comes after the archiving of the one it replaces (`WellFormed`), an id changes only with its call (`Synced`), ids stay with their plan (`Own`). A request alone at its plan has read the row there is (`Alone`), and what is neither to come nor out of line has its price already; on a plan nothing went wrong at, only the prices its new row will list are on sale (`Undisturbed`) |
| `BillingProofs!CheckoutsFollowFees` | `PlansSpec => []SessionsFollowFees` | on top of that, per tenant: a price read in a clean moment that is still on sale is the row's, and that of every request which has read the row since (`CheckoutInv`), because a price is archived before the row names the next one |
| `OtpProofs!OtpIsTyped` | `Spec => []TypeOK` | a request between the choice of a new code and its mail carries that code |
| `OtpProofs!CounterIsExact`, `SerialGuessesStayBounded` | `Spec => []CounterCountsGuesses`, `[]SerialGuessesAreBounded` | while requests come one at a time the one in progress is the only one (`Alone`), and the counter equals the guesses at the stored code except within three of its steps (`CounterFollows`): between a comparison and its `INCR` it is one behind, after the third guess it awaits the drop, and after a new code was stored it is still the old one's. A counter cannot expire before its code but in the last of these, and a code on its way to Redis was guessed at by nobody (`NewCodesAreFresh`) |
| `MembershipProofs!MfaIsTyped` | `MfaSpec => []MfaTypeOK` | |
| `MembershipProofs!SerialEnrolmentsAreConfirmed` | `MfaSpec => []SerialSecretIsConfirmed` | while requests come one at a time, one about to commit a secret found the factor off, and one about to confirm has read the secret the account still holds (`OneAtATime`) |
| `MembershipProofs!CodesAreSpent` | `MfaSpec => []SpendingIsBounded` | logins completed with a code or token are counted together with the requests that passed its check and have not committed (`Counted`): the sum stays within 1, or the number of requests once some overlapped, and an unspent code has completed none. The sums are cardinalities of finite sets of requests |
| `OAuthLinkProofs!OAuthLinkIsTyped`, `LinkTokensAreSpentOnce` | `Spec => []TypeOK`, `[]LinkIsSpentOnce` | overlapping confirmations of one token agree on the identity (`OneIdentity`), and once one of them committed that identity is bound (`MadeIsBound`), so that the UNIQUE constraint refuses the others |
| `OAuthLinkProofs!OAuthLinkImplementsBindings` | `Spec => Promise!Spec` | a confirmation under way has shown the password (`RequestsAreProven`), and identities, tokens and confirmations refer to users that exist (`OwnersExist`) |
| `HandoverProofs!HandoverIsTyped`, `CodesDeliverOnce` | `Spec => []TypeOK`, `[]CodeDeliversOnce` | a pair no login has wrapped yet is held by nobody and has no code (`FreshPairs`); a pair with a code was not exchanged (`CodesAreFresh`) |
| `HandoverProofs!EngineTokensNameTheirTenant` | `Spec => []EngineTokenNamesItsTenant` | what a login claims and where it redirects agree while memberships are unbroken (`LoginAgrees`); its commit makes the last used tenant that of the engine it was sent to (`RowIsLastUsed`), so that a refresh claims that tenant again |
| `HandoverProofs!TokenClientIsTyped` | `TCSpec => []TCTypeOK` | |
| `HandoverProofs!SerialTabsKeepTheirSession` | `TCSpec => []SerialTabKeepsSession` | the property speaks of a tab at rest; `SerialTab` says for every moment of a call where the tab's refresh token is (`Current`): in the tab, or in the answer of a refresh that is to be stored. That token has a row, is about to be committed one, or has expired, and no open transaction ends it (`Safe`), until a logout was taken (`LogoutServed`) |
| `HandoverProofs!SerialLogoutsAreComplete` | `TCSpec => []SerialLogoutIsComplete` | on top of that, what will be left of the rows when the open transactions have ended (`Remaining`): nothing but the tab's token while one of its calls runs, and nothing once the server took a logout. A request that ran into no open transaction opens the only one, so that it decides alone what remains (`OpensAlone`) |

Model-checked only: the five liveness properties (`EventsTakeEffect`,
`EventuallyVerified`, `EnrolledOwnerReturns`, `DeadSessionIsLeft`,
`LinkingSucceeds`). Liveness under fairness and `ENABLED` are out of the prover's
reach. No module uses `RECURSIVE`, and no proof needs induction over data.

## 7. Where the code departs from its documents

One disagreement is a run (section 4). The others below were met while
translating the code and are built into the models, which therefore describe
what the code does.

- Logout: `blacklist_access_token` (`auth/service.py:345`) decodes without an
  audience, PyJWT refuses tokens that carry one, and the access token is not
  blacklisted (`LogoutBlacklists`); `src/backend/tests/test_auth.py:300` expects
  that it is.
- Replay: the full logout announced at `auth/router.py:371` is rolled back by
  the exception that reports the replay (`auth/service.py:434`).
- A login or rotation that is rolled back after `auth/service.py:914` or 602 (its
  flush or its commit fails) leaves the replay key of a token that stays live; its
  holder goes on using it, and once it is gone otherwise, by a logout say, its
  next use is reported as a replay.
- Rotation creates a new session row, because the foreign key has removed the old
  one by `auth/service.py:636`; line 634 says that the session is kept. The jti
  before the rotation is forgotten, so a mass revocation does not reach it.
- Reset: access tokens outlive the re-login forced at `auth/service.py:824`.
- Overlapping requests: two refreshes may rotate one token twice (the second
  DELETE, `auth/service.py:609`, matches no row and only warns), two logins may
  both leave a refresh token, a reset link may be redeemed twice, a login may
  delete a token whose shadow key it did not write, a chain may outlive a reset
  that did not see it.
- Membership: an address with a lapsed or accepted invitation cannot be invited
  again (`tenants/service.py:750`, against line 678); the member cap is looked at
  when inviting, not when accepting (`tenants/router.py:508`,
  `billing/dependencies.py:10`); a removal or a role change that overlaps a
  transfer applies to the new owner (`tenants/service.py:380` and 322).
- Billing: an update that arrives before its checkout event is recorded and
  dropped (`billing/service.py:758`); two checkouts may both complete
  (`billing/service.py:508`); lines 664 and 703 leave a job that raised to arq's
  retry, while arq ends a job that raises anything but `Retry`: nobody
  handles the event any more, unless Stripe delivers it again to an endpoint that
  has answered 200. Where the update comes before its checkout
  event, the row keeps the old period until the next update.
- Fees: `billing/models.py:15` has the overage rate in hundredths of a cent,
  which its own example on line 16 does not bear out; the plan page divides it by 10000
  (`src/frontend/src/app/(app)/billing/page.tsx:127`); `billing/service.py:122` and
  232 send it to Stripe as cents, a hundred times the rate that is listed. `Charge`
  and `Overcharge` of `Plans` keep the factor, and its properties say that prices
  follow the fees in the code's unit, not that they are what the page shows.
- Plans: `billing/service.py:7` and 256 say that a plan is soft-deleted, line 292
  deletes the row; `create_plan` stores no Stripe id at all when any of its calls
  failed, and nothing makes up for it later; an update that names the same fee
  never syncs it; a fee may be raised from nothing under tenants whose free
  subscription names the plan; the payment for a plan deleted meanwhile breaks on
  the foreign key and is not tried again.
- Account linking: `auth/models.py:164` decides on one provider per account, which
  nothing enforces for an account with a password: it may link one identity of
  each.
- Hand-over: `get_redirect_url` sends a user to the last used tenant's engine
  whether or not the user is still a member and the tenant is suspended or
  deleted; a suspended tenant's members are handed over again once they log in
  again. `src/docs/INTEGRATION-CONTRACT.md:90` and 108 say that the API validates
  `X-Tenant-ID` against the token's `tenant_id`; `get_tenant_context` and
  `get_wxcode_config` do not look at the claim. The set of tenant origins for CORS
  is loaded at start and not refreshed.
- Email codes: overlapping submissions are compared before any is counted
  (`auth/service.py:160`), and a late drop removes a newer code (line 176); guesses
  by others can keep an address unverified for as long as they go on (section 5).
- MFA: an enrolment begun before a confirmation and committed after it replaces
  the confirmed secret (`auth/service.py:1483`); overlapping logins may spend one backup code twice (`auth/service.py:1748`);
  the replay key holds the last code only (line 1733); `revoke_trusted_devices`
  has no caller (line 1862); who is asked to enrol at login holds a token that no
  enrolment route takes (line 517, against `tenants/service.py:1058`).
- Browser: a logout that is refused (429 or 5xx) clears the tab and leaves its
  refresh token live (`src/frontend/src/providers/auth-provider.tsx:155`), as does
  one that is served before the commit of the refresh that made the token;
  a retry that fails clears the refreshed pair
  (`src/frontend/src/lib/api-client.ts:82`); overlapping refreshes end the
  session (`src/frontend/src/lib/auth.ts:55`); an admin logout retried after a
  refresh names the rotated token
  (`src/frontend/src/providers/admin-auth-provider.tsx:140`), and the admin
  client keeps dead tokens (`src/frontend/src/lib/admin-api-client.ts:81`).

## 8. What is not modelled

`PROJECT.json` gives each component's status and reason. Left out of the modules
there are:

- Cryptography and formats: signatures, hashing, encryption and JWT encoding are
  taken to work; the one effect of decoding that matters, the audience check, is
  modelled.
- Mail and audit writes: mail is an input (`mailed`, `mail`), an audit row is part
  of its request's transaction.
- Rate limits as counters, and IP allow-lists: where a refusal matters to what
  follows, it is an action (`Refuse` of `TokenClient`), elsewhere it only reduces
  the behaviours.
- Claude tokens, provisioning configuration and activation: single-row updates
  behind `require_admin` and one status check; nothing in this code reads what
  they write, so there is no order of steps to tell apart.
- The providers' protocols, customer portal and creation of Stripe customers:
  calls without state here.
- The token quota, which reads a counter that nothing increments.
- Listings, dashboards, names and avatars: no state relation to check. The change
  of address is `ChangeEmail` of `OAuthLink`.
- Application start-up, seeding and CORS: configuration.
- Serialisation failures of the database other than the ones named, and loss of
  Redis data.

## 9. Running it

    tlc -workers 2 -config MCSessions.cfg MCSessions
    tlapm SessionsProofs.tla

and likewise for the other `MC*.cfg` files and `*Proofs.tla` modules. A mutant
of `PROJECT.json` replaces the body of the definition named under `of` by a use
of the one named under `as`; its property must then be violated.
