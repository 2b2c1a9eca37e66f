------------------------------- MODULE Plans -------------------------------
(***************************************************************************)
(* The plan catalogue and its copy at Stripe (billing/service.py:          *)
(* create_plan, update_plan, delete_plan, bootstrap_free_subscription,     *)
(* create_checkout_session, _handle_checkout_completed).                   *)
(*                                                                         *)
(* A plan has a row, a product at Stripe and a price for each of its two   *)
(* fees.  A request reads the row, then calls Stripe call by call, each    *)
(* effective at once and for everybody, and commits the row last.  A call  *)
(* that fails is logged and swallowed: the request skips the calls left    *)
(* and commits.  Checkouts of tenants run in between.                      *)
(*                                                                         *)
(* create_plan stores the product, the meter and both prices together or   *)
(* none of them, so that a row without prices has no product either.  A    *)
(* plan here is one row; a slug used again after a deletion is another     *)
(* plan.  Quotas and names are left out, as they reach nobody but readers. *)
(***************************************************************************)
EXTENDS Naturals, Sequences, FiniteSets

CONSTANTS
  Plans,      \* plans that can be created
  Tenants,
  Requests,   \* slots for the administrators' concurrent requests
  None,       \* no request, no checkout, no subscription
  Unborn,     \* a plan not created yet
  Deleted,    \* a plan whose row is gone
  Fees,       \* numbers in the fee columns; 0 is free of charge
  MaxPrices,  \* bound on the prices made at Stripe
  MaxMishaps  \* bound on failing Stripe calls and rollbacks

ASSUME FeesAssumption == Fees \subseteq Nat /\ 0 \in Fees
ASSUME PlansBoundsAssumption == MaxPrices \in Nat /\ MaxMishaps \in Nat

VARIABLES
  plan,      \* plan[p]: its row; Unborn or Deleted without one
  product,   \* product[p]: "none", "active" or "archived" at Stripe
  prices,    \* the prices at Stripe
  sub,       \* sub[t]: the plan of t's subscription row, and if it is paid
  checkout,  \* checkout[t]: the checkout t is at, in the code or at Stripe
  req,       \* req[r]: the request in r
  (* history *)
  stale,     \* stale[p]: fees whose last change failed or overlapped
  disturbed, \* plans some request of which overlapped or went half through
  mishaps    \* failed calls and rollbacks

catalogueVars == <<product, prices>>
pastVars == <<stale, disturbed, mishaps>>
plansVars == <<plan, catalogueVars, sub, checkout, req, pastVars>>

Kinds == {"flat", "overage"}   \* monthly_fee_cents, overage_rate_cents_per_token
NoPrice == 0
Ids == Nat                     \* a price's id is its place in prices
NoPrices == [k \in Kinds |-> NoPrice]
PlanRows == [fee : [Kinds -> Fees], active : BOOLEAN, price : [Kinds -> Ids]]
Prices == [plan : Plans, kind : Kinds, amount : Nat, active : BOOLEAN]
Calls == [do : {"product", "price", "archive", "close"}, kind : Kinds]

TenantSubs == [plan : Plans, paid : BOOLEAN]
Checkouts == [open : BOOLEAN, plan : Plans, price : [Kinds -> Ids],
              fee : [Kinds -> Fees], clean : BOOLEAN]
PlanRequests == [op : {"create", "update", "delete"}, plan : Plans, old : PlanRows,
                 new : PlanRows, todo : Seq(Calls), alone : BOOLEAN]

ASSUME NullsAssumption ==
  /\ Unborn # Deleted /\ {Unborn, Deleted} \cap PlanRows = {}
  /\ None \notin TenantSubs \cup Checkouts \cup PlanRequests

PlansTypeOK ==
  /\ plan \in [Plans -> PlanRows \cup {Unborn, Deleted}]
  /\ product \in [Plans -> {"none", "active", "archived"}]
  /\ prices \in Seq(Prices)
  /\ sub \in [Tenants -> TenantSubs \cup {None}]
  /\ checkout \in [Tenants -> Checkouts \cup {None}]
  /\ req \in [Requests -> PlanRequests \cup {None}]
  /\ stale \in [Plans -> SUBSET Kinds]
  /\ disturbed \subseteq Plans
  /\ mishaps \in 0..MaxMishaps

PlansInit ==
  /\ plan = [p \in Plans |-> Unborn]
  /\ product = [p \in Plans |-> "none"]
  /\ prices = <<>>
  /\ sub = [t \in Tenants |-> None]
  /\ checkout = [t \in Tenants |-> None]
  /\ req = [r \in Requests |-> None]
  /\ stale = [p \in Plans |-> {}]
  /\ disturbed = {}
  /\ mishaps = 0

HasRow(p) == plan[p] \notin {Unborn, Deleted}
Users(p) == {t \in Tenants : sub[t] # None /\ sub[t].plan = p}
InFlight(p) == {r \in Requests : req[r] # None /\ req[r].plan = p}

-----------------------------------------------------------------------------
(* Administrators' requests *)

(* A request on p begins with what it read and the Stripe calls it will    *)
(* make.  Requests on p in flight overlap with it from here on.            *)
Begin(r, op, p, old, new, todo) ==
  LET overlap == InFlight(p) # {} IN
  /\ req[r] = None
  /\ Len(prices) + 2 * (1 + Cardinality({q \in Requests : req[q] # None})) <= MaxPrices
  /\ req' = [q \in Requests |->
       IF q = r THEN [op |-> op, plan |-> p, old |-> old, new |-> new,
                      todo |-> todo, alone |-> ~overlap]
       ELSE IF q \in InFlight(p) THEN [req[q] EXCEPT !.alone = FALSE]
       ELSE req[q]]
  /\ stale' = IF overlap THEN [stale EXCEPT ![p] = Kinds] ELSE stale
  /\ disturbed' = IF overlap THEN disturbed \cup {p} ELSE disturbed
  /\ UNCHANGED <<plan, catalogueVars, sub, checkout, mishaps>>

Call(do, k) == [do |-> do, kind |-> k]

(* The meter is made first and leads nowhere by itself.                    *)
CreatePlan(r, p, fee) ==
  LET row == [fee |-> fee, active |-> TRUE, price |-> NoPrices] IN
  /\ plan[p] = Unborn
  /\ InFlight(p) = {}   \* the unique slug, taken at the flush
  /\ Begin(r, "create", p, row, row,
           <<Call("product", "flat"), Call("price", "flat"), Call("price", "overage")>>)

MutNoResync(old, new, k) ==   \* mutation: compared after the assignment
  IF new.fee[k] # new.fee[k] /\ old.price[k] # NoPrice
  THEN <<Call("archive", k), Call("price", k)>> ELSE <<>>
MutNoArchive(old, new, k) ==   \* mutation: the old price stays on sale
  IF old.fee[k] # new.fee[k] /\ old.price[k] # NoPrice
  THEN <<Call("price", k)>> ELSE <<>>
Resync(old, new, k) ==
  IF old.fee[k] # new.fee[k] /\ old.price[k] # NoPrice
  THEN <<Call("archive", k), Call("price", k)>> ELSE <<>>

UpdatePlan(r, p, fee, active) ==
  LET new == [plan[p] EXCEPT !.fee = fee, !.active = active] IN
  /\ HasRow(p)
  /\ new # plan[p]
  /\ Begin(r, "update", p, plan[p], new,
           Resync(plan[p], new, "flat") \o Resync(plan[p], new, "overage"))

DeletePlan(r, p) ==
  /\ HasRow(p)
  /\ Users(p) = {}
  /\ Begin(r, "delete", p, plan[p], plan[p],
           IF plan[p].price = NoPrices THEN <<>> ELSE <<Call("close", "flat")>>)

(* Both numbers are sent as cents; a price's amount here counts hundredths *)
(* of a cent.                                                              *)
Charge(n) == 100 * n
Amount(q, k) == Charge(q.new.fee[k])

(* What Stripe makes of a call of request q.                               *)
Performed(q, c) ==
  /\ product' = CASE c.do = "product" -> [product EXCEPT ![q.plan] = "active"]
                  [] c.do = "close" -> [product EXCEPT ![q.plan] = "archived"]
                  [] OTHER -> product
  /\ prices' = CASE c.do = "price" ->
                      Append(prices, [plan |-> q.plan, kind |-> c.kind,
                                      amount |-> Amount(q, c.kind), active |-> TRUE])
                 [] c.do = "archive" ->
                      [prices EXCEPT ![q.new.price[c.kind]].active = FALSE]
                 [] OTHER -> prices

CallStripe(r) ==
  LET q == req[r]  c == Head(q.todo) IN
  /\ q # None
  /\ q.todo # <<>>
  /\ Performed(q, c)
  /\ req' = [req EXCEPT ![r].todo = Tail(@),
                        ![r].new.price[c.kind] =
                          IF c.do = "price" THEN Len(prices) + 1 ELSE @]
  /\ UNCHANGED <<plan, sub, checkout, pastVars>>

(* A call raises, before or after Stripe has done what it asks; create_plan *)
(* then stores none of its ids, update_plan those it has.                   *)
StripeFails(r) ==
  LET q == req[r] IN
  /\ q # None
  /\ q.todo # <<>>
  /\ mishaps < MaxMishaps
  /\ mishaps' = mishaps + 1
  /\ \E lost \in BOOLEAN :   \* done, but the answer is lost
       /\ IF lost THEN Performed(q, Head(q.todo)) ELSE UNCHANGED catalogueVars
       /\ disturbed' = IF lost \/ q.op # "update" THEN disturbed \cup {q.plan}
                                                  ELSE disturbed
  /\ stale' = [stale EXCEPT ![q.plan] =
                 @ \cup {k \in Kinds : q.op # "update" \/ \E i \in DOMAIN q.todo :
                                                            q.todo[i].kind = k}]
  /\ req' = [req EXCEPT ![r].todo = <<>>,
                        ![r].new.price = IF q.op = "create" THEN NoPrices ELSE @]
  /\ UNCHANGED <<plan, sub, checkout>>

(* The UPDATE writes the columns that changed.                             *)
Merged(q, row) ==
  [fee |-> [k \in Kinds |-> IF q.new.fee[k] = q.old.fee[k] THEN row.fee[k] ELSE q.new.fee[k]],
   active |-> IF q.new.active = q.old.active THEN row.active ELSE q.new.active,
   price |-> [k \in Kinds |-> IF q.new.price[k] = q.old.price[k] THEN row.price[k]
                                                                 ELSE q.new.price[k]]]

(* Fees that q, with nothing in its way, has brought in line again.        *)
Repaired(q) ==
  IF q.alone THEN {k \in Kinds : q.new.price[k] # q.old.price[k]} ELSE {}

Commits(r) ==
  LET q == req[r] IN
  /\ q # None
  /\ q.todo = <<>>
  /\ \/ /\ q.op = "create"
        /\ plan' = [plan EXCEPT ![q.plan] = q.new]
        /\ UNCHANGED stale
     \/ /\ q.op = "update" /\ HasRow(q.plan)
        /\ plan' = [plan EXCEPT ![q.plan] = Merged(q, @)]
        /\ stale' = [stale EXCEPT ![q.plan] = @ \ Repaired(q)]
     \/ /\ q.op = "delete" /\ Users(q.plan) = {}   \* the foreign key
        /\ plan' = [plan EXCEPT ![q.plan] = Deleted]
        /\ UNCHANGED stale
  /\ req' = [req EXCEPT ![r] = None]
  /\ UNCHANGED <<catalogueVars, sub, checkout, disturbed, mishaps>>

(* The transaction is rolled back: the row to update is gone, a tenant has *)
(* subscribed to the plan to delete, the commit fails, or the process dies *)
(* between two calls.  Stripe is not told.                                 *)
RollsBack(r) ==
  LET q == req[r]
      refused == \/ q.op = "update" /\ ~HasRow(q.plan)
                 \/ q.op = "delete" /\ Users(q.plan) # {}
  IN
  /\ q # None
  /\ \/ q.todo = <<>> /\ refused /\ UNCHANGED mishaps
     \/ mishaps < MaxMishaps /\ mishaps' = mishaps + 1
  /\ req' = [req EXCEPT ![r] = None]
  /\ stale' = [stale EXCEPT ![q.plan] = Kinds]
  /\ disturbed' = disturbed \cup {q.plan}
  /\ UNCHANGED <<plan, catalogueVars, sub, checkout>>

-----------------------------------------------------------------------------
(* Tenants *)

(* create_workspace takes the oldest active free plan; here, any of them.  *)
BootstrapFreeSubscription(t, p) ==
  /\ sub[t] = None
  /\ HasRow(p) /\ plan[p].active /\ plan[p].fee["flat"] = 0
  /\ sub' = [sub EXCEPT ![t] = [plan |-> p, paid |-> FALSE]]
  /\ UNCHANGED <<plan, catalogueVars, checkout, req, pastVars>>

(* create_checkout_session: the guards on what it reads ...                *)
ReadCheckout(t, p) ==
  /\ checkout[t] = None
  /\ sub[t] # None /\ ~sub[t].paid
  /\ HasRow(p) /\ plan[p].active /\ plan[p].fee["flat"] # 0
  /\ checkout' = [checkout EXCEPT ![t] =
       [open |-> FALSE, plan |-> p, price |-> plan[p].price, fee |-> plan[p].fee,
        clean |-> stale[p] = {}]]
  /\ UNCHANGED <<plan, catalogueVars, sub, req, pastVars>>

Sellable(p, ids) ==
  /\ product[p] = "active"
  /\ \A k \in Kinds : ids[k] # NoPrice /\ prices[ids[k]].active

(* ... and the session, which Stripe refuses for what is not on sale.      *)
OpenSession(t) ==
  LET c == checkout[t] IN
  /\ c # None /\ ~c.open
  /\ checkout' = [checkout EXCEPT ![t] =
       IF Sellable(c.plan, c.price)
       THEN [c EXCEPT !.open = TRUE,
                      !.fee = IF HasRow(c.plan) THEN plan[c.plan].fee ELSE @,
                      !.clean = @ /\ stale[c.plan] = {}]
       ELSE None]
  /\ UNCHANGED <<plan, catalogueVars, sub, req, pastVars>>

(* The tenant pays; the event of a plan deleted meanwhile breaks on the    *)
(* foreign key and is not tried again.                                     *)
CheckoutCompleted(t) ==
  LET c == checkout[t] IN
  /\ c # None /\ c.open
  /\ checkout' = [checkout EXCEPT ![t] = None]
  /\ sub' = IF HasRow(c.plan)
            THEN [sub EXCEPT ![t] = [plan |-> c.plan, paid |-> TRUE]] ELSE sub
  /\ UNCHANGED <<plan, catalogueVars, req, pastVars>>

SessionExpires(t) ==
  /\ checkout[t] # None /\ checkout[t].open
  /\ checkout' = [checkout EXCEPT ![t] = None]
  /\ UNCHANGED <<plan, catalogueVars, sub, req, pastVars>>

(* The subscription ends or falls behind; its row keeps naming the plan.   *)
SubscriptionEnds(t) ==
  /\ sub[t] # None /\ sub[t].paid
  /\ sub' = [sub EXCEPT ![t].paid = FALSE]
  /\ UNCHANGED <<plan, catalogueVars, checkout, req, pastVars>>

-----------------------------------------------------------------------------

PlansNext ==
  \/ \E r \in Requests :
       \/ \E p \in Plans, fee \in [Kinds -> Fees] :
            CreatePlan(r, p, fee) \/ \E active \in BOOLEAN : UpdatePlan(r, p, fee, active)
       \/ \E p \in Plans : DeletePlan(r, p)
       \/ CallStripe(r) \/ StripeFails(r) \/ Commits(r) \/ RollsBack(r)
  \/ \E t \in Tenants :
       \/ \E p \in Plans : BootstrapFreeSubscription(t, p) \/ ReadCheckout(t, p)
       \/ OpenSession(t) \/ CheckoutCompleted(t) \/ SessionExpires(t)
       \/ SubscriptionEnds(t)

PlansSpec == PlansInit /\ [][PlansNext]_plansVars

-----------------------------------------------------------------------------
(* Properties *)

(* What a plan lists, in hundredths of a cent: a monthly fee in cents, and *)
(* an overage rate in hundredths of a cent (models.py, and the billing     *)
(* page that tenants see).                                                 *)
Listed(fee, k) == IF k = "flat" THEN 100 * fee[k] ELSE fee[k]

(* The rate is sent without a conversion: tokens cost 100 times the rate.  *)
Overcharge(k) == IF k = "flat" THEN 1 ELSE 100

(* Each fee of a plan has a price at Stripe that follows the row: it       *)
(* charges the monthly fee listed, and 100 times the overage rate listed.  *)
(* A change that failed or overlapped another puts it out of line, and the *)
(* next change of that fee that goes through repairs it.  While no request *)
(* is at the plan, the price can be sold.                                  *)
PricesFollowFees ==
  \A p \in Plans : HasRow(p) => \A k \in Kinds \ stale[p] :
    LET id == plan[p].price[k] IN
    /\ id # NoPrice
    /\ prices[id].amount = Overcharge(k) * Listed(plan[p].fee, k)
    /\ InFlight(p) = {} => prices[id].active

(* A plan whose requests came one at a time, and whose failed calls were   *)
(* refused while updating, is sold at Stripe by its row's prices alone,    *)
(* and not at all once it is deleted: no failure between the two calls for *)
(* a fee leaves two prices on sale.                                        *)
NothingElseIsSold ==
  \A p \in Plans \ disturbed : InFlight(p) = {} =>
    /\ HasRow(p) => /\ product[p] = "active"
                     /\ \A i \in DOMAIN prices :
                          prices[i].plan = p /\ prices[i].active =>
                            i = plan[p].price[prices[i].kind]
    /\ plan[p] = Deleted => product[p] # "active"

(* A checkout that overlaps an update is charged by the fees of the moment *)
(* its session was opened, the overage rate 100-fold: a price is archived  *)
(* before the row changes, so that a row read too early opens no session.  *)
SessionsFollowFees ==
  \A t \in Tenants :
    LET c == checkout[t] IN
    c # None /\ c.open /\ c.clean =>
      \A k \in Kinds :
        prices[c.price[k]].amount = Overcharge(k) * Listed(c.fee, k)
=============================================================================
