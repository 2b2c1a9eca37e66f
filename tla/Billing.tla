------------------------------- MODULE Billing -------------------------------
(***************************************************************************)
(* Subscription state from Stripe webhooks (billing/service.py,            *)
(* billing/webhook_router.py, tasks/worker.py), for one tenant.            *)
(*                                                                         *)
(* Stripe keeps subscriptions and emits events.  The webhook endpoint      *)
(* enqueues an event as an arq job whose job id is the event id.  The      *)
(* worker runs jobs concurrently, each in one READ COMMITTED transaction:  *)
(* Start is its SELECTs, Commit the UPDATE of the columns its handler      *)
(* changed and the INSERT into webhook_events.  Events are numbered in the *)
(* order Stripe emitted them; nothing in the code orders their processing. *)
(*                                                                         *)
(* plan_id is written with stripe_subscription_id and stands for it;       *)
(* tokens_used_this_period is only ever reset, since nothing in the code   *)
(* counts tokens; stripe_customer_id decides nothing here.  What           *)
(* invoice.payment_failed does to the members' tokens is RevokeMembers of  *)
(* Sessions.                                                               *)
(***************************************************************************)
EXTENDS Naturals, Sequences, FiniteSets

CONSTANTS
  Subs,         \* subscriptions a checkout can create at Stripe
  Old,          \* the one the tenant may have had from before
  NoSub,        \* stripe_subscription_id is NULL
  MaxEvents,    \* bound on the number of events Stripe emits
  MaxJobs,      \* max_jobs of the worker
  MaxFaults     \* bound on jobs that raise, duplicate deliveries and worker crashes

ASSUME SubsAssumption == Old \in Subs /\ NoSub \notin Subs
ASSUME BoundsAssumption == {MaxEvents, MaxJobs, MaxFaults} \subseteq Nat

VARIABLES
  stripe,     \* stripe[s]: status of s at Stripe, and its billing period
  events,     \* the events Stripe has emitted
  shown,      \* shown[s]: what s last was at Stripe that the row has a word for (history)
  row,        \* the tenant_subscriptions row
  processed,  \* events with a webhook_events row
  stage,      \* stage[e]: where event e is between Stripe and the worker
  seen,       \* seen[e]: the row as e's running job read it, FreeRow without one
  (* history *)
  applied,    \* applied[e]: how often e's handler took effect
  faults,     \* jobs that raised, duplicate deliveries and crashes
  ordered     \* the events were processed one by one, as emitted

stripeVars == <<stripe, events, shown>>
dbVars == <<row, processed, applied>>
historyVars == <<faults, ordered>>
vars == <<stripeVars, dbVars, stage, seen, historyVars>>

Statuses == {"free", "active", "past_due", "canceled"}
StripeStatuses ==   \* "other" stands for unpaid, paused and incomplete
  {"none", "open", "trialing", "active", "past_due", "other", "canceled",
   "incomplete_expired"}
Subscriptions == [status : StripeStatuses, period : Nat]
Rows == [status : Statuses, sub : Subs \cup {NoSub}, period : Nat]
Events == [type : {"checkout", "updated", "deleted", "paid", "failed"},
           sub : Subs, status : StripeStatuses, period : Nat]
EventIds == 1..MaxEvents

TypeOK ==
  /\ stripe \in [Subs -> Subscriptions]
  /\ events \in Seq(Events)
  /\ shown \in [Subs -> Statuses]
  /\ Len(events) <= MaxEvents
  /\ row \in Rows
  /\ processed \subseteq EventIds
  /\ stage \in [EventIds -> {"none", "emitted", "queued", "running",
                             "committed", "done", "failed"}]
  /\ seen \in [EventIds -> Rows]
  /\ applied \in [EventIds -> Nat]
  /\ faults \in 0..MaxFaults
  /\ ordered \in BOOLEAN

(* bootstrap_free_subscription *)
FreeRow == [status |-> "free", sub |-> NoSub, period |-> 0]

Init ==
  /\ row \in {FreeRow, [status |-> "active", sub |-> Old, period |-> 1]}
  /\ stripe = [s \in Subs |-> IF s = row.sub
                               THEN [status |-> "active", period |-> 1]
                               ELSE [status |-> "none", period |-> 0]]
  /\ events = <<>>
  /\ shown = [s \in Subs |-> row.status]
  /\ processed = {}
  /\ stage = [e \in EventIds |-> "none"]
  /\ seen = [e \in EventIds |-> FreeRow]
  /\ applied = [e \in EventIds |-> 0]
  /\ faults = 0
  /\ ordered = TRUE

-----------------------------------------------------------------------------
(* Stripe *)

Event(type, s, status, period) ==
  [type |-> type, sub |-> s, status |-> status, period |-> period]

Emit(new) ==
  /\ Len(events) + Len(new) <= MaxEvents
  /\ events' = events \o new
  /\ stage' = [e \in EventIds |->
                 IF e \in Len(events) + 1 .. Len(events) + Len(new)
                 THEN "emitted" ELSE stage[e]]
  /\ UNCHANGED <<dbVars, seen, historyVars>>

(* What Stripe's statuses mean for the row; "other" means nothing to it.   *)
Meaning == [trialing |-> "active", active |-> "active", past_due |-> "past_due",
            canceled |-> "canceled", incomplete_expired |-> "canceled"]

Becomes(s, status, period) ==
  /\ stripe' = [stripe EXCEPT ![s] = [status |-> status, period |-> period]]
  /\ shown' = IF status \in DOMAIN Meaning
              THEN [shown EXCEPT ![s] = Meaning[status]] ELSE shown

(* Subscription s takes a status; Stripe reports it and the reason, in     *)
(* either order.                                                           *)
Moves(s, from, status, period, reason) ==
  LET why == Event(reason, s, status, period)
      update == Event("updated", s, status, period)
  IN  /\ stripe[s].status \in from
      /\ Becomes(s, status, period)
      /\ Emit(<<why, update>>) \/ Emit(<<update, why>>)

(* create_checkout_session: refused while a subscription is active. *)
CheckoutAllowed == ~ (row.sub # NoSub /\ row.status = "active")

OpenCheckout(s) ==
  /\ CheckoutAllowed
  /\ stripe[s].status = "none"
  /\ stripe' = [stripe EXCEPT ![s].status = "open"]
  /\ UNCHANGED <<events, shown, dbVars, stage, seen, historyVars>>

PayCheckout(s) == Moves(s, {"open"}, "active", 1, "checkout")
PaymentFails(s) ==
  \/ Moves(s, {"active", "trialing"}, "past_due", stripe[s].period, "failed")
  \/ Moves(s, {"past_due"}, "other", stripe[s].period, "failed")
InvoicePaid(s) == Moves(s, {"past_due", "other"}, "active", stripe[s].period, "paid")
Renew(s) == Moves(s, {"active", "trialing"}, "active", stripe[s].period + 1, "paid")

(* A status changes with no invoice behind it. *)
Turnings == {<<"active", "trialing">>, <<"active", "other">>, <<"other", "active">>,
             <<"other", "incomplete_expired">>}
Turns(s) ==
  \E t \in Turnings :
    /\ stripe[s].status = t[1]
    /\ Becomes(s, t[2], stripe[s].period)
    /\ Emit(<<Event("updated", s, t[2], stripe[s].period)>>)

SubscriptionDeleted(s) ==
  /\ stripe[s].status \in {"trialing", "active", "past_due", "other"}
  /\ Becomes(s, "canceled", stripe[s].period)
  /\ Emit(<<Event("deleted", s, "canceled", stripe[s].period)>>)

-----------------------------------------------------------------------------
(* Delivery: stripe_webhook answers 200 once the job is enqueued. *)

Deliver(e) ==
  /\ stage[e] = "emitted"
  /\ stage' = [stage EXCEPT ![e] = "queued"]
  /\ UNCHANGED <<stripeVars, dbVars, seen, historyVars>>

(* Delivered once more, as a duplicate or because the job had raised.      *)
(* enqueue_job ignores a job id that is queued or running; later, when arq *)
(* has dropped the result, the job runs again.                             *)
DeliverAgain(e) ==
  /\ \/ stage[e] = "done" /\ faults < MaxFaults /\ faults' = faults + 1
     \/ stage[e] = "failed" /\ faults' = faults
  /\ stage' = [stage EXCEPT ![e] = "queued"]
  /\ UNCHANGED <<stripeVars, dbVars, seen, ordered>>

-----------------------------------------------------------------------------
(* The worker: process_stripe_event *)

Running == {e \in EventIds : stage[e] \in {"running", "committed"}}
MayStart(e) == Cardinality(Running) < MaxJobs

(* History: the events before e have taken effect, and no job is running. *)
InTurn(e) == Running = {} /\ 1..e-1 \subseteq processed

MutNoDedup(e) == FALSE   \* mutation: no idempotency check
MutSameObject(e) ==      \* mutation: looked up by the object the event is about
  \E f \in processed : events[f].type = events[e].type /\ events[f].sub = events[e].sub
AlreadyProcessed(e) == e \in processed

(* The idempotency check, and the handler's SELECT. *)
Start(e) ==
  /\ stage[e] = "queued"
  /\ MayStart(e)
  /\ stage' = [stage EXCEPT ![e] = IF AlreadyProcessed(e) THEN "committed"
                                                         ELSE "running"]
  /\ seen' = [seen EXCEPT ![e] = IF AlreadyProcessed(e) THEN FreeRow ELSE row]
  /\ ordered' = (ordered /\ (InTurn(e) \/ AlreadyProcessed(e)))
  /\ UNCHANGED <<stripeVars, dbVars, faults>>

(* customer.subscription.updated: Stripe's status in the row's words; one  *)
(* it has no word for keeps the row's.                                     *)
MutCanceled(status, kept) ==   \* mutation: incomplete_expired is not mapped
  IF status \in {"active", "trialing"} THEN "active"
  ELSE IF status \in {"past_due", "canceled"} THEN status ELSE kept
Mapped(status, kept) ==
  CASE status \in {"active", "trialing"} -> "active"
    [] status = "past_due" -> "past_due"
    [] status \in {"canceled", "incomplete_expired"} -> "canceled"
    [] OTHER -> kept

(* What the handler of event v makes of the row r it read.  Only checkout  *)
(* looks the row up by tenant; the others look for their subscription.     *)
Handled(v, r) ==
  IF v.type = "checkout" THEN [r EXCEPT !.sub = v.sub, !.status = "active"]
  ELSE IF r.sub # v.sub THEN r
  ELSE CASE v.type = "updated" -> [r EXCEPT !.status = Mapped(v.status, r.status),
                                       !.period = v.period]
         [] v.type = "deleted" -> [r EXCEPT !.status = "canceled"]
         [] v.type = "paid" -> IF r.status = "past_due"
                               THEN [r EXCEPT !.status = "active"] ELSE r
         [] v.type = "failed" -> [r EXCEPT !.status = "past_due"]

(* The UPDATE sets the columns the handler changed and leaves the others   *)
(* as they are by then.                                                    *)
Flushed(old, new) == [c \in DOMAIN row |-> IF new[c] = old[c] THEN row[c] ELSE new[c]]

Record(e) == processed' = processed \cup {e}

Commit(e) ==
  /\ stage[e] = "running"
  /\ row' = Flushed(seen[e], Handled(events[e], seen[e]))
  /\ Record(e)
  /\ applied' = [applied EXCEPT ![e] = @ + 1]
  /\ stage' = [stage EXCEPT ![e] = "committed"]
  /\ seen' = [seen EXCEPT ![e] = FreeRow]
  /\ UNCHANGED <<stripeVars, historyVars>>

(* arq removes the job from the queue. *)
Finish(e) ==
  /\ stage[e] = "committed"
  /\ stage' = [stage EXCEPT ![e] = "done"]
  /\ UNCHANGED <<stripeVars, dbVars, seen, historyVars>>

(* The handler raises: rolled back, and for arq the job is over. *)
FailJob(e) ==
  /\ faults < MaxFaults
  /\ stage[e] = "running"
  /\ faults' = faults + 1
  /\ stage' = [stage EXCEPT ![e] = "failed"]
  /\ seen' = [seen EXCEPT ![e] = FreeRow]
  /\ UNCHANGED <<stripeVars, dbVars, ordered>>

(* The worker dies; arq runs the jobs in progress once more. *)
Crash ==
  /\ faults < MaxFaults
  /\ Running # {}
  /\ faults' = faults + 1
  /\ stage' = [e \in EventIds |-> IF e \in Running THEN "queued" ELSE stage[e]]
  /\ seen' = [e \in EventIds |-> FreeRow]
  /\ UNCHANGED <<stripeVars, dbVars, ordered>>

Next ==
  \/ \E s \in Subs :
       \/ OpenCheckout(s)
       \/ PayCheckout(s)
       \/ PaymentFails(s)
       \/ InvoicePaid(s)
       \/ Renew(s)
       \/ Turns(s)
       \/ SubscriptionDeleted(s)
  \/ \E e \in EventIds :
       \/ Deliver(e)
       \/ DeliverAgain(e)
       \/ Start(e)
       \/ Commit(e)
       \/ Finish(e)
       \/ FailJob(e)
  \/ Crash

Spec == Init /\ [][Next]_vars

(* Stripe delivers every event at least once; a running worker takes jobs  *)
(* from the queue and completes them.  Payments, failures, duplicates and  *)
(* crashes may happen or not.                                              *)
Fairness ==
  \A e \in EventIds :
    /\ WF_vars(Deliver(e))
    /\ WF_vars(Start(e))
    /\ WF_vars(Commit(e) \/ FailJob(e))
    /\ WF_vars(Finish(e))

FairSpec == Spec /\ Fairness

-----------------------------------------------------------------------------
(* Properties *)

(* An event takes effect at most once, and exactly when it is recorded,    *)
(* however often it is delivered and wherever the worker crashes.          *)
AppliedOnce == \A e \in EventIds : applied[e] = IF e \in processed THEN 1 ELSE 0

(* Events processed one by one in the order Stripe emitted them leave the  *)
(* row with the last status of the tenant's subscription it has a word for *)
(* and, once Stripe reported an update after the checkout, with its        *)
(* period, with duplicates and crashes on the way.                         *)
Quiet == \A e \in EventIds : stage[e] \in {"none", "done"}
PeriodTold(s) ==
  \A c \in 1..Len(events) :
    events[c].type = "checkout" /\ events[c].sub = s =>
      \E u \in c+1..Len(events) : events[u].type = "updated" /\ events[u].sub = s
SyncedInOrder ==
  ordered /\ Quiet /\ row.sub # NoSub =>
    /\ row.status = shown[row.sub]
    /\ PeriodTold(row.sub) => row.period = stripe[row.sub].period

(* Every event takes effect, through crashes, duplicates and other jobs in *)
(* between, but for one whose job raised: that is over for arq, and only   *)
(* one more delivery brings it back.                                       *)
Undone(e) == stage[e] \notin {"none", "failed"} /\ e \notin processed
EventsTakeEffect == (\E e \in EventIds : Undone(e)) ~> \A e \in EventIds : ~Undone(e)

=============================================================================
