---------------------------- MODULE BillingProofs ----------------------------
(***************************************************************************)
(* The proofs about billing: the subscription webhooks (Billing), for any  *)
(* number of subscriptions, events, concurrent jobs, duplicate deliveries  *)
(* and crashes, and below them the plan catalogue (Plans), for any number  *)
(* of plans, concurrent requests, checkouts and mishaps.                   *)
(*                                                                         *)
(* AppliedOnce is not inductive: a job that runs would apply its event a   *)
(* second time if the event was recorded already, so the invariant adds    *)
(* that a running job's event is not recorded (RunningIsNew).              *)
(***************************************************************************)
EXTENDS Billing, Plans, SequenceTheorems, TLAPS

Typed == /\ stage \in [EventIds -> {"none", "emitted", "queued", "running",
                                    "committed", "done", "failed"}]
         /\ applied \in [EventIds -> Nat]

(* The event of a job that has read the database and not committed yet has *)
(* no webhook_events row.                                                  *)
RunningIsNew == \A e \in EventIds : stage[e] = "running" => e \notin processed

IInv == Typed /\ AppliedOnce /\ RunningIsNew

LEMMA InitIInv == Init => IInv
  BY DEF Init, IInv, Typed, AppliedOnce, RunningIsNew

(* Stripe's steps: new events are emitted, none is running. *)
LEMMA EmitKeepsIInv ==
  ASSUME IInv, NEW new, Emit(new)
  PROVE  IInv'
  BY DEF IInv, Typed, AppliedOnce, RunningIsNew, Emit, dbVars

StripeStep(s) ==
  \/ OpenCheckout(s) \/ PayCheckout(s) \/ PaymentFails(s) \/ InvoicePaid(s)
  \/ Renew(s) \/ Turns(s) \/ SubscriptionDeleted(s)

LEMMA StripeKeepsIInv ==
  ASSUME IInv, NEW s \in Subs, StripeStep(s)
  PROVE  IInv'
<1>1. CASE OpenCheckout(s)
  BY <1>1 DEF IInv, Typed, AppliedOnce, RunningIsNew, OpenCheckout, dbVars
<1>2. CASE ~OpenCheckout(s)
  <2>1. PICK new : Emit(new)
    BY <1>2 DEF StripeStep, PayCheckout, PaymentFails, InvoicePaid, Renew, Turns,
       SubscriptionDeleted, Moves
  <2>2. QED  BY <2>1, EmitKeepsIInv
<1>3. QED  BY <1>1, <1>2

(* Steps that move an event's job without touching the database. *)
LEMMA JobKeepsIInv ==
  ASSUME IInv, NEW e \in EventIds,
         \/ Deliver(e) \/ DeliverAgain(e) \/ Start(e) \/ Finish(e)
         \/ FailJob(e)
  PROVE  IInv'
  BY DEF IInv, Typed, AppliedOnce, RunningIsNew, Deliver, DeliverAgain, Start,
         AlreadyProcessed, Finish, FailJob, dbVars

(* Commit records the event and counts its effect, for an event that was   *)
(* not recorded before.                                                    *)
LEMMA CommitKeepsIInv ==
  ASSUME IInv, NEW e \in EventIds, Commit(e)
  PROVE  IInv'
<1>1. e \notin processed /\ applied[e] = 0
  BY DEF IInv, AppliedOnce, RunningIsNew, Commit
<1>2. processed' = processed \cup {e}
  BY DEF Commit, Record
<1>3. applied' = [applied EXCEPT ![e] = 1]
  BY <1>1 DEF Commit
<1>4. stage' = [stage EXCEPT ![e] = "committed"]
  BY DEF Commit
<1>5. QED  BY <1>1, <1>2, <1>3, <1>4 DEF IInv, Typed, AppliedOnce, RunningIsNew

LEMMA CrashKeepsIInv ==
  ASSUME IInv, Crash
  PROVE  IInv'
  BY DEF IInv, Typed, AppliedOnce, RunningIsNew, Crash, dbVars

LEMMA NextIInv == IInv /\ [Next]_vars => IInv'
<1> SUFFICES ASSUME IInv, [Next]_vars PROVE IInv'
  OBVIOUS
<1>1. CASE Next
  BY <1>1, StripeKeepsIInv, JobKeepsIInv, CommitKeepsIInv, CrashKeepsIInv
     DEF Next, StripeStep
<1>2. CASE UNCHANGED vars
  BY <1>2 DEF IInv, Typed, AppliedOnce, RunningIsNew, vars, dbVars
<1>3. QED  BY <1>1, <1>2

(* A Stripe event takes effect at most once, and exactly when it has its   *)
(* webhook_events row, however it is delivered and wherever workers crash. *)
THEOREM EventsApplyOnce == Spec => []AppliedOnce
<1>1. IInv => AppliedOnce
  BY DEF IInv
<1>2. QED  BY <1>1, InitIInv, NextIInv, PTL DEF Spec

-----------------------------------------------------------------------------
(* Types.  What a handler makes of an event needs the event to be there,   *)
(* so the invariant adds that only emitted events have a stage.            *)

Emitted == \A e \in EventIds : stage[e] # "none" => e \in 1..Len(events)

TInv == TypeOK /\ Emitted

LEMMA InitTInv == Init => TInv
  BY SubsAssumption, BoundsAssumption
     DEF Init, TInv, TypeOK, Emitted, FreeRow, Rows, Statuses, Events, EventIds,
         Subscriptions, StripeStatuses

LEMMA HandledIsRow ==
  ASSUME NEW v \in Events, NEW r \in Rows
  PROVE  Handled(v, r) \in Rows
<1>1. Mapped(v.status, r.status) \in Statuses
  BY DEF Mapped, Rows, Statuses
<1>2. QED  BY <1>1 DEF Handled, Events, Rows, Statuses

LEMMA FlushedIsRow ==
  ASSUME NEW old \in Rows, NEW new \in Rows, row \in Rows
  PROVE  Flushed(old, new) \in Rows
  BY DEF Flushed, Rows

(* The words the row has for Stripe's statuses. *)
LEMMA Meanings ==
  /\ DOMAIN Meaning = {"trialing", "active", "past_due", "canceled", "incomplete_expired"}
  /\ Meaning["trialing"] = "active" /\ Meaning["active"] = "active"
  /\ Meaning["past_due"] = "past_due" /\ Meaning["canceled"] = "canceled"
  /\ Meaning["incomplete_expired"] = "canceled"
  BY DEF Meaning

(* A subscription that exists at Stripe. *)
Live == {"trialing", "active", "past_due", "other", "canceled", "incomplete_expired"}

(* What every step of Stripe but the opening of a checkout does: s takes a *)
(* status and a period, and one or two events report it.  Word is what an  *)
(* event makes of the row, Silent the events that may leave the row as it  *)
(* is.                                                                     *)
Told(v) == v.type = "updated" => v.status \in DOMAIN Meaning
Silent(v) == v.type = "paid" \/ ~Told(v)
Word(v) == IF v.type = "updated" THEN Meaning[v.status]
           ELSE IF v.type \in {"checkout", "paid"} THEN "active"
           ELSE IF v.type = "failed" THEN "past_due" ELSE "canceled"

(* The subscription's last status with a word is the present one, if that  *)
(* has a word.                                                             *)
ShownIsCurrent ==
  \A s \in Subs : stripe[s].status \in DOMAIN Meaning => shown[s] = Meaning[stripe[s].status]

Report(s, status, period, new) ==
  /\ Becomes(s, status, period) /\ Emit(new)
  /\ \A i \in 1..Len(new) :
       /\ new[i].sub = s
       /\ Told(new[i]) /\ (\A j \in i+1..Len(new) : Silent(new[j])) =>
            shown'[s] = Word(new[i])
       /\ new[i].type = "updated" => new[i].period = period
  /\ (\A i \in 1..Len(new) : Silent(new[i])) => status \notin DOMAIN Meaning
  /\ (\A i \in 1..Len(new) : new[i].type # "updated") => period = stripe[s].period

LEMMA BecomesShown ==
  ASSUME TInv, NEW s \in Subs, NEW status \in Live, NEW period \in Nat,
         Becomes(s, status, period)
  PROVE  /\ stripe' \in [Subs -> Subscriptions] /\ shown' \in [Subs -> Statuses]
         /\ status \in DOMAIN Meaning => shown'[s] = Meaning[status]
         /\ status \notin DOMAIN Meaning => shown' = shown
         /\ stripe'[s].status = status /\ stripe'[s].period = period
         /\ \A x \in Subs \ {s} : stripe'[x] = stripe[x] /\ shown'[x] = shown[x]
<1>1. stripe \in [Subs -> Subscriptions] /\ shown \in [Subs -> Statuses]
  BY DEF TInv, TypeOK
<1>2. stripe' = [stripe EXCEPT ![s] = [status |-> status, period |-> period]]
  BY DEF Becomes
<1>3. stripe' \in [Subs -> Subscriptions] /\ stripe'[s].status = status
      /\ stripe'[s].period = period /\ \A x \in Subs \ {s} : stripe'[x] = stripe[x]
  BY <1>1, <1>2 DEF Subscriptions, StripeStatuses, Live
<1>4. CASE status \in DOMAIN Meaning
  <2>1. shown' = [shown EXCEPT ![s] = Meaning[status]]
    BY <1>4 DEF Becomes
  <2>2. Meaning[status] \in Statuses
    BY <1>4, Meanings DEF Statuses
  <2>3. QED  BY <1>1, <1>3, <1>4, <2>1, <2>2
<1>5. CASE status \notin DOMAIN Meaning
  BY <1>1, <1>3, <1>5 DEF Becomes
<1>6. QED  BY <1>4, <1>5

LEMMA MovesReport ==
  ASSUME TInv, ShownIsCurrent, NEW s \in Subs, NEW from,
         NEW status \in {"active", "past_due", "other"}, NEW period \in Nat,
         NEW reason \in {"checkout", "paid", "failed"},
         reason # "failed" => status = "active",
         reason = "failed" => status \in {"past_due", "other"},
         status = "other" => stripe[s].status = "past_due",
         Moves(s, from, status, period, reason)
  PROVE  \E new \in Seq(Events) : Len(new) \in {1, 2} /\ Report(s, status, period, new)
<1> DEFINE why == Event(reason, s, status, period)
           update == Event("updated", s, status, period)
<1>1. Becomes(s, status, period) /\ (Emit(<<why, update>>) \/ Emit(<<update, why>>))
  BY DEF Moves
<1>2. why \in Events /\ update \in Events
  BY DEF Event, Events, StripeStatuses
<1>3. /\ why.sub = s /\ why.type = reason
      /\ update.sub = s /\ update.type = "updated" /\ update.status = status
      /\ update.period = period
  BY DEF Event
<1>4. shown'[s] = IF reason = "failed" THEN "past_due" ELSE "active"
  <2>1. status \in Live
    BY DEF Live
  <2>2. status \in DOMAIN Meaning => shown'[s] = Meaning[status]
    BY <1>1, <2>1, BecomesShown
  <2>3. status \notin DOMAIN Meaning => shown'[s] = shown[s]
    BY <1>1, <2>1, BecomesShown
  <2>4. CASE status = "other"
    <3>1. shown[s] = "past_due" /\ reason = "failed"
      BY <2>4, Meanings DEF ShownIsCurrent
    <3>2. QED  BY <2>3, <2>4, <3>1, Meanings
  <2>5. CASE status # "other"
    BY <2>2, <2>5, Meanings
  <2>6. QED  BY <2>4, <2>5
<1>5. Word(why) = shown'[s] /\ (Told(update) => Word(update) = shown'[s])
  <2>1. Word(why) = shown'[s]
    BY <1>3, <1>4 DEF Word
  <2>2. Told(update) => Word(update) = shown'[s]
    BY <1>3, <1>4, Meanings DEF Word, Told
  <2>3. QED  BY <2>1, <2>2
<1>6. ~(Silent(why) /\ Silent(update)) \/ status \notin DOMAIN Meaning
  BY <1>3 DEF Silent, Told
<1> HIDE DEF why, update
<1>7. CASE Emit(<<why, update>>)
  <2> DEFINE new == <<why, update>>
  <2>1. new \in Seq(Events) /\ Len(new) = 2 /\ new[1] = why /\ new[2] = update
    BY <1>2
  <2> HIDE DEF new
  <2>2. Report(s, status, period, new)
    <3>1. Emit(new) /\ Becomes(s, status, period)
      BY <1>1, <1>7 DEF new
    <3>2. QED  BY <1>3, <1>5, <1>6, <2>1, <3>1 DEF Report
  <2>3. QED  BY <2>1, <2>2
<1>8. CASE Emit(<<update, why>>)
  <2> DEFINE new == <<update, why>>
  <2>1. new \in Seq(Events) /\ Len(new) = 2 /\ new[1] = update /\ new[2] = why
    BY <1>2
  <2> HIDE DEF new
  <2>2. Report(s, status, period, new)
    <3>1. Emit(new) /\ Becomes(s, status, period)
      BY <1>1, <1>8 DEF new
    <3>2. QED  BY <1>3, <1>5, <1>6, <2>1, <3>1 DEF Report
  <2>3. QED  BY <2>1, <2>2
<1>9. QED  BY <1>1, <1>7, <1>8

LEMMA OneEventReports ==
  ASSUME TInv, NEW s \in Subs, NEW type \in {"updated", "deleted"},
         NEW status \in Live, type = "deleted" => status = "canceled",
         Becomes(s, status, stripe[s].period),
         Emit(<<Event(type, s, status, stripe[s].period)>>)
  PROVE  \E new \in Seq(Events) : Len(new) \in {1, 2} /\ Report(s, status, stripe[s].period, new)
<1> DEFINE v == Event(type, s, status, stripe[s].period)
           new == <<v>>
<1>1. stripe[s].period \in Nat
  BY DEF TInv, TypeOK, Subscriptions
<1>2. v \in Events
  BY <1>1 DEF Event, Events, StripeStatuses, Live
<1>3. v.type = type /\ v.sub = s /\ v.status = status /\ v.period = stripe[s].period
  BY DEF Event
<1>4. Told(v) => shown'[s] = Word(v)
  <2>1. status \in DOMAIN Meaning => shown'[s] = Meaning[status]
    BY <1>1, BecomesShown
  <2>2. CASE type = "updated"
    BY <1>3, <2>1, <2>2 DEF Told, Word
  <2>3. CASE type = "deleted"
    BY <1>3, <2>1, <2>3, Meanings DEF Told, Word
  <2>4. QED  BY <2>2, <2>3
<1>5. Silent(v) => status \notin DOMAIN Meaning
  BY <1>3 DEF Silent, Told
<1> HIDE DEF v
<1>6. new \in Seq(Events) /\ Len(new) = 1 /\ new[1] = v
  BY <1>2
<1>7. Emit(new)
  BY DEF v
<1> HIDE DEF new
<1>8. Report(s, status, stripe[s].period, new)
  BY <1>3, <1>4, <1>5, <1>6, <1>7 DEF Report
<1>9. QED  BY <1>6, <1>8

LEMMA StripeReports ==
  ASSUME TInv, ShownIsCurrent, NEW s \in Subs, StripeStep(s), ~OpenCheckout(s)
  PROVE  \E status \in Live, period \in Nat, new \in Seq(Events) :
           Len(new) \in {1, 2} /\ Report(s, status, period, new)
<1>1. stripe[s].period \in Nat /\ stripe[s].period + 1 \in Nat
  BY DEF TInv, TypeOK, Subscriptions
<1>2. CASE PayCheckout(s) \/ PaymentFails(s) \/ InvoicePaid(s) \/ Renew(s)
  <2>1. \E status \in {"active", "past_due", "other"}, period \in Nat :
          \E new \in Seq(Events) : Len(new) \in {1, 2} /\ Report(s, status, period, new)
    <3>1. CASE PayCheckout(s)
      BY <3>1, MovesReport DEF PayCheckout
    <3>2. CASE Moves(s, {"active", "trialing"}, "past_due", stripe[s].period, "failed")
      BY <1>1, <3>2, MovesReport
    <3>3. CASE Moves(s, {"past_due"}, "other", stripe[s].period, "failed")
      <4>1. stripe[s].status = "past_due"
        BY <3>3 DEF Moves
      <4>2. QED  BY <1>1, <3>3, <4>1, MovesReport
    <3>4. CASE InvoicePaid(s)
      BY <1>1, <3>4, MovesReport DEF InvoicePaid
    <3>5. CASE Renew(s)
      BY <1>1, <3>5, MovesReport DEF Renew
    <3>6. QED  BY <1>2, <3>1, <3>2, <3>3, <3>4, <3>5 DEF PaymentFails
  <2>2. QED  BY <2>1 DEF Live
<1>3. CASE Turns(s)
  <2>1. PICK t \in Turnings : Becomes(s, t[2], stripe[s].period)
                              /\ Emit(<<Event("updated", s, t[2], stripe[s].period)>>)
    BY <1>3 DEF Turns
  <2>2. t[2] \in Live
    BY DEF Turnings, Live
  <2>3. QED  BY <1>1, <2>1, <2>2, OneEventReports
<1>4. CASE SubscriptionDeleted(s)
  <2>1. "canceled" \in Live
    BY DEF Live
  <2>2. QED  BY <1>1, <1>4, <2>1, OneEventReports DEF SubscriptionDeleted
<1>5. QED  BY <1>2, <1>3, <1>4 DEF StripeStep

LEMMA ReportKeepsTInv ==
  ASSUME TInv, NEW s \in Subs, NEW status \in Live, NEW period \in Nat,
         NEW new \in Seq(Events), Len(new) \in {1, 2}, Report(s, status, period, new)
  PROVE  TInv'
<1>1. /\ events' = events \o new /\ Len(events) + Len(new) <= MaxEvents
      /\ stage' = [e \in EventIds |->
                     IF e \in Len(events) + 1 .. Len(events) + Len(new)
                     THEN "emitted" ELSE stage[e]]
      /\ UNCHANGED <<row, processed, applied, seen, faults, ordered>>
  BY DEF Report, Emit, dbVars, historyVars
<1>2. events' \in Seq(Events) /\ Len(events') = Len(events) + Len(new)
  BY <1>1 DEF TInv, TypeOK
<1>3. stripe' \in [Subs -> Subscriptions] /\ shown' \in [Subs -> Statuses]
  BY BecomesShown DEF Report
<1>4. TypeOK'
  BY <1>1, <1>2, <1>3 DEF TInv, TypeOK
<1>5. Emitted'
  BY <1>1, <1>2, BoundsAssumption DEF TInv, TypeOK, Emitted, EventIds
<1>6. QED  BY <1>4, <1>5 DEF TInv

LEMMA OpenKeepsTInv ==
  ASSUME TInv, NEW s \in Subs, OpenCheckout(s)
  PROVE  TInv'
<1>1. stripe' \in [Subs -> Subscriptions]
  BY DEF TInv, TypeOK, OpenCheckout, Subscriptions, StripeStatuses
<1>2. QED  BY <1>1 DEF TInv, TypeOK, Emitted, OpenCheckout, dbVars, historyVars

(* ShownIsCurrent is kept with the types, since a report's shape needs it. *)
LEMMA StripeKeepsShown ==
  ASSUME TInv, ShownIsCurrent, NEW s \in Subs, StripeStep(s)
  PROVE  TInv' /\ ShownIsCurrent'
<1>1. CASE OpenCheckout(s)
  <2>1. \A x \in Subs : stripe'[x] = stripe[x] \/ stripe'[x].status = "open"
    BY <1>1 DEF TInv, TypeOK, Subscriptions, OpenCheckout
  <2>2. shown' = shown
    BY <1>1 DEF OpenCheckout
  <2>3. QED  BY <1>1, <2>1, <2>2, OpenKeepsTInv, Meanings DEF ShownIsCurrent
<1>2. CASE ~OpenCheckout(s)
  <2>1. PICK status \in Live, period \in Nat, new \in Seq(Events) :
          Len(new) \in {1, 2} /\ Report(s, status, period, new)
    BY <1>2, StripeReports
  <2>2. Becomes(s, status, period)
    BY <2>1 DEF Report
  <2>3. ShownIsCurrent'
    BY <2>2, BecomesShown DEF ShownIsCurrent
  <2>4. QED  BY <2>1, <2>3, ReportKeepsTInv
<1>3. QED  BY <1>1, <1>2

LEMMA FreeRowIsRow == FreeRow \in Rows
  BY DEF FreeRow, Rows, Statuses

LEMMA JobKeepsTInv ==
  ASSUME TInv, NEW e \in EventIds,
         \/ Deliver(e) \/ DeliverAgain(e) \/ Start(e) \/ Finish(e) \/ FailJob(e)
  PROVE  TInv'
<1>1. UNCHANGED <<stripe, events, shown, row, processed, applied>>
  BY DEF Deliver, DeliverAgain, Start, Finish, FailJob, dbVars, stripeVars
<1>2. stage[e] # "none" /\ \E st \in {"queued", "running", "committed", "done", "failed"} :
                            stage' = [stage EXCEPT ![e] = st]
  BY DEF Deliver, DeliverAgain, Start, Finish, FailJob
<1>3. \E r \in {row, FreeRow} : seen' = seen \/ seen' = [seen EXCEPT ![e] = r]
  BY DEF Deliver, DeliverAgain, Start, Finish, FailJob
<1>4. faults' \in 0..MaxFaults /\ ordered' \in BOOLEAN
  <2>2. faults' \in 0..MaxFaults
    BY BoundsAssumption DEF TInv, TypeOK, Deliver, DeliverAgain, Start, Finish, FailJob,
       historyVars
  <2>3. ordered' \in BOOLEAN
    <3>1. CASE Start(e)
      <4>1. ordered' = (ordered /\ (InTurn(e) \/ AlreadyProcessed(e)))
        BY <3>1 DEF Start
      <4>2. QED  BY <4>1
    <3>2. CASE Deliver(e) \/ DeliverAgain(e) \/ Finish(e) \/ FailJob(e)
      BY <3>2 DEF TInv, TypeOK, Deliver, DeliverAgain, Finish, FailJob, historyVars
    <3>3. QED  BY <3>1, <3>2
  <2>4. QED  BY <2>2, <2>3
<1>5. TypeOK'
  <2>1. seen' \in [EventIds -> Rows]
    BY <1>3, FreeRowIsRow DEF TInv, TypeOK
  <2>2. stage' \in [EventIds -> {"none", "emitted", "queued", "running",
                                 "committed", "done", "failed"}]
    BY <1>2 DEF TInv, TypeOK
  <2>3. QED  BY <1>1, <1>4, <2>1, <2>2 DEF TInv, TypeOK
<1>6. Emitted'
  BY <1>1, <1>2 DEF TInv, TypeOK, Emitted
<1>7. QED  BY <1>5, <1>6 DEF TInv

LEMMA CommitKeepsTInv ==
  ASSUME TInv, NEW e \in EventIds, Commit(e)
  PROVE  TInv'
<1>1. /\ stage[e] = "running" /\ stage' = [stage EXCEPT ![e] = "committed"]
      /\ row' = Flushed(seen[e], Handled(events[e], seen[e]))
      /\ processed' = processed \cup {e} /\ applied' = [applied EXCEPT ![e] = @ + 1]
      /\ seen' = [seen EXCEPT ![e] = FreeRow]
      /\ UNCHANGED <<stripe, events, shown, faults, ordered>>
  BY DEF Commit, Record, stripeVars, historyVars
<1>2. events[e] \in Events /\ seen[e] \in Rows
  BY <1>1 DEF TInv, TypeOK, Emitted
<1>3. row' \in Rows
  BY <1>1, <1>2, HandledIsRow, FlushedIsRow DEF TInv, TypeOK
<1>4. TypeOK'
  BY <1>1, <1>3, FreeRowIsRow DEF TInv, TypeOK
<1>5. Emitted'
  BY <1>1 DEF TInv, TypeOK, Emitted
<1>6. QED  BY <1>4, <1>5 DEF TInv

LEMMA CrashKeepsTInv ==
  ASSUME TInv, Crash
  PROVE  TInv'
<1>1. /\ stage' = [e \in EventIds |-> IF e \in Running THEN "queued" ELSE stage[e]]
      /\ faults < MaxFaults /\ faults' = faults + 1
      /\ seen' = [e \in EventIds |-> FreeRow]
      /\ UNCHANGED <<stripe, events, shown, row, processed, applied, ordered>>
  BY DEF Crash, stripeVars, dbVars
<1>2. TypeOK'
  BY <1>1, BoundsAssumption, FreeRowIsRow DEF TInv, TypeOK
<1>3. Emitted'
  BY <1>1 DEF TInv, TypeOK, Emitted, Running
<1>4. QED  BY <1>2, <1>3 DEF TInv

(* The workers' steps do not touch what Stripe has. *)
LEMMA WorkersKeepShown ==
  ASSUME ShownIsCurrent, UNCHANGED <<stripe, shown>>
  PROVE  ShownIsCurrent'
  BY DEF ShownIsCurrent

LEMMA NextTInv == TInv /\ ShownIsCurrent /\ [Next]_vars => TInv' /\ ShownIsCurrent'
<1> SUFFICES ASSUME TInv, ShownIsCurrent, [Next]_vars PROVE TInv' /\ ShownIsCurrent'
  OBVIOUS
<1>1. CASE \E s \in Subs : StripeStep(s)
  BY <1>1, StripeKeepsShown
<1>2. CASE \E e \in EventIds :
             Deliver(e) \/ DeliverAgain(e) \/ Start(e) \/ Finish(e) \/ FailJob(e)
  <2>1. UNCHANGED <<stripe, shown>>
    BY <1>2 DEF Deliver, DeliverAgain, Start, Finish, FailJob, stripeVars
  <2>2. QED  BY <1>2, <2>1, JobKeepsTInv, WorkersKeepShown
<1>3. CASE (\E e \in EventIds : Commit(e)) \/ Crash
  <2>1. UNCHANGED <<stripe, shown>>
    BY <1>3 DEF Commit, Crash, stripeVars
  <2>2. QED  BY <1>3, <2>1, CommitKeepsTInv, CrashKeepsTInv, WorkersKeepShown
<1>4. CASE UNCHANGED vars
  <2>1. UNCHANGED <<stripe, shown>>
    BY <1>4 DEF vars, stripeVars
  <2>2. TInv'
    BY <1>4 DEF TInv, TypeOK, Emitted, vars, stripeVars, dbVars, historyVars
  <2>3. QED  BY <2>1, <2>2, WorkersKeepShown
<1>5. QED  BY <1>1, <1>2, <1>3, <1>4 DEF Next, StripeStep

LEMMA InitShown == Init => ShownIsCurrent
<1> SUFFICES ASSUME Init, NEW s \in Subs, stripe[s].status \in DOMAIN Meaning
             PROVE  shown[s] = Meaning[stripe[s].status]
  BY DEF ShownIsCurrent
<1>1. CASE s = row.sub
  BY <1>1, SubsAssumption, Meanings DEF Init, FreeRow
<1>2. CASE s # row.sub
  BY <1>2, Meanings DEF Init
<1>3. QED  BY <1>1, <1>2

(* Every variable keeps its type. *)
THEOREM BillingIsTyped == Spec => []TypeOK
<1>1. TInv /\ ShownIsCurrent => TypeOK
  BY DEF TInv
<1>2. QED  BY <1>1, InitTInv, InitShown, NextTInv, PTL DEF Spec

-----------------------------------------------------------------------------
(* Events in order.  SyncedInOrder speaks of moments at which nothing is   *)
(* on its way; the invariant says of every moment which events will bring  *)
(* the row in line with Stripe, and that none of them was overtaken.       *)

Known(s) == stripe[s].status \notin {"none", "open"}

(* Stripe's log is sound: a subscription with events exists, an event that *)
(* only silent ones follow tells what its subscription was last shown as,  *)
(* and the last update its period.                                         *)
Later(e) == e + 1 .. Len(events)
LastWord(e) == \A f \in Later(e) : events[f].sub = events[e].sub => Silent(events[f])
LastUpdate(e) ==
  /\ events[e].type = "updated"
  /\ \A f \in Later(e) : events[f].sub = events[e].sub => events[f].type # "updated"

Reported ==
  \A e \in 1..Len(events) :
    /\ Known(events[e].sub)
    /\ Told(events[e]) /\ LastWord(e) => shown[events[e].sub] = Word(events[e])
    /\ LastUpdate(e) => events[e].period = stripe[events[e].sub].period

(* The events about s the row does not reflect yet. *)
Unapplied(s) == {e \in 1..Len(events) : e \notin processed /\ events[e].sub = s}

(* No event was overtaken by a later one. *)
NoneOvertaken == \A e \in processed : 1..e-1 \subseteq processed

(* A running job found every earlier event applied, and has read the row   *)
(* as it still is.                                                         *)
RunningIsCurrent ==
  \A e \in EventIds : stage[e] = "running" => 1..e-1 \subseteq processed /\ seen[e] = row

(* What the row lacks is still to be applied. *)
RowFollows ==
  row.sub # NoSub =>
    /\ Known(row.sub)
    /\ (\A e \in Unapplied(row.sub) : Silent(events[e])) => row.status = shown[row.sub]
    /\ PeriodTold(row.sub) /\ (\A e \in Unapplied(row.sub) : events[e].type # "updated") =>
         row.period = stripe[row.sub].period

(* A job that is over without failing has its event recorded. *)
Settled ==
  /\ \A e \in EventIds : stage[e] \in {"committed", "done"} => e \in processed
  /\ \A e \in EventIds : stage[e] = "none" <=> e \notin 1..Len(events)
  /\ processed \subseteq 1..Len(events)

InStep == ordered => NoneOvertaken /\ RunningIsCurrent /\ RowFollows

OInv == TInv /\ ShownIsCurrent /\ RunningIsNew /\ Settled /\ Reported /\ InStep

LEMMA InitOInv == Init => OInv
<1> SUFFICES ASSUME Init PROVE OInv
  OBVIOUS
<1>1. TInv /\ ShownIsCurrent /\ RunningIsNew
  BY InitTInv, InitShown, InitIInv DEF IInv
<1>2. events = <<>> /\ processed = {} /\ stage = [e \in EventIds |-> "none"]
  BY DEF Init
<1>3. Len(events) = 0
  BY <1>2
<1>4. Settled /\ Reported /\ NoneOvertaken /\ RunningIsCurrent
  BY <1>2, <1>3 DEF Settled, Reported, NoneOvertaken, RunningIsCurrent, EventIds
<1>5. RowFollows
  <2>1. row.sub # NoSub => row.sub = Old /\ row.status = "active" /\ row.period = 1
    BY SubsAssumption DEF Init, FreeRow
  <2>2. row.sub # NoSub => /\ stripe[Old].status = "active" /\ stripe[Old].period = 1
                           /\ shown[Old] = "active"
    BY <2>1, SubsAssumption DEF Init
  <2>3. QED  BY <2>1, <2>2 DEF RowFollows, Known
<1>6. QED  BY <1>1, <1>4, <1>5 DEF OInv, InStep

(* What every emission does: the log grows at its end by events without a  *)
(* webhook_events row.                                                     *)
Grown(n) ==
  /\ Len(events') = Len(events) + n /\ Len(events') \in 0..MaxEvents
  /\ \A e \in 1..Len(events) : events'[e] = events[e]
  /\ UNCHANGED <<row, processed, seen, ordered>>
  /\ \A e \in EventIds : stage'[e] = IF e \in Len(events) + 1 .. Len(events') THEN "emitted"
                                     ELSE stage[e]

LEMMA EmitGrows ==
  ASSUME TInv, NEW new \in Seq(Events), Emit(new)
  PROVE  /\ Grown(Len(new))
         /\ \A i \in 1..Len(new) : events'[Len(events) + i] = new[i]
<1>1. /\ events' = events \o new /\ Len(events) + Len(new) <= MaxEvents
      /\ stage' = [e \in EventIds |->
                     IF e \in Len(events) + 1 .. Len(events) + Len(new)
                     THEN "emitted" ELSE stage[e]]
      /\ UNCHANGED <<row, processed, seen, ordered>>
  BY DEF Emit, dbVars, historyVars
<1>2. events \in Seq(Events) /\ Len(events) \in Nat /\ Len(new) \in Nat /\ MaxEvents \in Nat
  BY BoundsAssumption DEF TInv, TypeOK
<1>3. Len(events') = Len(events) + Len(new) /\ Len(events') \in 0..MaxEvents
  BY <1>1, <1>2
<1>4. \A e \in 1..Len(events) : events'[e] = events[e]
  BY <1>1, <1>2
<1>5. \A i \in 1..Len(new) : events'[Len(events) + i] = new[i]
  BY <1>1, <1>2
<1>6. QED  BY <1>1, <1>3, <1>4, <1>5 DEF Grown

LEMMA SubsOfEvents ==
  ASSUME TInv, NEW e \in 1..Len(events)
  PROVE  events[e] \in Events /\ events[e].sub \in Subs
<1>1. events \in Seq(Events)
  BY DEF TInv, TypeOK
<1>2. events[e] \in Events
  BY <1>1
<1>3. QED  BY <1>2 DEF Events

LEMMA GrownKeepsSettled ==
  ASSUME TInv, RunningIsNew, Settled, NEW n \in Nat, Grown(n)
  PROVE  RunningIsNew' /\ Settled'
<1>1. Len(events) \in Nat
  BY DEF TInv, TypeOK
<1>2. QED  BY <1>1, BoundsAssumption DEF TInv, TypeOK, RunningIsNew, Settled, Grown, EventIds

(* The history half of InStep: no new event is recorded or running. *)
LEMMA GrownKeepsOrder ==
  ASSUME TInv, Settled, NEW n \in Nat, Grown(n), NoneOvertaken, RunningIsCurrent
  PROVE  NoneOvertaken' /\ RunningIsCurrent'
  BY DEF NoneOvertaken, RunningIsCurrent, Grown

(* What is reported of s changes nothing about other subscriptions, and    *)
(* about s it leaves an event for the row to follow, or leaves what s was  *)
(* last shown as.                                                          *)
LEMMA ReportKeepsOInv ==
  ASSUME OInv, NEW s \in Subs, NEW status \in Live, NEW period \in Nat,
         NEW new \in Seq(Events), Len(new) \in {1, 2}, Report(s, status, period, new)
  PROVE  Reported' /\ RunningIsNew' /\ Settled' /\ InStep'
<1> DEFINE n == Len(events)
           k == Len(new)
<1>1. TInv /\ RunningIsNew /\ Settled /\ Reported /\ InStep
  BY DEF OInv
<1>2. Emit(new) /\ Becomes(s, status, period)
  BY DEF Report
<1>3. Grown(k) /\ \A i \in 1..k : events'[n + i] = new[i]
  BY <1>1, <1>2, EmitGrows
<1>4. RunningIsNew' /\ Settled'
  BY <1>1, <1>3, GrownKeepsSettled
<1>5. /\ n \in Nat /\ k \in {1, 2} /\ Len(events') = n + k
      /\ \A e \in 1..n : events'[e] = events[e] /\ events[e].sub \in Subs
      /\ row' = row /\ processed' = processed /\ processed \subseteq 1..n
  BY <1>1, <1>3, SubsOfEvents DEF TInv, TypeOK, Grown, Settled
<1>6. /\ stripe'[s].status = status /\ stripe'[s].period = period
      /\ status \notin DOMAIN Meaning => shown' = shown
      /\ \A x \in Subs \ {s} : stripe'[x] = stripe[x] /\ shown'[x] = shown[x]
      /\ status \notin {"none", "open"}
  BY <1>1, <1>2, BecomesShown DEF Live
<1>7. /\ \A i \in 1..k : new[i].sub = s
      /\ \A i \in 1..k : Told(new[i]) /\ (\A j \in i+1..k : Silent(new[j])) =>
                           shown'[s] = Word(new[i])
      /\ \A i \in 1..k : new[i].type = "updated" => new[i].period = period
      /\ (\A i \in 1..k : Silent(new[i])) => shown' = shown
      /\ (\A i \in 1..k : new[i].type # "updated") => period = stripe[s].period
  BY <1>6 DEF Report
<1>8. Known(s)' /\ \A x \in Subs : Known(x) => Known(x)'
  BY <1>6 DEF Known
<1>9. Reported'
  <2> SUFFICES ASSUME NEW e \in 1..n+k
               PROVE  /\ Known(events[e].sub)'
                      /\ (Told(events[e]) /\ LastWord(e) =>
                            shown[events[e].sub] = Word(events[e]))'
                      /\ (LastUpdate(e) => events[e].period = stripe[events[e].sub].period)'
    BY <1>5 DEF Reported
  <2>1. Later(e)' = e + 1 .. n + k
    BY <1>5 DEF Later
  <2>2. CASE e \in 1..n
    <3>1. events'[e] = events[e] /\ events[e].sub \in Subs
      BY <1>5, <2>2
    <3>2. \A f \in Later(e) : f \in Later(e)' /\ events'[f] = events[f]
      BY <1>5, <2>1, <2>2 DEF Later
    <3>3. \A i \in 1..k : n + i \in Later(e)' /\ events'[n + i] = new[i]
      BY <1>3, <1>5, <2>1, <2>2
    <3>4. Known(events[e].sub)'
      <4>1. Known(events[e].sub)
        BY <1>1, <2>2 DEF Reported
      <4>2. QED  BY <1>8, <3>1, <4>1 DEF Known
    <3>5. LastWord(e)' => LastWord(e)
      BY <3>1, <3>2 DEF LastWord
    <3>6. LastUpdate(e)' => LastUpdate(e)
      BY <3>1, <3>2 DEF LastUpdate
    <3>7. (Told(events[e]) /\ LastWord(e) => shown[events[e].sub] = Word(events[e]))'
      <4> SUFFICES ASSUME Told(events[e]), LastWord(e)'
                   PROVE  shown'[events[e].sub] = Word(events[e])
        BY <3>1 DEF Told, Word
      <4>1. shown[events[e].sub] = Word(events[e])
        BY <1>1, <2>2, <3>5 DEF Reported
      <4>2. CASE events[e].sub = s
        <5>1. \A i \in 1..k : Silent(new[i])
          <6> SUFFICES ASSUME NEW i \in 1..k PROVE Silent(new[i])
            OBVIOUS
          <6>1. events'[n + i].sub = events'[e].sub => Silent(events'[n + i])
            BY <3>3 DEF LastWord, Silent, Told
          <6>2. QED  BY <1>7, <3>1, <3>3, <4>2, <6>1
        <5>2. QED  BY <1>7, <4>1, <5>1
      <4>3. CASE events[e].sub # s
        BY <1>6, <3>1, <4>1, <4>3
      <4>4. QED  BY <4>2, <4>3
    <3>8. (LastUpdate(e) => events[e].period = stripe[events[e].sub].period)'
      <4> SUFFICES ASSUME LastUpdate(e)'
                   PROVE  events[e].period = stripe'[events[e].sub].period
        BY <3>1
      <4>1. events[e].period = stripe[events[e].sub].period
        BY <1>1, <2>2, <3>6 DEF Reported
      <4>2. CASE events[e].sub = s
        <5>1. \A i \in 1..k : new[i].type # "updated"
          <6> SUFFICES ASSUME NEW i \in 1..k PROVE new[i].type # "updated"
            OBVIOUS
          <6>1. events'[n + i].sub = events'[e].sub => events'[n + i].type # "updated"
            BY <3>3 DEF LastUpdate
          <6>2. QED  BY <1>7, <3>1, <3>3, <4>2, <6>1
        <5>2. QED  BY <1>6, <1>7, <4>1, <4>2, <5>1
      <4>3. CASE events[e].sub # s
        BY <1>6, <3>1, <4>1, <4>3
      <4>4. QED  BY <4>2, <4>3
    <3>9. QED  BY <3>4, <3>7, <3>8
  <2>3. CASE e \notin 1..n
    <3>1. PICK i \in 1..k : e = n + i
      <4>1. e - n \in 1..k /\ e = n + (e - n)
        BY <1>5, <2>3
      <4>2. QED  BY <4>1
    <3>2. events'[e] = new[i] /\ new[i].sub = s
      BY <1>3, <1>7, <3>1
    <3>3. \A j \in i+1..k : n + j \in Later(e)' /\ events'[n + j] = new[j] /\ new[j].sub = s
      <4> SUFFICES ASSUME NEW j \in i+1..k
                   PROVE  n + j \in Later(e)' /\ events'[n + j] = new[j] /\ new[j].sub = s
        OBVIOUS
      <4>1. j \in 1..k /\ n + j \in e+1..n+k
        BY <1>5, <3>1
      <4>2. QED  BY <1>3, <1>7, <2>1, <4>1
    <3>4. LastWord(e)' => \A j \in i+1..k : Silent(new[j])
      <4> SUFFICES ASSUME LastWord(e)', NEW j \in i+1..k PROVE Silent(new[j])
        OBVIOUS
      <4>1. events'[n + j].sub = events'[e].sub => Silent(events'[n + j])
        BY <3>3 DEF LastWord, Silent, Told
      <4>2. QED  BY <3>2, <3>3, <4>1
    <3>5. (Told(events[e]) /\ LastWord(e) => shown[events[e].sub] = Word(events[e]))'
      BY <1>7, <3>2, <3>4 DEF Told, Word
    <3>6. (LastUpdate(e) => events[e].period = stripe[events[e].sub].period)'
      BY <1>6, <1>7, <3>2 DEF LastUpdate
    <3>7. Known(events[e].sub)'
      BY <1>8, <3>2 DEF Known
    <3>8. QED  BY <3>5, <3>6, <3>7
  <2>4. QED  BY <2>2, <2>3
<1>10. InStep'
  <2> SUFFICES ASSUME ordered' PROVE (NoneOvertaken /\ RunningIsCurrent /\ RowFollows)'
    BY DEF InStep
  <2>1. NoneOvertaken /\ RunningIsCurrent /\ RowFollows
    BY <1>1, <1>3 DEF InStep, Grown
  <2>2. NoneOvertaken' /\ RunningIsCurrent'
    BY <1>1, <1>3, <1>5, <2>1, GrownKeepsOrder
  <2>3. RowFollows'
    <3> DEFINE r == row.sub
    <3> SUFFICES ASSUME r # NoSub
                 PROVE  /\ Known(r)'
                        /\ ((\A e \in Unapplied(r) : Silent(events[e])) => row.status = shown[r])'
                        /\ (PeriodTold(r) /\ (\A e \in Unapplied(r) : events[e].type # "updated") =>
                             row.period = stripe[r].period)'
      BY <1>5 DEF RowFollows
    <3>1. r \in Subs /\ Known(r)
      BY <1>1, <2>1 DEF TInv, TypeOK, Rows, RowFollows
    <3>2. Known(r)'
      BY <1>5, <1>8, <3>1 DEF Known
    <3>3. r' = r
      BY <1>5
    <3> HIDE DEF r
    <3>4. \A e \in Unapplied(r) : e \in Unapplied(r)' /\ events'[e] = events[e]
      BY <1>5, <3>3 DEF Unapplied
    <3>5. r = s => \A i \in 1..k : n + i \in Unapplied(r)' /\ events'[n + i] = new[i]
      <4> SUFFICES ASSUME r = s, NEW i \in 1..k
                   PROVE  n + i \in Unapplied(r)' /\ events'[n + i] = new[i]
        OBVIOUS
      <4>1. events'[n + i] = new[i] /\ new[i].sub = s
        BY <1>3, <1>7
      <4>2. n + i \in 1..n+k /\ n + i \notin 1..n
        BY <1>5
      <4>3. QED  BY <1>5, <3>3, <4>1, <4>2 DEF Unapplied
    <3>6. ((\A e \in Unapplied(r) : Silent(events[e])) => row.status = shown[r])'
      <4> SUFFICES ASSUME (\A e \in Unapplied(r) : Silent(events[e]))'
                   PROVE  row.status = shown'[r]
        BY <1>5, <3>3
      <4>1. row.status = shown[r]
        BY <2>1, <3>4 DEF RowFollows, Silent, Told, r
      <4>2. CASE r = s
        <5>1. \A i \in 1..k : Silent(new[i])
          BY <3>5, <4>2 DEF Silent, Told
        <5>2. QED  BY <1>7, <4>1, <5>1
      <4>3. CASE r # s
        BY <1>6, <3>1, <4>1, <4>3
      <4>4. QED  BY <4>2, <4>3
    <3>7. (PeriodTold(r) /\ (\A e \in Unapplied(r) : events[e].type # "updated") =>
             row.period = stripe[r].period)'
      <4> SUFFICES ASSUME PeriodTold(r)', (\A e \in Unapplied(r) : events[e].type # "updated")'
                   PROVE  row.period = stripe'[r].period
        BY <1>5, <3>3
      <4>1. r = s => \A i \in 1..k : new[i].type # "updated"
        BY <3>5
      <4>2. PeriodTold(r)
        <5> SUFFICES ASSUME NEW c \in 1..n, events[c].type = "checkout", events[c].sub = r
                     PROVE  \E u \in c+1..n : events[u].type = "updated" /\ events[u].sub = r
          BY DEF PeriodTold
        <5>1. c \in 1..n+k /\ events'[c] = events[c]
          BY <1>5
        <5>2. PICK u \in c+1..n+k : events'[u].type = "updated" /\ events'[u].sub = r
          BY <1>5, <3>3, <5>1 DEF PeriodTold
        <5>3. CASE u \in 1..n
          BY <1>5, <5>2, <5>3
        <5>4. CASE u \notin 1..n
          <6>1. u - n \in 1..k /\ u = n + (u - n)
            BY <1>5, <5>4
          <6>2. events'[u] = new[u - n] /\ new[u - n].sub = s
            BY <1>3, <1>7, <6>1
          <6>3. QED  BY <4>1, <5>2, <6>1, <6>2
        <5>5. QED  BY <5>3, <5>4
      <4>3. row.period = stripe[r].period
        BY <2>1, <3>4, <4>2 DEF RowFollows, r
      <4>4. CASE r = s
        BY <1>6, <1>7, <4>1, <4>3, <4>4
      <4>5. CASE r # s
        BY <1>6, <3>1, <4>3, <4>5
      <4>6. QED  BY <4>4, <4>5
    <3>8. QED  BY <3>2, <3>6, <3>7
  <2>4. QED  BY <2>2, <2>3
<1>11. QED  BY <1>4, <1>9, <1>10

(* A subscription that is opened has no events, and no row holds it. *)
LEMMA OpenKeepsOInv ==
  ASSUME OInv, NEW s \in Subs, OpenCheckout(s)
  PROVE  Reported' /\ RunningIsNew' /\ Settled' /\ InStep'
<1>1. TInv /\ RunningIsNew /\ Settled /\ Reported /\ InStep
  BY DEF OInv
<1>2. /\ stripe' = [stripe EXCEPT ![s].status = "open"] /\ stripe[s].status = "none"
      /\ UNCHANGED <<events, shown, row, processed, stage, seen, ordered>>
  BY DEF OpenCheckout, dbVars, historyVars
<1>3. RunningIsNew' /\ Settled'
  BY <1>1, <1>2 DEF RunningIsNew, Settled
<1>4. \A x \in Subs : Known(x) => stripe'[x] = stripe[x]
  BY <1>1, <1>2 DEF TInv, TypeOK, Known
<1>5. \A e \in 1..Len(events) : events[e].sub \in Subs /\ Known(events[e].sub)
  BY <1>1, SubsOfEvents DEF Reported
<1>6. \A e \in 1..Len(events) : stripe'[events[e].sub] = stripe[events[e].sub]
  BY <1>4, <1>5
<1>7. Reported'
  BY <1>1, <1>2, <1>6 DEF Reported, Known, Later, LastWord, LastUpdate, Told, Silent, Word
<1>8. row.sub # NoSub /\ Known(row.sub) => stripe'[row.sub] = stripe[row.sub]
  BY <1>1, <1>4 DEF TInv, TypeOK, Rows
<1>9. RowFollows => RowFollows'
  BY <1>2, <1>8 DEF RowFollows, Known, Unapplied, PeriodTold, Silent, Told
<1>10. InStep'
  BY <1>1, <1>2, <1>9 DEF InStep, NoneOvertaken, RunningIsCurrent
<1>11. QED  BY <1>3, <1>7, <1>10

LEMMA StripeKeepsOInv ==
  ASSUME OInv, NEW s \in Subs, StripeStep(s)
  PROVE  OInv'
<1>1. TInv' /\ ShownIsCurrent'
  BY StripeKeepsShown DEF OInv
<1>2. CASE OpenCheckout(s)
  BY <1>1, <1>2, OpenKeepsOInv DEF OInv
<1>3. CASE ~OpenCheckout(s)
  <2>1. PICK status \in Live, period \in Nat, new \in Seq(Events) :
          Len(new) \in {1, 2} /\ Report(s, status, period, new)
    BY <1>3, StripeReports DEF OInv
  <2>2. QED  BY <1>1, <2>1, ReportKeepsOInv DEF OInv
<1>4. QED  BY <1>2, <1>3

(* Steps of jobs that leave the row, the log and the records alone. *)
LEMMA UntouchedKeepsOInv ==
  ASSUME UNCHANGED <<stripe, events, shown, row, processed>>
  PROVE  /\ (Reported => Reported') /\ (NoneOvertaken => NoneOvertaken')
         /\ (RowFollows => RowFollows')
<1>1. \A e : LastWord(e)' = LastWord(e) /\ LastUpdate(e)' = LastUpdate(e)
  BY DEF LastWord, LastUpdate, Later, Silent, Told
<1>2. Reported => Reported'
  BY <1>1 DEF Reported, Known, Told, Word
<1>3. QED  BY <1>2 DEF NoneOvertaken, RowFollows, Known, Unapplied, PeriodTold, Silent, Told

LEMMA JobKeepsOInv ==
  ASSUME OInv, NEW e \in EventIds,
         \/ Deliver(e) \/ DeliverAgain(e) \/ Start(e) \/ Finish(e) \/ FailJob(e)
  PROVE  OInv'
<1>1. TInv /\ RunningIsNew /\ Settled /\ Reported /\ InStep
  BY DEF OInv
<1>2. UNCHANGED <<stripe, events, shown, row, processed>>
  BY DEF Deliver, DeliverAgain, Start, Finish, FailJob, dbVars, stripeVars
<1>3. TInv' /\ ShownIsCurrent'
  BY <1>2, JobKeepsTInv, WorkersKeepShown DEF OInv
<1>4. RunningIsNew'
  BY <1>1 DEF TInv, TypeOK, RunningIsNew, Deliver, DeliverAgain, Start,
         AlreadyProcessed, Finish, FailJob, dbVars
<1>5. /\ stage[e] # "none" /\ (stage[e] # "running" \/ FailJob(e))
      /\ \E st \in {"queued", "running", "committed", "done", "failed"} :
            /\ stage' = [stage EXCEPT ![e] = st]
            /\ st \in {"committed", "done"} => e \in processed
            /\ st = "running" => Start(e) /\ e \notin processed
  BY <1>1 DEF Settled, Deliver, DeliverAgain, Start, AlreadyProcessed, Finish, FailJob
<1>6. Settled'
  BY <1>1, <1>2, <1>5 DEF TInv, TypeOK, Settled, FailJob
<1>7. Reported'
  BY <1>1, <1>2, UntouchedKeepsOInv
<1>8. InStep'
  <2> SUFFICES ASSUME ordered' PROVE (NoneOvertaken /\ RunningIsCurrent /\ RowFollows)'
    BY DEF InStep
  <2>1. ordered /\ (Start(e) => InTurn(e) \/ e \in processed)
    BY DEF Deliver, DeliverAgain, Start, AlreadyProcessed, Finish, FailJob, historyVars
  <2>2. NoneOvertaken /\ RunningIsCurrent /\ RowFollows
    BY <1>1, <2>1 DEF InStep
  <2>3. NoneOvertaken' /\ RowFollows'
    BY <1>1, <1>2, <2>2, UntouchedKeepsOInv
  <2>4. RunningIsCurrent'
    <3>1. CASE Start(e)
      <4>1. seen' = [seen EXCEPT ![e] = IF e \in processed THEN FreeRow ELSE row]
            /\ seen \in [EventIds -> Rows]
            /\ stage \in [EventIds -> {"none", "emitted", "queued", "running",
                                       "committed", "done", "failed"}]
        BY <1>1, <3>1 DEF Start, AlreadyProcessed, TInv, TypeOK
      <4>2. stage'[e] = "running" => 1..e-1 \subseteq processed /\ e \notin processed
        BY <1>5, <2>1, <3>1, <4>1 DEF InTurn
      <4>3. \A f \in EventIds \ {e} : stage'[f] = stage[f] /\ seen'[f] = seen[f]
        BY <1>5, <4>1
      <4>4. QED  BY <1>2, <2>2, <4>1, <4>2, <4>3 DEF RunningIsCurrent
    <3>2. CASE ~Start(e)
      <4>1. \A f \in EventIds \ {e} : seen'[f] = seen[f]
        BY <1>1, <3>2 DEF TInv, TypeOK, Deliver, DeliverAgain, Finish, FailJob
      <4>2. \A f \in EventIds : stage'[f] = "running" => stage[f] = "running" /\ f # e
        BY <1>1, <1>5, <3>2 DEF TInv, TypeOK
      <4>3. QED  BY <1>2, <2>2, <4>1, <4>2 DEF RunningIsCurrent
    <3>3. QED  BY <3>1, <3>2
  <2>5. QED  BY <2>3, <2>4
<1>9. QED  BY <1>3, <1>4, <1>6, <1>7, <1>8 DEF OInv

LEMMA CrashKeepsOInv ==
  ASSUME OInv, Crash
  PROVE  OInv'
<1>1. TInv /\ RunningIsNew /\ Settled /\ Reported /\ InStep
  BY DEF OInv
<1>2. /\ UNCHANGED <<stripe, events, shown, row, processed, ordered>>
      /\ stage' = [f \in EventIds |-> IF f \in Running THEN "queued" ELSE stage[f]]
  BY DEF Crash, dbVars, stripeVars
<1>3. TInv' /\ ShownIsCurrent'
  BY <1>2, CrashKeepsTInv, WorkersKeepShown DEF OInv
<1>4. RunningIsNew'
  BY <1>1, <1>2 DEF RunningIsNew
<1>5. Settled'
  BY <1>1, <1>2 DEF Settled, Running
<1>6. Reported'
  BY <1>1, <1>2, UntouchedKeepsOInv
<1>7. RunningIsCurrent'
  BY <1>2 DEF RunningIsCurrent, Running
<1>8. InStep'
  BY <1>1, <1>2, <1>7, UntouchedKeepsOInv DEF InStep
<1>9. QED  BY <1>3, <1>4, <1>5, <1>6, <1>8 DEF OInv

(* A handler that read the row as it still is writes all of its result. *)
LEMMA FlushedIsNew ==
  ASSUME row \in Rows, NEW new \in Rows
  PROVE  Flushed(row, new) = new
  BY DEF Flushed, Rows

(* The row follows across the commit of an event that no unapplied event   *)
(* precedes and whose handler read the row as it is.                       *)
LEMMA HandledKeepsRowFollows ==
  ASSUME TInv, Settled, Reported, RowFollows, NoneOvertaken,
         NEW e \in 1..Len(events), e \notin processed, 1..e-1 \subseteq processed,
         row' = Handled(events[e], row), processed' = processed \cup {e},
         UNCHANGED <<stripe, events, shown>>
  PROVE  RowFollows'
<1> DEFINE v == events[e]
<1>1. v \in Events /\ v.sub \in Subs /\ v.sub # NoSub
      /\ v.type \in {"checkout", "updated", "deleted", "paid", "failed"}
  BY SubsOfEvents, SubsAssumption DEF Events
<1>2. row \in Rows /\ e \in Nat /\ Len(events) \in Nat
  BY DEF TInv, TypeOK
<1>3. \A f \in Later(e) : f \in 1..Len(events) /\ f \notin processed /\ f # e
  BY <1>2 DEF NoneOvertaken, Later
<1>4. \A f \in Later(e) : f \in Unapplied(events[f].sub)'
  BY <1>3 DEF Unapplied
<1>5. Known(v.sub) /\ (Told(v) /\ LastWord(e) => shown[v.sub] = Word(v))
      /\ (LastUpdate(e) => v.period = stripe[v.sub].period)
  BY DEF Reported
<1> SUFFICES ASSUME row'.sub # NoSub
             PROVE  /\ Known(row.sub)'
                    /\ ((\A f \in Unapplied(row.sub) : Silent(events[f])) =>
                          row.status = shown[row.sub])'
                    /\ (PeriodTold(row.sub)
                        /\ (\A f \in Unapplied(row.sub) : events[f].type # "updated") =>
                          row.period = stripe[row.sub].period)'
  BY DEF RowFollows
<1>6. CASE row.sub # v.sub /\ v.type # "checkout"
  <2>1. row' = row
    BY <1>6 DEF Handled
  <2>2. Unapplied(row.sub)' = Unapplied(row.sub)
    BY <1>6, <2>1 DEF Unapplied
  <2>3. Known(row.sub)' = Known(row.sub) /\ PeriodTold(row.sub)' = PeriodTold(row.sub)
    BY <2>1 DEF Known, PeriodTold
  <2>4. QED  BY <2>1, <2>2, <2>3 DEF RowFollows, Silent, Told
<1>7. CASE row.sub = v.sub \/ v.type = "checkout"
  <2>1. row'.sub = v.sub
    BY <1>1, <1>2, <1>7 DEF Handled, Rows
  <2>2. Known(row.sub)'
    BY <1>5, <2>1 DEF Known
  <2>3. (\A f \in Unapplied(row.sub) : Silent(events[f]))' => LastWord(e)
    <3> SUFFICES ASSUME (\A f \in Unapplied(row.sub) : Silent(events[f]))',
                        NEW f \in Later(e), events[f].sub = v.sub
                 PROVE  Silent(events[f])
      BY DEF LastWord
    <3>1. f \in Unapplied(row.sub)'
      BY <1>4, <2>1
    <3>2. QED  BY <3>1 DEF Silent, Told
  <2>4. (\A f \in Unapplied(row.sub) : events[f].type # "updated")' =>
           \A f \in Later(e) : events[f].sub = v.sub => events[f].type # "updated"
    BY <1>4, <2>1
  <2>5. row.sub = v.sub => Unapplied(row.sub) \subseteq Unapplied(row.sub)' \cup {e}
    BY <2>1 DEF Unapplied
  <2>6. ((\A f \in Unapplied(row.sub) : Silent(events[f])) => row.status = shown[row.sub])'
    <3> SUFFICES ASSUME (\A f \in Unapplied(row.sub) : Silent(events[f]))'
                 PROVE  row'.status = shown[v.sub]
      BY <2>1
    <3>1. Told(v) => shown[v.sub] = Word(v)
      BY <1>5, <2>3
    <3>2. Silent(v) /\ row.sub = v.sub => row.status = shown[v.sub]
      <4> SUFFICES ASSUME Silent(v), row.sub = v.sub PROVE row.status = shown[v.sub]
        OBVIOUS
      <4>1. \A f \in Unapplied(row.sub) : Silent(events[f])
        <5> SUFFICES ASSUME NEW f \in Unapplied(row.sub), f # e PROVE Silent(events[f])
          OBVIOUS
        <5>1. f \in Unapplied(row.sub)'
          BY <2>5
        <5>2. QED  BY <5>1 DEF Silent, Told
      <4>2. QED  BY <1>1, <4>1 DEF RowFollows
    <3>3. CASE v.type = "checkout"
      <4>1. row'.status = "active"
        BY <1>2, <3>3 DEF Handled, Rows
      <4>2. QED  BY <3>1, <3>3, <4>1 DEF Told, Word
    <3>4. CASE v.type = "updated"
      <4>1. row'.status = Mapped(v.status, row.status)
        BY <1>2, <1>7, <3>4 DEF Handled, Rows
      <4>2. CASE v.status \in DOMAIN Meaning
        <5>1. Mapped(v.status, row.status) = Meaning[v.status]
          BY <4>2, Meanings DEF Mapped
        <5>2. QED  BY <3>1, <3>4, <4>1, <4>2, <5>1 DEF Told, Word
      <4>3. CASE v.status \notin DOMAIN Meaning
        <5>1. Mapped(v.status, row.status) = row.status
          BY <4>3, Meanings DEF Mapped
        <5>2. Silent(v)
          BY <3>4, <4>3 DEF Silent, Told
        <5>3. QED  BY <1>7, <3>2, <3>4, <4>1, <5>1, <5>2
      <4>4. QED  BY <4>2, <4>3
    <3>5. CASE v.type = "paid"
      <4>1. row.status = "active"
        BY <1>7, <3>1, <3>2, <3>5 DEF Told, Silent, Word
      <4>2. row' = row
        BY <1>7, <3>5, <4>1 DEF Handled
      <4>3. QED  BY <1>7, <3>2, <3>5, <4>2 DEF Silent
    <3>6. CASE v.type \in {"failed", "deleted"}
      <4>1. row'.status = Word(v)
        BY <1>2, <1>7, <3>6 DEF Handled, Rows, Word
      <4>2. QED  BY <3>1, <3>6, <4>1 DEF Told
    <3>7. QED  BY <1>1, <3>3, <3>4, <3>5, <3>6
  <2>7. (PeriodTold(row.sub) /\ (\A f \in Unapplied(row.sub) : events[f].type # "updated") =>
           row.period = stripe[row.sub].period)'
    <3> SUFFICES ASSUME PeriodTold(row.sub)',
                        (\A f \in Unapplied(row.sub) : events[f].type # "updated")'
                 PROVE  row'.period = stripe[v.sub].period
      BY <2>1
    <3>1. PeriodTold(v.sub)
      BY <2>1 DEF PeriodTold
    <3>2. \A f \in Later(e) : events[f].sub = v.sub => events[f].type # "updated"
      BY <2>4
    <3>3. CASE v.type = "checkout"
      BY <3>1, <3>2, <3>3 DEF PeriodTold, Later
    <3>4. CASE v.type = "updated"
      <4>1. row'.period = v.period
        BY <1>2, <1>7, <3>4 DEF Handled, Rows
      <4>2. QED  BY <1>5, <3>2, <3>4, <4>1 DEF LastUpdate
    <3>5. CASE v.type \in {"paid", "failed", "deleted"}
      <4>1. row'.period = row.period /\ row.sub = v.sub
        BY <1>2, <1>7, <3>5 DEF Handled, Rows
      <4>2. \A f \in Unapplied(row.sub) : events[f].type # "updated"
        BY <2>5, <3>5, <4>1
      <4>3. QED  BY <1>1, <3>1, <4>1, <4>2 DEF RowFollows
    <3>6. QED  BY <1>1, <3>3, <3>4, <3>5
  <2>8. QED  BY <2>2, <2>6, <2>7
<1>8. QED  BY <1>6, <1>7

LEMMA CommitKeepsOInv ==
  ASSUME OInv, NEW e \in EventIds, Commit(e)
  PROVE  OInv'
<1>1. TInv /\ RunningIsNew /\ Settled /\ Reported /\ InStep
  BY DEF OInv
<1>2. /\ stage[e] = "running" /\ stage' = [stage EXCEPT ![e] = "committed"]
      /\ row' = Flushed(seen[e], Handled(events[e], seen[e]))
      /\ processed' = processed \cup {e}
      /\ UNCHANGED <<stripe, events, shown, ordered>>
  BY DEF Commit, Record, stripeVars, historyVars
<1>3. e \in 1..Len(events) /\ e \notin processed /\ e \in Nat
  BY <1>1, <1>2 DEF Settled, RunningIsNew, EventIds
<1>4. TInv' /\ ShownIsCurrent'
  BY <1>2, CommitKeepsTInv, WorkersKeepShown DEF OInv
<1>5. RunningIsNew' /\ Settled'
  BY <1>1, <1>2, <1>3 DEF TInv, TypeOK, RunningIsNew, Settled
<1>6. Reported'
  <2>1. \A f : LastWord(f)' = LastWord(f) /\ LastUpdate(f)' = LastUpdate(f)
    BY <1>2 DEF LastWord, LastUpdate, Later, Silent, Told
  <2>2. QED  BY <1>1, <1>2, <2>1 DEF Reported, Known, Told, Word
<1>7. InStep'
  <2> SUFFICES ASSUME ordered' PROVE (NoneOvertaken /\ RunningIsCurrent /\ RowFollows)'
    BY DEF InStep
  <2>1. NoneOvertaken /\ RunningIsCurrent /\ RowFollows
    BY <1>1, <1>2 DEF InStep
  <2>2. 1..e-1 \subseteq processed /\ seen[e] = row
    BY <1>2, <2>1 DEF RunningIsCurrent
  <2>3. NoneOvertaken'
    BY <1>2, <2>1, <2>2 DEF NoneOvertaken
  <2>4. \A f \in EventIds : stage'[f] # "running"
    <3> SUFFICES ASSUME NEW f \in EventIds, f # e, stage[f] = "running" PROVE FALSE
      BY <1>1, <1>2 DEF TInv, TypeOK
    <3>1. f \in Nat /\ f >= 1 /\ e >= 1 /\ f \notin processed /\ 1..f-1 \subseteq processed
      BY <1>1, <2>1 DEF EventIds, RunningIsNew, RunningIsCurrent
    <3>2. CASE f < e
      BY <1>3, <2>2, <3>1, <3>2
    <3>3. CASE e < f
      BY <1>3, <3>1, <3>3
    <3>4. QED  BY <1>3, <3>1, <3>2, <3>3
  <2>5. row' = Handled(events[e], row)
    <3>1. Handled(events[e], row) \in Rows /\ row \in Rows
      BY <1>1, <1>3, SubsOfEvents, HandledIsRow DEF TInv, TypeOK
    <3>2. QED  BY <1>2, <2>2, <3>1, FlushedIsNew
  <2>6. RowFollows'
    BY <1>1, <1>2, <1>3, <2>1, <2>2, <2>5, HandledKeepsRowFollows
  <2>7. QED  BY <2>3, <2>4, <2>6 DEF RunningIsCurrent
<1>8. QED  BY <1>4, <1>5, <1>6, <1>7 DEF OInv

LEMMA NextOInv == OInv /\ [Next]_vars => OInv'
<1> SUFFICES ASSUME OInv, [Next]_vars PROVE OInv'
  OBVIOUS
<1>1. CASE Next
  BY <1>1, StripeKeepsOInv, JobKeepsOInv, CommitKeepsOInv, CrashKeepsOInv
     DEF Next, StripeStep
<1>2. CASE UNCHANGED vars
  <2>1. /\ UNCHANGED <<stripe, events, shown, row, processed, stage, seen, ordered>>
        /\ TInv /\ RunningIsNew /\ Settled /\ Reported /\ InStep
    BY <1>2 DEF OInv, vars, stripeVars, dbVars, historyVars
  <2>2. TInv' /\ ShownIsCurrent'
    BY <1>2, NextTInv DEF OInv
  <2>3. RunningIsNew' /\ Settled' /\ Reported'
    BY <2>1, UntouchedKeepsOInv DEF RunningIsNew, Settled
  <2>4. InStep'
    BY <2>1, UntouchedKeepsOInv DEF InStep, RunningIsCurrent
  <2>5. QED  BY <2>2, <2>3, <2>4 DEF OInv
<1>3. QED  BY <1>1, <1>2

(* Events processed one by one as Stripe emitted them leave the row with   *)
(* the last status of the tenant's subscription it has a word for, and     *)
(* with its period once an update followed the checkout, whatever was      *)
(* delivered twice and wherever a worker crashed: when every job is over,  *)
(* no event is left that the row does not reflect.                         *)
THEOREM OrderedEventsSyncTheRow == Spec => []SyncedInOrder
<1>1. OInv => SyncedInOrder
  <2> SUFFICES ASSUME OInv, ordered, Quiet, row.sub # NoSub
               PROVE  /\ row.status = shown[row.sub]
                      /\ PeriodTold(row.sub) => row.period = stripe[row.sub].period
    BY DEF SyncedInOrder
  <2>1. TInv /\ Settled /\ RowFollows
    BY DEF OInv, InStep
  <2>2. \A e \in 1..Len(events) : e \in processed
    BY <2>1, BoundsAssumption DEF TInv, TypeOK, Settled, Quiet, EventIds
  <2>3. Unapplied(row.sub) = {}
    BY <2>2 DEF Unapplied
  <2>4. QED  BY <2>1, <2>3 DEF RowFollows
<1>2. QED  BY <1>1, InitOInv, NextOInv, PTL DEF Spec

-----------------------------------------------------------------------------
(***************************************************************************)
(* The plan catalogue.  Stripe's side of a plan changes call by call, so   *)
(* what a row charges is not inductive on its own: the invariant says of   *)
(* every request which of its Stripe calls are still to come (WellFormed,  *)
(* Synced), what it has read (Alone), that price ids stay with their plan  *)
(* (Own), and of every plan what its row and Stripe agree on between the   *)
(* calls (Charged, Sold).                                                  *)
(***************************************************************************)

(* The Stripe calls left to a request, and the fees they are about.        *)
CallsOf(s) == {s[i] : i \in DOMAIN s}
Pending(q) == {k \in Kinds : Call("price", k) \in CallsOf(q.todo)}
Archiving(q) == {k \in Kinds : Call("archive", k) \in CallsOf(q.todo)}

(* A price follows the archiving of the one it replaces and is the last    *)
(* call for its fee.                                                       *)
Ordered(s) ==
  \A i \in DOMAIN s :
    /\ s[i].do = "archive" =>
         \E j \in DOMAIN s : i < j /\ s[j] = Call("price", s[i].kind)
    /\ s[i].do = "price" => \A j \in DOMAIN s : i < j => s[j].kind # s[i].kind
    /\ s[i].do = "product" => \A j \in DOMAIN s : i < j => s[j].do # "product"

Makes(op) == CASE op = "create" -> {"product", "price"}
               [] op = "update" -> {"archive", "price"}
               [] op = "delete" -> {"close"}

WellFormed(q) ==
  /\ Ordered(q.todo)
  /\ \A c \in CallsOf(q.todo) : c.do \in Makes(q.op)
  /\ q.op = "create" => q.alone /\ q.old.price = NoPrices
  /\ q.op = "delete" => q.new = q.old

(* The price ids in a row are of its plan. *)
Own(p, price) ==
  \A k \in Kinds : price[k] # NoPrice =>
    /\ price[k] \in DOMAIN prices
    /\ prices[price[k]].plan = p /\ prices[price[k]].kind = k

Off(id) == id # NoPrice /\ ~prices[id].active

(* An update archives the price of a fee before it makes the next. *)
Synced(q) ==
  \A k \in Kinds :
    /\ k \in Pending(q) => q.new.price[k] = q.old.price[k]
    /\ q.op = "update" /\ k \in Pending(q) => q.old.price[k] # NoPrice
    /\ q.op = "update" /\ k \in Pending(q) \ Archiving(q) => Off(q.old.price[k])
    /\ q.op = "update" /\ q.new.price[k] # q.old.price[k] => Off(q.old.price[k])

Charges(id, fee) == id # NoPrice /\ prices[id].amount = Charge(fee) /\ prices[id].active

(* A request alone at its plan has read the row there is, and charges the  *)
(* fees it is done with.                                                   *)
Alone(r) ==
  LET q == req[r] IN
  /\ InFlight(q.plan) = {r}
  /\ q.op # "create" => plan[q.plan] = q.old
  /\ q.op # "delete" => \A k \in Kinds \ Pending(q) :
       k \notin stale[q.plan] \/ q.new.price[k] # q.old.price[k] =>
         Charges(q.new.price[k], q.new.fee[k])

AtWork(r) ==
  LET q == req[r] IN
  /\ WellFormed(q) /\ Synced(q)
  /\ Own(q.plan, q.old.price) /\ Own(q.plan, q.new.price)
  /\ q.op = "create" <=> plan[q.plan] = Unborn
  /\ q.alone => Alone(r)
  /\ ~q.alone => stale[q.plan] = Kinds /\ q.plan \in disturbed

(* Only the prices in a row are on sale. *)
OnSale(p, price) ==
  \A i \in DOMAIN prices :
    prices[i].plan = p /\ prices[i].active => i = price[prices[i].kind]

Undisturbed(r) ==
  LET q == req[r] IN
  /\ OnSale(q.plan, q.new.price)
  /\ q.op = "create" =>
       /\ \A k \in Kinds \ Pending(q) : q.new.price[k] # NoPrice
       /\ product[q.plan] = IF Call("product", "flat") \in CallsOf(q.todo)
                            THEN "none" ELSE "active"
  /\ q.op = "update" => /\ product[q.plan] = "active"
                        /\ \A k \in Kinds : q.new.price[k] # NoPrice
  /\ q.op = "delete" /\ q.todo = <<>> => product[q.plan] # "active"

Charged(p) ==
  HasRow(p) => \A k \in Kinds \ stale[p] :
    /\ plan[p].price[k] # NoPrice
    /\ prices[plan[p].price[k]].amount = Charge(plan[p].fee[k])
    /\ InFlight(p) = {} => prices[plan[p].price[k]].active

Sold(p) ==
  /\ HasRow(p) => \A k \in Kinds : plan[p].price[k] # NoPrice
  /\ InFlight(p) = {} =>
       /\ HasRow(p) => product[p] = "active" /\ OnSale(p, plan[p].price)
       /\ plan[p] = Deleted => product[p] # "active"
       /\ plan[p] = Unborn => product[p] = "none" /\ OnSale(p, NoPrices)

PlanInv(p) ==
  /\ HasRow(p) => Own(p, plan[p].price)
  /\ \A r \in InFlight(p) : AtWork(r)
  /\ Charged(p)
  /\ p \notin disturbed => Sold(p) /\ \A r \in InFlight(p) : Undisturbed(r)

(* What a clean checkout has read is what it will be charged; until it is  *)
(* open, a price it read and that is still on sale is the row's, and that  *)
(* of every request which has read the row.                                *)
CheckoutInv(t) ==
  LET c == checkout[t] IN
  /\ Own(c.plan, c.price)
  /\ plan[c.plan] # Unborn
  /\ c.clean => \A k \in Kinds :
       c.price[k] # NoPrice /\ prices[c.price[k]].amount = Charge(c.fee[k])
  /\ c.clean /\ ~c.open /\ HasRow(c.plan) =>
       \A k \in Kinds : prices[c.price[k]].active =>
         /\ plan[c.plan].price[k] = c.price[k]
         /\ \A r \in InFlight(c.plan) : req[r].old.price[k] = c.price[k]

-----------------------------------------------------------------------------
(* The calls of a request *)

LEMMA KindsAreTwo == Kinds = {"flat", "overage"}
  BY DEF Kinds

LEMMA TailOrdered ==
  ASSUME NEW s \in Seq(Calls), s # <<>>, Ordered(s), NEW t, t = Tail(s)
  PROVE  /\ Head(s) \in Calls /\ t \in Seq(Calls)
         /\ Ordered(t)
         /\ CallsOf(s) = {Head(s)} \cup CallsOf(t)
         /\ \A c \in CallsOf(t) :
              /\ Head(s).do = "price" => c.kind # Head(s).kind
              /\ Head(s).do = "product" => c.do # "product"
         /\ Head(s).do = "archive" => Call("price", Head(s).kind) \in CallsOf(t)
<1>1. /\ Len(s) \in Nat /\ Len(s) # 0 /\ DOMAIN s = 1..Len(s)
      /\ Len(t) = Len(s) - 1 /\ DOMAIN t = 1..Len(t) /\ Len(t) \in Nat
      /\ Head(s) = s[1] /\ Head(s) \in Calls /\ t \in Seq(Calls)
      /\ \A i \in 1..Len(t) : t[i] = s[i + 1]
  BY HeadTailProperties, EmptySeq, LenProperties
<1>2. \A j \in DOMAIN s : 1 < j => j - 1 \in DOMAIN t /\ t[j - 1] = s[j]
  BY <1>1
<1>3. \A i \in DOMAIN t : i + 1 \in DOMAIN s /\ t[i] = s[i + 1] /\ 1 < i + 1
  BY <1>1
<1>4. Ordered(t)
  <2> SUFFICES ASSUME NEW i \in DOMAIN t
               PROVE  /\ t[i].do = "archive" =>
                           \E j \in DOMAIN t : i < j /\ t[j] = Call("price", t[i].kind)
                      /\ t[i].do = "price" => \A j \in DOMAIN t : i < j => t[j].kind # t[i].kind
                      /\ t[i].do = "product" => \A j \in DOMAIN t : i < j => t[j].do # "product"
    BY DEF Ordered
  <2>1. i + 1 \in DOMAIN s /\ t[i] = s[i + 1] /\ i \in Nat
    BY <1>1, <1>3
  <2>2. ASSUME t[i].do = "archive"
        PROVE  \E j \in DOMAIN t : i < j /\ t[j] = Call("price", t[i].kind)
    <3>1. PICK j \in DOMAIN s : i + 1 < j /\ s[j] = Call("price", t[i].kind)
      BY <2>1, <2>2 DEF Ordered
    <3>2. j - 1 \in DOMAIN t /\ t[j - 1] = s[j] /\ i < j - 1
      BY <1>1, <1>2, <2>1, <3>1
    <3>3. QED  BY <3>1, <3>2
  <2>3. ASSUME NEW j \in DOMAIN t, i < j
        PROVE  j + 1 \in DOMAIN s /\ t[j] = s[j + 1] /\ i + 1 < j + 1
    BY <1>1, <1>3, <2>1, <2>3
  <2>4. QED  BY <2>1, <2>2, <2>3 DEF Ordered
<1>5. CallsOf(s) = {Head(s)} \cup CallsOf(t)
  <2>1. ASSUME NEW i \in DOMAIN s PROVE s[i] \in {Head(s)} \cup CallsOf(t)
    <3>1. i = 1 \/ 1 < i
      BY <1>1
    <3>2. QED  BY <1>1, <1>2, <3>1 DEF CallsOf
  <2>2. ASSUME NEW i \in DOMAIN t PROVE t[i] \in CallsOf(s)
    BY <1>3 DEF CallsOf
  <2>3. Head(s) \in CallsOf(s)
    BY <1>1 DEF CallsOf
  <2>4. QED  BY <2>1, <2>2, <2>3 DEF CallsOf
<1>6. 1 \in DOMAIN s
  BY <1>1
<1>7. \A c \in CallsOf(t) :
        /\ Head(s).do = "price" => c.kind # Head(s).kind
        /\ Head(s).do = "product" => c.do # "product"
  BY <1>1, <1>3, <1>6 DEF CallsOf, Ordered
<1>8. Head(s).do = "archive" => Call("price", Head(s).kind) \in CallsOf(t)
  BY <1>1, <1>2, <1>6 DEF CallsOf, Ordered
<1>9. QED  BY <1>1, <1>4, <1>5, <1>7, <1>8

LEMMA NoCalls ==
  <<>> \in Seq(Calls) /\ Ordered(<<>>) /\ CallsOf(<<>>) = {}
  BY EmptySeq DEF Ordered, CallsOf

CreateCalls == <<Call("product", "flat"), Call("price", "flat"), Call("price", "overage")>>

LEMMA CreateIsOrdered ==
  /\ CreateCalls \in Seq(Calls) /\ Ordered(CreateCalls)
  /\ CallsOf(CreateCalls) = {Call("product", "flat"), Call("price", "flat"), Call("price", "overage")}
<1>1. CreateCalls \in Seq(Calls)
  BY DEF CreateCalls, Calls, Call, Kinds
<1>2. DOMAIN CreateCalls = 1..3 /\ CreateCalls[1] = Call("product", "flat")
      /\ CreateCalls[2] = Call("price", "flat") /\ CreateCalls[3] = Call("price", "overage")
  BY DEF CreateCalls
<1>3. \A i \in 1..3 : i = 1 \/ i = 2 \/ i = 3
  OBVIOUS
<1>4. Ordered(CreateCalls)
  BY <1>2, <1>3 DEF Ordered, Call
<1>5. CallsOf(CreateCalls) = {CreateCalls[1], CreateCalls[2], CreateCalls[3]}
  BY <1>2, <1>3 DEF CallsOf
<1>6. QED  BY <1>1, <1>2, <1>4, <1>5

LEMMA CloseIsOrdered ==
  LET s == <<Call("close", "flat")>> IN
  s \in Seq(Calls) /\ Ordered(s) /\ CallsOf(s) = {Call("close", "flat")}
<1> DEFINE s == <<Call("close", "flat")>>
<1>1. s \in Seq(Calls)
  BY DEF Calls, Call, Kinds
<1>2. DOMAIN s = {1} /\ s[1] = Call("close", "flat")
  OBVIOUS
<1> HIDE DEF s
<1>3. Ordered(s) /\ CallsOf(s) = {Call("close", "flat")}
  BY <1>2 DEF Ordered, CallsOf, Call
<1>4. QED  BY <1>1, <1>3 DEF s

LEMMA ResyncIsOrdered ==
  ASSUME NEW old, NEW new, NEW k \in Kinds
  PROVE  LET s == Resync(old, new, k)
         IN  /\ s \in Seq(Calls) /\ Ordered(s)
             /\ CallsOf(s) = IF old.fee[k] # new.fee[k] /\ old.price[k] # NoPrice
                             THEN {Call("archive", k), Call("price", k)} ELSE {}
<1> DEFINE s == <<Call("archive", k), Call("price", k)>>
<1>1. s \in Seq(Calls)
  BY DEF Calls, Call
<1>2. DOMAIN s = 1..2 /\ s[1] = Call("archive", k) /\ s[2] = Call("price", k)
  OBVIOUS
<1>3. \A i \in 1..2 : i = 1 \/ i = 2
  OBVIOUS
<1> HIDE DEF s
<1>4. CallsOf(s) = {Call("archive", k), Call("price", k)}
  <2>1. CallsOf(s) = {s[1], s[2]}
    BY <1>2, <1>3 DEF CallsOf
  <2>2. QED  BY <1>2, <2>1
<1>5. Ordered(s)
  BY <1>2, <1>3 DEF Ordered, Call
<1>6. QED  BY <1>1, <1>4, <1>5, NoCalls DEF Resync, s

LEMMA OrderedConcat ==
  ASSUME NEW s \in Seq(Calls), NEW t \in Seq(Calls), Ordered(s), Ordered(t),
         \A b \in CallsOf(s), c \in CallsOf(t) : b.kind # c.kind /\ b.do # "product"
  PROVE  /\ s \o t \in Seq(Calls) /\ Ordered(s \o t)
         /\ CallsOf(s \o t) = CallsOf(s) \cup CallsOf(t)
<1> DEFINE u == s \o t
<1>1. /\ Len(s) \in Nat /\ DOMAIN s = 1..Len(s)
      /\ Len(t) \in Nat /\ DOMAIN t = 1..Len(t)
      /\ u \in Seq(Calls) /\ DOMAIN u = 1..Len(u) /\ Len(u) = Len(s) + Len(t)
      /\ \A i \in 1..Len(u) : u[i] = IF i <= Len(s) THEN s[i] ELSE t[i - Len(s)]
  BY ConcatProperties, LenProperties
<1> HIDE DEF u
<1>2. \A i \in DOMAIN s : i \in DOMAIN u /\ u[i] = s[i]
  BY <1>1
<1>3. \A i \in DOMAIN t : i + Len(s) \in DOMAIN u /\ u[i + Len(s)] = t[i]
  <2> SUFFICES ASSUME NEW i \in DOMAIN t
               PROVE  i + Len(s) \in DOMAIN u /\ u[i + Len(s)] = t[i]
    OBVIOUS
  <2>1. i + Len(s) \in 1..Len(u) /\ ~(i + Len(s) <= Len(s)) /\ (i + Len(s)) - Len(s) = i
    BY <1>1
  <2>2. QED  BY <1>1, <2>1
<1>4. \A i \in DOMAIN u : \/ i \in DOMAIN s /\ u[i] = s[i]
                          \/ i > Len(s) /\ i - Len(s) \in DOMAIN t /\ u[i] = t[i - Len(s)]
  <2> SUFFICES ASSUME NEW i \in DOMAIN u
               PROVE  \/ i \in DOMAIN s /\ u[i] = s[i]
                      \/ i > Len(s) /\ i - Len(s) \in DOMAIN t /\ u[i] = t[i - Len(s)]
    OBVIOUS
  <2>1. CASE i <= Len(s)
    BY <1>1, <2>1
  <2>2. CASE i > Len(s)
    <3>1. i - Len(s) \in 1..Len(t) /\ ~(i <= Len(s))
      BY <1>1, <2>2
    <3>2. QED  BY <1>1, <2>2, <3>1
  <2>3. QED  BY <1>1, <2>1, <2>2
<1>5. CallsOf(u) = CallsOf(s) \cup CallsOf(t)
  BY <1>2, <1>3, <1>4 DEF CallsOf
<1>6. Ordered(u)
  <2> SUFFICES ASSUME NEW i \in DOMAIN u
               PROVE  /\ u[i].do = "archive" =>
                           \E j \in DOMAIN u : i < j /\ u[j] = Call("price", u[i].kind)
                      /\ u[i].do = "price" => \A j \in DOMAIN u : i < j => u[j].kind # u[i].kind
                      /\ u[i].do = "product" => \A j \in DOMAIN u : i < j => u[j].do # "product"
    BY DEF Ordered
  <2>1. i \in Nat
    BY <1>1
  <2>2. CASE i \in DOMAIN s /\ u[i] = s[i]
    <3>1. u[i] \in CallsOf(s)
      BY <2>2 DEF CallsOf
    <3>2. ASSUME NEW j \in DOMAIN u, i < j
          PROVE  \/ j \in DOMAIN s /\ u[j] = s[j]
                 \/ u[j].kind # u[i].kind /\ u[i].do # "product"
      BY <1>4, <3>1 DEF CallsOf
    <3>3. QED  BY <1>2, <2>2, <3>1, <3>2 DEF Ordered, CallsOf
  <2>3. CASE i > Len(s) /\ i - Len(s) \in DOMAIN t /\ u[i] = t[i - Len(s)]
    <3>1. ASSUME NEW j \in DOMAIN u, i < j
          PROVE  j - Len(s) \in DOMAIN t /\ u[j] = t[j - Len(s)] /\ i - Len(s) < j - Len(s)
      BY <1>1, <1>4, <2>3, <3>1
    <3>2. ASSUME NEW j \in DOMAIN t, i - Len(s) < j
          PROVE  j + Len(s) \in DOMAIN u /\ u[j + Len(s)] = t[j] /\ i < j + Len(s)
      BY <1>1, <1>3, <3>2
    <3>3. QED  BY <2>3, <3>1, <3>2 DEF Ordered
  <2>4. QED  BY <1>4, <2>2, <2>3
<1>7. QED  BY <1>1, <1>5, <1>6 DEF u

-----------------------------------------------------------------------------
(* Types *)

LEMMA Nulls ==
  /\ Unborn # Deleted /\ Unborn \notin PlanRows /\ Deleted \notin PlanRows
  /\ None \notin TenantSubs /\ None \notin Checkouts /\ None \notin PlanRequests
  /\ 0 \in Fees
  BY NullsAssumption, FeesAssumption

LEMMA RowTyped == PlansTypeOK => \A p \in Plans : HasRow(p) => plan[p] \in PlanRows
  BY DEF PlansTypeOK, HasRow

LEMMA RequestTyped ==
  PlansTypeOK => \A r \in Requests : req[r] # None => req[r] \in PlanRequests
  BY DEF PlansTypeOK

LEMMA ChargesAreNumbers == \A n \in Fees : Charge(n) \in Nat
  BY FeesAssumption DEF Charge

(* The price of a number in the row, in terms of what the row lists. *)
LEMMA ChargeOfListed ==
  \A fee \in [Kinds -> Fees], k \in Kinds : Charge(fee[k]) = Overcharge(k) * Listed(fee, k)
<1> TAKE fee \in [Kinds -> Fees], k \in Kinds
<1>1. PICK n \in Nat : n = fee[k]
  BY FeesAssumption
<1>2. CASE k = "flat"
  BY <1>1, <1>2 DEF Charge, Overcharge, Listed
<1>3. CASE k = "overage"
  BY <1>1, <1>3 DEF Charge, Overcharge, Listed
<1>4. QED  BY <1>2, <1>3 DEF Kinds

LEMMA PlansInitTyped == PlansInit => PlansTypeOK
  BY PlansBoundsAssumption, EmptySeq DEF PlansInit, PlansTypeOK

LEMMA BeginKeepsTypes ==
  ASSUME PlansTypeOK, NEW r \in Requests, NEW op \in {"create", "update", "delete"},
         NEW p \in Plans, NEW old \in PlanRows, NEW new \in PlanRows,
         NEW todo \in Seq(Calls), Begin(r, op, p, old, new, todo)
  PROVE  PlansTypeOK'
<1> DEFINE q == [op |-> op, plan |-> p, old |-> old, new |-> new, todo |-> todo,
                 alone |-> InFlight(p) = {}]
<1>1. q \in PlanRequests
  BY DEF PlanRequests
<1>2. \A s \in Requests : s \in InFlight(p) => [req[s] EXCEPT !.alone = FALSE] \in PlanRequests
  BY DEF PlansTypeOK, PlanRequests, InFlight
<1>3. req' \in [Requests -> PlanRequests \cup {None}]
  <2>1. req' = [s \in Requests |->
          IF s = r THEN q ELSE IF s \in InFlight(p) THEN [req[s] EXCEPT !.alone = FALSE] ELSE req[s]]
    BY DEF Begin
  <2>2. QED  BY <1>1, <1>2, <2>1 DEF PlansTypeOK
<1>4. stale' \in [Plans -> SUBSET Kinds] /\ disturbed' \subseteq Plans
  BY DEF Begin, PlansTypeOK
<1>5. QED  BY <1>3, <1>4 DEF Begin, PlansTypeOK, catalogueVars

LEMMA PerformedTyped ==
  ASSUME PlansTypeOK, NEW q \in PlanRequests, NEW c \in Calls, Performed(q, c)
  PROVE  prices' \in Seq(Prices) /\ product' \in [Plans -> {"none", "active", "archived"}]
<1>1. [plan |-> q.plan, kind |-> c.kind, amount |-> Amount(q, c.kind), active |-> TRUE] \in Prices
  BY ChargesAreNumbers DEF Prices, PlanRequests, PlanRows, Calls, Amount
<1>2. CASE c.do = "price"
  BY <1>1, <1>2, AppendProperties DEF Performed, PlansTypeOK
<1>3. CASE c.do = "archive"
  <2>1. prices' = [prices EXCEPT ![q.new.price[c.kind]].active = FALSE]
    BY <1>3 DEF Performed
  <2>2. \A i \in 1..Len(prices) : [prices[i] EXCEPT !.active = FALSE] \in Prices
    <3>1. \A i \in 1..Len(prices) : prices[i] \in Prices
      BY ElementOfSeq DEF PlansTypeOK
    <3>2. QED  BY <3>1 DEF Prices
  <2>3. prices \in [1..Len(prices) -> Prices] /\ Len(prices) \in Nat
    BY LenProperties DEF PlansTypeOK
  <2>4. prices' \in [1..Len(prices) -> Prices]
    BY <2>1, <2>2, <2>3
  <2>5. prices' \in Seq(Prices)
    BY <2>3, <2>4, SeqDef
  <2>6. QED  BY <1>3, <2>5 DEF Performed, PlansTypeOK
<1>4. CASE c.do \in {"product", "close"}
  BY <1>4 DEF Performed, PlansTypeOK, PlanRequests
<1>5. QED  BY <1>2, <1>3, <1>4 DEF Calls

(* What a call, and a failed one, makes of a request.                       *)
LEMMA CallStep ==
  ASSUME PlansTypeOK, NEW r \in Requests, CallStripe(r),
         NEW q \in PlanRequests, q = req[r], NEW c, c = Head(q.todo)
  PROVE  /\ q.todo \in Seq(Calls) /\ q.todo # <<>> /\ c \in Calls
         /\ req' \in [Requests -> PlanRequests \cup {None}]
         /\ req'[r] # None /\ req'[r].op = q.op /\ req'[r].plan = q.plan
         /\ req'[r].old = q.old /\ req'[r].alone = q.alone
         /\ req'[r].todo = Tail(q.todo)
         /\ req'[r].new.fee = q.new.fee
         /\ req'[r].new.price[c.kind] =
              IF c.do = "price" THEN Len(prices) + 1 ELSE q.new.price[c.kind]
         /\ \A k \in Kinds \ {c.kind} : req'[r].new.price[k] = q.new.price[k]
         /\ c.do # "price" => req'[r].new = q.new
         /\ \A s \in Requests \ {r} : req'[s] = req[s]
<1>1. q.todo \in Seq(Calls) /\ q.todo # <<>> /\ q.new \in PlanRows
  BY DEF CallStripe, PlanRequests
<1>2. c \in Calls /\ Tail(q.todo) \in Seq(Calls) /\ c.kind \in Kinds
  <2>1. Head(q.todo) \in Calls /\ Tail(q.todo) \in Seq(Calls)
    BY <1>1, HeadTailProperties
  <2>2. QED  BY <2>1 DEF Calls
<1>3. PICK id : id = IF c.do = "price" THEN Len(prices) + 1 ELSE q.new.price[c.kind]
  OBVIOUS
<1>4. id \in Ids
  BY <1>1, <1>2, <1>3, LenProperties DEF PlansTypeOK, PlanRows, Ids
<1>5. PICK todo : todo = Tail(q.todo)
  OBVIOUS
<1>6. req' = [req EXCEPT ![r].todo = todo, ![r].new.price[c.kind] = id]
  BY <1>3, <1>5 DEF CallStripe
<1>7. req \in [Requests -> PlanRequests \cup {None}]
  BY DEF PlansTypeOK
<1>8. req'[r] \in PlanRequests
  BY <1>1, <1>2, <1>4, <1>5, <1>6, <1>7 DEF PlanRequests, PlanRows
<1>9. req' \in [Requests -> PlanRequests \cup {None}]
  BY <1>6, <1>7, <1>8
<1>10. /\ req'[r].op = q.op /\ req'[r].plan = q.plan
       /\ req'[r].old = q.old /\ req'[r].alone = q.alone
       /\ req'[r].todo = todo
       /\ req'[r].new.fee = q.new.fee /\ req'[r].new.active = q.new.active
       /\ req'[r].new.price[c.kind] = id
       /\ \A k \in Kinds \ {c.kind} : req'[r].new.price[k] = q.new.price[k]
       /\ \A s \in Requests \ {r} : req'[s] = req[s]
  BY <1>1, <1>2, <1>6, <1>7 DEF PlanRequests, PlanRows
<1>11. ASSUME c.do # "price" PROVE req'[r].new = q.new
  <2>1. \A k \in Kinds : req'[r].new.price[k] = q.new.price[k]
    BY <1>3, <1>10, <1>11
  <2>2. req'[r].new \in PlanRows
    BY <1>8 DEF PlanRequests
  <2>3. req'[r].new.price = q.new.price
    BY <1>1, <2>1, <2>2 DEF PlanRows
  <2>4. QED  BY <1>1, <1>10, <2>2, <2>3 DEF PlanRows
<1>12. QED
  BY <1>1, <1>2, <1>3, <1>5, <1>8, <1>9, <1>10, <1>11, Nulls

LEMMA CallKeepsTypes ==
  ASSUME PlansTypeOK, NEW r \in Requests, CallStripe(r)
  PROVE  PlansTypeOK'
<1>1. req[r] \in PlanRequests
  BY RequestTyped DEF CallStripe
<1>2. Head(req[r].todo) \in Calls /\ req' \in [Requests -> PlanRequests \cup {None}]
  BY <1>1, CallStep
<1>3. prices' \in Seq(Prices) /\ product' \in [Plans -> {"none", "active", "archived"}]
  BY <1>1, <1>2, PerformedTyped DEF CallStripe
<1>4. QED
  BY <1>2, <1>3 DEF CallStripe, PlansTypeOK, pastVars

LEMMA FailStep ==
  ASSUME PlansTypeOK, NEW r \in Requests, StripeFails(r),
         NEW q \in PlanRequests, q = req[r]
  PROVE  /\ q.todo \in Seq(Calls) /\ q.todo # <<>> /\ Head(q.todo) \in Calls
         /\ req' \in [Requests -> PlanRequests \cup {None}]
         /\ req'[r] # None /\ req'[r].op = q.op /\ req'[r].plan = q.plan
         /\ req'[r].old = q.old /\ req'[r].alone = q.alone
         /\ req'[r].todo = <<>>
         /\ req'[r].new.fee = q.new.fee
         /\ req'[r].new.price = IF q.op = "create" THEN NoPrices ELSE q.new.price
         /\ q.op # "create" => req'[r].new = q.new
         /\ \A s \in Requests \ {r} : req'[s] = req[s]
<1>1. q.todo \in Seq(Calls) /\ q.todo # <<>> /\ q.new \in PlanRows
  BY DEF StripeFails, PlanRequests
<1>2. Head(q.todo) \in Calls
  BY <1>1, HeadTailProperties
<1>3. PICK price : price = IF q.op = "create" THEN NoPrices ELSE q.new.price
  OBVIOUS
<1>4. price \in [Kinds -> Ids]
  BY <1>1, <1>3 DEF PlanRows, NoPrices, NoPrice, Ids
<1>5. req' = [req EXCEPT ![r].todo = <<>>, ![r].new.price = price]
  BY <1>3 DEF StripeFails
<1>6. req \in [Requests -> PlanRequests \cup {None}] /\ <<>> \in Seq(Calls)
  BY NoCalls DEF PlansTypeOK
<1>7. req'[r] \in PlanRequests
  BY <1>1, <1>4, <1>5, <1>6 DEF PlanRequests, PlanRows
<1>8. req' \in [Requests -> PlanRequests \cup {None}]
  BY <1>5, <1>6, <1>7
<1>9. /\ req'[r].op = q.op /\ req'[r].plan = q.plan
      /\ req'[r].old = q.old /\ req'[r].alone = q.alone
      /\ req'[r].todo = <<>>
      /\ req'[r].new.fee = q.new.fee /\ req'[r].new.active = q.new.active
      /\ req'[r].new.price = price
      /\ \A s \in Requests \ {r} : req'[s] = req[s]
  BY <1>1, <1>5, <1>6 DEF PlanRequests, PlanRows
<1>10. ASSUME q.op # "create" PROVE req'[r].new = q.new
  <2>1. req'[r].new \in PlanRows
    BY <1>7 DEF PlanRequests
  <2>2. QED  BY <1>1, <1>3, <1>9, <1>10, <2>1 DEF PlanRows
<1>11. QED
  BY <1>1, <1>2, <1>3, <1>7, <1>8, <1>9, <1>10, Nulls

LEMMA FailKeepsTypes ==
  ASSUME PlansTypeOK, NEW r \in Requests, StripeFails(r)
  PROVE  PlansTypeOK'
<1> DEFINE q == req[r]
<1>1. q \in PlanRequests /\ q.todo \in Seq(Calls) /\ q.todo # <<>> /\ q.plan \in Plans
  BY RequestTyped DEF StripeFails, PlanRequests
<1>2. Head(q.todo) \in Calls
  BY <1>1, HeadTailProperties
<1>3. prices' \in Seq(Prices) /\ product' \in [Plans -> {"none", "active", "archived"}]
  BY <1>1, <1>2, PerformedTyped DEF StripeFails, PlansTypeOK, catalogueVars
<1>4. disturbed' \subseteq Plans /\ mishaps' \in 0..MaxMishaps
  BY <1>1, PlansBoundsAssumption DEF StripeFails, PlansTypeOK
<1>5. stale' \in [Plans -> SUBSET Kinds]
  BY <1>1 DEF StripeFails, PlansTypeOK
<1>6. QED
  BY <1>1, <1>3, <1>4, <1>5, FailStep DEF StripeFails, PlansTypeOK

LEMMA MergedTyped ==
  ASSUME NEW q \in PlanRequests, NEW entry \in PlanRows
  PROVE  Merged(q, entry) \in PlanRows
  BY DEF Merged, PlanRequests, PlanRows

LEMMA PlansNextKeepsTypes == PlansTypeOK /\ [PlansNext]_plansVars => PlansTypeOK'
<1> SUFFICES ASSUME PlansTypeOK, [PlansNext]_plansVars PROVE PlansTypeOK'
  OBVIOUS
<1>1. CASE UNCHANGED plansVars
  BY <1>1 DEF plansVars, catalogueVars, pastVars, PlansTypeOK
<1>2. ASSUME NEW r \in Requests, NEW p \in Plans, NEW fee \in [Kinds -> Fees],
             CreatePlan(r, p, fee)
      PROVE  PlansTypeOK'
  <2>1. [fee |-> fee, active |-> TRUE, price |-> NoPrices] \in PlanRows
    BY DEF PlanRows, NoPrices, NoPrice, Ids
  <2>2. QED
    BY <1>2, <2>1, CreateIsOrdered, BeginKeepsTypes DEF CreatePlan, CreateCalls
<1>3. ASSUME NEW r \in Requests, NEW p \in Plans, NEW fee \in [Kinds -> Fees],
             NEW active \in BOOLEAN, UpdatePlan(r, p, fee, active)
      PROVE  PlansTypeOK'
  <2> DEFINE new == [plan[p] EXCEPT !.fee = fee, !.active = active]
  <2>1. plan[p] \in PlanRows /\ new \in PlanRows
    BY <1>3, RowTyped DEF UpdatePlan, PlanRows
  <2>2. Resync(plan[p], new, "flat") \o Resync(plan[p], new, "overage") \in Seq(Calls)
    BY ResyncIsOrdered, ConcatProperties DEF Kinds
  <2>3. QED  BY <1>3, <2>1, <2>2, BeginKeepsTypes DEF UpdatePlan
<1>4. ASSUME NEW r \in Requests, NEW p \in Plans, DeletePlan(r, p) PROVE PlansTypeOK'
  <2>1. plan[p] \in PlanRows
    BY <1>4, RowTyped DEF DeletePlan
  <2>2. QED
    BY <1>4, <2>1, CloseIsOrdered, NoCalls, BeginKeepsTypes DEF DeletePlan
<1>5. ASSUME NEW r \in Requests, Commits(r) PROVE PlansTypeOK'
  <2>1. req[r] \in PlanRequests /\ req[r].plan \in Plans /\ req[r].new \in PlanRows
    BY <1>5, RequestTyped DEF Commits, PlanRequests
  <2>2. plan' \in [Plans -> PlanRows \cup {Unborn, Deleted}]
    BY <1>5, <2>1, RowTyped, MergedTyped DEF Commits, PlansTypeOK
  <2>3. stale' \in [Plans -> SUBSET Kinds]
    BY <1>5, <2>1 DEF Commits, PlansTypeOK
  <2>4. QED
    BY <1>5, <2>2, <2>3 DEF Commits, PlansTypeOK, catalogueVars
<1>6. ASSUME NEW r \in Requests, RollsBack(r) PROVE PlansTypeOK'
  <2>1. req[r] \in PlanRequests /\ req[r].plan \in Plans
    BY <1>6, RequestTyped DEF RollsBack, PlanRequests
  <2>2. mishaps' \in 0..MaxMishaps
    BY <1>6, PlansBoundsAssumption DEF RollsBack, PlansTypeOK
  <2>3. QED
    BY <1>6, <2>1, <2>2 DEF RollsBack, PlansTypeOK, catalogueVars
<1>7. ASSUME NEW t \in Tenants, NEW p \in Plans, BootstrapFreeSubscription(t, p)
      PROVE  PlansTypeOK'
  BY <1>7 DEF BootstrapFreeSubscription, TenantSubs, PlansTypeOK, catalogueVars, pastVars
<1>8. ASSUME NEW t \in Tenants, NEW p \in Plans, ReadCheckout(t, p) PROVE PlansTypeOK'
  <2>1. plan[p] \in PlanRows
    BY <1>8, RowTyped DEF ReadCheckout
  <2>2. [open |-> FALSE, plan |-> p, price |-> plan[p].price, fee |-> plan[p].fee,
         clean |-> stale[p] = {}] \in Checkouts
    BY <2>1 DEF Checkouts, PlanRows
  <2>3. QED
    BY <1>8, <2>2 DEF ReadCheckout, PlansTypeOK, catalogueVars, pastVars
<1>9. ASSUME NEW t \in Tenants, OpenSession(t) PROVE PlansTypeOK'
  <2> DEFINE c == checkout[t]
  <2>1. c \in Checkouts
    BY <1>9 DEF OpenSession, PlansTypeOK
  <2>2. HasRow(c.plan) => plan[c.plan].fee \in [Kinds -> Fees]
    BY <2>1, RowTyped DEF Checkouts, PlanRows
  <2>3. [c EXCEPT !.open = TRUE,
                  !.fee = IF HasRow(c.plan) THEN plan[c.plan].fee ELSE @,
                  !.clean = @ /\ stale[c.plan] = {}] \in Checkouts
    BY <2>1, <2>2 DEF Checkouts
  <2>4. QED
    BY <1>9, <2>3 DEF OpenSession, PlansTypeOK, catalogueVars, pastVars
<1>10. ASSUME NEW t \in Tenants, CheckoutCompleted(t) PROVE PlansTypeOK'
  <2>1. checkout[t] \in Checkouts
    BY <1>10 DEF CheckoutCompleted, PlansTypeOK
  <2>2. [plan |-> checkout[t].plan, paid |-> TRUE] \in TenantSubs
    BY <2>1 DEF Checkouts, TenantSubs
  <2>3. QED
    BY <1>10, <2>2 DEF CheckoutCompleted, PlansTypeOK, catalogueVars, pastVars
<1>11. ASSUME NEW t \in Tenants, SessionExpires(t) PROVE PlansTypeOK'
  BY <1>11 DEF SessionExpires, PlansTypeOK, catalogueVars, pastVars
<1>12. ASSUME NEW t \in Tenants, SubscriptionEnds(t) PROVE PlansTypeOK'
  BY <1>12 DEF SubscriptionEnds, TenantSubs, PlansTypeOK, catalogueVars, pastVars
<1>13. QED
  BY <1>1, <1>2, <1>3, <1>4, <1>5, <1>6, <1>7, <1>8, <1>9, <1>10, <1>11, <1>12,
     CallKeepsTypes, FailKeepsTypes DEF PlansNext

(* Rows, prices, requests and checkouts keep their form, for any plans,     *)
(* tenants and concurrent requests.                                        *)
THEOREM PlansAreTyped == PlansSpec => []PlansTypeOK
  BY PlansInitTyped, PlansNextKeepsTypes, PTL DEF PlansSpec

-----------------------------------------------------------------------------
(* What a step at one plan leaves of the others *)

(* Stripe's prices are added and archived, and nothing else.               *)
PricesGrow ==
  \A i \in DOMAIN prices :
    /\ i \in DOMAIN prices'
    /\ prices'[i].plan = prices[i].plan /\ prices'[i].kind = prices[i].kind
    /\ prices'[i].amount = prices[i].amount
    /\ prices'[i].active => prices[i].active

PricesAwayStay(p) ==
  /\ \A i \in DOMAIN prices : prices[i].plan # p => prices'[i] = prices[i]
  /\ \A i \in DOMAIN prices' : i \in DOMAIN prices \/ prices'[i].plan = p

(* Only the row, the product and the requests of p change.                 *)
OnlyAt(p) ==
  /\ \A o \in Plans \ {p} :
       /\ plan'[o] = plan[o] /\ product'[o] = product[o] /\ stale'[o] = stale[o]
       /\ o \in disturbed' <=> o \in disturbed
  /\ \A s \in Requests :
       (s \notin InFlight(p) /\ req[s] # None) \/ (s \notin InFlight(p)' /\ req'[s] # None) =>
         req'[s] = req[s]

LEMMA OwnGrows ==
  ASSUME PricesGrow, NEW p, NEW price, Own(p, price)
  PROVE  Own(p, price)'
  BY DEF PricesGrow, Own

LEMMA PricesSame == UNCHANGED prices => PricesGrow /\ \A p : PricesAwayStay(p)
  BY DEF PricesGrow, PricesAwayStay

LEMMA SyncedGrows ==
  ASSUME PricesGrow, NEW q, NEW p, Synced(q), Own(p, q.old.price)
  PROVE  Synced(q)'
  BY DEF PricesGrow, Synced, Own, Off

LEMMA ElsewhereKept ==
  ASSUME PlansTypeOK, NEW p \in Plans, PricesGrow, PricesAwayStay(p), OnlyAt(p),
         NEW o \in Plans \ {p}, PlanInv(o)
  PROVE  PlanInv(o)'
<1>1. InFlight(o)' = InFlight(o) /\ \A s \in InFlight(o) : req'[s] = req[s] /\ req[s].plan = o
  BY DEF OnlyAt, InFlight
<1>2. plan'[o] = plan[o] /\ product'[o] = product[o] /\ stale'[o] = stale[o]
      /\ (o \in disturbed' <=> o \in disturbed) /\ (HasRow(o)' <=> HasRow(o))
  BY DEF OnlyAt, HasRow
<1>3. \A price : Own(o, price) =>
        /\ Own(o, price)'
        /\ \A k \in Kinds : price[k] # NoPrice => prices'[price[k]] = prices[price[k]]
  BY OwnGrows DEF Own, PricesAwayStay
<1>4. \A price : OnSale(o, price) => OnSale(o, price)'
  BY DEF OnSale, PricesAwayStay, PricesGrow
<1>5. ASSUME NEW r \in InFlight(o) PROVE AtWork(r)'
  <2>1. AtWork(r) /\ r \in Requests /\ req'[r] = req[r] /\ req[r].plan = o
    BY <1>1, <1>5 DEF PlanInv, InFlight
  <2>2. PICK q : q = req[r]
    OBVIOUS
  <2>3. WellFormed(q) /\ Synced(q)' /\ Own(o, q.old.price)' /\ Own(o, q.new.price)'
    BY <1>3, <2>1, <2>2, SyncedGrows DEF AtWork
  <2>4. ASSUME Alone(r) PROVE Alone(r)'
    BY <1>1, <1>2, <1>3, <2>1, <2>4 DEF Alone, Charges, AtWork
  <2>5. QED
    BY <1>2, <2>1, <2>2, <2>3, <2>4 DEF AtWork
<1>6. ASSUME NEW r \in InFlight(o), Undisturbed(r) PROVE Undisturbed(r)'
  BY <1>1, <1>2, <1>4, <1>6 DEF Undisturbed
<1>7. Charged(o)'
  BY <1>1, <1>2, <1>3 DEF Charged, PlanInv
<1>8. Sold(o) => Sold(o)'
  BY <1>1, <1>2, <1>4 DEF Sold
<1>9. QED
  BY <1>1, <1>2, <1>3, <1>5, <1>6, <1>7, <1>8 DEF PlanInv

(* A checkout is not troubled by prices that are archived, nor by a row    *)
(* whose prices change once they are, or once a request has read others.   *)
LEMMA CheckoutKept ==
  ASSUME NEW t \in Tenants, CheckoutInv(t), checkout'[t] = checkout[t], PricesGrow,
         NEW p, p = checkout[t].plan,
         plan'[p] # Unborn,
         HasRow(p)' => /\ HasRow(p)
                       /\ \A k \in Kinds : plan[p].price[k] # NoPrice =>
                            \/ plan'[p].price[k] = plan[p].price[k]
                            \/ ~prices[plan[p].price[k]].active
                            \/ \E s \in InFlight(p) : req[s].old.price[k] # plan[p].price[k],
         \A s \in InFlight(p)' :
           \/ s \in InFlight(p) /\ req'[s].old = req[s].old
           \/ req'[s].old = plan[p]
  PROVE  CheckoutInv(t)'
<1>1. PICK c : c = checkout[t]
  OBVIOUS
<1>2. Own(p, c.price) /\ Own(p, c.price)'
  BY <1>1, OwnGrows DEF CheckoutInv
<1>3. c.clean => \A k \in Kinds : c.price[k] # NoPrice /\ prices'[c.price[k]].amount = Charge(c.fee[k])
  BY <1>1, <1>2 DEF CheckoutInv, Own, PricesGrow
<1>4. ASSUME c.clean, ~c.open, HasRow(p)', NEW k \in Kinds, prices'[c.price[k]].active
      PROVE  /\ plan'[p].price[k] = c.price[k]
             /\ \A s \in InFlight(p)' : req'[s].old.price[k] = c.price[k]
  <2>1. c.price[k] # NoPrice /\ prices[c.price[k]].active
    BY <1>1, <1>2, <1>3, <1>4 DEF Own, PricesGrow
  <2>2. plan[p].price[k] = c.price[k] /\ \A s \in InFlight(p) : req[s].old.price[k] = c.price[k]
    BY <1>1, <1>4, <2>1 DEF CheckoutInv
  <2>3. QED  BY <1>4, <2>1, <2>2
<1>5. QED
  BY <1>1, <1>2, <1>3, <1>4 DEF CheckoutInv

-----------------------------------------------------------------------------
(* A request begins *)

PlansInv == \A p \in Plans : PlanInv(p)
CheckoutsInv == \A t \in Tenants : checkout[t] # None => CheckoutInv(t)

(* What a request that begins changes.                                     *)
Begun(r, op, p, old, new, todo) ==
  /\ req'[r].op = op /\ req'[r].plan = p /\ req'[r].old = old /\ req'[r].new = new
  /\ req'[r].todo = todo /\ (req'[r].alone <=> InFlight(p) = {})
  /\ req'[r] # None /\ InFlight(p)' = InFlight(p) \cup {r}
  /\ \A s \in InFlight(p) :
       /\ req'[s].op = req[s].op /\ req'[s].plan = p
       /\ req'[s].old = req[s].old /\ req'[s].new = req[s].new
       /\ req'[s].todo = req[s].todo /\ ~req'[s].alone
  /\ \A s \in Requests \ {r} : s \notin InFlight(p) => req'[s] = req[s]
  /\ UNCHANGED <<plan, product, prices, checkout>>
  /\ \/ InFlight(p) = {} /\ UNCHANGED <<stale, disturbed>>
     \/ InFlight(p) # {} /\ stale'[p] = Kinds /\ p \in disturbed'
  /\ PricesGrow /\ PricesAwayStay(p) /\ OnlyAt(p)

LEMMA BeginStep ==
  ASSUME PlansTypeOK, NEW r \in Requests, NEW op \in {"create", "update", "delete"},
         NEW p \in Plans, NEW old \in PlanRows, NEW new \in PlanRows,
         NEW todo \in Seq(Calls), Begin(r, op, p, old, new, todo)
  PROVE  Begun(r, op, p, old, new, todo)
<1> DEFINE q == [op |-> op, plan |-> p, old |-> old, new |-> new, todo |-> todo,
                 alone |-> InFlight(p) = {}]
<1>1. req' = [s \in Requests |->
        IF s = r THEN q ELSE IF s \in InFlight(p) THEN [req[s] EXCEPT !.alone = FALSE] ELSE req[s]]
  BY DEF Begin
<1>2. q \in PlanRequests
  BY DEF PlanRequests
<1>3. req'[r] = q /\ q # None /\ q.plan = p
  BY <1>1, <1>2, Nulls
<1>4. r \notin InFlight(p)
  BY DEF Begin, InFlight
<1>5. ASSUME NEW s \in InFlight(p)
      PROVE  /\ req'[s] \in PlanRequests
             /\ req'[s].op = req[s].op /\ req'[s].plan = p
             /\ req'[s].old = req[s].old /\ req'[s].new = req[s].new
             /\ req'[s].todo = req[s].todo /\ ~req'[s].alone
  <2>1. s \in Requests \ {r} /\ req[s] \in PlanRequests /\ req[s].plan = p
    BY <1>4, RequestTyped DEF InFlight
  <2>2. req'[s] = [req[s] EXCEPT !.alone = FALSE]
    BY <1>1, <1>5, <2>1
  <2>3. QED  BY <2>1, <2>2 DEF PlanRequests
<1>6. \A s \in Requests \ {r} : s \notin InFlight(p) => req'[s] = req[s]
  BY <1>1
<1>7. InFlight(p)' = InFlight(p) \cup {r}
  BY <1>3, <1>5, <1>6, Nulls DEF InFlight
<1>8. PricesGrow /\ PricesAwayStay(p)
  BY PricesSame DEF Begin, catalogueVars
<1>9. OnlyAt(p)
  <2>1. \A o \in Plans \ {p} :
          /\ plan'[o] = plan[o] /\ product'[o] = product[o] /\ stale'[o] = stale[o]
          /\ o \in disturbed' <=> o \in disturbed
    BY DEF Begin, catalogueVars, PlansTypeOK
  <2>2. \A s \in Requests : s \notin InFlight(p) /\ req[s] # None => req'[s] = req[s]
    BY <1>1 DEF Begin
  <2>3. \A s \in Requests : s \notin InFlight(p)' /\ req'[s] # None => req'[s] = req[s]
    BY <1>6, <1>7
  <2>4. QED  BY <2>1, <2>2, <2>3 DEF OnlyAt
<1>10. /\ UNCHANGED <<plan, product, prices, checkout>>
       /\ \/ InFlight(p) = {} /\ UNCHANGED <<stale, disturbed>>
          \/ InFlight(p) # {} /\ stale'[p] = Kinds /\ p \in disturbed'
  BY DEF Begin, catalogueVars, PlansTypeOK
<1>11. /\ req'[r].op = op /\ req'[r].plan = p /\ req'[r].old = old /\ req'[r].new = new
       /\ req'[r].todo = todo /\ (req'[r].alone <=> InFlight(p) = {}) /\ req'[r] # None
  <2>1. (InFlight(p) = {}) \in BOOLEAN
    OBVIOUS
  <2>2. q.alone <=> InFlight(p) = {}
    BY <2>1
  <2>3. QED  BY <1>3, <2>2
<1> HIDE DEF q
<1>12. QED
  BY <1>5, <1>6, <1>7, <1>8, <1>9, <1>10, <1>11 DEF Begun

LEMMA BeginKeeps ==
  ASSUME PlansTypeOK, PlansInv, CheckoutsInv,
         NEW r \in Requests, NEW op \in {"create", "update", "delete"},
         NEW p \in Plans, NEW old, NEW new,
         NEW todo, Begun(r, op, p, old, new, todo),
         op = "create" => InFlight(p) = {}, op = "create" <=> plan[p] = Unborn,
         op # "create" => old = plan[p],
         AtWork(r)', InFlight(p) = {} /\ p \notin disturbed => Undisturbed(r)'
  PROVE  PlansInv' /\ CheckoutsInv'
<1>1. PlanInv(p)
  BY DEF PlansInv
<1>2. PlanInv(p)'
  <2>1. UNCHANGED <<plan, product, prices>>
    BY DEF Begun
  <2>2. \/ InFlight(p) = {} /\ UNCHANGED <<stale, disturbed>>
        \/ InFlight(p) # {} /\ stale'[p] = Kinds /\ p \in disturbed'
    BY DEF Begun
  <2>3. ASSUME NEW s \in InFlight(p) PROVE AtWork(s)'
    <3>1. AtWork(s) /\ req[s].plan = p /\ req[s].op # "create"
      BY <1>1, <2>3 DEF PlanInv, AtWork, InFlight
    <3>2. PICK q : q = req'[s]
      OBVIOUS
    <3>3. /\ q.op = req[s].op /\ q.plan = p /\ q.old = req[s].old /\ q.new = req[s].new
          /\ q.todo = req[s].todo /\ ~q.alone
      BY <2>3, <3>2 DEF Begun
    <3>4. WellFormed(q) /\ Synced(q)' /\ Own(p, q.old.price)' /\ Own(p, q.new.price)'
      BY <2>1, <3>1, <3>3 DEF AtWork, WellFormed, Synced, Off, Own, Pending, Archiving
    <3>5. q.op # "create" /\ plan'[p] # Unborn
      BY <2>1, <3>1, <3>3 DEF AtWork
    <3>6. req'[s].op # "create" /\ req'[s].plan = p /\ ~req'[s].alone
      BY <3>1, <3>2, <3>3
    <3>7. /\ WellFormed(req[s])' /\ Synced(req[s])'
          /\ Own(p, req[s].old.price)' /\ Own(p, req[s].new.price)'
      BY <3>2, <3>4 DEF WellFormed, Synced, Off, Own, Pending, Archiving
    <3>8. stale'[p] = Kinds /\ p \in disturbed'
      BY <2>2, <2>3
    <3>9. QED
      BY <3>5, <3>6, <3>7, <3>8 DEF AtWork
  <2>4. \A s \in InFlight(p)' : AtWork(s)'
    BY <2>3 DEF Begun
  <2>5. Charged(p)'
    <3>1. InFlight(p)' # {} /\ stale[p] \subseteq stale'[p]
      BY <2>2 DEF PlansTypeOK, Begun
    <3>2. QED  BY <1>1, <2>1, <3>1 DEF PlanInv, Charged, HasRow
  <2>6. ASSUME p \notin disturbed' PROVE Sold(p)' /\ \A s \in InFlight(p)' : Undisturbed(s)'
    <3>1. InFlight(p) = {} /\ p \notin disturbed /\ InFlight(p)' = {r}
      BY <2>2, <2>6 DEF Begun
    <3>2. QED  BY <1>1, <2>1, <3>1 DEF PlanInv, Sold, HasRow
  <2>7. QED
    BY <1>1, <2>1, <2>4, <2>5, <2>6 DEF PlanInv, HasRow, Own
<1>3. PlansInv'
  <2>1. ASSUME NEW o \in Plans \ {p} PROVE PlanInv(o)'
    BY <2>1, ElsewhereKept DEF PlansInv, Begun
  <2>2. QED  BY <1>2, <2>1 DEF PlansInv
<1>4. ASSUME NEW t \in Tenants, checkout'[t] # None PROVE CheckoutInv(t)'
  <2>1. checkout'[t] = checkout[t] /\ CheckoutInv(t) /\ UNCHANGED plan /\ PricesGrow
    BY <1>4 DEF CheckoutsInv, Begun
  <2>2. PICK o : o = checkout[t].plan
    OBVIOUS
  <2>3. plan[o] # Unborn /\ (HasRow(o)' <=> HasRow(o))
    BY <2>1, <2>2 DEF CheckoutInv, HasRow
  <2>4. ASSUME NEW s \in InFlight(o)'
        PROVE  \/ s \in InFlight(o) /\ req'[s].old = req[s].old
               \/ req'[s].old = plan[o]
    <3>1. s \in Requests /\ req'[s] # None /\ req'[s].plan = o
      BY <2>4 DEF InFlight
    <3>2. CASE s = r
      <4>1. o = p /\ req'[r].old = old
        BY <3>1, <3>2 DEF Begun
      <4>2. QED  BY <2>3, <3>2, <4>1
    <3>3. CASE s # r /\ s \in InFlight(p)
      BY <3>1, <3>3 DEF Begun, InFlight
    <3>4. CASE s # r /\ s \notin InFlight(p)
      BY <3>1, <3>4 DEF Begun, InFlight
    <3>5. QED  BY <3>2, <3>3, <3>4
  <2>5. QED  BY <2>1, <2>2, <2>3, <2>4, CheckoutKept
<1>5. QED  BY <1>3, <1>4 DEF CheckoutsInv

LEMMA CreateKeeps ==
  ASSUME PlansTypeOK, PlansInv, CheckoutsInv, NEW r \in Requests, NEW p \in Plans,
         NEW fee \in [Kinds -> Fees], CreatePlan(r, p, fee)
  PROVE  PlansInv' /\ CheckoutsInv'
<1> DEFINE entry == [fee |-> fee, active |-> TRUE, price |-> NoPrices]
<1>1. entry \in PlanRows /\ entry.price = NoPrices
  BY DEF PlanRows, NoPrices, NoPrice, Ids
<1> HIDE DEF entry
<1>2. Begin(r, "create", p, entry, entry, CreateCalls) /\ plan[p] = Unborn /\ InFlight(p) = {}
  BY DEF CreatePlan, CreateCalls, entry
<1>3. PICK q : q = req'[r]
  OBVIOUS
<1>0. Begun(r, "create", p, entry, entry, CreateCalls)
  BY <1>1, <1>2, CreateIsOrdered, BeginStep
<1>4. /\ q.op = "create" /\ q.plan = p /\ q.old = entry /\ q.new = entry
      /\ q.todo = CreateCalls /\ q.alone = TRUE /\ InFlight(p)' = {r}
  BY <1>0, <1>2, <1>3 DEF Begun
<1>5. UNCHANGED <<plan, product, prices, disturbed>>
  BY <1>0, <1>2 DEF Begun
<1>6. /\ Ordered(q.todo)
      /\ CallsOf(q.todo) = {Call("product", "flat"), Call("price", "flat"), Call("price", "overage")}
  BY <1>4, CreateIsOrdered
<1>7. Pending(q) = Kinds
  BY <1>6, KindsAreTwo DEF Pending
<1>8. WellFormed(q)
  BY <1>1, <1>4, <1>6 DEF WellFormed, Makes, Call
<1>9. Synced(q)' /\ Own(p, q.old.price)' /\ Own(p, q.new.price)'
  BY <1>1, <1>4 DEF Synced, Own, NoPrices
<1>10. Alone(r)'
  BY <1>3, <1>4, <1>7 DEF Alone
<1>11. AtWork(r)'
  BY <1>2, <1>3, <1>4, <1>5, <1>8, <1>9, <1>10 DEF AtWork
<1>12. ASSUME p \notin disturbed PROVE Undisturbed(r)'
  <2>1. product[p] = "none" /\ OnSale(p, NoPrices)
    BY <1>2, <1>12 DEF PlansInv, PlanInv, Sold
  <2>2. OnSale(p, q.new.price)'
    BY <1>1, <1>4, <1>5, <2>1 DEF OnSale
  <2>3. QED
    BY <1>3, <1>4, <1>5, <1>6, <1>7, <2>1, <2>2 DEF Undisturbed
<1>13. QED
  BY <1>0, <1>2, <1>11, <1>12, BeginKeeps

LEMMA UpdateKeeps ==
  ASSUME PlansTypeOK, PlansInv, CheckoutsInv, NEW r \in Requests, NEW p \in Plans,
         NEW fee \in [Kinds -> Fees], NEW active \in BOOLEAN, UpdatePlan(r, p, fee, active)
  PROVE  PlansInv' /\ CheckoutsInv'
<1>1. PICK old \in PlanRows : old = plan[p]
  BY RowTyped DEF UpdatePlan
<1>2. PICK new : new = [old EXCEPT !.fee = fee, !.active = active]
  OBVIOUS
<1>3. new \in PlanRows /\ new.price = old.price /\ new.fee = fee
  BY <1>2 DEF PlanRows
<1>4. PICK todo : todo = Resync(old, new, "flat") \o Resync(old, new, "overage")
  OBVIOUS
<1>5. Begin(r, "update", p, old, new, todo) /\ HasRow(p)
  BY <1>1, <1>2, <1>4 DEF UpdatePlan
<1> DEFINE Moved(k) == old.fee[k] # new.fee[k] /\ old.price[k] # NoPrice
<1>6. /\ todo \in Seq(Calls) /\ Ordered(todo)
      /\ \A c \in CallsOf(todo) : c.do \in {"archive", "price"}
      /\ \A k \in Kinds : Call("price", k) \in CallsOf(todo) <=> Moved(k)
      /\ \A k \in Kinds : Call("archive", k) \in CallsOf(todo) <=> Moved(k)
  <2>1. PICK s \in Seq(Calls) : s = Resync(old, new, "flat")
    BY ResyncIsOrdered, KindsAreTwo
  <2>2. PICK u \in Seq(Calls) : u = Resync(old, new, "overage")
    BY ResyncIsOrdered, KindsAreTwo
  <2>3. /\ Ordered(s)
        /\ CallsOf(s) = IF Moved("flat") THEN {Call("archive", "flat"), Call("price", "flat")} ELSE {}
    BY <2>1, ResyncIsOrdered, KindsAreTwo
  <2>4. /\ Ordered(u)
        /\ CallsOf(u) = IF Moved("overage") THEN {Call("archive", "overage"), Call("price", "overage")}
                                          ELSE {}
    BY <2>2, ResyncIsOrdered, KindsAreTwo
  <2> HIDE DEF Moved
  <2>5. \A b \in CallsOf(s), c \in CallsOf(u) : b.kind # c.kind /\ b.do # "product"
    BY <2>3, <2>4 DEF Call
  <2>6. /\ todo \in Seq(Calls) /\ Ordered(todo)
        /\ CallsOf(todo) = CallsOf(s) \cup CallsOf(u)
    BY <1>4, <2>1, <2>2, <2>3, <2>4, <2>5, OrderedConcat
  <2>7. \A k \in Kinds : k = "flat" \/ k = "overage"
    BY KindsAreTwo
  <2>8. QED  BY <2>3, <2>4, <2>6, <2>7 DEF Call
<1> HIDE DEF Moved
<1>0. Begun(r, "update", p, old, new, todo)
  BY <1>3, <1>5, <1>6, BeginStep
<1>7. PICK q : q = req'[r]
  OBVIOUS
<1>8. /\ q.op = "update" /\ q.plan = p /\ q.old = old /\ q.new = new /\ q.todo = todo
      /\ q.alone <=> InFlight(p) = {}
      /\ InFlight(p)' = InFlight(p) \cup {r}
  BY <1>0, <1>7 DEF Begun
<1>9. UNCHANGED <<plan, product, prices>>
      /\ \/ InFlight(p) = {} /\ UNCHANGED <<stale, disturbed>>
         \/ InFlight(p) # {} /\ stale'[p] = Kinds /\ p \in disturbed'
  BY <1>0 DEF Begun
<1>10. WellFormed(q)
  BY <1>6, <1>8 DEF WellFormed, Makes
<1>11. Synced(q)'
  BY <1>3, <1>6, <1>8 DEF Synced, Pending, Archiving, Moved
<1>12. Own(p, old.price)'
  BY <1>1, <1>5, <1>9 DEF PlansInv, PlanInv, Own
<1>13. ASSUME q.alone PROVE Alone(r)'
  <2>1. InFlight(p) = {} /\ stale'[p] = stale[p] /\ Charged(p)
    BY <1>8, <1>9, <1>13 DEF PlansInv, PlanInv
  <2>2. ASSUME NEW k \in Kinds \ Pending(q), k \notin stale[p]
        PROVE  Charges(new.price[k], new.fee[k])
    <3>1. /\ old.price[k] # NoPrice /\ prices[old.price[k]].amount = Charge(old.fee[k])
          /\ prices[old.price[k]].active
      BY <1>1, <1>5, <2>1, <2>2 DEF Charged
    <3>2. new.fee[k] = old.fee[k]
      BY <1>6, <1>8, <2>2, <3>1 DEF Pending, Moved
    <3>3. QED  BY <1>3, <3>1, <3>2 DEF Charges
  <2>3. \A id, f : Charges(id, f) => Charges(id, f)'
    BY <1>9 DEF Charges
  <2>4. QED
    BY <1>1, <1>3, <1>7, <1>8, <1>9, <2>1, <2>2, <2>3 DEF Alone
<1>14. plan[p] # Unborn
  BY <1>5 DEF HasRow
<1>15. AtWork(r)'
  BY <1>3, <1>7, <1>8, <1>9, <1>10, <1>11, <1>12, <1>13, <1>14 DEF AtWork
<1>16. ASSUME InFlight(p) = {}, p \notin disturbed PROVE Undisturbed(r)'
  <2>1. /\ product[p] = "active" /\ OnSale(p, old.price)
        /\ \A k \in Kinds : old.price[k] # NoPrice
    BY <1>1, <1>5, <1>16 DEF PlansInv, PlanInv, Sold
  <2>2. OnSale(p, new.price)'
    BY <1>3, <1>9, <2>1 DEF OnSale
  <2>3. QED
    BY <1>3, <1>7, <1>8, <1>9, <2>1, <2>2 DEF Undisturbed
<1>17. QED
  BY <1>0, <1>1, <1>14, <1>15, <1>16, BeginKeeps

LEMMA DeleteKeeps ==
  ASSUME PlansTypeOK, PlansInv, CheckoutsInv, NEW r \in Requests, NEW p \in Plans,
         DeletePlan(r, p)
  PROVE  PlansInv' /\ CheckoutsInv'
<1>1. PICK entry \in PlanRows : entry = plan[p]
  BY RowTyped DEF DeletePlan
<1>2. PICK todo : todo = IF entry.price = NoPrices THEN <<>> ELSE <<Call("close", "flat")>>
  OBVIOUS
<1>3. Begin(r, "delete", p, entry, entry, todo) /\ HasRow(p)
  BY <1>1, <1>2 DEF DeletePlan
<1>4. /\ todo \in Seq(Calls) /\ Ordered(todo)
      /\ CallsOf(todo) \subseteq {Call("close", "flat")}
  BY <1>2, NoCalls, CloseIsOrdered
<1>0. Begun(r, "delete", p, entry, entry, todo)
  BY <1>1, <1>3, <1>4, BeginStep
<1>5. PICK q : q = req'[r]
  OBVIOUS
<1>6. /\ q.op = "delete" /\ q.plan = p /\ q.old = entry /\ q.new = entry /\ q.todo = todo
      /\ q.alone <=> InFlight(p) = {}
      /\ InFlight(p)' = InFlight(p) \cup {r}
  BY <1>0, <1>5 DEF Begun
<1>7. UNCHANGED <<plan, product, prices>>
      /\ \/ InFlight(p) = {} /\ UNCHANGED <<stale, disturbed>>
         \/ InFlight(p) # {} /\ stale'[p] = Kinds /\ p \in disturbed'
  BY <1>0 DEF Begun
<1>8. WellFormed(q)
  BY <1>4, <1>6 DEF WellFormed, Makes, Call
<1>9. Synced(q)' /\ Own(p, entry.price)'
  BY <1>1, <1>3, <1>6, <1>7 DEF PlansInv, PlanInv, Own, Synced
<1>10. q.alone => Alone(r)'
  BY <1>1, <1>5, <1>6, <1>7 DEF Alone
<1>11. plan[p] # Unborn
  BY <1>3 DEF HasRow
<1>12. AtWork(r)'
  BY <1>5, <1>6, <1>7, <1>8, <1>9, <1>10, <1>11 DEF AtWork
<1>13. ASSUME InFlight(p) = {}, p \notin disturbed PROVE Undisturbed(r)'
  <2>1. OnSale(p, entry.price) /\ \A k \in Kinds : entry.price[k] # NoPrice
    BY <1>1, <1>3, <1>13 DEF PlansInv, PlanInv, Sold
  <2>2. todo # <<>>
    <3>1. entry.price # NoPrices
      BY <2>1, KindsAreTwo DEF NoPrices
    <3>2. QED  BY <1>2, <3>1
  <2>3. OnSale(p, entry.price)'
    BY <1>7, <2>1 DEF OnSale
  <2>4. QED
    BY <1>5, <1>6, <2>2, <2>3 DEF Undisturbed
<1>14. QED
  BY <1>0, <1>1, <1>11, <1>12, <1>13, BeginKeeps

-----------------------------------------------------------------------------
(* A request calls Stripe *)

LEMMA PerformedEffect ==
  ASSUME PlansTypeOK, NEW q \in PlanRequests, NEW c \in Calls, Performed(q, c),
         c.do = "archive" => Own(q.plan, q.new.price) /\ q.new.price[c.kind] # NoPrice
  PROVE  /\ PricesGrow /\ PricesAwayStay(q.plan)
         /\ \A o \in Plans \ {q.plan} : product'[o] = product[o]
         /\ c.do = "product" => product'[q.plan] = "active"
         /\ c.do = "close" => product'[q.plan] = "archived"
         /\ c.do \in {"price", "archive"} => product' = product
         /\ c.do \in {"product", "close"} => prices' = prices
         /\ c.do = "archive" => /\ ~prices'[q.new.price[c.kind]].active
                                /\ DOMAIN prices' = DOMAIN prices
                                /\ \A i \in DOMAIN prices :
                                     i # q.new.price[c.kind] => prices'[i] = prices[i]
         /\ c.do = "price" =>
              LET id == Len(prices) + 1 IN
              /\ id \in Nat \ {0} /\ id \notin DOMAIN prices
              /\ DOMAIN prices' = DOMAIN prices \cup {id}
              /\ prices'[id].plan = q.plan /\ prices'[id].kind = c.kind
              /\ prices'[id].amount = Charge(q.new.fee[c.kind]) /\ prices'[id].active
              /\ \A i \in DOMAIN prices : prices'[i] = prices[i]
<1>1. /\ \A o \in Plans \ {q.plan} : product'[o] = product[o]
      /\ c.do = "product" => product'[q.plan] = "active"
      /\ c.do = "close" => product'[q.plan] = "archived"
      /\ c.do \in {"price", "archive"} => product' = product
  BY DEF Performed, PlansTypeOK, PlanRequests
<1>2. CASE c.do \in {"product", "close"}
  <2>1. UNCHANGED prices
    BY <1>2 DEF Performed
  <2>2. QED  BY <1>1, <1>2, <2>1, PricesSame
<1>3. CASE c.do = "archive"
  <2>1. PICK id : id = q.new.price[c.kind]
    OBVIOUS
  <2>2. id \in DOMAIN prices /\ prices[id].plan = q.plan
    BY <1>3, <2>1 DEF Own, Calls
  <2>3. prices' = [prices EXCEPT ![id].active = FALSE]
    BY <1>3, <2>1 DEF Performed
  <2>4. \A i \in DOMAIN prices : prices[i] \in Prices
    BY ElementOfSeq, LenProperties DEF PlansTypeOK
  <2>5. /\ DOMAIN prices' = DOMAIN prices
        /\ \A i \in DOMAIN prices : i # id => prices'[i] = prices[i]
        /\ prices'[id] = [prices[id] EXCEPT !.active = FALSE]
    BY <2>2, <2>3
  <2>6. /\ prices'[id].plan = prices[id].plan /\ prices'[id].kind = prices[id].kind
        /\ prices'[id].amount = prices[id].amount /\ ~prices'[id].active
    BY <2>2, <2>4, <2>5 DEF Prices
  <2>7. PricesGrow /\ PricesAwayStay(q.plan)
    BY <2>2, <2>5, <2>6 DEF PricesGrow, PricesAwayStay
  <2>8. QED  BY <1>1, <1>3, <2>1, <2>5, <2>6, <2>7
<1>4. CASE c.do = "price"
  <2>1. PICK new : new = [plan |-> q.plan, kind |-> c.kind, amount |-> Charge(q.new.fee[c.kind]),
                          active |-> TRUE]
    OBVIOUS
  <2>2. new \in Prices /\ prices' = Append(prices, new)
    BY <1>4, <2>1, ChargesAreNumbers DEF Performed, Amount, Prices, PlanRequests, PlanRows, Calls
  <2>3. PICK id : id = Len(prices) + 1
    OBVIOUS
  <2>4. /\ Len(prices) \in Nat /\ DOMAIN prices = 1..Len(prices)
        /\ DOMAIN prices' = 1..id /\ prices'[id] = new
        /\ \A i \in 1..Len(prices) : prices'[i] = prices[i]
    BY <2>2, <2>3, AppendProperties, LenProperties DEF PlansTypeOK
  <2>5. id \in Nat \ {0} /\ id \notin DOMAIN prices /\ DOMAIN prices' = DOMAIN prices \cup {id}
    BY <2>3, <2>4
  <2>6. /\ prices'[id].plan = q.plan /\ prices'[id].kind = c.kind
        /\ prices'[id].amount = Charge(q.new.fee[c.kind]) /\ prices'[id].active
    BY <2>1, <2>4
  <2>7. PricesGrow /\ PricesAwayStay(q.plan)
    BY <2>4, <2>5, <2>6 DEF PricesGrow, PricesAwayStay
  <2>8. QED  BY <1>1, <1>4, <2>3, <2>4, <2>5, <2>6, <2>7
<1>5. QED  BY <1>2, <1>3, <1>4 DEF Calls

(* The requests in flight stay where they are. *)
LEMMA SameFlights ==
  ASSUME NEW r \in Requests, req[r] # None, req'[r] # None, req'[r].plan = req[r].plan,
         \A s \in Requests \ {r} : req'[s] = req[s]
  PROVE  \A o : InFlight(o)' = InFlight(o)
<1>1. \A s \in Requests : (req'[s] # None <=> req[s] # None) /\ (req[s] # None => req'[s].plan = req[s].plan)
  OBVIOUS
<1>2. QED  BY <1>1 DEF InFlight

(* In between, a request alters its todo and its new row alone.            *)
Proceeds(r, q, p) ==
  /\ q = req[r] /\ q # None /\ p = q.plan
  /\ req'[r] # None /\ req'[r].op = q.op /\ req'[r].plan = p
  /\ req'[r].old = q.old /\ req'[r].alone = q.alone
  /\ \A s \in Requests \ {r} : req'[s] = req[s]
  /\ UNCHANGED <<plan, checkout>>
  /\ \A o \in Plans \ {p} :
       /\ product'[o] = product[o] /\ stale'[o] = stale[o]
       /\ o \in disturbed' <=> o \in disturbed
  /\ stale[p] \subseteq stale'[p] /\ stale'[p] \subseteq Kinds
  /\ p \in disturbed => p \in disturbed'
  /\ PricesGrow /\ PricesAwayStay(p)

LEMMA ProceedsKeeps ==
  ASSUME PlansTypeOK, PlansInv, CheckoutsInv, NEW r \in Requests, NEW q, NEW p \in Plans,
         Proceeds(r, q, p),
         AtWork(r)', p \notin disturbed' => Undisturbed(r)'
  PROVE  PlansInv' /\ CheckoutsInv'
<1>1. /\ \A o : InFlight(o)' = InFlight(o)
      /\ \A s \in Requests \ {r} : req'[s] = req[s]
      /\ r \in InFlight(p) /\ PlanInv(p) /\ AtWork(r)
      /\ UNCHANGED plan /\ PricesGrow
  BY SameFlights DEF Proceeds, PlansInv, PlanInv, InFlight
<1>2. PlanInv(p)'
  <2>1. ASSUME NEW s \in InFlight(p) PROVE AtWork(s)'
    <3>1. CASE s = r
      BY <3>1
    <3>2. CASE s # r
      <4>1. PICK u : u = req[s]
        OBVIOUS
      <4>2. /\ req'[s] = u /\ u.plan = p /\ WellFormed(u) /\ Synced(u)
            /\ Own(p, u.old.price) /\ Own(p, u.new.price) /\ AtWork(s)
        BY <1>1, <2>1, <3>2, <4>1 DEF PlanInv, InFlight, AtWork
      <4>3. ~u.alone /\ stale[p] = Kinds /\ p \in disturbed
        BY <1>1, <2>1, <3>2, <4>1, <4>2 DEF AtWork, Alone
      <4>4. Synced(u)' /\ Own(p, u.old.price)' /\ Own(p, u.new.price)'
        BY <1>1, <4>2, SyncedGrows, OwnGrows
      <4>5. stale'[p] = Kinds /\ p \in disturbed'
        BY <4>3 DEF Proceeds
      <4>6. QED
        BY <1>1, <4>1, <4>2, <4>3, <4>4, <4>5 DEF AtWork
    <3>3. QED  BY <3>1, <3>2
  <2>2. HasRow(p)' => Own(p, plan[p].price)'
    BY <1>1, OwnGrows DEF PlanInv, HasRow
  <2>3. Charged(p)'
    <3>1. InFlight(p)' # {} /\ stale[p] \subseteq stale'[p]
      BY <1>1 DEF Proceeds
    <3>2. QED
      BY <1>1, <3>1 DEF PlanInv, Charged, HasRow, Own, PricesGrow
  <2>4. ASSUME p \notin disturbed' PROVE Sold(p)' /\ \A s \in InFlight(p)' : Undisturbed(s)'
    <3>1. p \notin disturbed
      BY <2>4 DEF Proceeds
    <3>2. InFlight(p) = {r}
      BY <1>1, <3>1 DEF AtWork, Alone, InFlight, Proceeds
    <3>3. Sold(p)'
      BY <1>1, <3>1, <3>2 DEF PlanInv, Sold, HasRow
    <3>4. QED  BY <1>1, <2>4, <3>2, <3>3
  <2>5. QED
    BY <1>1, <2>1, <2>2, <2>3, <2>4 DEF PlanInv
<1>3. OnlyAt(p)
  <2>1. ASSUME NEW s \in Requests, s \notin InFlight(p) PROVE req'[s] = req[s]
    BY <1>1, <2>1
  <2>2. QED  BY <1>1, <2>1 DEF OnlyAt, Proceeds
<1>4. PlansInv'
  <2>1. ASSUME NEW o \in Plans \ {p} PROVE PlanInv(o)'
    BY <1>3, <2>1, ElsewhereKept DEF PlansInv, Proceeds
  <2>2. QED  BY <1>2, <2>1 DEF PlansInv
<1>5. ASSUME NEW t \in Tenants, checkout'[t] # None PROVE CheckoutInv(t)'
  <2>1. checkout'[t] = checkout[t] /\ CheckoutInv(t)
    BY <1>5 DEF CheckoutsInv, Proceeds
  <2>2. PICK o : o = checkout[t].plan
    OBVIOUS
  <2>3. plan'[o] # Unborn /\ (HasRow(o)' <=> HasRow(o))
    BY <1>1, <2>1, <2>2 DEF CheckoutInv, HasRow
  <2>4. \A s \in InFlight(o)' : s \in InFlight(o) /\ req'[s].old = req[s].old
    BY <1>1 DEF Proceeds, InFlight
  <2>5. QED  BY <1>1, <2>1, <2>2, <2>3, <2>4, CheckoutKept
<1>6. QED  BY <1>4, <1>5 DEF CheckoutsInv

(* A price is archived for the sake of the next one.                       *)
LEMMA NextCall ==
  ASSUME NEW q \in PlanRequests, q.todo # <<>>, WellFormed(q), Synced(q),
         NEW c, c = Head(q.todo)
  PROVE  /\ c \in Calls
         /\ c.do = "archive" => /\ q.op = "update" /\ c.kind \in Pending(q)
                                /\ q.new.price[c.kind] # NoPrice
                                /\ q.new.price[c.kind] = q.old.price[c.kind]
<1>1. q.todo \in Seq(Calls) /\ q.op \in {"create", "update", "delete"}
  BY DEF PlanRequests
<1>2. PICK rest : rest = Tail(q.todo)
  OBVIOUS
<1>3. /\ c \in Calls /\ CallsOf(q.todo) = {c} \cup CallsOf(rest)
      /\ c.do = "archive" => Call("price", c.kind) \in CallsOf(rest)
  BY <1>1, <1>2, TailOrdered DEF WellFormed
<1>4. c.kind \in Kinds /\ c.do \in Makes(q.op)
  BY <1>3 DEF Calls, WellFormed
<1>5. ASSUME c.do = "archive"
      PROVE  q.op = "update" /\ c.kind \in Pending(q)
  BY <1>1, <1>3, <1>4, <1>5 DEF Makes, Pending
<1>6. QED  BY <1>3, <1>4, <1>5 DEF Synced

(* A call leaves alone the price of a fee it is not about.                 *)
LEMMA OtherPriceKept ==
  ASSUME PlansTypeOK, NEW q \in PlanRequests, q.todo # <<>>, WellFormed(q), Synced(q),
         Own(q.plan, q.new.price), Performed(q, Head(q.todo)),
         NEW k \in Kinds \ Pending(q), q.new.price[k] # NoPrice
  PROVE  prices'[q.new.price[k]] = prices[q.new.price[k]]
<1>1. PICK c : c = Head(q.todo)
  OBVIOUS
<1>2. c \in Calls /\ Performed(q, c) /\ c.kind \in Kinds
  BY <1>1, NextCall DEF Calls
<1>3. c.do = "archive" => c.kind \in Pending(q) /\ q.new.price[c.kind] # NoPrice
  BY <1>1, NextCall
<1>4. q.new.price[k] \in DOMAIN prices /\ prices[q.new.price[k]].kind = k
  BY DEF Own
<1>5. CASE c.do = "archive"
  <2>1. q.new.price[k] # q.new.price[c.kind]
    BY <1>2, <1>3, <1>4, <1>5 DEF Own
  <2>2. \A i \in DOMAIN prices : i # q.new.price[c.kind] => prices'[i] = prices[i]
    BY <1>2, <1>3, <1>5, PerformedEffect
  <2>3. QED  BY <1>4, <2>1, <2>2
<1>6. CASE c.do # "archive"
  <2>1. prices' = prices \/ \A i \in DOMAIN prices : prices'[i] = prices[i]
    <3>1. c.do \in {"price", "product", "close"}
      BY <1>2, <1>6 DEF Calls
    <3>2. QED  BY <1>2, <1>6, <3>1, PerformedEffect
  <2>2. QED  BY <1>4, <2>1
<1>7. QED  BY <1>5, <1>6

LEMMA CallKeeps ==
  ASSUME PlansTypeOK, PlansInv, CheckoutsInv, NEW r \in Requests, CallStripe(r)
  PROVE  PlansInv' /\ CheckoutsInv'
<1>1. PICK q \in PlanRequests : q = req[r]
  BY RequestTyped DEF CallStripe
<1>2. PICK c : c = Head(q.todo)
  OBVIOUS
<1>3. PICK n : n = req'[r]
  OBVIOUS
<1>4. PICK p \in Plans : p = q.plan
  BY DEF PlanRequests
<1>5. /\ q.todo \in Seq(Calls) /\ q.todo # <<>> /\ c \in Calls /\ c.kind \in Kinds
      /\ n # None /\ n.op = q.op /\ n.plan = p /\ n.old = q.old /\ n.alone = q.alone
      /\ n.todo = Tail(q.todo) /\ n.new.fee = q.new.fee
      /\ n.new.price[c.kind] = IF c.do = "price" THEN Len(prices) + 1 ELSE q.new.price[c.kind]
      /\ \A k \in Kinds \ {c.kind} : n.new.price[k] = q.new.price[k]
      /\ c.do # "price" => n.new = q.new
      /\ \A s \in Requests \ {r} : req'[s] = req[s]
  <2>1. /\ q.todo \in Seq(Calls) /\ q.todo # <<>> /\ c \in Calls
        /\ n # None /\ n.op = q.op /\ n.plan = q.plan /\ n.old = q.old /\ n.alone = q.alone
        /\ n.todo = Tail(q.todo) /\ n.new.fee = q.new.fee
        /\ n.new.price[c.kind] = IF c.do = "price" THEN Len(prices) + 1 ELSE q.new.price[c.kind]
        /\ \A k \in Kinds \ {c.kind} : n.new.price[k] = q.new.price[k]
        /\ c.do # "price" => n.new = q.new
        /\ \A s \in Requests \ {r} : req'[s] = req[s]
    BY <1>1, <1>2, <1>3, CallStep
  <2>2. c.kind \in Kinds
    BY <2>1 DEF Calls
  <2>3. QED  BY <1>4, <2>1, <2>2
<1>6. r \in InFlight(p) /\ AtWork(r) /\ WellFormed(q) /\ Synced(q)
      /\ Own(p, q.old.price) /\ Own(p, q.new.price)
  BY <1>1, <1>4, <1>5 DEF PlansInv, PlanInv, InFlight, AtWork, CallStripe
<1>7. /\ CallsOf(q.todo) = {c} \cup CallsOf(n.todo) /\ Ordered(n.todo)
      /\ \A b \in CallsOf(n.todo) :
           /\ c.do = "price" => b.kind # c.kind
           /\ c.do = "product" => b.do # "product"
      /\ c.do = "archive" => Call("price", c.kind) \in CallsOf(n.todo)
  BY <1>2, <1>5, <1>6, TailOrdered DEF WellFormed
<1>8. c.do \in Makes(q.op) /\ \A b \in CallsOf(n.todo) : b.do \in Makes(q.op)
  BY <1>6, <1>7 DEF WellFormed
<1>9. q.op \in {"create", "update", "delete"}
  BY DEF PlanRequests
<1>10. c = Call(c.do, c.kind)
  BY <1>5 DEF Calls, Call
<1>11. c.do = "archive" => q.op = "update" /\ q.new.price[c.kind] # NoPrice
                           /\ q.new.price[c.kind] = q.old.price[c.kind]
  BY <1>1, <1>2, <1>5, <1>6, NextCall
<1>0. Performed(q, c)
  BY <1>1, <1>2 DEF CallStripe
<1>12. /\ PricesGrow /\ PricesAwayStay(p)
       /\ \A o \in Plans \ {p} : product'[o] = product[o]
       /\ c.do = "product" => product'[p] = "active"
       /\ c.do = "close" => product'[p] = "archived"
       /\ c.do \in {"price", "archive"} => product' = product
       /\ c.do \in {"product", "close"} => prices' = prices
       /\ c.do = "archive" =>
            /\ ~prices'[q.new.price[c.kind]].active
            /\ DOMAIN prices' = DOMAIN prices
            /\ \A i \in DOMAIN prices : i # q.new.price[c.kind] => prices'[i] = prices[i]
  <2>1. c.do = "archive" => Own(q.plan, q.new.price) /\ q.new.price[c.kind] # NoPrice
    BY <1>4, <1>6, <1>11
  <2>2. c \in Calls
    BY <1>5
  <2>3. QED  BY <1>0, <1>4, <2>1, <2>2, PerformedEffect
<1>13. c.do = "price" =>
         LET id == Len(prices) + 1 IN
         /\ id \in Nat \ {0} /\ id \notin DOMAIN prices
         /\ DOMAIN prices' = DOMAIN prices \cup {id}
         /\ prices'[id].plan = p /\ prices'[id].kind = c.kind
         /\ prices'[id].amount = Charge(q.new.fee[c.kind]) /\ prices'[id].active
         /\ \A i \in DOMAIN prices : prices'[i] = prices[i]
  <2>1. c \in Calls
    BY <1>5
  <2>2. QED  BY <1>0, <1>4, <2>1, PerformedEffect
<1>14. UNCHANGED <<plan, checkout, stale, disturbed>>
  BY DEF CallStripe, pastVars
<1>15. Proceeds(r, q, p)
  BY <1>1, <1>3, <1>4, <1>5, <1>6, <1>12, <1>14 DEF Proceeds, PlansTypeOK, InFlight
<1>16. Pending(n) = IF c.do = "price" THEN Pending(q) \ {c.kind} ELSE Pending(q)
  BY <1>7, <1>10 DEF Pending, Call
<1>17. Archiving(n) \subseteq Archiving(q)
       /\ Archiving(q) \ Archiving(n) \subseteq IF c.do = "archive" THEN {c.kind} ELSE {}
  BY <1>7, <1>10 DEF Archiving, Call
<1>18. c.do = "price" => c.kind \in Pending(q) \ Archiving(q)
  BY <1>5, <1>7, <1>10 DEF Pending, Archiving, Call
<1>19. WellFormed(n)
  <2>1. q.op = "delete" => c.do # "price"
    BY <1>8 DEF Makes
  <2>2. QED  BY <1>5, <1>6, <1>7, <1>8, <2>1 DEF WellFormed
<1>20. Own(p, n.old.price)' /\ Own(p, n.new.price)'
  <2>1. Own(p, q.old.price)' /\ Own(p, q.new.price)'
    BY <1>6, <1>12, OwnGrows
  <2>2. QED  BY <1>5, <1>13, <2>1 DEF Own
<1>21. Synced(n)'
  <2>1. Synced(q)'
    BY <1>6, <1>12, SyncedGrows
  <2>2. CASE c.do = "price"
    BY <1>5, <1>16, <1>17, <1>18, <2>1, <2>2 DEF Synced
  <2>3. CASE c.do = "archive"
    <3>1. Off(q.old.price[c.kind])'
      BY <1>11, <1>12, <2>3 DEF Off
    <3>2. QED
      BY <1>5, <1>16, <1>17, <2>1, <2>3, <3>1 DEF Synced
  <2>4. CASE c.do \in {"product", "close"}
    BY <1>5, <1>16, <1>17, <2>1, <2>4 DEF Synced
  <2>5. QED  BY <1>5, <2>2, <2>3, <2>4 DEF Calls
<1>22. ASSUME q.alone PROVE Alone(r)'
  <2>1. InFlight(p)' = {r} /\ (q.op # "create" => plan[p] = q.old)
    BY <1>1, <1>3, <1>4, <1>5, <1>6, <1>22, SameFlights DEF AtWork, Alone, InFlight
  <2>2. ASSUME q.op # "delete", NEW k \in Kinds \ Pending(n),
               k \notin stale[p] \/ n.new.price[k] # q.old.price[k]
        PROVE  Charges(n.new.price[k], n.new.fee[k])'
    <3>1. CASE c.do = "price" /\ k = c.kind
      BY <1>5, <1>13, <3>1 DEF Charges, NoPrice
    <3>2. CASE ~(c.do = "price" /\ k = c.kind)
      <4>1. n.new.price[k] = q.new.price[k] /\ k \notin Pending(q)
        BY <1>5, <1>16, <2>2, <3>2
      <4>2. Charges(q.new.price[k], q.new.fee[k])
        BY <1>1, <1>4, <1>6, <1>22, <2>2, <4>1 DEF AtWork, Alone
      <4>3. q.new.price[k] \in DOMAIN prices /\ prices[q.new.price[k]].kind = k
        BY <1>6, <4>2 DEF Charges, Own
      <4>4. prices'[q.new.price[k]] = prices[q.new.price[k]]
        BY <1>0, <1>2, <1>4, <1>5, <1>6, <4>1, <4>2, OtherPriceKept DEF Charges
      <4>5. QED  BY <1>5, <4>1, <4>2, <4>4 DEF Charges
    <3>3. QED  BY <3>1, <3>2
  <2>3. QED
    BY <1>3, <1>5, <1>14, <2>1, <2>2 DEF Alone
<1>23. AtWork(r)'
  BY <1>1, <1>3, <1>4, <1>5, <1>6, <1>14, <1>19, <1>20, <1>21, <1>22 DEF AtWork
<1>24. ASSUME p \notin disturbed' PROVE Undisturbed(r)'
  <2>1. Undisturbed(r)
    BY <1>6, <1>14, <1>24 DEF PlansInv, PlanInv
  <2>2. OnSale(p, q.new.price)
    BY <1>1, <1>4, <2>1 DEF Undisturbed
  <2>3. OnSale(p, n.new.price)'
    <3> SUFFICES ASSUME NEW i \in DOMAIN prices', prices'[i].plan = p, prices'[i].active
                 PROVE  i = n.new.price[prices'[i].kind]
      BY DEF OnSale
    <3>1. CASE i \in DOMAIN prices
      <4>1. prices[i].plan = p /\ prices[i].active /\ prices'[i].kind = prices[i].kind
            /\ prices[i].kind \in Kinds
        <5>1. prices[i] \in Prices
          BY <3>1, ElementOfSeq, LenProperties DEF PlansTypeOK
        <5>2. QED  BY <1>12, <3>1, <5>1 DEF PricesGrow, Prices
      <4>2. i = q.new.price[prices[i].kind]
        BY <2>2, <3>1, <4>1 DEF OnSale
      <4>3. ~(c.do = "price" /\ prices[i].kind = c.kind)
        <5> SUFFICES ASSUME c.do = "price", prices[i].kind = c.kind PROVE FALSE
          OBVIOUS
        <5>1. i = q.old.price[c.kind] /\ i # NoPrice
          <6>1. q.new.price[c.kind] = q.old.price[c.kind]
            BY <1>5, <1>6, <1>18 DEF Synced
          <6>2. i # NoPrice
            BY <3>1, LenProperties DEF PlansTypeOK, NoPrice
          <6>3. QED  BY <4>2, <6>1, <6>2
        <5>2. q.op # "create"
          BY <1>5, <1>6, <5>1 DEF WellFormed, NoPrices
        <5>3. q.op = "update"
          BY <1>8, <1>9, <5>2 DEF Makes
        <5>4. Off(i)
          BY <1>5, <1>6, <1>18, <5>1, <5>3 DEF Synced
        <5>5. QED  BY <4>1, <5>4 DEF Off
      <4>4. QED  BY <1>5, <4>1, <4>2, <4>3
    <3>2. CASE i \notin DOMAIN prices
      BY <1>5, <1>12, <1>13, <3>2 DEF Calls
    <3>3. QED  BY <3>1, <3>2
  <2>4. ASSUME q.op = "create"
        PROVE  /\ \A k \in Kinds \ Pending(n) : n.new.price[k] # NoPrice
               /\ product'[p] = IF Call("product", "flat") \in CallsOf(n.todo)
                                THEN "none" ELSE "active"
    <3>1. c.do \in {"product", "price"}
      BY <1>8, <2>4 DEF Makes
    <3>2. \A k \in Kinds \ Pending(n) : n.new.price[k] # NoPrice
      BY <1>1, <1>5, <1>13, <1>16, <2>1, <2>4, <3>1 DEF Undisturbed, NoPrice
    <3>3. CASE c.do = "product"
      <4>1. Call("product", "flat").do = "product"
        BY DEF Call
      <4>2. Call("product", "flat") \notin CallsOf(n.todo)
        BY <1>7, <3>3, <4>1
      <4>3. product'[p] = "active"
        BY <1>12, <3>3
      <4>4. QED  BY <3>2, <4>2, <4>3
    <3>4. CASE c.do = "price"
      <4>1. Call("product", "flat") \in CallsOf(n.todo) <=> Call("product", "flat") \in CallsOf(q.todo)
        BY <1>7, <1>10, <3>4 DEF Call
      <4>2. QED
        <5>1. product' = product
          BY <1>12, <3>4
        <5>2. product[p] = IF Call("product", "flat") \in CallsOf(q.todo) THEN "none" ELSE "active"
          BY <1>1, <1>4, <2>1, <2>4 DEF Undisturbed
        <5>3. QED  BY <3>2, <4>1, <5>1, <5>2
    <3>5. QED  BY <3>1, <3>2, <3>3, <3>4
  <2>5. ASSUME q.op = "update"
        PROVE  product'[p] = "active" /\ \A k \in Kinds : n.new.price[k] # NoPrice
    <3>1. c.do \in {"archive", "price"}
      BY <1>8, <2>5 DEF Makes
    <3>2. QED
      BY <1>1, <1>4, <1>5, <1>12, <1>13, <2>1, <2>5, <3>1 DEF Undisturbed, NoPrice
  <2>6. ASSUME q.op = "delete" PROVE product'[p] # "active"
    <3>1. c.do = "close"
      BY <1>8, <2>6 DEF Makes
    <3>2. QED  BY <1>12, <3>1
  <2>7. QED
    BY <1>3, <1>5, <2>3, <2>4, <2>5, <2>6 DEF Undisturbed
<1>25. QED
  BY <1>15, <1>23, <1>24, ProceedsKeeps

LEMMA FailKeeps ==
  ASSUME PlansTypeOK, PlansInv, CheckoutsInv, NEW r \in Requests, StripeFails(r)
  PROVE  PlansInv' /\ CheckoutsInv'
<1>1. PICK q \in PlanRequests : q = req[r]
  BY RequestTyped DEF StripeFails
<1>2. PICK n : n = req'[r]
  OBVIOUS
<1>3. PICK p \in Plans : p = q.plan
  BY DEF PlanRequests
<1>4. PICK lost \in BOOLEAN :
        /\ IF lost THEN Performed(q, Head(q.todo)) ELSE UNCHANGED catalogueVars
        /\ disturbed' = IF lost \/ q.op # "update" THEN disturbed \cup {p} ELSE disturbed
  BY <1>1, <1>3 DEF StripeFails
<1>5. PICK failed \in SUBSET Kinds :
        failed = {k \in Kinds : q.op # "update" \/ \E i \in DOMAIN q.todo : q.todo[i].kind = k}
  OBVIOUS
<1>6. stale' = [stale EXCEPT ![p] = @ \cup failed]
  BY <1>1, <1>3, <1>5 DEF StripeFails
<1>7. /\ q.todo \in Seq(Calls) /\ q.todo # <<>>
      /\ n # None /\ n.op = q.op /\ n.plan = p /\ n.old = q.old /\ n.alone = q.alone
      /\ n.todo = <<>> /\ n.new.fee = q.new.fee
      /\ n.new.price = IF q.op = "create" THEN NoPrices ELSE q.new.price
      /\ q.op # "create" => n.new = q.new
      /\ \A s \in Requests \ {r} : req'[s] = req[s]
  <2>1. /\ q.todo \in Seq(Calls) /\ q.todo # <<>>
        /\ n # None /\ n.op = q.op /\ n.plan = q.plan /\ n.old = q.old /\ n.alone = q.alone
        /\ n.todo = <<>> /\ n.new.fee = q.new.fee
        /\ n.new.price = IF q.op = "create" THEN NoPrices ELSE q.new.price
        /\ q.op # "create" => n.new = q.new
        /\ \A s \in Requests \ {r} : req'[s] = req[s]
    BY <1>1, <1>2, FailStep
  <2>2. QED  BY <1>3, <2>1
<1>8. r \in InFlight(p) /\ AtWork(r) /\ WellFormed(q) /\ Synced(q)
      /\ Own(p, q.old.price) /\ Own(p, q.new.price)
  BY <1>1, <1>3, <1>7 DEF PlansInv, PlanInv, InFlight, AtWork, StripeFails
<1>9. /\ PricesGrow /\ PricesAwayStay(p)
      /\ \A o \in Plans \ {p} : product'[o] = product[o]
  <2>1. CASE lost
    <3>1. PICK c : c = Head(q.todo)
      OBVIOUS
    <3>2. /\ c \in Calls /\ Performed(q, c)
          /\ c.do = "archive" => Own(q.plan, q.new.price) /\ q.new.price[c.kind] # NoPrice
      BY <1>3, <1>4, <1>7, <1>8, <2>1, <3>1, NextCall
    <3>3. QED  BY <1>3, <3>2, PerformedEffect
  <2>2. CASE ~lost
    BY <1>4, <2>2, PricesSame DEF catalogueVars
  <2>3. QED  BY <2>1, <2>2
<1>10. UNCHANGED <<plan, checkout>> /\ stale'[p] = stale[p] \cup failed
       /\ stale[p] \subseteq Kinds
       /\ \A o \in Plans \ {p} : stale'[o] = stale[o]
  BY <1>6 DEF StripeFails, PlansTypeOK
<1>11. Proceeds(r, q, p)
  BY <1>1, <1>2, <1>3, <1>4, <1>7, <1>9, <1>10 DEF Proceeds, StripeFails
<1>12. Pending(q) \subseteq failed
  <2>1. \A k \in Pending(q) : \E i \in DOMAIN q.todo : q.todo[i].kind = k
    BY DEF Pending, CallsOf, Call
  <2>2. QED  BY <1>5, <2>1 DEF Pending
<1>13. CallsOf(n.todo) = {} /\ Ordered(n.todo) /\ Pending(n) = {} /\ Archiving(n) = {}
  BY <1>7, NoCalls DEF Pending, Archiving
<1>14. WellFormed(n)
  BY <1>7, <1>8, <1>13 DEF WellFormed
<1>15. Own(p, n.old.price)' /\ Own(p, n.new.price)'
  <2>1. Own(p, q.old.price)' /\ Own(p, q.new.price)'
    BY <1>8, <1>9, OwnGrows
  <2>2. QED  BY <1>7, <2>1 DEF Own, NoPrices
<1>16. Synced(n)'
  <2>1. Synced(q)'
    BY <1>8, <1>9, SyncedGrows
  <2>2. QED  BY <1>7, <1>13, <2>1 DEF Synced
<1>17. ASSUME q.alone PROVE Alone(r)'
  <2>1. InFlight(p)' = {r} /\ (q.op # "create" => plan[p] = q.old)
    BY <1>1, <1>2, <1>3, <1>7, <1>8, <1>17, SameFlights DEF AtWork, Alone, InFlight
  <2>2. ASSUME q.op # "delete", NEW k \in Kinds,
               k \notin stale'[p] \/ n.new.price[k] # q.old.price[k]
        PROVE  Charges(n.new.price[k], n.new.fee[k])'
    <3>1. q.op # "create"
      <4> SUFFICES ASSUME q.op = "create" PROVE FALSE
        OBVIOUS
      <4>1. failed = Kinds /\ n.new.price = NoPrices /\ q.old.price = NoPrices
        BY <1>5, <1>7, <1>8 DEF WellFormed
      <4>2. QED  BY <1>10, <2>2, <4>1
    <3>2. n.new = q.new
      BY <1>7, <3>1
    <3>3. k \notin Pending(q)
      BY <1>8, <1>10, <1>12, <2>2, <3>2 DEF Synced
    <3>4. Charges(q.new.price[k], q.new.fee[k])
      BY <1>1, <1>3, <1>8, <1>10, <1>17, <2>2, <3>2, <3>3 DEF AtWork, Alone
    <3>5. prices'[q.new.price[k]] = prices[q.new.price[k]]
      <4>1. CASE lost
        BY <1>3, <1>4, <1>7, <1>8, <3>3, <3>4, <4>1, OtherPriceKept DEF Charges
      <4>2. CASE ~lost
        BY <1>4, <4>2 DEF catalogueVars
      <4>3. QED  BY <4>1, <4>2
    <3>6. QED  BY <3>2, <3>4, <3>5 DEF Charges
  <2>3. QED
    BY <1>2, <1>7, <1>10, <2>1, <2>2 DEF Alone
<1>18. ASSUME ~q.alone PROVE stale'[p] = Kinds /\ p \in disturbed'
  <2>1. stale[p] = Kinds /\ p \in disturbed
    BY <1>1, <1>3, <1>8, <1>18 DEF AtWork
  <2>2. QED  BY <1>4, <1>10, <2>1
<1>19. q.op = "create" <=> plan[p] = Unborn
  BY <1>1, <1>3, <1>8 DEF AtWork
<1>20. AtWork(r)'
  BY <1>2, <1>7, <1>10, <1>14, <1>15, <1>16, <1>17, <1>18, <1>19 DEF AtWork
<1>21. ASSUME p \notin disturbed' PROVE Undisturbed(r)'
  <2>1. ~lost /\ q.op = "update" /\ p \notin disturbed
    BY <1>4, <1>21
  <2>2. UNCHANGED <<product, prices>> /\ n.new = q.new
    BY <1>4, <1>7, <2>1 DEF catalogueVars
  <2>3. /\ OnSale(p, q.new.price) /\ product[p] = "active"
        /\ \A k \in Kinds : q.new.price[k] # NoPrice
    BY <1>1, <1>3, <1>8, <2>1 DEF PlansInv, PlanInv, Undisturbed
  <2>4. OnSale(p, q.new.price)'
    BY <2>2, <2>3 DEF OnSale
  <2>5. QED
    BY <1>2, <1>7, <2>1, <2>2, <2>3, <2>4 DEF Undisturbed
<1>22. QED
  BY <1>11, <1>20, <1>21, ProceedsKeeps

-----------------------------------------------------------------------------
(* A request ends *)

Leaves(r, q, p) ==
  /\ q = req[r] /\ q # None /\ p = q.plan
  /\ req'[r] = None /\ \A s \in Requests \ {r} : req'[s] = req[s]
  /\ UNCHANGED <<product, prices, checkout>>
  /\ \A o \in Plans \ {p} :
       /\ plan'[o] = plan[o] /\ stale'[o] = stale[o]
       /\ o \in disturbed' <=> o \in disturbed
  /\ p \in disturbed => p \in disturbed'
  /\ ~q.alone => stale'[p] = Kinds

LEMMA LeavesKeeps ==
  ASSUME PlansTypeOK, PlansInv, CheckoutsInv, NEW r \in Requests, NEW q, NEW p \in Plans,
         Leaves(r, q, p),
         plan'[p] = Unborn => plan[p] = Unborn,
         HasRow(p)' => Own(p, plan'[p].price),
         HasRow(p)' /\ plan[p] # Unborn =>
           /\ HasRow(p)
           /\ \A k \in Kinds : \/ plan'[p].price[k] = plan[p].price[k]
                              \/ ~prices[plan[p].price[k]].active
                              \/ q.old.price[k] # plan[p].price[k],
         Charged(p)', p \notin disturbed' => Sold(p)'
  PROVE  PlansInv' /\ CheckoutsInv'
<1>1. /\ r \in InFlight(p) /\ PlanInv(p) /\ AtWork(r)
      /\ InFlight(p)' = InFlight(p) \ {r}
      /\ \A o \in Plans \ {p} : InFlight(o)' = InFlight(o)
      /\ \A s \in Requests \ {r} : req'[s] = req[s]
      /\ UNCHANGED <<product, prices, checkout>>
  BY DEF Leaves, PlansInv, PlanInv, InFlight
<1>2. PricesGrow /\ PricesAwayStay(p)
  BY <1>1, PricesSame
<1>3. \A s \in InFlight(p)' : AtWork(s)' /\ p \in disturbed'
  <2> SUFFICES ASSUME NEW s \in InFlight(p)' PROVE AtWork(s)' /\ p \in disturbed'
    OBVIOUS
  <2>1. s \in InFlight(p) /\ s # r /\ AtWork(s) /\ req'[s] = req[s]
    BY <1>1 DEF PlanInv, InFlight
  <2>2. PICK u : u = req[s]
    OBVIOUS
  <2>3. /\ u.plan = p /\ WellFormed(u) /\ Synced(u) /\ Own(p, u.old.price) /\ Own(p, u.new.price)
        /\ u.op = "create" <=> plan[p] = Unborn
    BY <2>1, <2>2 DEF AtWork, InFlight
  <2>4. ~u.alone /\ p \in disturbed /\ ~q.alone
    BY <1>1, <2>1, <2>2, <2>3 DEF AtWork, Alone, Leaves
  <2>5. u.op # "create" /\ plan'[p] # Unborn
    BY <2>3, <2>4 DEF WellFormed
  <2>6. stale'[p] = Kinds /\ p \in disturbed'
    BY <2>4 DEF Leaves
  <2>7. Synced(u)' /\ Own(p, u.old.price)' /\ Own(p, u.new.price)'
    BY <1>2, <2>3, SyncedGrows, OwnGrows
  <2>8. QED
    BY <2>1, <2>2, <2>3, <2>4, <2>5, <2>6, <2>7 DEF AtWork
<1>4. PlanInv(p)'
  <2>1. HasRow(p)' => Own(p, plan[p].price)'
    BY <1>1 DEF Own
  <2>2. QED
    BY <1>3, <2>1 DEF PlanInv
<1>5. OnlyAt(p)
  BY <1>1 DEF OnlyAt, Leaves, InFlight
<1>6. PlansInv'
  <2>1. ASSUME NEW o \in Plans \ {p} PROVE PlanInv(o)'
    BY <1>2, <1>5, <2>1, ElsewhereKept DEF PlansInv
  <2>2. QED  BY <1>4, <2>1 DEF PlansInv
<1>7. ASSUME NEW t \in Tenants, checkout'[t] # None PROVE CheckoutInv(t)'
  <2>1. checkout'[t] = checkout[t] /\ CheckoutInv(t) /\ checkout[t] \in Checkouts
    BY <1>1, <1>7 DEF CheckoutsInv, PlansTypeOK
  <2>2. PICK o \in Plans : o = checkout[t].plan
    BY <2>1 DEF Checkouts
  <2>3. plan[o] # Unborn
    BY <2>1, <2>2 DEF CheckoutInv
  <2>4. plan'[o] # Unborn
    BY <2>3 DEF Leaves
  <2>5. HasRow(o)' => /\ HasRow(o)
                      /\ \A k \in Kinds : plan[o].price[k] # NoPrice =>
                           \/ plan'[o].price[k] = plan[o].price[k]
                           \/ ~prices[plan[o].price[k]].active
                           \/ \E s \in InFlight(o) : req[s].old.price[k] # plan[o].price[k]
    <3>1. CASE o = p
      BY <1>1, <2>3, <3>1 DEF Leaves
    <3>2. CASE o # p
      BY <3>2 DEF Leaves, HasRow
    <3>3. QED  BY <3>1, <3>2
  <2>6. \A s \in InFlight(o)' : s \in InFlight(o) /\ req'[s].old = req[s].old
    BY <1>1 DEF InFlight, Leaves
  <2>7. QED  BY <1>2, <2>1, <2>2, <2>4, <2>5, <2>6, CheckoutKept
<1>8. QED  BY <1>6, <1>7 DEF CheckoutsInv

LEMMA RollsBackKeeps ==
  ASSUME PlansTypeOK, PlansInv, CheckoutsInv, NEW r \in Requests, RollsBack(r)
  PROVE  PlansInv' /\ CheckoutsInv'
<1>1. PICK q \in PlanRequests : q = req[r]
  BY RequestTyped DEF RollsBack
<1>2. PICK p \in Plans : p = q.plan
  BY DEF PlanRequests
<1>3. stale' = [stale EXCEPT ![p] = Kinds] /\ disturbed' = disturbed \cup {p}
      /\ UNCHANGED <<plan, product, prices, checkout>>
  BY <1>1, <1>2 DEF RollsBack, catalogueVars
<1>4. stale'[p] = Kinds /\ \A o \in Plans \ {p} : stale'[o] = stale[o]
  BY <1>3 DEF PlansTypeOK
<1>5. Leaves(r, q, p)
  <2>1. req' = [req EXCEPT ![r] = None] /\ q # None
    BY <1>1 DEF RollsBack
  <2>2. req'[r] = None /\ \A s \in Requests \ {r} : req'[s] = req[s]
    BY <2>1 DEF PlansTypeOK
  <2>3. QED  BY <1>1, <1>2, <1>3, <1>4, <2>1, <2>2 DEF Leaves
<1>6. PlanInv(p)
  BY DEF PlansInv
<1>7. HasRow(p)' => HasRow(p) /\ Own(p, plan'[p].price)
  BY <1>3, <1>6 DEF PlanInv, HasRow
<1>8. Charged(p)'
  BY <1>4 DEF Charged
<1>9. p \in disturbed'
  BY <1>3
<1>10. QED
  BY <1>3, <1>5, <1>7, <1>8, <1>9, LeavesKeeps

(* The row an update writes, with none but its own changes to write.       *)
LEMMA MergedAlone ==
  ASSUME NEW q \in PlanRequests
  PROVE  Merged(q, q.old) = q.new
<1>1. q.old \in PlanRows /\ q.new \in PlanRows
  BY DEF PlanRequests
<1>2. Merged(q, q.old) \in PlanRows
  BY <1>1, MergedTyped
<1>3. /\ \A k \in Kinds : Merged(q, q.old).fee[k] = q.new.fee[k]
      /\ \A k \in Kinds : Merged(q, q.old).price[k] = q.new.price[k]
      /\ Merged(q, q.old).active = q.new.active
  BY DEF Merged
<1>4. Merged(q, q.old).fee = q.new.fee /\ Merged(q, q.old).price = q.new.price
  BY <1>1, <1>2, <1>3 DEF PlanRows
<1>5. QED  BY <1>1, <1>2, <1>3, <1>4 DEF PlanRows

LEMMA CommitsKeep ==
  ASSUME PlansTypeOK, PlansInv, CheckoutsInv, NEW r \in Requests, Commits(r)
  PROVE  PlansInv' /\ CheckoutsInv'
<1>1. PICK q \in PlanRequests : q = req[r]
  BY RequestTyped DEF Commits
<1>2. PICK p \in Plans : p = q.plan
  BY DEF PlanRequests
<1>3. q # None /\ q.todo = <<>> /\ q.new \in PlanRows /\ q.old \in PlanRows
  BY <1>1 DEF Commits, PlanRequests
<1>4. PICK entry :
        /\ plan' = [plan EXCEPT ![p] = entry]
        /\ \/ q.op = "create" /\ entry = q.new /\ UNCHANGED stale
           \/ /\ q.op = "update" /\ HasRow(p) /\ entry = Merged(q, plan[p])
              /\ stale' = [stale EXCEPT ![p] = @ \ Repaired(q)]
           \/ q.op = "delete" /\ entry = Deleted /\ UNCHANGED stale
  BY <1>1, <1>2 DEF Commits
<1>5. UNCHANGED <<product, prices, checkout, disturbed>>
  BY DEF Commits, catalogueVars
<1>6. /\ r \in InFlight(p) /\ PlanInv(p) /\ AtWork(r) /\ WellFormed(q) /\ Synced(q)
      /\ Own(p, q.old.price) /\ Own(p, q.new.price) /\ Pending(q) = {}
      /\ q.op = "create" <=> plan[p] = Unborn
  BY <1>1, <1>2, <1>3, NoCalls DEF PlansInv, PlanInv, InFlight, AtWork, Pending
<1>7. plan'[p] = entry /\ (\A o \in Plans \ {p} : plan'[o] = plan[o])
      /\ (HasRow(p)' <=> entry \notin {Unborn, Deleted})
  BY <1>4 DEF PlansTypeOK, HasRow
<1>8. /\ stale'[p] = IF q.op = "update" THEN stale[p] \ Repaired(q) ELSE stale[p]
      /\ \A o \in Plans \ {p} : stale'[o] = stale[o]
  BY <1>4 DEF PlansTypeOK
<1>9. /\ entry # Unborn /\ (q.op # "delete" <=> entry \notin {Unborn, Deleted})
      /\ q.op # "delete" => entry \in PlanRows
      /\ q.op = "update" => HasRow(p) /\ plan[p] \in PlanRows
  <2>1. q.op = "update" => HasRow(p) /\ plan[p] \in PlanRows /\ entry \in PlanRows
    BY <1>4, RowTyped, MergedTyped
  <2>2. q.op \in {"create", "update", "delete"}
    BY DEF PlanRequests
  <2>3. QED  BY <1>3, <1>4, <2>1, <2>2, Nulls
<1>10. /\ req'[r] = None /\ \A s \in Requests \ {r} : req'[s] = req[s]
       /\ InFlight(p)' = InFlight(p) \ {r}
  <2>1. req' = [req EXCEPT ![r] = None]
    BY DEF Commits
  <2>2. req'[r] = None /\ \A s \in Requests \ {r} : req'[s] = req[s]
    BY <2>1 DEF PlansTypeOK
  <2>3. QED  BY <2>2 DEF InFlight
<1>11. ~q.alone => stale'[p] = Kinds /\ p \in disturbed
  BY <1>1, <1>2, <1>6, <1>8 DEF AtWork, Repaired
<1>12. Leaves(r, q, p)
  BY <1>1, <1>2, <1>3, <1>5, <1>7, <1>8, <1>10, <1>11 DEF Leaves
<1>13. HasRow(p)' => Own(p, entry.price)
  <2>1. CASE q.op = "create"
    BY <1>4, <1>6, <2>1
  <2>2. CASE q.op = "update"
    <3>1. entry = Merged(q, plan[p]) /\ Own(p, plan[p].price)
      BY <1>4, <1>6, <1>9, <2>2 DEF PlanInv
    <3>2. \A k \in Kinds : entry.price[k] = IF q.new.price[k] = q.old.price[k]
                                          THEN plan[p].price[k] ELSE q.new.price[k]
      BY <3>1 DEF Merged
    <3>3. QED  BY <1>6, <3>1, <3>2 DEF Own
  <2>3. QED  BY <1>4, <1>7, <1>9, <2>1, <2>2
<1>14. HasRow(p)' /\ plan[p] # Unborn =>
         /\ HasRow(p)
         /\ \A k \in Kinds : \/ entry.price[k] = plan[p].price[k]
                            \/ ~prices[plan[p].price[k]].active
                            \/ q.old.price[k] # plan[p].price[k]
  <2> SUFFICES ASSUME HasRow(p)', plan[p] # Unborn
               PROVE  /\ HasRow(p)
                      /\ \A k \in Kinds : \/ entry.price[k] = plan[p].price[k]
                                         \/ ~prices[plan[p].price[k]].active
                                         \/ q.old.price[k] # plan[p].price[k]
    OBVIOUS
  <2>1. q.op = "update" /\ HasRow(p) /\ entry = Merged(q, plan[p])
    BY <1>4, <1>6, <1>7, <1>9
  <2>2. ASSUME NEW k \in Kinds, entry.price[k] # plan[p].price[k]
        PROVE  Off(q.old.price[k])
    <3>1. q.new.price[k] # q.old.price[k]
      BY <2>1, <2>2 DEF Merged
    <3>2. QED  BY <1>6, <2>1, <3>1 DEF Synced
  <2>3. QED  BY <2>1, <2>2 DEF Off
(* Alone, the request leaves the row it has made. *)
<1>15. q.alone /\ q.op # "delete" => entry = q.new
  <2>1. q.alone /\ q.op = "update" => plan[p] = q.old
    BY <1>1, <1>2, <1>6 DEF AtWork, Alone
  <2>2. QED  BY <1>4, <2>1, MergedAlone
<1>16. Charged(p)'
  <2> SUFFICES ASSUME HasRow(p)', NEW k \in Kinds, k \notin stale'[p]
               PROVE  Charges(entry.price[k], entry.fee[k])
    BY <1>5, <1>7 DEF Charged, Charges
  <2>1. q.alone /\ q.op # "delete" /\ entry = q.new
    BY <1>7, <1>9, <1>11, <1>15
  <2>2. k \notin stale[p] \/ q.new.price[k] # q.old.price[k]
    BY <1>8, <2>1 DEF Repaired
  <2>3. QED  BY <1>1, <1>2, <1>6, <2>1, <2>2 DEF AtWork, Alone
<1>17. ASSUME p \notin disturbed' PROVE Sold(p)'
  <2>1. p \notin disturbed /\ q.alone /\ Undisturbed(r)
    BY <1>5, <1>6, <1>11, <1>17 DEF PlanInv
  <2>2. ASSUME HasRow(p)'
        PROVE  /\ entry = q.new /\ product[p] = "active" /\ OnSale(p, q.new.price)
               /\ \A k \in Kinds : q.new.price[k] # NoPrice
    <3>1. entry = q.new /\ q.op \in {"create", "update"}
      BY <1>4, <1>7, <1>9, <1>15, <2>1, <2>2
    <3>2. CallsOf(q.todo) = {}
      BY <1>3, NoCalls
    <3>3. QED
      BY <1>1, <1>2, <1>6, <2>1, <3>1, <3>2 DEF Undisturbed
  <2>3. entry = Deleted => product[p] # "active"
    <3> SUFFICES ASSUME entry = Deleted PROVE product[p] # "active"
      OBVIOUS
    <3>1. q.op = "delete"
      BY <1>9
    <3>2. QED  BY <1>1, <1>2, <1>3, <2>1, <3>1 DEF Undisturbed
  <2>4. QED
    BY <1>5, <1>7, <1>9, <2>2, <2>3 DEF Sold, OnSale
<1>18. QED
  BY <1>7, <1>9, <1>12, <1>13, <1>14, <1>16, <1>17, LeavesKeeps

-----------------------------------------------------------------------------
(* Tenants *)

LEMMA PlansLeftAlone ==
  ASSUME PlansInv, UNCHANGED <<plan, product, prices, req, stale, disturbed>>
  PROVE  PlansInv'
<1>1. ASSUME NEW p \in Plans PROVE PlanInv(p)'
  <2>1. PlanInv(p) /\ InFlight(p)' = InFlight(p) /\ (HasRow(p)' <=> HasRow(p))
    BY DEF PlansInv, InFlight, HasRow
  <2>2. /\ HasRow(p) => Own(p, plan[p].price) /\ Own(p, plan[p].price)'
        /\ Charged(p)' /\ (Sold(p) => Sold(p)')
    BY <2>1 DEF PlanInv, Charged, Sold, Own, OnSale
  <2>4. ASSUME NEW r \in InFlight(p) PROVE AtWork(r)' /\ (Undisturbed(r) => Undisturbed(r)')
    <3>1. PICK q : q = req[r] /\ q.plan = p
      BY <2>4 DEF InFlight
    <3>2. AtWork(r) /\ req'[r] = q
      BY <2>1, <2>4, <3>1 DEF PlanInv
    <3>3. /\ Synced(q) => Synced(q)'
          /\ Own(p, q.old.price) => Own(p, q.old.price)'
          /\ Own(p, q.new.price) => Own(p, q.new.price)'
          /\ OnSale(p, q.new.price) => OnSale(p, q.new.price)'
      BY DEF Synced, Off, Own, OnSale
    <3>4. Alone(r) => Alone(r)'
      BY <2>1, <3>1, <3>2 DEF Alone, Charges
    <3>5. AtWork(r)'
      BY <3>1, <3>2, <3>3, <3>4 DEF AtWork
    <3>6. Undisturbed(r) => Undisturbed(r)'
      BY <3>1, <3>2, <3>3 DEF Undisturbed
    <3>7. QED  BY <3>5, <3>6
  <2>5. QED  BY <2>1, <2>2, <2>4 DEF PlanInv
<1>2. QED  BY <1>1 DEF PlansInv

LEMMA CheckoutLeftAlone ==
  ASSUME NEW t \in Tenants, CheckoutInv(t), checkout'[t] = checkout[t],
         UNCHANGED <<plan, prices, req>>
  PROVE  CheckoutInv(t)'
<1>1. PICK p : p = checkout[t].plan
  OBVIOUS
<1>2. plan[p] # Unborn /\ (HasRow(p)' <=> HasRow(p)) /\ InFlight(p)' = InFlight(p)
  BY <1>1 DEF CheckoutInv, HasRow, InFlight
<1>3. QED  BY <1>1, <1>2, PricesSame, CheckoutKept

(* A clean reading of a row is what its prices charge, and what any        *)
(* request in flight has read too.                                         *)
LEMMA ReadKeeps ==
  ASSUME PlansTypeOK, PlansInv, CheckoutsInv, NEW t \in Tenants, NEW p \in Plans,
         ReadCheckout(t, p)
  PROVE  PlansInv' /\ CheckoutsInv'
<1>1. UNCHANGED <<plan, product, prices, req, stale, disturbed>>
  BY DEF ReadCheckout, catalogueVars, pastVars
<1>2. PICK c : c = [open |-> FALSE, plan |-> p, price |-> plan[p].price, fee |-> plan[p].fee,
                    clean |-> stale[p] = {}]
  OBVIOUS
<1>3. /\ c.plan = p /\ c.price = plan[p].price /\ c.fee = plan[p].fee
      /\ (c.clean <=> stale[p] = {})
  BY <1>2
<1>4. checkout' = [checkout EXCEPT ![t] = c] /\ HasRow(p)
  BY <1>2 DEF ReadCheckout
<1>5. checkout'[t] = c /\ \A u \in Tenants \ {t} : checkout'[u] = checkout[u]
  BY <1>4 DEF PlansTypeOK
<1>6. PlanInv(p)
  BY DEF PlansInv
<1>7. Own(p, c.price) /\ plan[p] # Unborn
  BY <1>3, <1>4, <1>6 DEF PlanInv, HasRow
<1>8. c.clean => \A k \in Kinds : c.price[k] # NoPrice /\ prices[c.price[k]].amount = Charge(c.fee[k])
  BY <1>3, <1>4, <1>6 DEF PlanInv, Charged
<1>9. c.clean => \A r \in InFlight(p) : req[r].old = plan[p]
  <2> SUFFICES ASSUME c.clean, NEW r \in InFlight(p) PROVE req[r].old = plan[p]
    OBVIOUS
  <2>1. AtWork(r) /\ req[r].plan = p /\ stale[p] # Kinds
    BY <1>3, <1>6, KindsAreTwo DEF PlanInv, InFlight
  <2>2. QED  BY <1>7, <2>1 DEF AtWork, Alone
<1>10. CheckoutInv(t)'
  <2>1. InFlight(p)' = InFlight(p) /\ Own(p, c.price)'
    BY <1>1, <1>7 DEF InFlight, Own
  <2>2. QED  BY <1>1, <1>3, <1>5, <1>7, <1>8, <1>9, <2>1 DEF CheckoutInv
<1>11. CheckoutsInv'
  BY <1>1, <1>5, <1>10, CheckoutLeftAlone DEF CheckoutsInv
<1>12. QED  BY <1>1, <1>11, PlansLeftAlone

(* What is on sale when the session opens is what the row lists.           *)
LEMMA OpenKeeps ==
  ASSUME PlansTypeOK, PlansInv, CheckoutsInv, NEW t \in Tenants, OpenSession(t)
  PROVE  PlansInv' /\ CheckoutsInv'
<1>1. UNCHANGED <<plan, product, prices, req, stale, disturbed>>
  BY DEF OpenSession, catalogueVars, pastVars
<1>2. PICK c \in Checkouts : c = checkout[t]
  BY DEF OpenSession, PlansTypeOK
<1>3. PICK p \in Plans : p = c.plan
  BY DEF Checkouts
<1>4. PICK d : d = [c EXCEPT !.open = TRUE,
                             !.fee = IF HasRow(p) THEN plan[p].fee ELSE @,
                             !.clean = @ /\ stale[p] = {}]
  OBVIOUS
<1>5. /\ d.open /\ d.plan = p /\ d.price = c.price
      /\ d.fee = IF HasRow(p) THEN plan[p].fee ELSE c.fee
      /\ d.clean => c.clean /\ stale[p] = {}
  BY <1>3, <1>4 DEF Checkouts
<1>6. checkout' = [checkout EXCEPT ![t] = IF Sellable(p, c.price) THEN d ELSE None]
      /\ c # None /\ ~c.open
  BY <1>2, <1>3, <1>4 DEF OpenSession
<1>7. /\ checkout'[t] = IF Sellable(p, c.price) THEN d ELSE None
      /\ \A u \in Tenants \ {t} : checkout'[u] = checkout[u]
  BY <1>6 DEF PlansTypeOK
<1>8. PlanInv(p) /\ CheckoutInv(t)
  BY <1>2, <1>6 DEF PlansInv, CheckoutsInv
<1>9. ASSUME Sellable(p, c.price) PROVE CheckoutInv(t)'
  <2>1. Own(p, c.price)' /\ plan'[p] # Unborn
    BY <1>1, <1>2, <1>3, <1>8 DEF CheckoutInv, Own
  <2>2. ASSUME d.clean, NEW k \in Kinds
        PROVE  c.price[k] # NoPrice /\ prices[c.price[k]].amount = Charge(d.fee[k])
    <3>1. c.price[k] # NoPrice /\ prices[c.price[k]].amount = Charge(c.fee[k])
          /\ prices[c.price[k]].active
      BY <1>2, <1>5, <1>8, <1>9, <2>2 DEF CheckoutInv, Sellable
    <3>2. CASE HasRow(p)
      <4>1. plan[p].price[k] = c.price[k]
        BY <1>2, <1>3, <1>5, <1>6, <1>8, <2>2, <3>1, <3>2 DEF CheckoutInv
      <4>2. prices[plan[p].price[k]].amount = Charge(plan[p].fee[k])
        BY <1>5, <1>8, <2>2, <3>2 DEF PlanInv, Charged
      <4>3. QED  BY <1>5, <3>1, <3>2, <4>1, <4>2
    <3>3. CASE ~HasRow(p)
      BY <1>5, <3>1, <3>3
    <3>4. QED  BY <3>2, <3>3
  <2>3. QED  BY <1>1, <1>5, <1>7, <1>9, <2>1, <2>2 DEF CheckoutInv
<1>10. CheckoutsInv'
  BY <1>1, <1>7, <1>9, CheckoutLeftAlone DEF CheckoutsInv
<1>11. QED  BY <1>1, <1>10, PlansLeftAlone

LEMMA TenantKeeps ==
  ASSUME PlansTypeOK, PlansInv, CheckoutsInv,
         UNCHANGED <<plan, product, prices, req, stale, disturbed>>,
         \A t \in Tenants : checkout'[t] = None \/ checkout'[t] = checkout[t]
  PROVE  PlansInv' /\ CheckoutsInv'
<1>1. CheckoutsInv'
  BY CheckoutLeftAlone DEF CheckoutsInv
<1>2. QED  BY <1>1, PlansLeftAlone

-----------------------------------------------------------------------------
(* The properties *)

PlansIInv == PlansTypeOK /\ PlansInv /\ CheckoutsInv

LEMMA PlansInitSatisfies == PlansInit => PlansIInv
<1> SUFFICES ASSUME PlansInit PROVE PlansIInv
  OBVIOUS
<1>1. ASSUME NEW p \in Plans PROVE PlanInv(p)
  <2>1. plan[p] = Unborn /\ product[p] = "none" /\ InFlight(p) = {} /\ DOMAIN prices = {}
    BY EmptySeq DEF PlansInit, InFlight
  <2>2. QED  BY <2>1, Nulls DEF PlanInv, Charged, Sold, OnSale, HasRow
<1>2. QED  BY <1>1, PlansInitTyped DEF PlansIInv, PlansInv, CheckoutsInv, PlansInit

LEMMA PlansNextKeeps == PlansIInv /\ [PlansNext]_plansVars => PlansIInv'
<1> SUFFICES ASSUME PlansTypeOK, PlansInv, CheckoutsInv, [PlansNext]_plansVars
             PROVE  PlansInv' /\ CheckoutsInv'
  BY PlansNextKeepsTypes DEF PlansIInv
<1>1. CASE UNCHANGED plansVars
  BY <1>1, TenantKeeps DEF plansVars, catalogueVars, pastVars
<1>2. ASSUME NEW t \in Tenants, NEW p \in Plans, BootstrapFreeSubscription(t, p)
      PROVE  PlansInv' /\ CheckoutsInv'
  BY <1>2, TenantKeeps DEF BootstrapFreeSubscription, catalogueVars, pastVars
<1>3. ASSUME NEW t \in Tenants, CheckoutCompleted(t) PROVE PlansInv' /\ CheckoutsInv'
  <2>1. \A u \in Tenants : checkout'[u] = None \/ checkout'[u] = checkout[u]
    BY <1>3 DEF CheckoutCompleted, PlansTypeOK
  <2>2. QED  BY <1>3, <2>1, TenantKeeps DEF CheckoutCompleted, catalogueVars, pastVars
<1>4. ASSUME NEW t \in Tenants, SessionExpires(t) PROVE PlansInv' /\ CheckoutsInv'
  <2>1. \A u \in Tenants : checkout'[u] = None \/ checkout'[u] = checkout[u]
    BY <1>4 DEF SessionExpires, PlansTypeOK
  <2>2. QED  BY <1>4, <2>1, TenantKeeps DEF SessionExpires, catalogueVars, pastVars
<1>5. ASSUME NEW t \in Tenants, SubscriptionEnds(t) PROVE PlansInv' /\ CheckoutsInv'
  BY <1>5, TenantKeeps DEF SubscriptionEnds, catalogueVars, pastVars
<1>6. QED
  BY <1>1, <1>2, <1>3, <1>4, <1>5, CreateKeeps, UpdateKeeps, DeleteKeeps, CallKeeps,
     FailKeeps, CommitsKeep, RollsBackKeeps, ReadKeeps, OpenKeeps DEF PlansNext

LEMMA PlansInvariant == PlansSpec => []PlansIInv
  BY PlansInitSatisfies, PlansNextKeeps, PTL DEF PlansSpec

(* A plan's fee has a price at Stripe that follows it unless its last      *)
(* change failed or overlapped another, however requests interleave.       *)
THEOREM PlansPricesFollow == PlansSpec => []PricesFollowFees
<1>1. PlansIInv => PricesFollowFees
  <2> SUFFICES ASSUME PlansIInv, NEW p \in Plans, HasRow(p), NEW k \in Kinds \ stale[p]
               PROVE  /\ plan[p].price[k] # NoPrice
                      /\ prices[plan[p].price[k]].amount = Overcharge(k) * Listed(plan[p].fee, k)
                      /\ InFlight(p) = {} => prices[plan[p].price[k]].active
    BY DEF PricesFollowFees
  <2>1. plan[p].fee \in [Kinds -> Fees]
    BY RowTyped DEF PlansIInv, PlanRows
  <2>2. QED  BY <2>1, ChargeOfListed DEF PlansIInv, PlansInv, PlanInv, Charged
<1>2. QED  BY <1>1, PlansInvariant, PTL

(* No plan whose requests came one at a time is on sale by a price that is *)
(* not its row's, or on sale at all once it is deleted.                    *)
THEOREM PlansSellNothingElse == PlansSpec => []NothingElseIsSold
<1>1. PlansIInv => NothingElseIsSold
  BY DEF PlansIInv, PlansInv, PlanInv, Sold, OnSale, NothingElseIsSold
<1>2. QED  BY <1>1, PlansInvariant, PTL

(* A checkout begun and opened while no change of its plan was half done   *)
(* is charged by the fees of the moment the session was opened.            *)
THEOREM CheckoutsFollowFees == PlansSpec => []SessionsFollowFees
<1>1. PlansIInv => SessionsFollowFees
  <2> SUFFICES ASSUME PlansIInv, NEW t \in Tenants, checkout[t] # None,
                      checkout[t].open, checkout[t].clean, NEW k \in Kinds
               PROVE  prices[checkout[t].price[k]].amount
                        = Overcharge(k) * Listed(checkout[t].fee, k)
    BY DEF SessionsFollowFees
  <2>1. checkout[t].fee \in [Kinds -> Fees]
    BY DEF PlansIInv, PlansTypeOK, Checkouts
  <2>2. QED  BY <2>1, ChargeOfListed DEF PlansIInv, CheckoutsInv, CheckoutInv
<1>2. QED  BY <1>1, PlansInvariant, PTL

=============================================================================
