-------------------------------- MODULE Billing --------------------------------
(***************************************************************************)
(* The plan of one user: the upgrade route, the Stripe webhook, the        *)
(* billing sweep and the quota check that reads their rows.  Stripe is     *)
(* external: it changes its subscriptions and sends events that carry a    *)
(* snapshot; it sends an event again until it is answered 2xx, and in no   *)
(* order that can be relied on.                                            *)
(***************************************************************************)
EXTENDS Integers, Sequences, SequencesExt

CONSTANTS
  Subs,        \* Stripe's subscriptions of this user, made one after another
  NoSub,       \* the value of row.sub while the user has no Subscription row
  MaxChanges,  \* bound: changes on Stripe's side
  MaxOutbox    \* bound: events under way

ASSUME BillingAssumption ==
  NoSub \notin Subs /\ MaxChanges \in Nat /\ MaxOutbox \in Nat

VARIABLES
  stripe,     \* Stripe's subscriptions
  sessions,   \* open Checkout sessions, by the plan they sell
  outbox,     \* Stripe's events that were not answered 2xx yet, oldest first
  fetched,    \* what checkout.session.completed has retrieved and not written
  row,        \* Subscription
  plan,       \* User.plan
  sweep,      \* the billing sweep's next write for this user
  changes,    \* counts Stripe's changes up to MaxChanges
  orderly     \* history: events were handled in order, none during another
              \* handler or a sweep

billingVars == <<stripe, sessions, outbox, fetched, row, plan, sweep, changes,
                 orderly>>

Paid  == {"PRO", "TEAM"}
Plans == Paid \cup {"FREE"}

StripeStatuses == {"none", "active", "past_due", "unpaid", "canceled"}

\* mapStatus; the statuses of a first payment under way are left out.
MapStatus == [active |-> "ACTIVE", past_due |-> "PAST_DUE", unpaid |-> "UNPAID",
              canceled |-> "CANCELED"]

\* Without a row its other columns say nothing.  graceEndsAt is null, ahead or
\* past.
Rows == [sub : Subs \cup {NoSub},
         status : {"ACTIVE", "PAST_DUE", "UNPAID", "CANCELED"},
         grace : {"null", "ahead", "past"}]

NoRow == [sub |-> NoSub, status |-> "CANCELED", grace |-> "null"]

Snapshots == [sub : Subs, status : StripeStatuses, plan : Plans]

Nothing == [sub |-> NoSub, status |-> "none", plan |-> "FREE"]

EventTypes == {"checkout", "updated", "deleted", "payment_failed", "paid"}

BillingTypeOK ==
  /\ stripe \in [Subs -> [status : StripeStatuses, plan : Plans]]
  /\ sessions \subseteq Paid
  /\ \A i \in DOMAIN outbox :
       outbox[i] \in [type : EventTypes, of : Snapshots]
  /\ fetched \in Snapshots \cup {Nothing}
  /\ row \in Rows
  /\ plan \in Plans
  /\ sweep \in {"idle", "plan", "grace"}
  /\ changes \in 0..MaxChanges
  /\ orderly \in BOOLEAN

BillingInit ==
  /\ stripe = [s \in Subs |-> [status |-> "none", plan |-> "FREE"]]
  /\ sessions = {}
  /\ outbox = << >>
  /\ fetched = Nothing
  /\ row = NoRow
  /\ plan = "FREE"
  /\ sweep = "idle"
  /\ changes = 0
  /\ orderly = TRUE

-----------------------------------------------------------------------------
\* Stripe (external).
Snapshot(s) == [sub |-> s, status |-> stripe[s].status, plan |-> stripe[s].plan]

\* Subscription s takes this status and plan, and Stripe sends these events
\* about it.
Change(s, status, p, types) ==
  /\ changes < MaxChanges
  /\ Len(outbox) + Len(types) <= MaxOutbox
  /\ changes' = changes + 1
  /\ stripe' = [stripe EXCEPT ![s] = [status |-> status, plan |-> p]]
  /\ outbox' = outbox \o
       [i \in 1..Len(types) |->
          [type |-> types[i],
           of   |-> [sub |-> s, status |-> status, plan |-> p]]]

\* A paid session makes a subscription.
CompleteCheckout(s, p) ==
  /\ p \in sessions
  /\ stripe[s].status = "none"
  /\ Change(s, "active", p, <<"updated", "checkout", "paid">>)
  /\ sessions' = sessions \ {p}
  /\ UNCHANGED <<fetched, row, plan, sweep, orderly>>

PaymentFails(s) ==
  /\ stripe[s].status \in {"active", "past_due"}
  /\ Change(s, "past_due", stripe[s].plan, <<"payment_failed", "updated">>)
  /\ UNCHANGED <<sessions, fetched, row, plan, sweep, orderly>>

PaymentSucceeds(s) ==
  /\ stripe[s].status \in {"active", "past_due", "unpaid"}
  /\ Change(s, "active", stripe[s].plan, <<"paid", "updated">>)
  /\ UNCHANGED <<sessions, fetched, row, plan, sweep, orderly>>

GiveUp(s) ==
  /\ stripe[s].status = "past_due"
  /\ Change(s, "unpaid", stripe[s].plan, <<"updated">>)
  /\ UNCHANGED <<sessions, fetched, row, plan, sweep, orderly>>

\* In the portal, or when Stripe gives up.
Cancel(s) ==
  /\ stripe[s].status \in {"active", "past_due", "unpaid"}
  /\ Change(s, "canceled", stripe[s].plan, <<"deleted">>)
  /\ UNCHANGED <<sessions, fetched, row, plan, sweep, orderly>>

-----------------------------------------------------------------------------
\* startUpgrade: a live row switches the price at Stripe, which refuses on a
\* subscription that has ended; otherwise a Checkout session is opened.
SwitchPrice(p) ==
  /\ row.sub # NoSub
  /\ row.status \in {"ACTIVE", "PAST_DUE"}
  /\ stripe[row.sub].status \in {"active", "past_due", "unpaid"}
  /\ stripe[row.sub].plan # p
  /\ Change(row.sub, stripe[row.sub].status, p, <<"updated">>)
  /\ UNCHANGED <<sessions, fetched, row, plan, sweep, orderly>>

OpenCheckout(p) ==
  /\ row.sub = NoSub \/ row.status \notin {"ACTIVE", "PAST_DUE"}
  /\ sessions' = sessions \cup {p}
  /\ UNCHANGED <<stripe, outbox, fetched, row, plan, sweep, changes, orderly>>

-----------------------------------------------------------------------------
\* The webhook.  Event i is answered, or its answer is lost and it comes again.
Answered(i) == outbox' \in {RemoveAt(outbox, i), outbox}

\* In order: the oldest event, and nobody else writing.
Handling(i) ==
  orderly' = (orderly /\ i = 1 /\ fetched = Nothing /\ sweep = "idle")

\* upsert finds a row by stripeSubId and creates one otherwise; a second row of
\* the user violates the unique userId.
Fits(snap) == row.sub \in {NoSub, snap.sub}

\* Mutation: an upsert that leaves user.plan alone.
UpsertNoPlan(snap) ==
  /\ row' = [sub    |-> snap.sub,
             status |-> MapStatus[snap.status],
             grace  |-> row.grace]
  /\ UNCHANGED plan

\* upsertSubscription: graceEndsAt is not among its columns.
Upsert(snap) ==
  /\ row' = [sub    |-> snap.sub,
             status |-> MapStatus[snap.status],
             grace  |-> row.grace]
  /\ plan' = snap.plan

SubscriptionUpdated(i) ==
  /\ outbox[i].type = "updated"
  /\ Fits(outbox[i].of)
  /\ Upsert(outbox[i].of)
  /\ Answered(i)
  /\ Handling(i)
  /\ UNCHANGED <<stripe, sessions, fetched, sweep, changes>>

\* checkout.session.completed retrieves the subscription as it is now ...
CheckoutRetrieve(i) ==
  /\ outbox[i].type = "checkout"
  /\ fetched = Nothing
  /\ fetched' = Snapshot(outbox[i].of.sub)
  /\ Handling(i)
  /\ UNCHANGED <<stripe, sessions, outbox, row, plan, sweep, changes>>

\* ... and writes it later, or is refused and will come again.
CheckoutUpsert ==
  /\ fetched # Nothing
  /\ IF Fits(fetched)
     THEN /\ Upsert(fetched)
          /\ \E i \in DOMAIN outbox :
               /\ outbox[i].type = "checkout" /\ outbox[i].of.sub = fetched.sub
               /\ Answered(i)
     ELSE UNCHANGED <<row, plan, outbox>>
  /\ fetched' = Nothing
  /\ orderly' = (orderly /\ sweep = "idle")
  /\ UNCHANGED <<stripe, sessions, sweep, changes>>

\* customer.subscription.deleted: the user loses the plan, whichever
\* subscription the row is of.
SubscriptionDeleted(i) ==
  /\ outbox[i].type = "deleted"
  /\ row' = IF row.sub = outbox[i].of.sub
            THEN [row EXCEPT !.status = "CANCELED"] ELSE row
  /\ plan' = "FREE"
  /\ Answered(i)
  /\ Handling(i)
  /\ UNCHANGED <<stripe, sessions, fetched, sweep, changes>>

\* invoice.payment_failed: every failure starts the grace period anew.
PaymentFailed(i) ==
  /\ outbox[i].type = "payment_failed"
  /\ row' = IF row.sub = outbox[i].of.sub
            THEN [row EXCEPT !.status = "PAST_DUE", !.grace = "ahead"] ELSE row
  /\ Answered(i)
  /\ Handling(i)
  /\ UNCHANGED <<plan, stripe, sessions, fetched, sweep, changes>>

\* invoice.paid: the status is left to the event that follows.
InvoicePaid(i) ==
  /\ outbox[i].type = "paid"
  /\ row' = IF row.sub = outbox[i].of.sub
            THEN [row EXCEPT !.grace = "null"] ELSE row
  /\ Answered(i)
  /\ Handling(i)
  /\ UNCHANGED <<plan, stripe, sessions, fetched, sweep, changes>>

-----------------------------------------------------------------------------
\* Mutation: unpaid subscriptions are forgotten.
LapsedPastDue ==
  row.sub # NoSub /\ row.status = "PAST_DUE" /\ row.grace = "past"

Lapsed ==
  row.sub # NoSub /\ row.status \in {"PAST_DUE", "UNPAID"} /\ row.grace = "past"

\* The sweep lists the lapsed subscriptions, and then changes the user and the
\* row without looking again.
SweepRead ==
  /\ sweep = "idle"
  /\ Lapsed
  /\ sweep' = "plan"
  /\ orderly' = (orderly /\ fetched = Nothing)
  /\ UNCHANGED <<stripe, sessions, outbox, fetched, row, plan, changes>>

SweepPlan ==
  /\ sweep = "plan"
  /\ plan' = "FREE"
  /\ sweep' = "grace"
  /\ UNCHANGED <<stripe, sessions, outbox, fetched, row, changes, orderly>>

SweepGrace ==
  /\ sweep = "grace"
  /\ row' = [row EXCEPT !.grace = "null"]
  /\ sweep' = "idle"
  /\ UNCHANGED <<stripe, sessions, outbox, fetched, plan, changes, orderly>>

\* A sweep that throws leaves the rest to the next one.
SweepDies ==
  /\ sweep # "idle"
  /\ sweep' = "idle"
  /\ UNCHANGED <<stripe, sessions, outbox, fetched, row, plan, changes,
                 orderly>>

GraceElapses ==
  /\ row.grace = "ahead"
  /\ row' = [row EXCEPT !.grace = "past"]
  /\ UNCHANGED <<stripe, sessions, outbox, fetched, plan, sweep, changes,
                 orderly>>

-----------------------------------------------------------------------------
Stripe ==
  \E s \in Subs :
    \/ \E p \in Paid : CompleteCheckout(s, p)
    \/ PaymentFails(s) \/ PaymentSucceeds(s) \/ GiveUp(s) \/ Cancel(s)

Upgrade == \E p \in Paid : SwitchPrice(p) \/ OpenCheckout(p)

Webhook(i) ==
  \/ SubscriptionUpdated(i) \/ SubscriptionDeleted(i)
  \/ PaymentFailed(i) \/ InvoicePaid(i) \/ CheckoutRetrieve(i)

Sweep == SweepRead \/ SweepPlan \/ SweepGrace

BillingNext ==
  \/ Stripe
  \/ Upgrade
  \/ \E i \in DOMAIN outbox : Webhook(i)
  \/ CheckoutUpsert
  \/ Sweep \/ SweepDies
  \/ GraceElapses

BillingSpec == BillingInit /\ [][BillingNext]_billingVars

\* Time passes and the sweep runs every day; it does not throw for ever.
FairBillingSpec ==
  /\ BillingSpec
  /\ WF_billingVars(GraceElapses) /\ WF_billingVars(SweepRead)
  /\ SF_billingVars(SweepPlan) /\ SF_billingVars(SweepGrace)

-----------------------------------------------------------------------------
\* checkQuota: the plan that counts.
EffectivePlan ==
  IF row.sub # NoSub /\ (row.status = "ACTIVE" \/ row.grace = "ahead")
  THEN plan ELSE "FREE"

\* When events are handled in order and one at a time (sent again or not), and
\* none is left, the user has exactly the plan Stripe is paid for: the active
\* subscription's, and none once every subscription is canceled; swept or not,
\* in grace or not on the way.
PaysForPlan ==
  (orderly /\ outbox = << >> /\ fetched = Nothing /\ sweep = "idle") =>
    /\ \A s \in Subs :
         stripe[s].status = "active" => EffectivePlan = stripe[s].plan
    /\ (\A s \in Subs : stripe[s].status \in {"none", "canceled"}) =>
         EffectivePlan = "FREE"

\* A user whose grace period is over is downgraded in the end, unless the period
\* is renewed or lifted.
LapsedIsSwept ==
  (row.grace = "past" /\ row.status \in {"PAST_DUE", "UNPAID"})
     ~> \/ plan = "FREE" \/ row.grace # "past"
        \/ row.status \in {"ACTIVE", "CANCELED"}
===============================================================================
