------------------------------- MODULE Billing --------------------------------
(***************************************************************************)
(* One tenant's subscription, its minutes and its checkouts at Stripe      *)
(* (routers/billing.py, services/billing_service.py).                      *)
(*                                                                         *)
(* A request is a READ COMMITTED transaction; what two of them do to the   *)
(* one row is ordered by its lock, so that flush and commit are one step.  *)
(* Stripe is the environment: it knows what was bought, and delivers its   *)
(* events at least once and in any order.                                  *)
(***************************************************************************)
EXTENDS Naturals, FiniteSets

CONSTANTS
  Requests,      \* handlers that may run at the same time
  Lines,         \* calls that may be live at the same time
  Limit,         \* minutes a month of the starter plan (300 in the code)
  MaxMinutes,    \* what one call may take
  MaxCheckouts,  \* bound on the checkouts ever started
  MaxEvents,     \* bound on the events Stripe ever sends
  Faults         \* {"abort"} or {}

ASSUME BillingAssumption ==
  /\ IsFiniteSet(Lines)
  /\ Limit \in Nat \ {0} /\ MaxMinutes \in Nat \ {0}
  /\ MaxCheckouts \in Nat /\ MaxEvents \in Nat
  /\ Faults \subseteq {"abort"}

VARIABLES
  row,        \* the tenant's row of subscriptions
  used,       \* minutes recorded in the current month, counted since the row
              \* was created
  counted,    \* minutes recorded in the period of the row
  over,       \* the first month, the period of the row, is over
  live,       \* lines with a call
  pc,         \* where a request is
  payer,      \* Stripe customer a checkout has, 0 for none
  event,      \* event a webhook has found the row for: a set of at most one
  customers,  \* Stripe customers ever created
  checkout,   \* customer of each checkout session, 0 before it is created
  bought,     \* status at Stripe of the subscription a checkout led to
  events,     \* Stripe's events not acknowledged yet
  sent,       \* number of events Stripe has sent
  newest,     \* the newest event handled (history)
  disorder,   \* an event was handled after a newer one, or the row's
              \* subscription changed under it (history)
  late,       \* requests that read a row whose customer or subscription has
              \* changed since (history)
  mixed       \* a late checkout has written its customer (history)

vars == <<row, used, counted, over, live, pc, payer, event, customers, checkout, bought,
          events, sent, newest, disorder, late, mixed>>

minutes  == <<used, counted, over, live>>
stripe   == <<checkout, bought, events, sent>>
delivery == <<newest, disorder>>
requests == <<pc, payer, event, late>>

Checkouts == 1..MaxCheckouts

(* What the table's check constraint allows, and what Stripe also reports. *)
Statuses       == {"trialing", "active", "past_due", "canceled"}
StripeStatuses == {"active", "past_due", "unpaid"}

Subscription == [plan : {"starter", "pro"}, status : Statuses,
                 customer : 0..MaxCheckouts, subscription : 0..MaxCheckouts]
NoRow == [status |-> "none"]

(* A session completed, a subscription updated or deleted. *)
Event == [seq : Nat, type : {"completed", "updated", "deleted"}, subscription : Checkouts,
          status : StripeStatuses \cup {"canceled"}]

Init ==
  /\ row = NoRow /\ used = 0 /\ counted = 0 /\ over = FALSE /\ live = {}
  /\ pc = [r \in Requests |-> "idle"] /\ payer = [r \in Requests |-> 0]
  /\ event = [r \in Requests |-> {}]
  /\ customers = 0
  /\ checkout = [k \in Checkouts |-> 0] /\ bought = [k \in Checkouts |-> "none"]
  /\ events = {} /\ sent = 0 /\ newest = 0
  /\ disorder = FALSE /\ late = {} /\ mixed = FALSE

Go(r, place) == pc' = [pc EXCEPT ![r] = place]

End(r) ==
  /\ Go(r, "idle")
  /\ payer' = [payer EXCEPT ![r] = 0]
  /\ event' = [event EXCEPT ![r] = {}]

(* The row's customer or subscription changes: requests that read it, r    *)
(* aside, are late.                                                        *)
Outdates(r) ==
  late' = (late \cup {q \in Requests : pc[q] \in {"paying", "named", "found"}}) \ {r}

(* Stripe sends an event about k. *)
Send(type, k, status) ==
  /\ sent < MaxEvents
  /\ sent' = sent + 1
  /\ events' = events \cup {[seq |-> sent + 1, type |-> type, subscription |-> k,
                             status |-> status]}

-------------------------------------------------------------------------------
(* Faulty variants of definitions below: each must break a property. *)

(* The limit itself still lets a call in. *)
AtLimit == row # NoRow /\ counted > Limit

(* The row is found by its tenant. *)
OfTenant(e) == row # NoRow

(* A checkout always makes a new customer. *)
ReadNothing(r) ==
  /\ pc[r] = "idle"
  /\ Go(r, IF row = NoRow THEN "unknown" ELSE "paying")
  /\ UNCHANGED <<row, minutes, payer, event, customers, stripe, delivery, late, mixed>>

(* The status of the event is not checked. *)
AnyStatus(e) == TRUE

-------------------------------------------------------------------------------
(* GET /billing/subscription *)

FindNoSubscription(r) ==
  /\ pc[r] = "idle" /\ row = NoRow
  /\ Go(r, "creating")
  /\ UNCHANGED <<row, minutes, payer, event, customers, stripe, delivery, late, mixed>>

CreateSubscription(r) ==
  /\ pc[r] = "creating" /\ row = NoRow
  /\ row' = [plan |-> "starter", status |-> "trialing", customer |-> 0, subscription |-> 0]
  /\ End(r)
  /\ UNCHANGED <<minutes, customers, stripe, delivery, late, mixed>>

(* subscriptions.tenant_id is unique: the slower of two first reads fails. *)
SubscriptionClash(r) ==
  /\ pc[r] = "creating" /\ row # NoRow
  /\ End(r)
  /\ UNCHANGED <<row, minutes, customers, stripe, delivery, late, mixed>>

-------------------------------------------------------------------------------
(* POST /billing/checkout *)

(* The row is read, and its customer is the payer.  Without a row the      *)
(* payer will not be stored.                                               *)
ReadCustomer(r) ==
  /\ pc[r] = "idle"
  /\ IF row = NoRow
       THEN Go(r, "unknown") /\ UNCHANGED payer
       ELSE /\ Go(r, IF row.customer = 0 THEN "paying" ELSE "named")
            /\ payer' = [payer EXCEPT ![r] = row.customer]
  /\ UNCHANGED <<row, minutes, event, customers, stripe, delivery, late, mixed>>

(* stripe.Customer.create *)
CreateCustomer(r) ==
  /\ pc[r] \in {"paying", "unknown"} /\ payer[r] = 0
  /\ customers < MaxCheckouts
  /\ customers' = customers + 1
  /\ payer' = [payer EXCEPT ![r] = customers + 1]
  /\ IF pc[r] = "unknown" THEN Go(r, "named") ELSE UNCHANGED pc
  /\ UNCHANGED <<row, minutes, event, stripe, delivery, late, mixed>>

StoreCustomer(r) ==
  /\ pc[r] = "paying" /\ payer[r] # 0
  /\ row' = [row EXCEPT !.customer = payer[r]]
  /\ mixed' = (mixed \/ r \in late)
  /\ Outdates(r)
  /\ Go(r, "named")
  /\ UNCHANGED <<minutes, payer, event, customers, stripe, delivery>>

(* stripe.checkout.Session.create *)
StartCheckout(r, k) ==
  /\ pc[r] = "named"
  /\ checkout[k] = 0 /\ \A j \in Checkouts : j < k => checkout[j] # 0
  /\ checkout' = [checkout EXCEPT ![k] = payer[r]]
  /\ End(r) /\ late' = late \ {r}
  /\ UNCHANGED <<row, minutes, customers, bought, events, sent, delivery, mixed>>

(* Stripe or the database fails, or the process dies. *)
Abort(r) ==
  /\ "abort" \in Faults
  /\ pc[r] # "idle"
  /\ End(r) /\ late' = late \ {r}
  /\ UNCHANGED <<row, minutes, customers, stripe, delivery, mixed>>

-------------------------------------------------------------------------------
(* Stripe *)

(* A checkout session is paid, which starts a subscription. *)
Pay(k) ==
  /\ checkout[k] # 0 /\ bought[k] = "none"
  /\ bought' = [bought EXCEPT ![k] = "active"]
  /\ Send("completed", k, "active")
  /\ UNCHANGED <<row, minutes, requests, customers, checkout, delivery, mixed>>

Change(k, status) ==
  /\ bought[k] \in StripeStatuses \ {status}
  /\ bought' = [bought EXCEPT ![k] = status]
  /\ Send("updated", k, status)
  /\ UNCHANGED <<row, minutes, requests, customers, checkout, delivery, mixed>>

Delete(k) ==
  /\ bought[k] \in StripeStatuses
  /\ bought' = [bought EXCEPT ![k] = "canceled"]
  /\ Send("deleted", k, "canceled")
  /\ UNCHANGED <<row, minutes, requests, customers, checkout, delivery, mixed>>

-------------------------------------------------------------------------------
(* POST /billing/stripe-webhook *)

(* A completed session names its tenant, the other events their            *)
(* subscription.  What is not found is acknowledged and forgotten.         *)
Found(e) ==
  /\ row # NoRow
  /\ e.type # "completed" => row.subscription = e.subscription

(* Stripe knows statuses that subscription_status_check refuses. *)
Accepted(e) == e.status \in Statuses

(* e is handled: it is acknowledged, or the answer is lost and Stripe will *)
(* deliver it again.                                                       *)
Acknowledge(e, outdated) ==
  /\ events' \in {events, events \ {e}}
  /\ newest' = IF e.seq > newest THEN e.seq ELSE newest
  /\ disorder' = (disorder \/ e.seq <= newest \/ outdated)
  /\ UNCHANGED <<minutes, customers, checkout, bought, sent>>

ReadEvent(r, e) ==
  /\ pc[r] = "idle"
  /\ IF Found(e)
       THEN /\ Go(r, "found")
            /\ event' = [event EXCEPT ![r] = {e}]
            /\ UNCHANGED <<minutes, payer, customers, stripe, delivery>>
       ELSE Acknowledge(e, FALSE) /\ UNCHANGED <<pc, payer, event>>
  /\ UNCHANGED <<row, late, mixed>>

(* The plan is the one bought, here always "pro"; monthly_minute_limit is  *)
(* left as it is.                                                          *)
WriteEvent(r) ==
  /\ pc[r] = "found"
  /\ \E e \in event[r] :
       /\ Accepted(e)
       /\ IF e.type = "completed"
            THEN /\ row' = [plan |-> "pro", status |-> "active",
                            customer |-> checkout[e.subscription],
                            subscription |-> e.subscription]
                 /\ Outdates(r) /\ mixed' = FALSE
            ELSE /\ row' = [row EXCEPT !.status = e.status]
                 /\ late' = late \ {r} /\ UNCHANGED mixed
       /\ Acknowledge(e, r \in late)
  /\ End(r)

-------------------------------------------------------------------------------
(* Calls and time *)

(* check_usage_limit: without a row there is no limit.  The row's period   *)
(* begins with the row, lasts 30 days and is never moved on: what it       *)
(* counted when it ended decides for good.                                 *)
LimitReached == row # NoRow /\ counted >= Limit

(* The records that get_usage_for_period sums: those of the row's period.  *)
InPeriod == row # NoRow /\ ~over

(* After the first month the model keeps no minutes beyond the limit.      *)
UpToLimit(n) == IF n > Limit THEN Limit ELSE n

(* The admission of a call (CheckUsageLimit of VoiceCalls). *)
StartCall(l) ==
  /\ l \notin live /\ ~LimitReached
  /\ live' = live \cup {l}
  /\ UNCHANGED <<row, used, counted, over, requests, customers, stripe, delivery, mixed>>

(* The usage record of a call that ends (PersistCall of VoiceCalls).       *)
EndCall(l, m) ==
  /\ l \in live
  /\ live' = live \ {l}
  /\ used' = IF row = NoRow THEN 0
             ELSE IF over THEN UpToLimit(used + m) ELSE used + m
  /\ counted' = IF InPeriod THEN counted + m ELSE counted
  /\ UNCHANGED <<row, over, requests, customers, stripe, delivery, mixed>>

NextMonth ==
  /\ row # NoRow
  /\ used' = 0 /\ counted' = UpToLimit(counted) /\ over' = TRUE
  /\ UNCHANGED <<row, live, requests, customers, stripe, delivery, mixed>>

-------------------------------------------------------------------------------

Subscribe(r) == FindNoSubscription(r) \/ CreateSubscription(r) \/ SubscriptionClash(r)

Checkout(r) ==
  \/ ReadCustomer(r) \/ CreateCustomer(r) \/ StoreCustomer(r)
  \/ \E k \in Checkouts : StartCheckout(r, k)

Webhook(r) == WriteEvent(r) \/ \E e \in events : ReadEvent(r, e)

Stripe ==
  \E k \in Checkouts :
    Pay(k) \/ Delete(k) \/ \E s \in StripeStatuses : Change(k, s)

Calling ==
  \/ \E l \in Lines : StartCall(l) \/ \E m \in 1..MaxMinutes : EndCall(l, m)
  \/ NextMonth

Next ==
  \/ \E r \in Requests : Subscribe(r) \/ Checkout(r) \/ Webhook(r) \/ Abort(r)
  \/ Stripe \/ Calling

Spec == Init /\ [][Next]_vars

-------------------------------------------------------------------------------

(* Every variable has its type. *)
TypeOK ==
  /\ row \in Subscription \cup {NoRow}
  /\ used \in Nat /\ counted \in Nat /\ over \in BOOLEAN /\ live \subseteq Lines
  /\ pc \in [Requests -> {"idle", "creating", "unknown", "paying", "named", "found"}]
  /\ payer \in [Requests -> 0..MaxCheckouts] /\ event \in [Requests -> SUBSET Event]
  /\ customers \in 0..MaxCheckouts
  /\ checkout \in [Checkouts -> 0..MaxCheckouts]
  /\ bought \in [Checkouts -> StripeStatuses \cup {"none", "canceled"}]
  /\ events \subseteq Event /\ sent \in 0..MaxEvents /\ newest \in 0..MaxEvents
  /\ disorder \in BOOLEAN /\ mixed \in BOOLEAN /\ late \subseteq Requests

(* In the period of the row the recorded minutes exceed the limit by less  *)
(* than what the calls that are live at the same time may take, as each    *)
(* was below the limit when it was admitted, or was admitted before the    *)
(* row was created.                                                        *)
MinutesBounded ==
  row # NoRow /\ ~over =>
    used + Cardinality(live) * MaxMinutes < Limit + Cardinality(Lines) * MaxMinutes

(* When Stripe has nothing left to deliver, the status is that of the      *)
(* subscription the row names, unless an event was handled again, after a  *)
(* newer one, or while the row came to name another subscription.          *)
StatusFollowsStripe ==
  events = {} /\ ~disorder /\ row # NoRow =>
    row.subscription = 0 \/ row.status = bought[row.subscription]

(* The customer whose portal is opened is the one who pays for the         *)
(* subscription, unless checkouts overlapped.                              *)
CustomerPaysSubscription ==
  row # NoRow /\ ~mixed =>
    row.subscription = 0 \/ row.customer = checkout[row.subscription]

(* "Check if the tenant has exceeded their monthly voice minute limit": a  *)
(* call is admitted only below the limit of its month.                     *)
MonthlyLimitApplies ==
  [][live' \ live # {} => row = NoRow \/ used < Limit]_vars
===============================================================================
