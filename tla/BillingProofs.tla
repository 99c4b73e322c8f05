---------------------------- MODULE BillingProofs ----------------------------
(***************************************************************************)
(* Proofs about Billing, for any number of requests, lines, checkouts and  *)
(* events, any limit and any length of calls.                              *)
(***************************************************************************)
EXTENDS Billing, FiniteSetTheorems, TLAPS

-------------------------------------------------------------------------------
(* Types *)

(* The row is absent, or a subscription. *)
LEMMA RowFields ==
  ASSUME TypeOK, row # NoRow
  PROVE  /\ row \in Subscription
         /\ row.customer \in 0..MaxCheckouts /\ row.subscription \in 0..MaxCheckouts
  BY DEF TypeOK, Subscription

(* A subscription's row is not the mark of a missing one. *)
LEMMA SubscriptionIsRow == \A x \in Subscription : x # NoRow
<1>1. \A x \in Subscription : x.status # "none"
  BY DEF Subscription, Statuses
<1> QED
  BY <1>1 DEF NoRow

(* Types depend on more: events are numbered, and who writes has found a row. *)
TypeInv ==
  /\ TypeOK
  /\ \A e \in events : e.seq \in 1..sent
  /\ \A r \in Requests : \A e \in event[r] : pc[r] = "found" /\ e.seq \in 1..sent
  /\ \A r \in Requests : pc[r] \in {"paying", "found"} => row # NoRow

(* The first state is typed. *)
LEMMA InitTyped == Init => TypeInv
<1> SUFFICES ASSUME Init
             PROVE  TypeInv
  OBVIOUS
<1>1. row \in Subscription \cup {NoRow} /\ over \in BOOLEAN /\ disorder \in BOOLEAN
      /\ mixed \in BOOLEAN
  BY DEF Init
<1>2. used \in Nat /\ counted \in Nat /\ live \subseteq Lines
      /\ customers \in 0..MaxCheckouts
      /\ events \subseteq Event /\ sent \in 0..MaxEvents /\ newest \in 0..MaxEvents
      /\ late \subseteq Requests
  BY BillingAssumption DEF Init
<1>3. pc \in [Requests -> {"idle", "creating", "unknown", "paying", "named", "found"}]
  BY DEF Init
<1>4. payer \in [Requests -> 0..MaxCheckouts] /\ event \in [Requests -> SUBSET Event]
      /\ checkout \in [Checkouts -> 0..MaxCheckouts]
  BY BillingAssumption DEF Init
<1>5. bought \in [Checkouts -> StripeStatuses \cup {"none", "canceled"}]
  BY DEF Init
<1>6. /\ \A e \in events : e.seq \in 1..sent
      /\ \A r \in Requests : pc[r] = "idle" /\ event[r] = {}
  BY DEF Init
<1> QED
  BY <1>1, <1>2, <1>3, <1>4, <1>5, <1>6 DEF TypeInv, TypeOK

(* The steps of POST /billing/subscribe keep the types. *)
LEMMA SubscribeTyped ==
  ASSUME TypeInv, NEW r \in Requests, Subscribe(r)
  PROVE  TypeInv'
<1> USE BillingAssumption DEF TypeInv, TypeOK, minutes, stripe, delivery, requests, Go, End
<1>1. CASE FindNoSubscription(r)
  BY <1>1 DEF FindNoSubscription
<1>2. CASE CreateSubscription(r)
  <2>1. row' \in Subscription
    BY <1>2 DEF CreateSubscription, Subscription, Statuses
  <2> QED
    BY <1>2, <2>1 DEF CreateSubscription
<1>3. CASE SubscriptionClash(r)
  BY <1>3 DEF SubscriptionClash
<1> QED
  BY <1>1, <1>2, <1>3 DEF Subscribe

(* A row that is given a customer stays a subscription. *)
LEMMA CustomerStored ==
  ASSUME TypeInv, NEW r \in Requests, StoreCustomer(r)
  PROVE  row # NoRow /\ row' \in Subscription /\ row' # NoRow
<1>1. row # NoRow /\ row \in Subscription
  BY RowFields DEF StoreCustomer, TypeInv
<1>2. payer[r] \in 0..MaxCheckouts
  BY DEF TypeInv, TypeOK
<1>3. row' \in Subscription
  BY <1>1, <1>2 DEF StoreCustomer, Subscription
<1> QED
  BY <1>1, <1>3, SubscriptionIsRow

(* So do those that store a customer and open a checkout. *)
LEMMA CheckoutTyped ==
  ASSUME TypeInv, NEW r \in Requests, Checkout(r) \/ Abort(r)
  PROVE  TypeInv'
<1> USE BillingAssumption DEF TypeInv, TypeOK, minutes, stripe, delivery, requests, Go, End
<1>1. CASE ReadCustomer(r)
  BY <1>1, RowFields DEF ReadCustomer
<1>2. CASE CreateCustomer(r)
  BY <1>2 DEF CreateCustomer
<1>3. CASE StoreCustomer(r)
  <2>1. row' \in Subscription /\ row' # NoRow
    BY <1>3, CustomerStored
  <2>2. mixed' \in BOOLEAN /\ late' \subseteq Requests
    BY <1>3 DEF StoreCustomer, Outdates
  <2>3. pc' = [pc EXCEPT ![r] = "named"] /\ pc[r] = "paying"
    BY <1>3 DEF StoreCustomer
  <2>4. UNCHANGED <<used, counted, over, live, payer, event, customers, checkout, bought,
                    events, sent, newest, disorder>>
    BY <1>3 DEF StoreCustomer
  <2> QED
    BY <2>1, <2>2, <2>3, <2>4
<1>4. ASSUME NEW k \in Checkouts, StartCheckout(r, k)
      PROVE  TypeInv'
  BY <1>4 DEF StartCheckout
<1>5. CASE Abort(r)
  BY <1>5 DEF Abort
<1> QED
  BY <1>1, <1>2, <1>3, <1>4, <1>5 DEF Checkout

(* What happens at Stripe keeps the types and numbers its events. *)
LEMMA StripeTyped ==
  ASSUME TypeInv, Stripe
  PROVE  TypeInv'
<1> USE BillingAssumption DEF TypeInv, TypeOK, minutes, stripe, delivery, requests
<1>1. ASSUME NEW type \in {"completed", "updated", "deleted"}, NEW k \in Checkouts,
             NEW status \in StripeStatuses \cup {"canceled"}, Send(type, k, status)
      PROVE  /\ events' \subseteq Event /\ sent' \in 0..MaxEvents /\ sent' > sent
             /\ \A e \in events' : e.seq \in 1..sent'
  BY <1>1 DEF Send, Event
<1> SUFFICES ASSUME NEW k \in Checkouts,
                    Pay(k) \/ Delete(k) \/ \E s \in StripeStatuses : Change(k, s)
             PROVE  TypeInv'
  BY DEF Stripe
<1>2. CASE Pay(k)
  BY <1>1, <1>2 DEF Pay, StripeStatuses
<1>3. CASE Delete(k)
  BY <1>1, <1>3 DEF Delete
<1>4. ASSUME NEW s \in StripeStatuses, Change(k, s)
      PROVE  TypeInv'
  BY <1>1, <1>4 DEF Change
<1> QED
  BY <1>2, <1>3, <1>4

(* What is handled was sent. *)
LEMMA AcknowledgeTyped ==
  ASSUME TypeInv, NEW e \in Event, e.seq \in 1..sent, NEW b, Acknowledge(e, b)
  PROVE  /\ events' \subseteq events /\ newest' \in 0..MaxEvents
         /\ disorder' \in BOOLEAN
<1>1. events' \subseteq events
  BY DEF Acknowledge
<1>2. newest' \in 0..MaxEvents
  BY BillingAssumption DEF Acknowledge, TypeInv, TypeOK
<1>3. disorder' \in BOOLEAN
  BY DEF Acknowledge
<1> QED
  BY <1>1, <1>2, <1>3

(* So does one that follows an event. *)
LEMMA EventStored ==
  ASSUME TypeInv, NEW r \in Requests, WriteEvent(r)
  PROVE  row # NoRow /\ row' \in Subscription /\ row' # NoRow
<1>1. PICK e \in event[r] :
        /\ Accepted(e)
        /\ IF e.type = "completed"
             THEN row' = [plan |-> "pro", status |-> "active",
                          customer |-> checkout[e.subscription], subscription |-> e.subscription]
             ELSE row' = [row EXCEPT !.status = e.status]
  BY DEF WriteEvent
<1>2. row # NoRow /\ e \in Event
  BY DEF WriteEvent, TypeInv, TypeOK
<1>3. CASE e.type = "completed"
  <2>1. e.subscription \in 1..MaxCheckouts /\ checkout[e.subscription] \in 0..MaxCheckouts
    BY <1>2 DEF Event, Checkouts, TypeInv, TypeOK
  <2> QED
    BY <1>1, <1>2, <1>3, <2>1, SubscriptionIsRow DEF Subscription, Statuses
<1>4. CASE e.type # "completed"
  <2>1. row \in Subscription
    BY <1>2, RowFields DEF TypeInv
  <2>2. row' \in Subscription
    BY <1>1, <1>4, <2>1 DEF Subscription, Accepted
  <2> QED
    BY <1>2, <2>2, SubscriptionIsRow
<1> QED
  BY <1>3, <1>4

(* The webhook keeps the types: what it writes comes from an event or a row. *)
LEMMA WebhookTyped ==
  ASSUME TypeInv, NEW r \in Requests, Webhook(r)
  PROVE  TypeInv'
<1> USE BillingAssumption DEF TypeInv, TypeOK, minutes, stripe, delivery, requests, Go, End
<1>1. ASSUME NEW e \in events, ReadEvent(r, e)
      PROVE  TypeInv'
  <2>1. CASE Found(e)
    <3>1. /\ row # NoRow /\ e \in Event /\ e.seq \in 1..sent
          /\ pc' = [pc EXCEPT ![r] = "found"] /\ event' = [event EXCEPT ![r] = {e}]
      BY <1>1, <2>1 DEF ReadEvent, Found
    <3>2. UNCHANGED <<used, counted, over, live, payer, customers, checkout, bought, events,
                      sent>>
      BY <1>1, <2>1 DEF ReadEvent
    <3>3. UNCHANGED <<newest, disorder, row, late, mixed>>
      BY <1>1, <2>1 DEF ReadEvent
    <3> QED
      BY <3>1, <3>2, <3>3
  <2>2. CASE ~Found(e)
    <3>1. Acknowledge(e, FALSE)
      BY <1>1, <2>2 DEF ReadEvent
    <3>2. e \in Event /\ e.seq \in 1..sent
      OBVIOUS
    <3>3. events' \subseteq events /\ newest' \in 0..MaxEvents /\ disorder' \in BOOLEAN
      BY <3>1, <3>2, AcknowledgeTyped
    <3> QED
      BY <1>1, <2>2, <3>1, <3>3 DEF ReadEvent, Acknowledge
  <2> QED
    BY <2>1, <2>2
<1>2. CASE WriteEvent(r)
  <2>1. PICK e \in event[r] :
          /\ Accepted(e)
          /\ IF e.type = "completed"
               THEN /\ row' = [plan |-> "pro", status |-> "active",
                               customer |-> checkout[e.subscription],
                               subscription |-> e.subscription]
                    /\ Outdates(r) /\ mixed' = FALSE
               ELSE /\ row' = [row EXCEPT !.status = e.status]
                    /\ late' = late \ {r} /\ UNCHANGED mixed
          /\ Acknowledge(e, r \in late)
    BY <1>2 DEF WriteEvent
  <2>2. e \in Event /\ e.seq \in 1..sent /\ row # NoRow
    BY <1>2 DEF WriteEvent
  <2>3. events' \subseteq events /\ newest' \in 0..MaxEvents /\ disorder' \in BOOLEAN
    BY <2>1, <2>2, AcknowledgeTyped
  <2>4. row' \in Subscription /\ row' # NoRow
    BY <1>2, EventStored
  <2>5. mixed' \in BOOLEAN
    BY <2>1
  <2>6. late' \subseteq Requests
    BY <2>1 DEF Outdates
  <2>7. UNCHANGED <<used, counted, over, live, customers, checkout, bought, sent>>
    BY <2>1 DEF Acknowledge
  <2> QED
    BY <1>2, <2>3, <2>4, <2>5, <2>6, <2>7 DEF WriteEvent
<1> QED
  BY <1>1, <1>2 DEF Webhook

(* Calls keep the types. *)
LEMMA CallingTyped ==
  ASSUME TypeInv, Calling
  PROVE  TypeInv'
<1> USE BillingAssumption DEF TypeInv, TypeOK, stripe, delivery, requests
<1>1. ASSUME NEW l \in Lines, StartCall(l)
      PROVE  TypeInv'
  BY <1>1 DEF StartCall
<1>2. ASSUME NEW l \in Lines, NEW m \in 1..MaxMinutes, EndCall(l, m)
      PROVE  TypeInv'
  BY <1>2 DEF EndCall, UpToLimit, InPeriod
<1>3. CASE NextMonth
  BY <1>3 DEF NextMonth, UpToLimit
<1> QED
  BY <1>1, <1>2, <1>3 DEF Calling

(* Every step keeps the types. *)
LEMMA StepTyped == TypeInv /\ [Next]_vars => TypeInv'
<1> SUFFICES ASSUME TypeInv, [Next]_vars
             PROVE  TypeInv'
  OBVIOUS
<1>1. CASE UNCHANGED vars
  BY <1>1 DEF vars, TypeInv, TypeOK
<1> QED
  BY <1>1, SubscribeTyped, CheckoutTyped, WebhookTyped, StripeTyped, CallingTyped DEF Next

(* The types hold in every state. *)
LEMMA TypeInvHolds == Spec => []TypeInv
  BY InitTyped, StepTyped, PTL DEF Spec

(* Every variable keeps its type. *)
THEOREM TypeCorrect == Spec => []TypeOK
  BY TypeInvHolds, PTL DEF TypeInv

-------------------------------------------------------------------------------
(* Minutes *)

(* The lines with a call are counted by a number. *)
LEMMA LiveCounts ==
  ASSUME TypeOK
  PROVE  /\ IsFiniteSet(live) /\ Cardinality(live) \in Nat /\ Cardinality(Lines) \in Nat
         /\ Cardinality(live) <= Cardinality(Lines)
<1>1. live \in SUBSET Lines
  BY DEF TypeOK
<1> QED
  BY <1>1, BillingAssumption, FS_Subset, FS_CardinalityType

(* One call more or less takes its minutes with it. *)
LEMMA Shares ==
  ASSUME NEW N \in Nat, NEW k \in Nat, k <= N
  PROVE  /\ k * MaxMinutes \in Nat /\ N * MaxMinutes \in Nat
         /\ k * MaxMinutes <= N * MaxMinutes
         /\ (k + 1) * MaxMinutes = k * MaxMinutes + MaxMinutes
         /\ (k - 1) * MaxMinutes = k * MaxMinutes - MaxMinutes
  BY BillingAssumption

(* Before the row is created no minutes are recorded; in its period they
   are the ones that are counted. *)
MinutesInv ==
  /\ MinutesBounded
  /\ row = NoRow => used = 0
  /\ ~over => counted = used

(* A call is admitted below the limit, and takes the reserve of its line. *)
LEMMA StartCallKeeps ==
  ASSUME TypeOK, TypeOK', MinutesInv, NEW l \in Lines, StartCall(l)
  PROVE  MinutesInv'
<1>1. Cardinality(live') = Cardinality(live) + 1
  BY LiveCounts, FS_AddElement DEF StartCall
<1>2. Cardinality(live') <= Cardinality(Lines)
  <2>1. live' \in SUBSET Lines
    BY DEF TypeOK
  <2> QED
    BY <2>1, BillingAssumption, FS_Subset
<1>3. (Cardinality(live) + 1) * MaxMinutes <= Cardinality(Lines) * MaxMinutes
  BY <1>1, <1>2, LiveCounts, Shares
<1> QED
  BY <1>1, <1>3, LiveCounts, Shares, BillingAssumption
     DEF StartCall, MinutesInv, MinutesBounded, LimitReached, TypeOK

(* Its record is at most that reserve. *)
LEMMA EndCallKeeps ==
  ASSUME TypeOK, MinutesInv, NEW l \in Lines, NEW m \in 1..MaxMinutes, EndCall(l, m)
  PROVE  MinutesInv'
<1>1. Cardinality(live') = Cardinality(live) - 1
  BY LiveCounts, FS_RemoveElement DEF EndCall
<1>2. /\ row' = row /\ over' = over
      /\ row = NoRow => used' = 0 /\ counted' = counted
      /\ row # NoRow /\ ~over => used' = used + m /\ counted' = counted + m
  BY DEF EndCall, InPeriod
<1>3. (Cardinality(live) - 1) * MaxMinutes = Cardinality(live) * MaxMinutes - MaxMinutes
      /\ Cardinality(live) * MaxMinutes \in Nat /\ Cardinality(Lines) * MaxMinutes \in Nat
  BY LiveCounts, Shares
<1>4. MinutesBounded'
  BY <1>1, <1>2, <1>3, BillingAssumption DEF MinutesInv, MinutesBounded, TypeOK
<1> QED
  BY <1>2, <1>4 DEF MinutesInv

(* The row is created with nothing recorded; no other step of a request or
   of Stripe touches the minutes, or deletes the row. *)
LEMMA RequestsKeepMinutes ==
  ASSUME TypeInv, TypeInv', MinutesInv, UNCHANGED <<used, counted, over, live>>,
         row' # row => row' # NoRow
  PROVE  MinutesInv'
<1>1. used \in Nat /\ Cardinality(live) * MaxMinutes <= Cardinality(Lines) * MaxMinutes
      /\ Cardinality(live) * MaxMinutes \in Nat /\ Cardinality(Lines) * MaxMinutes \in Nat
  BY LiveCounts, Shares DEF TypeInv, TypeOK
<1> QED
  BY <1>1, BillingAssumption DEF MinutesInv, MinutesBounded

(* In the period of the row the recorded minutes exceed the limit by less
   than what the calls that are live at the same time may take. *)
THEOREM MinutesAreBounded == Spec => []MinutesBounded
<1>1. Init => MinutesInv
  BY DEF Init, MinutesInv, MinutesBounded
<1>2. TypeInv /\ TypeInv' /\ MinutesInv /\ [Next]_vars => MinutesInv'
  <2> SUFFICES ASSUME TypeInv, TypeInv', MinutesInv, [Next]_vars
               PROVE  MinutesInv'
    OBVIOUS
  <2>1. CASE UNCHANGED vars
    BY <2>1, RequestsKeepMinutes DEF vars
  <2>2. CASE Calling
    <3>1. CASE NextMonth
      BY <3>1 DEF NextMonth, MinutesInv, MinutesBounded
    <3> QED
      BY <2>2, <3>1, StartCallKeeps, EndCallKeeps DEF Calling, TypeInv
  <2>3. ASSUME NEW r \in Requests, Subscribe(r) \/ Checkout(r) \/ Webhook(r) \/ Abort(r)
        PROVE  MinutesInv'
    <3> USE DEF minutes
    <3>1. UNCHANGED <<used, counted, over, live>>
      BY <2>3 DEF Subscribe, FindNoSubscription, CreateSubscription, SubscriptionClash,
                  Checkout, ReadCustomer, CreateCustomer, StoreCustomer, StartCheckout,
                  Webhook, ReadEvent, WriteEvent, Acknowledge, Abort
    <3>2. row' # row => row' # NoRow
      <4>1. CASE Subscribe(r) \/ Abort(r)
        <5>1. CreateSubscription(r) => row'.status = "trialing"
          BY DEF CreateSubscription
        <5> QED
          BY <4>1, <5>1 DEF Subscribe, FindNoSubscription, SubscriptionClash, Abort, NoRow
      <4>2. CASE Checkout(r)
        BY <4>2, CustomerStored DEF Checkout, ReadCustomer, CreateCustomer, StartCheckout
      <4>3. CASE Webhook(r)
        BY <4>3, EventStored DEF Webhook, ReadEvent
      <4> QED
        BY <2>3, <4>1, <4>2, <4>3
    <3> QED
      BY <3>1, <3>2, RequestsKeepMinutes
  <2>4. CASE Stripe
    BY <2>4, RequestsKeepMinutes DEF Stripe, Pay, Change, Delete, minutes
  <2> QED
    BY <2>1, <2>2, <2>3, <2>4 DEF Next
<1> QED
  BY <1>1, <1>2, TypeInvHolds, PTL DEF Spec, MinutesInv

-------------------------------------------------------------------------------
(* Events, the status of the subscription, and its customer *)

(* Stripe numbers its events, and sends none about a checkout that has not *)
(* been paid.  What a request holds is still to be delivered, or handled.  *)
Sound(e) ==
  /\ e.seq \in 1..sent
  /\ checkout[e.subscription] # 0 /\ bought[e.subscription] # "none"
  /\ e.type = "completed" => e.status = "active"

EventsSound ==
  /\ \A e \in events : Sound(e)
  /\ \A e, f \in events : e.seq = f.seq => e = f
  /\ \A r \in Requests : \A e \in event[r] :
       /\ pc[r] = "found" /\ Sound(e)
       /\ e.seq <= newest \/ e \in events
  /\ \A k \in Checkouts : bought[k] # "none" => checkout[k] # 0
  /\ row # NoRow /\ row.subscription # 0 =>
       checkout[row.subscription] # 0 /\ bought[row.subscription] # "none"

(* What a request read of the row stays so until it is recorded as late.   *)
ReadsHold ==
  \A r \in Requests :
    /\ pc[r] \in {"paying", "found"} => row # NoRow
    /\ r \notin late =>
         /\ pc[r] = "paying" => row.customer = 0
         /\ \A e \in event[r] : e.type # "completed" => row.subscription = e.subscription

(* The last event about k that is still to be delivered tells its status.  *)
Pending(k) ==
  \E e \in events :
    /\ e.subscription = k /\ e.status = bought[k]
    /\ \A f \in events : f.subscription = k => f.seq <= e.seq

(* News about a subscription end with the present status; the row has it,  *)
(* or will hear of it.                                                     *)
NewsArrive ==
  /\ newest <= sent
  /\ \A e \in events : e.seq > newest => Pending(e.subscription)
  /\ row # NoRow /\ ~disorder =>
       row.subscription = 0 \/ row.status = bought[row.subscription] \/ Pending(row.subscription)

BillingInv ==
  /\ TypeInv
  /\ EventsSound /\ ReadsHold /\ NewsArrive /\ CustomerPaysSubscription

(* Steps that leave Stripe and what is delivered alone. *)
LEMMA LocalStepsKeep ==
  ASSUME BillingInv, TypeInv', NEW r \in Requests,
         \/ Subscribe(r) \/ ReadCustomer(r) \/ CreateCustomer(r) \/ Abort(r)
  PROVE  BillingInv'
<1> USE DEF BillingInv, minutes, stripe, delivery, Go, End
<1>1. UNCHANGED <<checkout, bought, events, sent, newest, disorder, mixed>>
  BY DEF Subscribe, FindNoSubscription, CreateSubscription, SubscriptionClash, ReadCustomer,
         CreateCustomer, Abort
<1>2. \/ row' = row
      \/ row = NoRow /\ row'.subscription = 0
  BY DEF Subscribe, FindNoSubscription, CreateSubscription, SubscriptionClash, ReadCustomer,
         CreateCustomer, Abort
<1>3. /\ event' = event \/ event' = [event EXCEPT ![r] = {}]
      /\ \A q \in Requests \ {r} : pc'[q] = pc[q]
      /\ pc[r] # "found" \/ event'[r] = {}
  BY DEF Subscribe, FindNoSubscription, CreateSubscription, SubscriptionClash, ReadCustomer,
         CreateCustomer, Abort, TypeInv, TypeOK
<1>4. EventsSound'
  BY <1>1, <1>2, <1>3 DEF EventsSound, Sound, TypeInv, TypeOK
<1>5. ReadsHold'
  BY <1>2 DEF ReadsHold, TypeInv, TypeOK, Subscribe, FindNoSubscription, CreateSubscription,
              SubscriptionClash, ReadCustomer, CreateCustomer, Abort
<1>6. NewsArrive'
  BY <1>1, <1>2 DEF NewsArrive, Pending
<1>7. CustomerPaysSubscription'
  BY <1>1, <1>2 DEF CustomerPaysSubscription
<1> QED
  BY <1>4, <1>5, <1>6, <1>7

(* Calls touch nothing of this. *)
LEMMA CallsKeep ==
  ASSUME BillingInv, TypeInv',
         Calling \/ UNCHANGED vars
  PROVE  BillingInv'
<1> USE DEF BillingInv
<1>1. UNCHANGED <<row, requests, stripe, delivery, mixed>>
  BY DEF Calling, StartCall, EndCall, NextMonth, vars, requests, stripe, delivery
<1> QED
  BY <1>1 DEF EventsSound, Sound, ReadsHold, NewsArrive, Pending, CustomerPaysSubscription,
              requests, stripe, delivery

(* The customer is stored before anything is bought for it, or late. *)
LEMMA StoreCustomerKeeps ==
  ASSUME BillingInv, TypeInv', NEW r \in Requests, StoreCustomer(r)
  PROVE  BillingInv'
<1> USE DEF BillingInv, StoreCustomer, minutes, stripe, delivery
<1>1. /\ row # NoRow /\ row \in Subscription /\ row' # NoRow
      /\ row'.subscription = row.subscription /\ row'.status = row.status
      /\ row'.customer = payer[r]
  BY CustomerStored, RowFields DEF Subscription, TypeInv
<1>2. EventsSound'
  BY <1>1 DEF EventsSound, Sound, TypeInv, TypeOK, Go
<1>3. ReadsHold'
  BY <1>1 DEF ReadsHold, EventsSound, Outdates, TypeInv, TypeOK, Go
<1>4. NewsArrive'
  BY <1>1 DEF NewsArrive, Pending
<1>5. CustomerPaysSubscription'
  BY <1>1 DEF CustomerPaysSubscription, ReadsHold, EventsSound
<1> QED
  BY <1>2, <1>3, <1>4, <1>5

(* A checkout session that is created has led to nothing. *)
LEMMA StartCheckoutKeeps ==
  ASSUME BillingInv, TypeInv', NEW r \in Requests, NEW k \in Checkouts, StartCheckout(r, k)
  PROVE  BillingInv'
<1> USE DEF BillingInv, StartCheckout, minutes, delivery, End, Go
<1>1. \A j \in Checkouts : checkout[j] # 0 => checkout'[j] = checkout[j]
  BY DEF TypeInv, TypeOK
<1>2. row # NoRow => row.subscription = 0 \/ row.subscription \in Checkouts
  BY RowFields, BillingAssumption DEF TypeInv, Checkouts
<1>3. EventsSound'
  <2>1. \A e \in Event : Sound(e) => Sound(e)'
    BY <1>1 DEF Sound, Event
  <2> QED
    BY <1>1, <1>2, <2>1 DEF EventsSound, TypeInv, TypeOK
<1>4. ReadsHold'
  BY DEF ReadsHold, TypeInv, TypeOK
<1>5. NewsArrive'
  BY DEF NewsArrive, Pending
<1>6. CustomerPaysSubscription'
  BY <1>1, <1>2 DEF CustomerPaysSubscription, EventsSound
<1> QED
  BY <1>3, <1>4, <1>5, <1>6

(* What happens at Stripe is the last news of its subscription. *)
LEMMA StripeKeeps ==
  ASSUME BillingInv, TypeInv', Stripe
  PROVE  BillingInv'
<1> USE DEF BillingInv
<1>1. PICK k \in Checkouts, status \in StripeStatuses \cup {"canceled"},
           type \in {"completed", "updated", "deleted"} :
        /\ Send(type, k, status)
        /\ bought' = [bought EXCEPT ![k] = status]
        /\ checkout[k] # 0 /\ bought[k] # status
        /\ bought[k] = "none" => type = "completed"
        /\ type = "completed" => status = "active"
        /\ status # "none"
  BY DEF Stripe, Pay, Change, Delete, StripeStatuses, EventsSound
<1>2. UNCHANGED <<row, pc, event, late, checkout, newest, disorder, mixed>>
  BY DEF Stripe, Pay, Change, Delete, requests, delivery
<1> DEFINE new == [seq |-> sent + 1, type |-> type, subscription |-> k, status |-> status]
<1>3. events' = events \cup {new} /\ sent' = sent + 1
  BY <1>1 DEF Send
<1>4. /\ new.seq = sent + 1 /\ new.type = type /\ new.subscription = k /\ new.status = status
      /\ \A e \in events : e.seq < new.seq
      /\ bought'[k] = status
      /\ newest < new.seq
  <2>1. newest <= sent
    BY DEF NewsArrive
  <2> QED
    BY <1>1, <2>1 DEF TypeInv, TypeOK
<1> HIDE DEF new
<1>5. EventsSound'
  BY <1>1, <1>2, <1>3, <1>4 DEF EventsSound, Sound, TypeInv, TypeOK
<1>6. Pending(k)'
  BY <1>3, <1>4 DEF Pending, EventsSound, Sound, TypeInv, TypeOK
<1>7. \A j \in Checkouts \ {k} : Pending(j) => Pending(j)'
  BY <1>1, <1>3, <1>4 DEF Pending, TypeInv, TypeOK
<1>8. row # NoRow => row.subscription = 0 \/ row.subscription \in Checkouts
  BY RowFields, BillingAssumption DEF TypeInv, Checkouts
<1>9. NewsArrive'
  BY <1>1, <1>2, <1>3, <1>4, <1>6, <1>7, <1>8 DEF NewsArrive, TypeInv, TypeOK, Event
<1>10. ReadsHold' /\ CustomerPaysSubscription'
  BY <1>2 DEF ReadsHold, CustomerPaysSubscription
<1> QED
  BY <1>5, <1>9, <1>10

(* Handling e takes at most e from what is to be delivered. *)
LEMMA AcknowledgeKeepsNews ==
  ASSUME BillingInv, NEW e \in Event, Sound(e), e.seq <= newest \/ e \in events,
         events' \in {events, events \ {e}},
         newest' = IF e.seq > newest THEN e.seq ELSE newest,
         ~disorder' => ~disorder /\ e.seq > newest,
         UNCHANGED <<checkout, bought, sent>>
  PROVE  /\ events \ {e} \subseteq events' /\ events' \subseteq events
         /\ newest' <= sent' /\ newest <= newest' /\ e.seq <= newest'
         /\ UNCHANGED <<checkout, bought, sent>>
         /\ \A f \in events' : f.seq > newest' => Pending(f.subscription)'
         /\ ~disorder' => /\ ~disorder /\ e \in events /\ Pending(e.subscription)
                          /\ Pending(e.subscription)' \/ e.status = bought[e.subscription]
         /\ \A k \in Checkouts \ {e.subscription} : Pending(k) => Pending(k)'
<1> USE DEF BillingInv
<1>1. /\ events \ {e} \subseteq events' /\ events' \subseteq events
      /\ newest' <= sent' /\ newest <= newest' /\ e.seq <= newest'
      /\ UNCHANGED <<checkout, bought, sent>>
  BY DEF NewsArrive, Sound, TypeInv, TypeOK
<1>2. \A k \in Checkouts \ {e.subscription} : Pending(k) => Pending(k)'
  BY <1>1 DEF Pending, TypeInv
<1>3. ASSUME NEW f \in events', f.seq > newest'
      PROVE  Pending(f.subscription)'
  <2>1. f \in events /\ f.seq \in Nat /\ newest \in Nat /\ newest' \in Nat /\ e.seq \in Nat
    BY <1>1 DEF TypeInv, TypeOK, Event
  <2>2. f.seq > newest /\ f.seq > e.seq
    BY <1>1, <1>3, <2>1
  <2>3. Pending(f.subscription)
    BY <2>1, <2>2 DEF NewsArrive
  <2>4. PICK g \in events :
              /\ g.subscription = f.subscription /\ g.status = bought[f.subscription]
              /\ \A h \in events : h.subscription = f.subscription => h.seq <= g.seq
    BY <2>3 DEF Pending
  <2>5. g # e
    BY <2>1, <2>2, <2>4
  <2> QED
    BY <1>1, <2>4, <2>5 DEF Pending
<1>4. ASSUME ~disorder'
      PROVE  /\ ~disorder /\ e \in events /\ Pending(e.subscription)
             /\ Pending(e.subscription)' \/ e.status = bought[e.subscription]
  <2>1. ~disorder /\ ~(e.seq <= newest)
    BY <1>4 DEF TypeInv, TypeOK, Event
  <2>2. e \in events
    BY <2>1
  <2>3. Pending(e.subscription)
    BY <2>1, <2>2 DEF NewsArrive, TypeInv, TypeOK, Event
  <2>4. PICK g \in events :
              /\ g.subscription = e.subscription /\ g.status = bought[e.subscription]
              /\ \A h \in events : h.subscription = e.subscription => h.seq <= g.seq
    BY <2>3 DEF Pending
  <2>5. CASE g = e
    BY <2>1, <2>2, <2>3, <2>4, <2>5
  <2>6. CASE g # e
    <3>1. Pending(e.subscription)'
      BY <1>1, <2>4, <2>6 DEF Pending
    <3> QED
      BY <2>1, <2>2, <2>3, <3>1
  <2> QED
    BY <2>5, <2>6
<1> QED
  BY <1>1, <1>2, <1>3, <1>4

(* An event is read: one that concerns the row is held, another forgotten. *)
LEMMA ReadEventKeeps ==
  ASSUME BillingInv, TypeInv', NEW r \in Requests, NEW e \in events, ReadEvent(r, e)
  PROVE  BillingInv'
<1>1. /\ e \in Event /\ Sound(e) /\ pc[r] = "idle" /\ event[r] = {}
      /\ row' = row /\ late' = late /\ mixed' = mixed
  BY DEF BillingInv, EventsSound, TypeInv, TypeOK, ReadEvent
<1>2. row # NoRow => row.subscription = 0 \/ row.subscription \in Checkouts
  BY RowFields, BillingAssumption DEF BillingInv, TypeInv, Checkouts
<1>3. CASE Found(e)
  <2>1. /\ pc' = [pc EXCEPT ![r] = "found"] /\ event' = [event EXCEPT ![r] = {e}]
        /\ UNCHANGED <<checkout, bought, events, sent, newest, disorder>>
    BY <1>3 DEF BillingInv, ReadEvent, Go, stripe, delivery
  <2>2. EventsSound'
    BY <1>1, <2>1 DEF BillingInv, EventsSound, Sound, TypeInv, TypeOK
  <2>3. ReadsHold'
    BY <1>1, <1>3, <2>1 DEF BillingInv, ReadsHold, Found, TypeInv, TypeOK
  <2>4. NewsArrive' /\ CustomerPaysSubscription'
    BY <1>1, <2>1 DEF BillingInv, NewsArrive, Pending, CustomerPaysSubscription
  <2> QED
    BY <2>2, <2>3, <2>4 DEF BillingInv
<1>4. CASE ~Found(e)
  <2>1. Acknowledge(e, FALSE) /\ UNCHANGED <<pc, event>>
    BY <1>4 DEF BillingInv, ReadEvent
  <2>2. /\ events' \subseteq events /\ newest' <= sent' /\ newest <= newest' /\ e.seq <= newest'
        /\ events \ {e} \subseteq events'
        /\ UNCHANGED <<checkout, bought, sent>>
        /\ \A f \in events' : f.seq > newest' => Pending(f.subscription)'
        /\ ~disorder' => ~disorder
        /\ \A k \in Checkouts \ {e.subscription} : Pending(k) => Pending(k)'
    <3>1. /\ events' \in {events, events \ {e}} /\ UNCHANGED <<checkout, bought, sent>>
          /\ newest' = IF e.seq > newest THEN e.seq ELSE newest
      BY <2>1 DEF Acknowledge
    <3>2. ~disorder' => ~disorder /\ ~(e.seq <= newest)
      BY <2>1 DEF Acknowledge
    <3>3. ~(e.seq <= newest) => e.seq > newest
      BY <1>1 DEF BillingInv, TypeInv, TypeOK, Event
    <3> QED
      BY <1>1, <3>1, <3>2, <3>3, AcknowledgeKeepsNews
  <2>3. EventsSound'
    <3>1. \A q \in Requests : \A f \in event'[q] : f.seq <= newest' \/ f \in events'
      BY <2>1, <2>2 DEF BillingInv, EventsSound, TypeInv, TypeOK, Event
    <3> QED
      BY <1>1, <2>1, <2>2, <3>1 DEF BillingInv, EventsSound, Sound
  <2>4. NewsArrive'
    <3>1. row # NoRow => row.subscription # e.subscription
      BY <1>4 DEF BillingInv, Found
    <3> QED
      BY <1>1, <1>2, <2>2, <3>1 DEF BillingInv, NewsArrive
  <2>5. ReadsHold' /\ CustomerPaysSubscription'
    BY <1>1, <2>1, <2>2 DEF BillingInv, ReadsHold, CustomerPaysSubscription
  <2> QED
    BY <2>3, <2>4, <2>5 DEF BillingInv
<1> QED
  BY <1>3, <1>4

(* An event is written into the row. *)
LEMMA WriteEventKeeps ==
  ASSUME BillingInv, TypeInv', NEW r \in Requests, WriteEvent(r)
  PROVE  BillingInv'
<1>1. PICK e \in event[r] :
        /\ IF e.type = "completed"
             THEN /\ row' = [plan |-> "pro", status |-> "active",
                             customer |-> checkout[e.subscription],
                             subscription |-> e.subscription]
                  /\ Outdates(r) /\ mixed' = FALSE
             ELSE /\ row' = [row EXCEPT !.status = e.status]
                  /\ late' = late \ {r} /\ mixed' = mixed
        /\ Acknowledge(e, r \in late)
  BY DEF WriteEvent
<1>2. /\ e \in Event /\ Sound(e) /\ e.subscription \in Checkouts
      /\ e.seq <= newest \/ e \in events
      /\ row \in Subscription /\ row # NoRow /\ row' # NoRow /\ pc[r] = "found"
      /\ pc' = [pc EXCEPT ![r] = "idle"] /\ event' = [event EXCEPT ![r] = {}]
  <2>1. e \in Event /\ Sound(e) /\ (e.seq <= newest \/ e \in events)
    BY DEF BillingInv, EventsSound, TypeInv, TypeOK
  <2>2. TypeInv /\ row # NoRow /\ row' # NoRow /\ row \in Subscription
    BY EventStored, RowFields DEF BillingInv, TypeInv
  <2>3. e.subscription \in Checkouts
    BY <2>1 DEF Event
  <2>4. /\ pc[r] = "found"
        /\ pc' = [pc EXCEPT ![r] = "idle"] /\ event' = [event EXCEPT ![r] = {}]
    BY DEF WriteEvent, End, Go
  <2> QED
    BY <2>1, <2>2, <2>3, <2>4
<1>3. /\ ~disorder' => ~disorder /\ r \notin late /\ ~(e.seq <= newest)
      /\ events' \in {events, events \ {e}} /\ UNCHANGED <<checkout, bought, sent>>
      /\ newest' = IF e.seq > newest THEN e.seq ELSE newest
  <2>1. ~disorder' => ~disorder /\ r \notin late /\ ~(e.seq <= newest)
    BY <1>1 DEF Acknowledge
  <2>2. events' \in {events, events \ {e}} /\ UNCHANGED <<checkout, bought, sent>>
    BY <1>1 DEF Acknowledge
  <2>3. newest' = IF e.seq > newest THEN e.seq ELSE newest
    BY <1>1 DEF Acknowledge
  <2> QED
    BY <2>1, <2>2, <2>3
<1>4. /\ events \ {e} \subseteq events' /\ events' \subseteq events
      /\ newest' <= sent' /\ newest <= newest' /\ e.seq <= newest'
      /\ \A f \in events' : f.seq > newest' => Pending(f.subscription)'
      /\ ~disorder' => Pending(e.subscription)' \/ e.status = bought[e.subscription]
      /\ \A k \in Checkouts \ {e.subscription} : Pending(k) => Pending(k)'
  <2>1. ~(e.seq <= newest) => e.seq > newest
    BY <1>2 DEF BillingInv, TypeInv, TypeOK, Event
  <2> QED
    BY <1>2, <1>3, <2>1, AcknowledgeKeepsNews
<1>5. CASE e.type = "completed"
  <2>1. /\ row'.status = "active" /\ row'.customer = checkout[e.subscription]
        /\ row'.subscription = e.subscription /\ Outdates(r)
    BY <1>1, <1>5
  <2>2. e.status = "active" /\ checkout[e.subscription] # 0 /\ bought[e.subscription] # "none"
    BY <1>2, <1>5 DEF Sound
  <2>3. EventsSound'
    <3>1. \A q \in Requests : \A f \in event'[q] : f.seq <= newest' \/ f \in events'
      BY <1>2, <1>4 DEF BillingInv, EventsSound, TypeInv, TypeOK, Event
    <3> QED
      BY <1>2, <1>3, <1>4, <2>1, <2>2, <3>1 DEF BillingInv, EventsSound, Sound, TypeInv, TypeOK
  <2>4. ReadsHold'
    BY <1>2, <2>1 DEF BillingInv, ReadsHold, TypeInv, TypeOK, Outdates
  <2>5. NewsArrive'
    BY <1>3, <1>4, <2>1, <2>2 DEF NewsArrive
  <2>6. CustomerPaysSubscription'
    BY <1>3, <2>1 DEF CustomerPaysSubscription
  <2> QED
    BY <2>3, <2>4, <2>5, <2>6 DEF BillingInv
<1>6. CASE e.type # "completed"
  <2>1. /\ row'.status = e.status /\ row'.customer = row.customer
        /\ row'.subscription = row.subscription /\ late' = late \ {r} /\ mixed' = mixed
    BY <1>1, <1>2, <1>6 DEF Subscription
  <2>2. r \notin late => row.subscription = e.subscription
    BY <1>2, <1>6 DEF BillingInv, ReadsHold
  <2>3. EventsSound'
    <3>1. \A q \in Requests : \A f \in event'[q] : f.seq <= newest' \/ f \in events'
      BY <1>2, <1>4 DEF BillingInv, EventsSound, TypeInv, TypeOK, Event
    <3> QED
      BY <1>2, <1>3, <1>4, <2>1, <3>1 DEF BillingInv, EventsSound, Sound, TypeInv, TypeOK
  <2>4. ReadsHold'
    BY <1>2, <2>1 DEF BillingInv, ReadsHold, TypeInv, TypeOK
  <2>5. NewsArrive'
    BY <1>3, <1>4, <2>1, <2>2 DEF NewsArrive
  <2>6. CustomerPaysSubscription'
    BY <1>2, <1>3, <2>1 DEF BillingInv, CustomerPaysSubscription
  <2> QED
    BY <2>3, <2>4, <2>5, <2>6 DEF BillingInv
<1> QED
  BY <1>5, <1>6

(* The invariant holds in every state. *)
LEMMA BillingInvHolds == Spec => []BillingInv
<1>1. Init => BillingInv
  BY InitTyped DEF Init, BillingInv, EventsSound, ReadsHold, NewsArrive, CustomerPaysSubscription
<1>2. BillingInv /\ [Next]_vars => BillingInv'
  <2> SUFFICES ASSUME BillingInv, [Next]_vars
               PROVE  BillingInv'
    OBVIOUS
  <2>1. TypeInv'
    BY StepTyped DEF BillingInv
  <2>2. ASSUME NEW r \in Requests, Subscribe(r) \/ Checkout(r) \/ Webhook(r) \/ Abort(r)
        PROVE  BillingInv'
    BY <2>1, <2>2, LocalStepsKeep, StoreCustomerKeeps, StartCheckoutKeeps, ReadEventKeeps,
       WriteEventKeeps DEF Checkout, Webhook
  <2> QED
    BY <2>1, <2>2, StripeKeeps, CallsKeep DEF Next
<1> QED
  BY <1>1, <1>2, PTL DEF Spec

(* When Stripe has nothing left to deliver, the status is that of the
   subscription the row names, unless events were handled out of order. *)
THEOREM StatusFollows == Spec => []StatusFollowsStripe
<1>1. BillingInv => StatusFollowsStripe
  BY DEF BillingInv, NewsArrive, Pending, StatusFollowsStripe
<1> QED
  BY <1>1, BillingInvHolds, PTL

(* The customer whose portal is opened pays for the subscription, unless
   checkouts overlapped. *)
THEOREM CustomerPays == Spec => []CustomerPaysSubscription
  BY BillingInvHolds, PTL DEF BillingInv
===============================================================================
