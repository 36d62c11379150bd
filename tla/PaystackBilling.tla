--------------------------- MODULE PaystackBilling ---------------------------
(***************************************************************************)
(* Recurring subscriptions of the external provider.  The provider takes   *)
(* the payments, runs one subscription for each checkout that was paid and *)
(* tells of both in events, which arrive late, repeatedly and in any       *)
(* order; processing an event reads the provider's record again, except    *)
(* for the terms of an invoice, which the event itself carries.            *)
(***************************************************************************)
EXTENDS Billing

VARIABLES
  payment,          \* [Refs -> [status, at]]: what the provider says of a transaction
  remote,           \* [Checkouts -> status]: what it says of a subscription
  linked            \* [Checkouts -> [status, to]]: the ProviderSubscription rows

providerVars == <<payment, remote>>
paystackVars == <<payment, remote, linked>>

Running == {"active", "attention"}
Ended == {"cancelled", "complete", "completed"}
Ending == Ended \cup {"non-renewing"}

PaystackInit ==
  /\ payment = [r \in Refs |-> [status |-> "PENDING", at |-> 0]]
  /\ remote = [k \in Checkouts |-> "none"]
  /\ linked = [k \in Checkouts |-> [status |-> "none", to |-> Nobody]]

-----------------------------------------------------------------------------
(* The provider *)

\* an invoice is due when the month before it is over
Due(r) == payment[Ref(r[1])].at + r[2] * Period
InvoiceEnd(r) == Due(r) + Period

Pay(k) ==
  /\ checkout[Ref(k)].status # "ABSENT" /\ payment[Ref(k)].status = "PENDING"
  /\ payment' = [payment EXCEPT ![Ref(k)] = [status |-> "SUCCEEDED", at |-> now]]
  /\ remote' = [remote EXCEPT ![k] = "active"]
  /\ Store({Notice("charge", Ref(k)), Notice("status", Ref(k))})
  /\ UNCHANGED <<tenantVars, checkout, linked>>

\* a renewal fails, and may be paid on a later try
Renew(r) ==
  /\ r[2] # 0 /\ remote[r[1]] \in Running /\ payment[r].status = "PENDING"
  /\ Due(r) <= now /\ now < InvoiceEnd(r)
  /\ \/ /\ payment' = [payment EXCEPT ![r] = [status |-> "SUCCEEDED", at |-> now]]
        /\ remote' = [remote EXCEPT ![r[1]] = "active"]
        /\ Store({Notice("paid", r)})
     \/ /\ remote' = [remote EXCEPT ![r[1]] = "attention"]
        /\ Store({Notice("unpaid", r)})
        /\ UNCHANGED payment
  /\ UNCHANGED <<tenantVars, checkout, linked>>

\* an invoice is told of again, in another body
Repeat(r) ==
  /\ Notice("paid", r) \in DOMAIN event
  /\ LET again == [Notice("paid", r) EXCEPT !.sequence = 1] IN
     again \notin DOMAIN event /\ Store({again})
  /\ UNCHANGED <<tenantVars, checkout, paystackVars>>

\* a refund is in the record of the transaction, a dispute is not
TakeBack(r, kind) ==
  /\ kind \in {"refund", "dispute"} /\ payment[r].status = "SUCCEEDED"
  /\ Notice(kind, r) \notin DOMAIN event
  /\ payment' = [payment EXCEPT ![r].status = IF kind = "refund" THEN "REFUNDED" ELSE @]
  /\ Store({Notice(kind, r)})
  /\ UNCHANGED <<tenantVars, checkout, remote, linked>>

\* a status event has a body of its own for each status
Retire(k, status) ==
  /\ remote' = [remote EXCEPT ![k] = status]
  /\ Store({[Notice("status", Ref(k)) EXCEPT !.sequence = IF status \in Ended THEN 2 ELSE 1]})

EndRemote(k) ==
  /\ \/ remote[k] \in Running /\ Retire(k, "non-renewing")
     \/ remote[k] \in Running \cup {"non-renewing"} /\ Retire(k, "cancelled")
  /\ UNCHANGED <<tenantVars, checkout, payment, linked>>

-----------------------------------------------------------------------------
(* Checkout and cancellation *)

NoPending == \A r \in Refs : checkout[r].status # "PENDING"

\* the provider's subscription has ended, as it is recorded, and so has the time paid for
SubscriptionOver ==
  /\ subscription.provider = "paystack_test" => subscription.remote # Nobody
  /\ subscription.remote # Nobody =>
       linked[subscription.remote].status \in Ended /\ subscription.periodEnds <= now

AllocatePaystack(k, plan) ==
  /\ MayAllocate(k, plan) /\ NoPending /\ SubscriptionOver
  /\ Allocated(k, plan)
  /\ UNCHANGED <<tenantVars, event, paystackVars>>

\* a cancellation that the provider does not confirm is not recorded, and may have happened
CancelPaystack ==
  /\ MayCancel /\ NoPending
  /\ \/ /\ subscription.provider # "paystack_test"
        /\ Canceled /\ UNCHANGED <<event, remote>>
     \/ /\ subscription.provider = "paystack_test" /\ subscription.remote # Nobody
        /\ IF remote[subscription.remote] \in Ending
           THEN Canceled /\ UNCHANGED <<event, remote>>
           ELSE /\ Retire(subscription.remote, "non-renewing")
                /\ Canceled \/ UNCHANGED subscription
  /\ UNCHANGED <<now, organization, user, checkout, payment, linked>>

-----------------------------------------------------------------------------
(* Events *)

Settled(r) == [checkout EXCEPT ![r].status = "SUCCEEDED", ![r].settled = payment[r].at]

TakenBack == {"REFUNDED", "CHARGEBACK", "DISPUTED"}

\* a payment is confirmed for a checkout that the tenant has not cancelled since
InitialPayment(e) ==
  LET c == checkout[e.ref]
      stale == \/ subscription.state = "SUSPENDED"
               \/ subscription.canceledAt # 0 /\ c.created <= subscription.canceledAt
  IN
  \/ /\ c.status \in TakenBack \cup {"SUCCEEDED"}
     /\ EventBecomes(e, "IGNORED") /\ UNCHANGED <<checkout, subscription, linked>>
  \/ /\ c.status \notin TakenBack \cup {"SUCCEEDED"} /\ payment[e.ref].status = "SUCCEEDED"
     /\ stale \/ Fits(c.plan)
     /\ checkout' = Settled(e.ref)
     /\ subscription' =
          IF stale THEN subscription
          ELSE [Entitled(e.ref, c, payment[e.ref].at + Period) EXCEPT
                  !.provider = "paystack_test", !.remote = Nobody, !.lastEvent = payment[e.ref].at]
     /\ EventBecomes(e, "PROCESSED") /\ UNCHANGED linked

CustomerKnown == \E r \in Refs : checkout[r].settled # 0

\* the conditions under which a subscription is taken for that of the checkout that gives access
MayLink(k) ==
  LET r == subscription.entitlement IN
  /\ r # Nobody /\ subscription.provider = "paystack_test" /\ subscription.remote = Nobody
  /\ checkout[r].status = "SUCCEEDED" /\ checkout[r].plan = checkout[Ref(k)].plan
  /\ payment[Ref(k)].at \in checkout[r].created..checkout[r].settled
  /\ \A other \in Checkouts : linked[other].to # r

\* mapped_subscription: the row, whose status is the provider's by now, and the subscription
Mapped(k) ==
  /\ CustomerKnown
  /\ \/ linked[k].to # Nobody /\ linked' = [linked EXCEPT ![k].status = remote[k]]
     \/ /\ linked[k].to = Nobody /\ MayLink(k)
        /\ linked' = [linked EXCEPT ![k] = [status |-> remote[k], to |-> subscription.entitlement]]

Follows(k) == subscription.remote = k \/ linked[k].to = Nobody

SubscriptionStatus(e) ==
  LET k == e.ref[1] IN
  /\ Mapped(k) /\ UNCHANGED checkout
  /\ \/ /\ ~Follows(k) /\ EventBecomes(e, "IGNORED") /\ UNCHANGED subscription
     \/ /\ Follows(k) /\ EventBecomes(e, "PROCESSED")
        /\ subscription' = [subscription EXCEPT
             !.remote = k,
             !.cancelAtEnd = @ \/ remote[k] \in Ending,
             !.canceledAt = IF remote[k] \in Ending /\ @ = 0 THEN now ELSE @]

UnpaidInvoice(e) ==
  LET k == e.ref[1]
      lapsed == /\ subscription.state \in {"ACTIVE", "PAST_DUE"} /\ ~subscription.cancelAtEnd
                /\ Due(e.ref) >= subscription.periodEnds
  IN
  /\ Mapped(k) /\ UNCHANGED checkout
  /\ \/ /\ ~Follows(k) /\ EventBecomes(e, "IGNORED") /\ UNCHANGED subscription
     \/ /\ Follows(k) /\ EventBecomes(e, "PROCESSED")
        /\ subscription' =
             IF lapsed THEN [subscription EXCEPT !.remote = k, !.state = "PAST_DUE",
                                                 !.graceEnds = subscription.periodEnds + Grace]
             ELSE [subscription EXCEPT !.remote = k]

\* the payment of an invoice becomes a checkout; it gives access for the invoice's month
PaidInvoice(e) ==
  LET k == e.ref[1]
      plan == checkout[Ref(k)].plan
      row == IF checkout[e.ref].status = "ABSENT" THEN NoCheckout(plan, now) ELSE checkout[e.ref]
      extends == /\ subscription.state # "SUSPENDED" /\ ~subscription.cancelAtEnd
                 /\ InvoiceEnd(e.ref) > subscription.periodEnds
  IN
  /\ Mapped(k)
  /\ \/ /\ ~Follows(k) \/ checkout[e.ref].status \in TakenBack
        /\ EventBecomes(e, "IGNORED")
        /\ subscription' = IF Follows(k) THEN [subscription EXCEPT !.remote = k] ELSE subscription
        /\ UNCHANGED checkout
     \/ /\ Follows(k) /\ checkout[e.ref].status \notin TakenBack
        /\ payment[e.ref].status = "SUCCEEDED"
        /\ extends => Fits(plan)
        /\ checkout' = [checkout EXCEPT ![e.ref] =
             [row EXCEPT !.status = "SUCCEEDED", !.settled = payment[e.ref].at]]
        /\ subscription' =
             IF extends
             THEN [subscription EXCEPT
                     !.remote = k, !.state = "ACTIVE", !.periodEnds = InvoiceEnd(e.ref),
                     !.entitlement = e.ref, !.lastEvent = payment[e.ref].at, !.graceEnds = 0]
             ELSE [subscription EXCEPT !.remote = k]
        /\ EventBecomes(e, "PROCESSED")

\* access ends when the payment that gives it is taken back; an operator has to review it
Reversal(e) ==
  /\ checkout[e.ref].status # "ABSENT" /\ CustomerKnown
  /\ checkout' = [checkout EXCEPT
       ![e.ref].status = IF e.kind = "refund" THEN "REFUNDED" ELSE "DISPUTED"]
  /\ subscription' = [subscription EXCEPT
       !.state = IF subscription.entitlement = e.ref THEN "SUSPENDED" ELSE @]
  /\ EventBecomes(e, "PROCESSED") /\ UNCHANGED linked

\* process, and an exception: the provider cannot be reached, or its records do not match
ProcessPaystackEvent(e) ==
  /\ Open(e)
  /\ \/ /\ \/ e.kind \in {"charge", "reconcile"} /\ InitialPayment(e)
           \/ e.kind = "status" /\ SubscriptionStatus(e)
           \/ e.kind = "paid" /\ PaidInvoice(e)
           \/ e.kind = "unpaid" /\ UnpaidInvoice(e)
           \/ e.kind \in {"refund", "dispute"} /\ Reversal(e)
        /\ UNCHANGED <<now, organization, user, providerVars>>
     \/ RejectEvent(e) /\ UNCHANGED paystackVars
=============================================================================
