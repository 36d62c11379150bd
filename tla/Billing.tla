------------------------------- MODULE Billing -------------------------------
(***************************************************************************)
(* Checkouts, cancellation and the events of the local sandbox provider.   *)
(* An event says only that something happened to a checkout: processing it *)
(* reads what the provider says by then.  Events are stored once, and are  *)
(* processed in any order and again after a failure, while users come and  *)
(* go and the subscription runs.                                           *)
(***************************************************************************)
EXTENDS Tenants, FiniteSetsExt, Functions, TLC

CONSTANTS
  Checkouts,        \* request keys
  Invoices,         \* renewals of the subscription that a checkout starts: 1..n, or none
  Period, Grace,
  MaxAttempts,      \* of processing an event (8 in the code)
  MaxSequence       \* bound on what happens to one sandbox payment

VARIABLES
  checkout,         \* [Refs -> [status, plan, created, settled, sandbox, sandboxAt, sequence]]
  event             \* [stored event -> [status, attempts]]: partial

billingVars == <<checkout, event>>

\* a checkout row is known by its provider_reference; invoice 0 is the checkout itself
Refs == Checkouts \X (Invoices \cup {0})
Ref(k) == <<k, 0>>

ASSUME BillingBounds ==
  /\ Period \in Nat /\ Grace \in Nat /\ Invoices \subseteq Nat \ {0}
  /\ Nobody \notin Refs

NoCheckout(plan, created) ==
  [status |-> "PENDING", plan |-> plan, created |-> created, settled |-> 0,
   sandbox |-> "PENDING", sandboxAt |-> 0, sequence |-> 0]

BillingInit ==
  /\ checkout = [r \in Refs |-> [NoCheckout(ManagedPlan, 0) EXCEPT !.status = "ABSENT"]]
  /\ event = <<>>

\* what an event tells, and of which of several of its kind
Notice(kind, ref) == [kind |-> kind, ref |-> ref, sequence |-> 0]

\* receive_webhook: the digest of the body identifies an event
Store(ids) ==
  event' = [e \in DOMAIN event \cup ids |->
              IF e \in DOMAIN event THEN event[e] ELSE [status |-> "PENDING", attempts |-> 0]]

Open(e) == /\ event[e].status \in {"PENDING", "FAILED"}
           /\ event[e].attempts < MaxAttempts

EventBecomes(e, status) ==
  event' = [event EXCEPT ![e] = [status |-> status, attempts |-> @.attempts + 1]]

\* an exception while an event is processed: everything but the event is rolled back
RejectEvent(e) == EventBecomes(e, "FAILED") /\ UNCHANGED <<tenantVars, checkout>>

-----------------------------------------------------------------------------
(* Checkout and cancellation by the administrator *)

\* _allocate_checkout; asking again with the same key returns the checkout.  Who asks is an
\* administrator of an active tenant when the request arrives; under the lock it is not asked
\* again, here or in cancel and simulate.
MayAllocate(k, plan) ==
  /\ subscription.state \notin {"none", "SUSPENDED"}
  /\ checkout[Ref(k)].status = "ABSENT"
  /\ Fits(plan)

Allocated(k, plan) == checkout' = [checkout EXCEPT ![Ref(k)] = NoCheckout(plan, now)]

AllocateCheckout(k, plan) ==
  /\ MayAllocate(k, plan)
  /\ Allocated(k, plan)
  /\ UNCHANGED <<tenantVars, event>>

MayCancel == subscription.state # "none"

\* paid access goes on to the end of its period, a trial ends
Canceled ==
  subscription' = [subscription EXCEPT
    !.cancelAtEnd = TRUE, !.canceledAt = now,
    !.state = IF @ = "TRIAL" THEN "CANCELED" ELSE @]

CancelSubscription ==
  /\ MayCancel /\ Canceled
  /\ UNCHANGED <<now, organization, user, billingVars>>

-----------------------------------------------------------------------------
(* The sandbox provider *)

Outcomes == {"SUCCEEDED", "FAILED", "REFUNDED", "CHARGEBACK"}
Reversals == {"REFUNDED", "CHARGEBACK"}

\* simulate: the outcome and its event commit together, and the event is processed after
Simulate(k, outcome) ==
  LET c == checkout[Ref(k)] IN
  /\ outcome \in Outcomes
  /\ c.status # "ABSENT" /\ c.sequence < MaxSequence
  /\ checkout' = [checkout EXCEPT ![Ref(k)] =
       [c EXCEPT !.sandbox = outcome, !.sandboxAt = now, !.sequence = @ + 1]]
  /\ Store({[kind |-> "sandbox", ref |-> Ref(k), sequence |-> c.sequence + 1]})
  /\ UNCHANGED tenantVars

\* a plausible bug: a reversal told late is passed over like anything else that is old
OutdatedInOrder(c) ==
  \/ c.status \in Reversals
  \/ c.sandboxAt < subscription.lastEvent
  \/ subscription.canceledAt # 0 /\ c.created <= subscription.canceledAt

\* what process_event passes over: a checkout that was reversed, and, for anything but a
\* reversal, what is older than the last event or than a cancellation
Outdated(c) ==
  \/ c.status \in Reversals
  \/ /\ c.sandbox \notin Reversals
     /\ \/ c.sandboxAt < subscription.lastEvent
        \/ subscription.canceledAt # 0 /\ c.created <= subscription.canceledAt

\* a renewal of the same plan keeps the time that is left
Entitled(ref, c, until) ==
  [subscription EXCEPT
     !.plan = c.plan, !.state = "ACTIVE", !.entitlement = ref, !.periodEnds = until,
     !.graceEnds = 0, !.cancelAtEnd = FALSE, !.canceledAt = 0]

PaidUntil(c) ==
  Period + (IF subscription.plan = c.plan THEN Max({subscription.periodEnds, c.sandboxAt})
            ELSE c.sandboxAt)

\* a plausible bug: a payment that is settled already counts again
SettleAgain(e, c) ==
  /\ c.sandbox = "SUCCEEDED" /\ ~Outdated(c) /\ Fits(c.plan)
  /\ checkout' = [checkout EXCEPT ![e.ref].status = "SUCCEEDED", ![e.ref].settled = c.sandboxAt]
  /\ subscription' = [Entitled(e.ref, c, PaidUntil(c)) EXCEPT
                        !.lastEvent = c.sandboxAt, !.provider = "local_sandbox"]

SettlePayment(e, c) ==
  /\ c.sandbox = "SUCCEEDED" /\ c.status # "SUCCEEDED" /\ ~Outdated(c) /\ Fits(c.plan)
  /\ checkout' = [checkout EXCEPT ![e.ref].status = "SUCCEEDED", ![e.ref].settled = c.sandboxAt]
  /\ subscription' = [Entitled(e.ref, c, PaidUntil(c)) EXCEPT
                        !.lastEvent = c.sandboxAt, !.provider = "local_sandbox"]

\* access is suspended when the reversed checkout is the one that gives it
ReversePayment(e, c) ==
  /\ c.sandbox \in Reversals /\ ~Outdated(c)
  /\ checkout' = [checkout EXCEPT ![e.ref].status = c.sandbox]
  /\ subscription' = IF subscription.entitlement = e.ref
                     THEN [subscription EXCEPT !.state = "SUSPENDED", !.lastEvent = c.sandboxAt]
                     ELSE subscription

FailPayment(e, c) ==
  /\ c.sandbox = "FAILED" /\ c.status # "SUCCEEDED" /\ ~Outdated(c)
  /\ checkout' = [checkout EXCEPT ![e.ref].status = "FAILED"]
  /\ subscription' =
       IF subscription.state \in {"ACTIVE", "PAST_DUE"} /\ subscription.periodEnds # 0
       THEN [subscription EXCEPT !.state = "PAST_DUE", !.lastEvent = c.sandboxAt,
                                 !.graceEnds = subscription.periodEnds + Grace]
       ELSE [subscription EXCEPT !.lastEvent = c.sandboxAt]

\* process_event
ProcessSandboxEvent(e) ==
  LET c == checkout[e.ref] IN
  /\ Open(e)
  /\ \/ /\ SettlePayment(e, c) \/ ReversePayment(e, c) \/ FailPayment(e, c)
        /\ EventBecomes(e, "PROCESSED")
        /\ UNCHANGED <<now, organization, user>>
     \/ /\ c.sandbox # "PENDING"
        /\ Outdated(c) \/ (c.sandbox \in {"SUCCEEDED", "FAILED"} /\ c.status = "SUCCEEDED")
        /\ EventBecomes(e, "IGNORED")
        /\ UNCHANGED <<tenantVars, checkout>>
     \/ /\ \/ c.sandbox = "PENDING"
           \/ c.sandbox = "SUCCEEDED" /\ c.status # "SUCCEEDED" /\ ~Outdated(c) /\ ~Fits(c.plan)
        /\ RejectEvent(e)

\* reconcile_checkout: an operator has a checkout looked up at the provider
Reconcile(k) ==
  /\ checkout[Ref(k)].status # "ABSENT"
  /\ Notice("reconcile", Ref(k)) \notin DOMAIN event
  /\ Store({Notice("reconcile", Ref(k))})
  /\ UNCHANGED <<tenantVars, checkout>>

\* both commands: an operator lets a failed event start over
RetryEvent(e) ==
  /\ event[e].status = "FAILED"
  /\ event' = [event EXCEPT ![e] = [status |-> "PENDING", attempts |-> 0]]
  /\ UNCHANGED <<tenantVars, checkout>>

=============================================================================
