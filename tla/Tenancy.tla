------------------------------- MODULE Tenancy -------------------------------
(***************************************************************************)
(* One tenant with its members and its billing, under either provider.     *)
(* The provider is a setting of the deployment; a workload says which, and *)
(* how much of what can happen is exercised in a behaviour.                *)
(***************************************************************************)
EXTENDS PaystackBilling, Membership

CONSTANT
  Workloads         \* [provider, until : the time, plans : of a tenant that has signed up,
                    \*  checkouts, offered : plans, canceling : BOOLEAN, outcomes : of payments,
                    \*  failing : kinds of events, members, purposes, kinds : of requests,
                    \*  site : BOOLEAN, whether the site administration is used]

ASSUME WorkloadsAssumption ==
  \A w \in Workloads : /\ w.provider \in {"local_sandbox", "paystack_test"}
                       /\ w.plans \cup w.offered \subseteq Plans /\ w.checkouts \subseteq Checkouts

VARIABLE workload

vars == <<tenantVars, billingVars, paystackVars, membershipVars, workload>>

Init ==
  /\ workload \in Workloads
  /\ TenantInit(workload.plans)
  /\ BillingInit /\ PaystackInit /\ MembershipInit

\* the administrator's and the operator's part in either way of billing
Requesting ==
  \/ \E k \in workload.checkouts :
       \/ \E plan \in workload.offered :
            \/ workload.provider = "local_sandbox" /\ AllocateCheckout(k, plan)
                 /\ UNCHANGED paystackVars
            \/ workload.provider = "paystack_test" /\ AllocatePaystack(k, plan)
       \/ "reconcile" \in workload.failing /\ Reconcile(k) /\ UNCHANGED paystackVars
  \/ /\ workload.canceling
     /\ \/ workload.provider = "local_sandbox" /\ CancelSubscription /\ UNCHANGED paystackVars
        \/ workload.provider = "paystack_test" /\ CancelPaystack

Providing ==
  \/ /\ workload.provider = "local_sandbox"
     /\ \E k \in workload.checkouts, outcome \in workload.outcomes : Simulate(k, outcome)
     /\ UNCHANGED paystackVars
  \/ /\ workload.provider = "paystack_test"
     /\ \/ \E k \in Checkouts : Pay(k) \/ (workload.canceling /\ EndRemote(k))
        \/ \E r \in Refs : ("renewal" \in workload.outcomes /\ Renew(r))
                            \/ ("repeat" \in workload.outcomes /\ Repeat(r))
                            \/ \E kind \in workload.outcomes : TakeBack(r, kind)

Processing ==
  \E e \in DOMAIN event :
    /\ \/ workload.provider = "local_sandbox" /\ ProcessSandboxEvent(e) /\ UNCHANGED paystackVars
       \/ workload.provider = "paystack_test" /\ ProcessPaystackEvent(e)
       \/ RetryEvent(e) /\ UNCHANGED paystackVars
    /\ event'[e].status = "FAILED" => e.kind \in workload.failing

Belonging ==
  /\ MembershipNext
  /\ {t \in DOMAIN ticket : ticket'[t] # ticket[t]} \subseteq workload.members \X workload.purposes
  /\ \A r \in request' \ request : r.user \in workload.members /\ r.kind \in workload.kinds
  /\ edits' # edits => workload.site
  /\ UNCHANGED <<billingVars, paystackVars>>

Next ==
  /\ \/ (Requesting \/ Providing \/ Processing) /\ UNCHANGED membershipVars
     \/ Belonging
     \/ Tick /\ now < workload.until /\ UNCHANGED <<billingVars, paystackVars, membershipVars>>
  /\ UNCHANGED workload

Spec == Init /\ [][Next]_vars

-----------------------------------------------------------------------------
\* What gives access is a payment that was confirmed and is still the tenant's, once every
\* event about it has been handled, in whatever order payments and reversals are told
\* (billing.py:198-237, paystack.py:312-318).
EntitlementIsSettled ==
  LET r == subscription.entitlement
      takenBack == \/ checkout[r].sandbox \in Reversals
                   \/ \E kind \in {"refund", "dispute"} : Notice(kind, r) \in DOMAIN event
  IN
  subscription.state \in {"ACTIVE", "PAST_DUE"} =>
    /\ r # Nobody /\ checkout[r].status = "SUCCEEDED"
    /\ takenBack => \E e \in DOMAIN event : e.ref = r /\ event[e].status \in {"PENDING", "FAILED"}

\* A tenant has access for no longer than was settled, and the days of grace, however often
\* and in whatever order its events are processed (docs/saas/implementation.md:15, 25).  With the
\* external provider that is a period from the one payment that gives access.  In the sandbox it
\* is a period for each checkout of its plan that was ever settled, those reversed since
\* included: a reversal leaves the end of the period, and the next settlement of the plan
\* extends it (billing.py:220-228, 240-245).
AccessIsBounded ==
  LET settled == {r \in Refs : checkout[r].settled # 0 /\ checkout[r].plan = subscription.plan}
      grace == IF subscription.state = "PAST_DUE" THEN Grace ELSE 0
  IN
  subscription.state \in {"ACTIVE", "PAST_DUE"} /\ Writable =>
    IF workload.provider = "paystack_test"
    THEN now < checkout[subscription.entitlement].settled + Period + grace
    ELSE \E r \in settled : now < checkout[r].settled + Period * Cardinality(settled) + grace

\* Only the site administration takes the last active administrator from a tenant: whatever two
\* administrators do to each other at once, one stays (admin_api.py:251-264).
LastAdminStays == Admins # {} /\ UNCHANGED edits => Admins' # {}
AdminRetained == [][LastAdminStays]_vars

\* A tenant comes to have more active users than its plan allows by the site administration
\* alone, although seats are taken by invitations, by its administrators and by settling a
\* smaller plan; and when it has more, none of these adds to them (entitlements.py:83-92,
\* billing.py:31-38).
OverLimit ==
  subscription.plan # ManagedPlan /\ Cardinality(Active) > SeatLimit[subscription.plan]
SeatsAreCounted ==
  OverLimit' /\ UNCHANGED edits =>
    OverLimit /\ Active' \subseteq Active /\ UNCHANGED subscription.plan
SeatsWithinLimit == [][SeatsAreCounted]_vars
=============================================================================
