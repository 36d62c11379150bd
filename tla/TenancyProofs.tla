---------------------------- MODULE TenancyProofs ----------------------------
(***************************************************************************)
(* Proofs about Tenancy, for any set of users, plans and checkouts, either *)
(* provider, any number of requests that wait and any number of edits by   *)
(* the site administration: but for these edits a tenant keeps an          *)
(* administrator and takes no seat beyond its plan; what gives access was  *)
(* settled, and access ends when what was settled is over.                 *)
(***************************************************************************)
EXTENDS Tenancy, FiniteSetTheorems, TLAPS

-----------------------------------------------------------------------------
(* The inductive invariant *)

AllPlans == Plans \cup {ManagedPlan}
HasPlan(row) == "plan" \in DOMAIN row /\ row.plan \in AllPlans
SubscriptionKnown(s) ==
  HasPlan(s) /\ {"remote", "state"} \subseteq DOMAIN s /\ s.remote \in Checkouts \cup {Nobody}

\* Every plan that a subscription or a checkout names has a limit, or is the managed one.
PlansKnown ==
  /\ SubscriptionKnown(subscription)
  /\ DOMAIN checkout = Refs /\ \A r \in Refs : HasPlan(checkout[r])
  /\ \A e \in DOMAIN event : e.ref \in Refs

MemberRows == [status : {"none", "active", "inactive"}, role : Roles]

MembersTyped ==
  /\ user \in [Users -> MemberRows]
  /\ DOMAIN ticket = Users \X Purposes
  /\ \A t \in Users \X Purposes :
       /\ {"status", "role", "activates"} \subseteq DOMAIN ticket[t]
       /\ ticket[t].role \in Roles
  /\ \A r \in request : r.user \in Users /\ r.role \in Roles /\ r.active \in BOOLEAN

\* Before a tenant has a subscription nobody has paid for it.
Subscribed == subscription.state # "none"
NotBilled ==
  /\ subscription.plan = ManagedPlan
  /\ DOMAIN event = {}
  /\ \A r \in Refs : checkout[r].status = "ABSENT"
  /\ remote = [k \in Checkouts |-> "none"]
  /\ payment = [r \in Refs |-> [status |-> "PENDING", at |-> 0]]
Unbilled == Subscribed \/ NotBilled

\* The ticket of a provision belongs to one person, and is good only as long as there is no
\* subscription.  Who brought the subscription about keeps the account: a ticket refers to it.
NoMembers == \A u \in Users : user[u].status = "none"
Activating(u) == ticket[<<u, "INVITE">>].activates
Used(t) == ticket[t].status = "consumed" /\ t[2] # "RESET" /\ user[t[1]].status # "none"
Beginnings ==
  /\ organization = "none" => NoMembers /\ ~Subscribed /\ \A u \in Users : ~Activating(u)
  /\ \A u, v \in Users : Activating(u) /\ Activating(v) => u = v
  /\ Subscribed =>
       /\ \E t \in Users \X Purposes : Used(t)
       /\ \A u \in Users : Activating(u) => ticket[<<u, "INVITE">>].status # "open"

TenancyInv == PlansKnown /\ MembersTyped /\ Unbilled /\ Beginnings

\* What every step but those of the site administration does.
Keeps == (Admins # {} => Admins' # {}) /\ (OverLimit' => OverLimit /\ Active' \subseteq Active
                                                       /\ UNCHANGED subscription.plan)

-----------------------------------------------------------------------------
(* Billing *)

\* What billing may do to a tenant: its subscription stays, and its plan changes only to one
\* that the members fit.
BillsMembers ==
  /\ Subscribed /\ Subscribed'
  /\ PlansKnown'
  /\ subscription'.plan = subscription.plan \/ Fits(subscription'.plan)

LEMMA StoreKnown ==
  ASSUME PlansKnown, NEW ids, \A e \in ids : e.ref \in Refs, Store(ids)
  PROVE  \A e \in DOMAIN event' : e.ref \in Refs
<1>1. DOMAIN event' = DOMAIN event \cup ids
  BY DEF Store
<1> QED
  BY <1>1 DEF PlansKnown

LEMMA RefsOfCheckouts == \A k \in Checkouts : Ref(k) \in Refs
  BY DEF Ref, Refs

LEMMA AllocateBills ==
  ASSUME PlansKnown, NEW k \in Checkouts, NEW plan \in Plans,
         AllocateCheckout(k, plan) \/ AllocatePaystack(k, plan)
  PROVE  BillsMembers /\ UNCHANGED <<organization, user>>
<1>1. MayAllocate(k, plan) /\ Allocated(k, plan) /\ UNCHANGED <<tenantVars, event>>
  BY DEF AllocateCheckout, AllocatePaystack
<1>2. Subscribed
  BY <1>1 DEF MayAllocate, Subscribed
<1>3. HasPlan(NoCheckout(plan, now))
  BY DEF HasPlan, NoCheckout, AllPlans
<1>4. DOMAIN checkout' = Refs /\ \A r \in Refs : HasPlan(checkout'[r])
  BY <1>1, <1>3 DEF Allocated, PlansKnown
<1> QED
  BY <1>1, <1>2, <1>4 DEF PlansKnown, BillsMembers, SubscriptionKnown, HasPlan, Subscribed, tenantVars

LEMMA CancelBills ==
  ASSUME PlansKnown, CancelSubscription \/ CancelPaystack
  PROVE  BillsMembers /\ UNCHANGED <<organization, user>>
<1>1. /\ MayCancel
      /\ Canceled \/ UNCHANGED subscription
      /\ UNCHANGED <<organization, user, checkout>>
  BY DEF CancelSubscription, CancelPaystack, billingVars
<1>2. Subscribed
  BY <1>1 DEF MayCancel, Subscribed
<1>3. /\ SubscriptionKnown(subscription') /\ subscription'.plan = subscription.plan
      /\ Subscribed'
  BY <1>1, <1>2 DEF Canceled, PlansKnown, SubscriptionKnown, HasPlan, Subscribed
<1>4. \A e \in DOMAIN event' : e.ref \in Refs
  <2>1. CASE UNCHANGED event
    BY <2>1 DEF PlansKnown
  <2>2. CASE subscription.remote # Nobody /\ Retire(subscription.remote, "non-renewing")
    <3>1. subscription.remote \in Checkouts
      BY <2>2 DEF PlansKnown, SubscriptionKnown
    <3>2. PICK n : Store({[Notice("status", Ref(subscription.remote)) EXCEPT !.sequence = n]})
      BY <2>2 DEF Retire
    <3> QED
      BY <3>1, <3>2, StoreKnown, RefsOfCheckouts DEF Notice
  <2> QED
    BY <2>1, <2>2 DEF CancelSubscription, CancelPaystack, billingVars
<1> QED
  BY <1>1, <1>2, <1>3, <1>4 DEF PlansKnown, BillsMembers

LEMMA SandboxBills ==
  ASSUME PlansKnown, Unbilled, NEW k \in Checkouts, NEW outcome,
         Simulate(k, outcome) \/ Reconcile(k)
  PROVE  BillsMembers /\ UNCHANGED <<organization, user>>
<1>1. Ref(k) \in Refs
  BY RefsOfCheckouts
<1>2. Subscribed /\ UNCHANGED <<organization, user, subscription>>
  BY <1>1 DEF Simulate, Reconcile, Unbilled, Subscribed, NotBilled, tenantVars
<1>3. DOMAIN checkout' = Refs /\ \A r \in Refs : HasPlan(checkout'[r])
  BY <1>1 DEF Simulate, Reconcile, PlansKnown, HasPlan
<1>4. PICK kind, n : Store({[kind |-> kind, ref |-> Ref(k), sequence |-> n]})
  BY DEF Simulate, Reconcile, Notice
<1>5. \A e \in DOMAIN event' : e.ref \in Refs
  BY <1>1, <1>4, StoreKnown
<1> QED
  BY <1>2, <1>3, <1>5 DEF PlansKnown, BillsMembers, SubscriptionKnown, HasPlan, Subscribed

\* what the provider does, and tells
LEMMA ProviderBills ==
  ASSUME PlansKnown, Unbilled,
         \/ \E k \in Checkouts : Pay(k) \/ EndRemote(k)
         \/ \E r \in Refs : Renew(r) \/ Repeat(r) \/ \E kind \in {"refund", "dispute"} : TakeBack(r, kind)
  PROVE  BillsMembers /\ UNCHANGED <<organization, user>>
<1>1. ASSUME NEW ids, \A e \in ids : e.ref \in Refs, Store(ids),
             UNCHANGED <<tenantVars, checkout>>, Subscribed
      PROVE  BillsMembers /\ UNCHANGED <<organization, user>>
  BY <1>1, StoreKnown DEF PlansKnown, BillsMembers, SubscriptionKnown, HasPlan, Subscribed, tenantVars
<1>2. ASSUME NEW k \in Checkouts, Pay(k) PROVE BillsMembers /\ UNCHANGED <<organization, user>>
  <2>1. Subscribed
    BY <1>2, RefsOfCheckouts DEF Pay, Unbilled, Subscribed, NotBilled
  <2>2. \A e \in {Notice("charge", Ref(k)), Notice("status", Ref(k))} : e.ref \in Refs
    BY RefsOfCheckouts DEF Notice
  <2> QED
    BY <1>1, <1>2, <2>1, <2>2 DEF Pay
<1>3. ASSUME NEW k \in Checkouts, EndRemote(k) PROVE BillsMembers /\ UNCHANGED <<organization, user>>
  <2>1. Subscribed
    BY <1>3 DEF EndRemote, Unbilled, Subscribed, NotBilled, Running
  <2>2. PICK n : Store({[Notice("status", Ref(k)) EXCEPT !.sequence = n]})
    BY <1>3 DEF EndRemote, Retire
  <2>3. \A e \in {[Notice("status", Ref(k)) EXCEPT !.sequence = n]} : e.ref \in Refs
    BY RefsOfCheckouts DEF Notice
  <2> QED
    BY <1>1, <1>3, <2>1, <2>2, <2>3 DEF EndRemote
<1>4. ASSUME NEW r \in Refs, Renew(r) \/ Repeat(r)
      PROVE  BillsMembers /\ UNCHANGED <<organization, user>>
  <2>1. Subscribed
    <3>1. r[1] \in Checkouts
      BY DEF Refs
    <3>2. CASE Renew(r)
      BY <3>1, <3>2 DEF Renew, Unbilled, Subscribed, NotBilled, Running
    <3>3. CASE Repeat(r)
      BY <3>3 DEF Repeat, Unbilled, Subscribed, NotBilled
    <3> QED
      BY <1>4, <3>2, <3>3
  <2>2. PICK told : told.ref = r /\ Store({told})
    <3>1. /\ Notice("paid", r).ref = r /\ Notice("unpaid", r).ref = r
          /\ [Notice("paid", r) EXCEPT !.sequence = 1].ref = r
      BY DEF Notice
    <3> QED
      BY <1>4, <3>1 DEF Renew, Repeat
  <2>3. \A e \in {told} : e.ref \in Refs
    BY <2>2
  <2> QED
    BY <1>1, <1>4, <2>1, <2>2, <2>3 DEF Renew, Repeat
<1>5. ASSUME NEW r \in Refs, NEW kind \in {"refund", "dispute"}, TakeBack(r, kind)
      PROVE  BillsMembers /\ UNCHANGED <<organization, user>>
  <2>1. Subscribed
    BY <1>5 DEF TakeBack, Unbilled, Subscribed, NotBilled
  <2>2. \A e \in {Notice(kind, r)} : e.ref \in Refs
    BY DEF Notice
  <2> QED
    BY <1>1, <1>5, <2>1, <2>2 DEF TakeBack
<1> QED
  BY <1>2, <1>3, <1>4, <1>5

\* Handling an event: it stays one, and the tenant it is for has members.
LEMMA HandledKnown ==
  ASSUME PlansKnown, Unbilled, NEW e \in DOMAIN event, NEW status,
         EventBecomes(e, status) \/ RetryEvent(e)
  PROVE  /\ Subscribed
         /\ \A x \in DOMAIN event' : x.ref \in Refs
  BY DEF PlansKnown, Unbilled, Subscribed, NotBilled, EventBecomes, RetryEvent

\* What settling leaves: the plan of a checkout that the members fit, or the plan as it was.
LEMMA EntitledKnown ==
  ASSUME PlansKnown, NEW ref \in Refs, NEW until
  PROVE  LET s == Entitled(ref, checkout[ref], until) IN
         SubscriptionKnown(s) /\ s.plan = checkout[ref].plan /\ s.state = "ACTIVE"
  BY DEF PlansKnown, SubscriptionKnown, HasPlan, Entitled

LEMMA SandboxEventBills ==
  ASSUME PlansKnown, Unbilled, NEW e \in DOMAIN event, ProcessSandboxEvent(e)
  PROVE  BillsMembers /\ UNCHANGED <<organization, user>>
<1> DEFINE c == checkout[e.ref]
<1>1. e.ref \in Refs /\ HasPlan(c)
  BY DEF PlansKnown
<1>2. PICK status : EventBecomes(e, status)
  BY DEF ProcessSandboxEvent, RejectEvent
<1>3. Subscribed /\ \A x \in DOMAIN event' : x.ref \in Refs
  BY <1>2, HandledKnown
<1>4. UNCHANGED <<organization, user>>
  BY DEF ProcessSandboxEvent, RejectEvent, tenantVars
<1>5. ASSUME SettlePayment(e, c)
      PROVE  /\ DOMAIN checkout' = Refs /\ \A r \in Refs : HasPlan(checkout'[r])
             /\ SubscriptionKnown(subscription') /\ Subscribed'
             /\ Fits(subscription'.plan)
  <2>1. DOMAIN checkout' = Refs /\ \A r \in Refs : HasPlan(checkout'[r])
    BY <1>1, <1>5 DEF SettlePayment, PlansKnown, HasPlan
  <2> DEFINE s == Entitled(e.ref, c, PaidUntil(c))
  <2>2. SubscriptionKnown(s) /\ s.plan = c.plan /\ s.state = "ACTIVE"
    BY <1>1, EntitledKnown
  <2>3. Fits(c.plan) /\ subscription' = [s EXCEPT !.lastEvent = c.sandboxAt,
                                                  !.provider = "local_sandbox"]
    BY <1>5 DEF SettlePayment
  <2> HIDE DEF s, c
  <2> QED
    BY <2>1, <2>2, <2>3 DEF SubscriptionKnown, HasPlan, Subscribed
<1>6. ASSUME ReversePayment(e, c) \/ FailPayment(e, c)
      PROVE  /\ DOMAIN checkout' = Refs /\ \A r \in Refs : HasPlan(checkout'[r])
             /\ SubscriptionKnown(subscription') /\ Subscribed'
             /\ subscription'.plan = subscription.plan
  <2>1. DOMAIN checkout' = Refs /\ \A r \in Refs : HasPlan(checkout'[r])
    BY <1>1, <1>6 DEF ReversePayment, FailPayment, PlansKnown, HasPlan
  <2> QED
    BY <1>3, <1>6, <2>1 DEF ReversePayment, FailPayment, PlansKnown, SubscriptionKnown, HasPlan,
                           Subscribed
<1>7. CASE UNCHANGED <<checkout, subscription>>
  BY <1>3, <1>4, <1>7 DEF PlansKnown, BillsMembers, SubscriptionKnown, HasPlan, Subscribed
<1> HIDE DEF c
<1>8. SettlePayment(e, c) \/ ReversePayment(e, c) \/ FailPayment(e, c)
        \/ UNCHANGED <<checkout, subscription>>
  BY DEF ProcessSandboxEvent, RejectEvent, tenantVars, c
<1> QED
  BY <1>3, <1>4, <1>5, <1>6, <1>7, <1>8 DEF PlansKnown, BillsMembers

\* the row of an invoice's transaction, which may be new
InvoiceRow(r) ==
  IF checkout[r].status = "ABSENT" THEN NoCheckout(checkout[Ref(r[1])].plan, now) ELSE checkout[r]

\* What a paid invoice may do to the rows.
LEMMA PaidInvoiceDoes ==
  ASSUME NEW e, PaidInvoice(e)
  PROVE  \/ /\ EventBecomes(e, "IGNORED") /\ UNCHANGED checkout
            /\ \/ UNCHANGED subscription
               \/ subscription' = [subscription EXCEPT !.remote = e.ref[1]]
         \/ /\ checkout[e.ref].status \notin TakenBack /\ payment[e.ref].status = "SUCCEEDED"
            /\ EventBecomes(e, "PROCESSED")
            /\ checkout' = [checkout EXCEPT ![e.ref] =
                 [InvoiceRow(e.ref) EXCEPT !.status = "SUCCEEDED", !.settled = payment[e.ref].at]]
            /\ \/ subscription' = [subscription EXCEPT !.remote = e.ref[1]]
               \/ subscription' = [subscription EXCEPT
                    !.remote = e.ref[1], !.state = "ACTIVE", !.periodEnds = InvoiceEnd(e.ref),
                    !.entitlement = e.ref, !.lastEvent = payment[e.ref].at, !.graceEnds = 0]
<1> DEFINE ours == [subscription EXCEPT !.remote = e.ref[1]]
           longer == [subscription EXCEPT
                        !.remote = e.ref[1], !.state = "ACTIVE", !.periodEnds = InvoiceEnd(e.ref),
                        !.entitlement = e.ref, !.lastEvent = payment[e.ref].at, !.graceEnds = 0]
           rows == [checkout EXCEPT ![e.ref] =
                      [InvoiceRow(e.ref) EXCEPT !.status = "SUCCEEDED", !.settled = payment[e.ref].at]]
           extends == /\ subscription.state # "SUSPENDED" /\ ~subscription.cancelAtEnd
                      /\ InvoiceEnd(e.ref) > subscription.periodEnds
<1>1. \/ /\ EventBecomes(e, "IGNORED") /\ UNCHANGED checkout
         /\ subscription' = IF Follows(e.ref[1]) THEN ours ELSE subscription
      \/ /\ checkout[e.ref].status \notin TakenBack /\ payment[e.ref].status = "SUCCEEDED"
         /\ EventBecomes(e, "PROCESSED") /\ checkout' = rows
         /\ subscription' = IF extends THEN longer ELSE ours
  BY Zenon DEF PaidInvoice, InvoiceRow
<1> HIDE DEF ours, longer, rows, extends
<1>2. \/ /\ EventBecomes(e, "IGNORED") /\ UNCHANGED checkout
         /\ UNCHANGED subscription \/ subscription' = ours
      \/ /\ checkout[e.ref].status \notin TakenBack /\ payment[e.ref].status = "SUCCEEDED"
         /\ EventBecomes(e, "PROCESSED") /\ checkout' = rows
         /\ subscription' = ours \/ subscription' = longer
  BY <1>1
<1> QED
  BY <1>2, Zenon DEF ours, longer, rows

LEMMA PaystackEventBills ==
  ASSUME PlansKnown, Unbilled, NEW e \in DOMAIN event, ProcessPaystackEvent(e)
  PROVE  BillsMembers /\ UNCHANGED <<organization, user>>
<1> DEFINE c == checkout[e.ref]
           k == e.ref[1]
<1>1. /\ e.ref \in Refs /\ HasPlan(c) /\ k \in Checkouts /\ Ref(k) \in Refs
      /\ HasPlan(checkout[Ref(k)])
  BY RefsOfCheckouts DEF PlansKnown, Refs
<1>2. PICK status : EventBecomes(e, status)
  BY DEF ProcessPaystackEvent, RejectEvent, InitialPayment, SubscriptionStatus, PaidInvoice,
         UnpaidInvoice, Reversal
<1>3. Subscribed /\ \A x \in DOMAIN event' : x.ref \in Refs
  BY <1>2, HandledKnown
<1>4. UNCHANGED <<organization, user>>
  BY DEF ProcessPaystackEvent, RejectEvent, tenantVars
<1> DEFINE CheckoutsKnown == DOMAIN checkout' = Refs /\ \A r \in Refs : HasPlan(checkout'[r])
           SamePlan == /\ SubscriptionKnown(subscription') /\ Subscribed'
                       /\ subscription'.plan = subscription.plan
           FitPlan == /\ SubscriptionKnown(subscription') /\ Subscribed'
                      /\ Fits(subscription'.plan)
<1>5. UNCHANGED checkout => CheckoutsKnown
  BY DEF PlansKnown
<1>6. UNCHANGED subscription => SamePlan
  BY <1>3 DEF PlansKnown, SubscriptionKnown, HasPlan, Subscribed
<1>7. ASSUME InitialPayment(e) PROVE CheckoutsKnown /\ (SamePlan \/ FitPlan)
  <2>1. checkout' = Settled(e.ref) => CheckoutsKnown
    BY <1>1 DEF Settled, PlansKnown, HasPlan
  <2> DEFINE s == Entitled(e.ref, c, payment[e.ref].at + Period)
  <2>2. SubscriptionKnown(s) /\ s.plan = c.plan /\ s.state = "ACTIVE"
    BY <1>1, EntitledKnown
  <2>3. \/ UNCHANGED subscription
        \/ /\ Fits(c.plan)
           /\ subscription' = [s EXCEPT !.provider = "paystack_test", !.remote = Nobody,
                                        !.lastEvent = payment[e.ref].at]
    BY <1>7 DEF InitialPayment
  <2>4. UNCHANGED checkout \/ checkout' = Settled(e.ref)
    BY <1>7 DEF InitialPayment
  <2> HIDE DEF s, c
  <2>5. SamePlan \/ FitPlan
    BY <1>6, <2>2, <2>3 DEF SubscriptionKnown, HasPlan, Subscribed
  <2> QED
    BY <1>5, <2>1, <2>4, <2>5
<1>8. ASSUME SubscriptionStatus(e) PROVE CheckoutsKnown /\ SamePlan
  BY <1>1, <1>3, <1>5, <1>6, <1>8 DEF SubscriptionStatus, PlansKnown, SubscriptionKnown, HasPlan, Subscribed
<1>9. ASSUME UnpaidInvoice(e) PROVE CheckoutsKnown /\ SamePlan
  BY <1>1, <1>3, <1>5, <1>6, <1>9 DEF UnpaidInvoice, PlansKnown, SubscriptionKnown, HasPlan, Subscribed
<1>10. ASSUME PaidInvoice(e) PROVE CheckoutsKnown /\ SamePlan
  <2>1. HasPlan(InvoiceRow(e.ref))
    BY <1>1 DEF InvoiceRow, NoCheckout, HasPlan
  <2>2. CheckoutsKnown
    <3>1. HasPlan([InvoiceRow(e.ref) EXCEPT
                     !.status = "SUCCEEDED", !.settled = payment[e.ref].at])
      BY <2>1 DEF HasPlan
    <3>2. \/ UNCHANGED checkout
          \/ checkout' = [checkout EXCEPT ![e.ref] =
               [InvoiceRow(e.ref) EXCEPT !.status = "SUCCEEDED", !.settled = payment[e.ref].at]]
      BY <1>10, PaidInvoiceDoes
    <3> QED
      BY <1>1, <1>5, <3>1, <3>2 DEF PlansKnown
  <2>3. SamePlan
    <3>1. \/ UNCHANGED subscription
          \/ subscription' = [subscription EXCEPT !.remote = k]
          \/ subscription' = [subscription EXCEPT
                !.remote = k, !.state = "ACTIVE", !.periodEnds = InvoiceEnd(e.ref),
                !.entitlement = e.ref, !.lastEvent = payment[e.ref].at, !.graceEnds = 0]
      BY <1>10, PaidInvoiceDoes
    <3> QED
      BY <1>1, <1>3, <1>6, <3>1 DEF PlansKnown, SubscriptionKnown, HasPlan, Subscribed
  <2> QED
    BY <2>2, <2>3
<1>11. ASSUME Reversal(e) PROVE CheckoutsKnown /\ SamePlan
  BY <1>1, <1>3, <1>11 DEF Reversal, PlansKnown, SubscriptionKnown, HasPlan, Subscribed
<1>12. CheckoutsKnown /\ (SamePlan \/ FitPlan)
  BY <1>5, <1>6, <1>7, <1>8, <1>9, <1>10, <1>11 DEF ProcessPaystackEvent, RejectEvent, tenantVars
<1> QED
  BY <1>3, <1>4, <1>12 DEF PlansKnown, BillsMembers

-----------------------------------------------------------------------------
(* Seats and administrators *)

LEMMA ActiveIsFinite ==
  /\ IsFiniteSet(Active) /\ Cardinality(Active) \in Nat
  /\ \A S \in SUBSET Active : Cardinality(S) <= Cardinality(Active)
  /\ \A u : Cardinality(Active \cup {u}) <= Cardinality(Active) + 1
             /\ Cardinality(Active \cup {u}) \in Nat
<1>1. IsFiniteSet(Active)
  <2>1. Active \subseteq Users
    BY DEF Active
  <2> QED
    BY <2>1, SeatsAssumption, FS_Subset
<1>2. Cardinality(Active) \in Nat
  BY <1>1, FS_CardinalityType
<1>3. \A S \in SUBSET Active : Cardinality(S) <= Cardinality(Active)
  BY <1>1, FS_Subset
<1>4. ASSUME NEW u
      PROVE  Cardinality(Active \cup {u}) <= Cardinality(Active) + 1
              /\ Cardinality(Active \cup {u}) \in Nat
  <2>1. /\ IsFiniteSet(Active \cup {u})
        /\ \/ Cardinality(Active \cup {u}) = Cardinality(Active)
           \/ Cardinality(Active \cup {u}) = Cardinality(Active) + 1
    BY <1>1, FS_AddElement
  <2> QED
    BY <1>2, <2>1
<1> QED
  BY <1>1, <1>2, <1>3, <1>4

\* What fits a plan is not over its limit.
LEMMA FittingPlan ==
  ASSUME PlansKnown', UNCHANGED user, Fits(subscription'.plan)
  PROVE  ~OverLimit'
<1>1. Active' = Active /\ Cardinality(Active) \in Nat
  BY ActiveIsFinite DEF Active
<1>2. subscription'.plan # ManagedPlan => SeatLimit[subscription'.plan] \in Nat
  BY SeatsAssumption DEF PlansKnown, SubscriptionKnown, HasPlan, AllPlans
<1> QED
  BY <1>1, <1>2 DEF OverLimit, Fits

\* What billing does keeps the members within the plan and the administrator in place.
LEMMA BillsKeepTenancy ==
  ASSUME TenancyInv, BillsMembers, UNCHANGED <<organization, user, membershipVars>>
  PROVE  TenancyInv' /\ Keeps
<1>1. MembersTyped' /\ Unbilled'
  BY DEF TenancyInv, BillsMembers, MembersTyped, Unbilled, membershipVars
<1>2. Beginnings'
  BY DEF TenancyInv, BillsMembers, Beginnings, NoMembers, Activating, Used, membershipVars
<1>3. Active' = Active /\ Admins' = Admins
  BY DEF Active, Admins
<1>4. OverLimit' => OverLimit /\ UNCHANGED subscription.plan
  BY <1>3, FittingPlan DEF BillsMembers, OverLimit
<1> QED
  BY <1>1, <1>2, <1>3, <1>4 DEF TenancyInv, BillsMembers, Keeps

LEMMA JoinAddsMember ==
  ASSUME MembersTyped, NEW u \in Users, NEW role \in Roles, Join(u, role), user[u].status = "none"
  PROVE  /\ user' \in [Users -> MemberRows]
         /\ user'[u].status # "none" /\ \A v \in Users \ {u} : user'[v] = user[v]
         /\ Active' = Active \cup {u} /\ Admins \subseteq Admins'
<1>1. user' \in [Users -> MemberRows]
  BY DEF MembersTyped, MemberRows, Join
<1>2. user'[u] = [status |-> "active", role |-> role] /\ \A w \in Users \ {u} : user'[w] = user[w]
  BY DEF MembersTyped, Join
<1>3. Active' = Active \cup {u}
  BY <1>2 DEF Active
<1>4. Admins \subseteq Admins'
  BY <1>2, <1>3 DEF Admins, Active
<1> QED
  BY <1>1, <1>2, <1>3, <1>4

\* Who counts the members before taking a seat leaves no more than fit.
LEMMA CapacityTakesSeat ==
  ASSUME PlansKnown, HasCapacity, NEW u, Active' \subseteq Active \cup {u}, UNCHANGED subscription
  PROVE  ~OverLimit'
<1> SUFFICES ASSUME subscription.plan # ManagedPlan
             PROVE  ~(Cardinality(Active') > SeatLimit[subscription.plan])
  BY DEF OverLimit
<1>1. SeatLimit[subscription.plan] \in Nat
  BY SeatsAssumption DEF PlansKnown, SubscriptionKnown, HasPlan, AllPlans
<1>2. Cardinality(Active) < SeatLimit[subscription.plan]
  BY DEF HasCapacity
<1>3. IsFiniteSet(Active \cup {u})
  BY ActiveIsFinite, FS_AddElement
<1>4. /\ Cardinality(Active') <= Cardinality(Active \cup {u})
      /\ Cardinality(Active') \in Nat
  BY <1>3, FS_Subset, FS_CardinalityType
<1>5. /\ Cardinality(Active \cup {u}) <= Cardinality(Active) + 1
      /\ Cardinality(Active \cup {u}) \in Nat /\ Cardinality(Active) \in Nat
  BY ActiveIsFinite
<1> QED
  BY <1>1, <1>2, <1>4, <1>5

\* Whoever is active still is all there is of them.
LEMMA NoSeatTaken ==
  ASSUME PlansKnown, Active' \subseteq Active, UNCHANGED subscription
  PROVE  OverLimit' => OverLimit
<1>1. /\ Cardinality(Active') <= Cardinality(Active) /\ Cardinality(Active) \in Nat
      /\ Cardinality(Active') \in Nat
  BY ActiveIsFinite, FS_Subset, FS_CardinalityType
<1>2. subscription.plan # ManagedPlan => SeatLimit[subscription.plan] \in Nat
  BY SeatsAssumption DEF PlansKnown, SubscriptionKnown, HasPlan, AllPlans
<1> QED
  BY <1>1, <1>2 DEF OverLimit

-----------------------------------------------------------------------------
(* Tickets *)

TicketsTyped ==
  /\ DOMAIN ticket = Users \X Purposes
  /\ \A t \in Users \X Purposes :
       {"status", "role", "activates"} \subseteq DOMAIN ticket[t] /\ ticket[t].role \in Roles

\* No ticket begins to activate a tenant, one that does is open only if it was, and what refers
\* to an account stays.
TicketsClose ==
  /\ TicketsTyped'
  /\ \A t \in Users \X Purposes :
       /\ ticket'[t].activates =>
            ticket[t].activates /\ (ticket'[t].status = "open" => ticket[t].status = "open")
       /\ Used(t) => ticket'[t].status = "consumed"

LEMMA TicketsTypedBefore == TenancyInv => TicketsTyped /\ (UNCHANGED ticket => TicketsClose)
  BY DEF TenancyInv, MembersTyped, TicketsTyped, TicketsClose, Used

LEMMA InviteTicket == \A u \in Users : <<u, "INVITE">> \in Users \X Purposes
  BY DEF Purposes

LEMMA IssuedTicket ==
  ASSUME TicketsTyped, NEW u \in Users, NEW purpose \in Purposes, NEW role \in Roles,
         NEW activates \in BOOLEAN, Issued(u, purpose, role, activates)
  PROVE  /\ TicketsTyped'
         /\ ticket'[<<u, purpose>>].activates = activates
         /\ \A t \in Users \X Purposes : t # <<u, purpose>> => ticket'[t] = ticket[t]
<1> DEFINE new == [NoTicket EXCEPT !.status = "open", !.role = role, !.activates = activates,
                                   !.expires = now + TicketLife, !.mail = 0]
<1>1. /\ {"status", "role", "activates"} \subseteq DOMAIN new
      /\ new.role = role /\ new.activates = activates
  BY DEF NoTicket
<1>2. ticket' = [ticket EXCEPT ![<<u, purpose>>] = new] /\ <<u, purpose>> \in Users \X Purposes
  BY DEF Issued
<1> HIDE DEF new
<1> QED
  BY <1>1, <1>2 DEF TicketsTyped

LEMMA IssueCloses ==
  ASSUME TicketsTyped, NEW u \in Users, NEW purpose \in Purposes, NEW role \in Roles,
         Issued(u, purpose, role, FALSE), user[u].status = "none" \/ purpose = "RESET"
  PROVE  TicketsClose
<1>1. /\ TicketsTyped' /\ ~ticket'[<<u, purpose>>].activates
      /\ \A t \in Users \X Purposes : t # <<u, purpose>> => ticket'[t] = ticket[t]
  BY IssuedTicket
<1>2. ~Used(<<u, purpose>>)
  BY DEF Used
<1> QED
  BY <1>1, <1>2 DEF TicketsClose, Used

\* One ticket is used, revoked, delivered or made stale.
LEMMA EditCloses ==
  ASSUME TicketsTyped, NEW t \in Users \X Purposes,
         \/ ticket' = Consumed(t)
         \/ ticket[t].status = "open" /\ ticket' = [ticket EXCEPT ![t].status = "revoked"]
         \/ ticket' = [ticket EXCEPT ![t].stale = TRUE]
         \/ \E mail : ticket' = [ticket EXCEPT ![t].held = TRUE, ![t].mail = mail]
         \/ \E mail : ticket' = [ticket EXCEPT ![t].mail = mail]
  PROVE  TicketsClose
<1>1. /\ DOMAIN ticket' = Users \X Purposes
      /\ \A x \in Users \X Purposes \ {t} : ticket'[x] = ticket[x]
  BY DEF TicketsTyped, Consumed
<1>2. /\ {"status", "role", "activates"} \subseteq DOMAIN ticket'[t]
      /\ ticket'[t].role = ticket[t].role /\ ticket'[t].activates = ticket[t].activates
      /\ \/ ticket'[t].status \in {ticket[t].status, "consumed"}
         \/ ticket[t].status = "open" /\ ticket'[t].status = "revoked"
  BY DEF TicketsTyped, Consumed
<1> QED
  BY <1>1, <1>2 DEF TicketsTyped, TicketsClose, Used

-----------------------------------------------------------------------------
(* Steps of the members *)

MembersFrame == UNCHANGED <<billingVars, paystackVars>>

RequestsTyped == \A r \in request : r.user \in Users /\ r.role \in Roles /\ r.active \in BOOLEAN

\* Nobody who is referred to goes, and the subscription stays.
LEMMA MemberStep ==
  ASSUME TenancyInv, MembersFrame, UNCHANGED subscription, TicketsClose,
         user' \in [Users -> MemberRows], RequestsTyped',
         \A t \in Users \X Purposes : Used(t) => user'[t[1]].status # "none",
         organization' = "none" => organization = "none" /\ NoMembers'
  PROVE  TenancyInv'
<1>1. PlansKnown' /\ Unbilled' /\ (Subscribed' <=> Subscribed)
  BY DEF TenancyInv, PlansKnown, Unbilled, Subscribed, NotBilled, SubscriptionKnown, HasPlan,
         MembersFrame, billingVars, paystackVars
<1>2. MembersTyped'
  BY DEF MembersTyped, RequestsTyped, TicketsClose, TicketsTyped
<1>3. \A u \in Users : ticket'[<<u, "INVITE">>].activates =>
        /\ Activating(u)
        /\ ticket'[<<u, "INVITE">>].status = "open" => ticket[<<u, "INVITE">>].status = "open"
  BY InviteTicket DEF TicketsClose, Activating
<1>4. ASSUME NEW t \in Users \X Purposes, Used(t) PROVE Used(t)'
  <2>1. ticket'[t].status = "consumed" /\ t[2] # "RESET" /\ user'[t[1]].status # "none"
    BY <1>4 DEF TicketsClose, Used
  <2> QED
    BY <2>1 DEF Used
<1>5. Beginnings'
  BY <1>1, <1>3, <1>4 DEF TenancyInv, Beginnings, Activating
<1> QED
  BY <1>1, <1>2, <1>5 DEF TenancyInv

\* Nobody comes or goes: the tickets and the waiting requests are all that changes.
LEMMA TicketStep ==
  ASSUME TenancyInv, MembersFrame, UNCHANGED <<user, subscription>>, TicketsClose,
         organization' = "none" => organization = "none", RequestsTyped'
  PROVE  TenancyInv' /\ Keeps
<1>1. user' \in [Users -> MemberRows]
  BY DEF TenancyInv, MembersTyped
<1>2. \A t \in Users \X Purposes : Used(t) => user'[t[1]].status # "none"
  BY DEF Used
<1>3. organization' = "none" => NoMembers'
  BY DEF TenancyInv, Beginnings, NoMembers
<1>4. Active' = Active /\ Admins' = Admins /\ (OverLimit' <=> OverLimit)
  BY DEF Active, Admins, OverLimit
<1> QED
  BY <1>1, <1>2, <1>3, <1>4, MemberStep DEF Keeps

\* The operator gives the one ticket that activates the tenant, which has no subscription yet.
LEMMA OperatorStep ==
  ASSUME TenancyInv, MembersFrame, NEW u \in Users,
         Provision(u) \/ ResendManagedInvitation(u)
  PROVE  TenancyInv' /\ Keeps
<1>1. /\ Issued(u, "INVITE", "ADMIN", TRUE) /\ UNCHANGED <<user, subscription, request>>
      /\ organization' # "none"
      /\ \A v \in Users : Activating(v) => v = u
  BY DEF TenancyInv, Beginnings, Provision, ResendManagedInvitation, tenantVars, Activating
<1>2. ~Subscribed
  <2>1. CASE organization = "none"
    BY <2>1 DEF TenancyInv, Beginnings
  <2>2. CASE \A v \in Users : user[v].status = "none"
    BY <2>2 DEF TenancyInv, Beginnings, Used
  <2> QED
    BY <2>1, <2>2 DEF Provision, ResendManagedInvitation
<1>3. /\ TicketsTyped'
      /\ \A t \in Users \X Purposes : t # <<u, "INVITE">> => ticket'[t] = ticket[t]
  BY <1>1, TicketsTypedBefore, IssuedTicket DEF Purposes, Roles
<1>4. PlansKnown' /\ Unbilled' /\ ~Subscribed'
  BY <1>1, <1>2 DEF TenancyInv, PlansKnown, Unbilled, Subscribed, NotBilled, SubscriptionKnown,
                    HasPlan, MembersFrame, billingVars, paystackVars
<1>5. MembersTyped'
  BY <1>1, <1>3 DEF TenancyInv, MembersTyped, TicketsTyped
<1>6. \A v \in Users : Activating(v)' => v = u
  <2>1. \A v \in Users : v # u => <<v, "INVITE">> # <<u, "INVITE">>
    OBVIOUS
  <2> QED
    BY <1>1, <1>3, <2>1, InviteTicket DEF Activating
<1>7. Beginnings'
  BY <1>1, <1>4, <1>6 DEF Beginnings, Activating
<1>8. Active' = Active /\ Admins' = Admins /\ (OverLimit' <=> OverLimit)
  BY <1>1 DEF Active, Admins, OverLimit
<1> QED
  BY <1>1, <1>4, <1>5, <1>7, <1>8 DEF TenancyInv, Keeps

\* The subscription begins, with an account that a ticket refers to.
LEMMA BeginningStep ==
  ASSUME TenancyInv, MembersFrame, NEW u \in Users, NEW purpose \in {"INVITE", "VERIFY"},
         NEW state \in States \ {"none"}, NEW plan \in AllPlans, NEW ends,
         Join(u, "ADMIN"), user[u].status = "none", ticket' = Consumed(<<u, purpose>>),
         subscription' = NewSubscription(state, plan, ends),
         organization' = "active", UNCHANGED request,
         \A v \in Users : v # u \/ purpose # "INVITE" => ~Activating(v)
  PROVE  TenancyInv' /\ Active' = Active \cup {u} /\ Admins \subseteq Admins'
<1>1. <<u, purpose>> \in Users \X Purposes /\ "ADMIN" \in Roles
  BY DEF Purposes, Roles
<1>2. /\ user' \in [Users -> MemberRows] /\ user'[u].status # "none"
      /\ Active' = Active \cup {u} /\ Admins \subseteq Admins'
  BY <1>1, JoinAddsMember DEF TenancyInv
<1>3. TicketsClose
  BY <1>1, TicketsTypedBefore, EditCloses
<1>4. /\ SubscriptionKnown(subscription') /\ Subscribed'
  BY DEF NewSubscription, SubscriptionKnown, HasPlan, Subscribed
<1>5. PlansKnown'
  BY <1>4 DEF TenancyInv, PlansKnown, MembersFrame, billingVars
<1>6. MembersTyped'
  BY <1>2, <1>3 DEF TenancyInv, MembersTyped, TicketsClose, TicketsTyped
<1>7. ticket'[<<u, purpose>>].status = "consumed"
  BY <1>1 DEF TenancyInv, MembersTyped, Consumed
<1>8. Used(<<u, purpose>>)'
  BY <1>2, <1>7 DEF Used
<1>9. \A v \in Users : Activating(v)' => v = u /\ purpose = "INVITE"
  BY <1>3, InviteTicket DEF TicketsClose, Activating
<1>10. Beginnings'
  BY <1>1, <1>4, <1>7, <1>8, <1>9 DEF Beginnings, Activating
<1> QED
  BY <1>2, <1>4, <1>5, <1>6, <1>10 DEF TenancyInv, Unbilled

LEMMA VerifySignupStep ==
  ASSUME TenancyInv, MembersFrame, NEW u \in Users, NEW plan \in Plans, VerifySignup(u, plan)
  PROVE  TenancyInv' /\ Keeps
<1>1. /\ Join(u, "ADMIN") /\ user[u].status = "none" /\ NoMembers
      /\ ticket' = Consumed(<<u, "VERIFY">>) /\ organization' = "active" /\ UNCHANGED request
      /\ subscription' = NewSubscription("TRIAL", plan, now + TrialDays)
      /\ \A v \in Users : ~Activating(v)
  BY DEF TenancyInv, Beginnings, VerifySignup
<1>2. "TRIAL" \in States \ {"none"} /\ plan \in AllPlans
  BY DEF States, AllPlans
<1>3. TenancyInv' /\ Active' = Active \cup {u} /\ Admins \subseteq Admins'
  BY <1>1, <1>2, BeginningStep
<1>4. ~OverLimit'
  <2>1. Active' = {u}
    BY <1>1, <1>3 DEF NoMembers, Active
  <2>2. Cardinality(Active') = 1
    BY <2>1, FS_Singleton
  <2>3. SeatLimit[plan] \in Nat \ {0} /\ subscription'.plan = plan
    BY <1>1, SeatsAssumption DEF NewSubscription
  <2> QED
    BY <2>2, <2>3 DEF OverLimit
<1> QED
  BY <1>3, <1>4 DEF Keeps

LEMMA ActivateStep ==
  ASSUME TenancyInv, MembersFrame, NEW u \in Users, Activate(u)
  PROVE  TenancyInv' /\ Keeps
<1>1. /\ Join(u, "ADMIN") /\ user[u].status = "none"
      /\ ticket' = Consumed(<<u, "INVITE">>) /\ organization' = "active" /\ UNCHANGED request
      /\ Activating(u) /\ ticket[<<u, "INVITE">>].status = "open"
  BY DEF Activate, Presentable, Alive, Activating
<1>2. ~Subscribed /\ \A v \in Users : Activating(v) => v = u
  BY <1>1 DEF TenancyInv, Beginnings
<1>3. subscription' = NewSubscription("MANAGED", ManagedPlan, 0)
  BY <1>2 DEF Activate, Subscribed
<1>4. "MANAGED" \in States \ {"none"} /\ ManagedPlan \in AllPlans
  BY DEF States, AllPlans
<1>5. TenancyInv' /\ Active' = Active \cup {u} /\ Admins \subseteq Admins'
  BY <1>1, <1>2, <1>3, <1>4, BeginningStep
<1>6. ~OverLimit'
  BY <1>3 DEF OverLimit, NewSubscription
<1> QED
  BY <1>5, <1>6 DEF Keeps

\* A seat is taken: by an invitation or by the administrator.
LEMMA SeatTakenStep ==
  ASSUME TenancyInv, MembersFrame, NEW u \in Users, NEW role \in Roles,
         Join(u, role), user[u].status = "none", HasCapacity, TicketsClose,
         UNCHANGED <<organization, subscription>>, RequestsTyped'
  PROVE  TenancyInv' /\ Keeps
<1>1. /\ user' \in [Users -> MemberRows]
      /\ user'[u].status # "none" /\ \A v \in Users \ {u} : user'[v] = user[v]
      /\ Active' = Active \cup {u} /\ Admins \subseteq Admins'
  BY JoinAddsMember DEF TenancyInv
<1>2. ~OverLimit'
  BY <1>1, CapacityTakesSeat DEF TenancyInv
<1>3. \A t \in Users \X Purposes : Used(t) => user'[t[1]].status # "none"
  BY <1>1 DEF Used
<1>4. organization' # "none"
  BY DEF HasCapacity
<1> QED
  BY <1>1, <1>2, <1>3, <1>4, MemberStep DEF Keeps

LEMMA AcceptInvitationStep ==
  ASSUME TenancyInv, MembersFrame, NEW u \in Users, AcceptInvitation(u)
  PROVE  TenancyInv' /\ Keeps
<1>1. ticket[<<u, "INVITE">>].role \in Roles /\ TicketsTyped
  BY InviteTicket, TicketsTypedBefore DEF TicketsTyped
<1>2. TicketsClose
  BY <1>1, InviteTicket, EditCloses DEF AcceptInvitation
<1>3. RequestsTyped'
  BY DEF TenancyInv, MembersTyped, RequestsTyped, AcceptInvitation
<1> QED
  BY <1>1, <1>2, <1>3, SeatTakenStep DEF AcceptInvitation

LEMMA CreateUserStep ==
  ASSUME TenancyInv, MembersFrame, NEW r \in request, CreateUser(r)
  PROVE  TenancyInv' /\ Keeps
<1>1. r.user \in Users /\ r.role \in Roles /\ TicketsClose
  BY TicketsTypedBefore DEF TenancyInv, MembersTyped, CreateUser
<1>2. RequestsTyped'
  BY DEF TenancyInv, MembersTyped, RequestsTyped, CreateUser
<1> QED
  BY <1>1, <1>2, SeatTakenStep DEF CreateUser

\* Two administrators who ask to remove each other are served one after the other: the last
\* one stays.
LEMMA UpdateUserStep ==
  ASSUME TenancyInv, MembersFrame, NEW r \in request, UpdateUser(r)
  PROVE  TenancyInv' /\ Keeps
<1> DEFINE row == [status |-> IF r.active THEN "active" ELSE "inactive", role |-> r.role]
<1>1. r.user \in Users /\ row \in MemberRows /\ user \in [Users -> MemberRows]
  BY DEF TenancyInv, MembersTyped, MemberRows
<1>2. /\ user[r.user].status # "none" /\ user' = [user EXCEPT ![r.user] = row]
      /\ r.active /\ user[r.user].status # "active" => HasCapacity
      /\ r.user \in Admins /\ ~(r.active /\ r.role = "ADMIN") => Cardinality(Admins) > 1
      /\ request' = request \ {r} /\ UNCHANGED <<organization, subscription, ticket>>
  BY DEF UpdateUser, Update
<1>3. row.status # "none" /\ row.role = r.role /\ (row.status = "active" <=> r.active)
  OBVIOUS
<1> HIDE DEF row
<1>4. /\ user' \in [Users -> MemberRows]
      /\ user'[r.user] = row /\ \A v \in Users \ {r.user} : user'[v] = user[v]
  BY <1>1, <1>2
<1>5. ASSUME NEW a \in Admins PROVE Admins' # {}
  <2>1. CASE \E b \in Admins : b # r.user
    BY <1>4, <2>1 DEF Admins, Active
  <2>2. CASE Admins = {r.user}
    <3>1. Cardinality(Admins) = 1
      BY <2>2, FS_Singleton
    <3>2. r.active /\ r.role = "ADMIN"
      BY <1>2, <2>2, <3>1
    <3> QED
      BY <1>1, <1>3, <1>4, <3>2 DEF Admins, Active
  <2> QED
    BY <1>5, <2>1, <2>2
<1>6. OverLimit' => OverLimit /\ Active' \subseteq Active
  <2>1. Active' \subseteq Active \cup {r.user}
    BY <1>4 DEF Active
  <2>2. CASE HasCapacity
    BY <1>2, <2>1, <2>2, CapacityTakesSeat DEF TenancyInv
  <2>3. CASE ~HasCapacity
    <3>1. Active' \subseteq Active
      BY <1>2, <1>3, <1>4, <2>3 DEF Active
    <3> QED
      BY <1>2, <3>1, NoSeatTaken DEF TenancyInv
  <2> QED
    BY <2>2, <2>3
<1>7. TicketsClose /\ RequestsTyped'
  BY <1>2, TicketsTypedBefore DEF TenancyInv, MembersTyped, RequestsTyped
<1>8. \A t \in Users \X Purposes : Used(t) => user'[t[1]].status # "none"
  BY <1>3, <1>4 DEF Used
<1>9. organization' # "none"
  BY <1>1, <1>2 DEF TenancyInv, Beginnings, NoMembers
<1>10. TenancyInv'
  BY <1>2, <1>4, <1>7, <1>8, <1>9, MemberStep
<1> QED
  BY <1>2, <1>5, <1>6, <1>10 DEF Keeps

\* The steps that only open, use, revoke or deliver a ticket, or only wait.
LEMMA MailStep ==
  ASSUME TenancyInv, MembersFrame,
         \/ \E u \in Users : \/ RequestSignup(u) \/ RequestReset(u) \/ AcceptReset(u)
                             \/ PasswordChange(u)
         \/ \E t \in DOMAIN ticket : Deliver(t)
  PROVE  TenancyInv' /\ Keeps
<1>0. /\ TicketsTyped /\ user \in [Users -> MemberRows]
      /\ DOMAIN ticket = Users \X Purposes /\ RequestsTyped
  BY TicketsTypedBefore DEF TenancyInv, MembersTyped, RequestsTyped
<1>1. UNCHANGED <<user, subscription, organization, request>>
  BY DEF RequestSignup, RequestReset, AcceptReset, PasswordChange, Deliver, tenantVars
<1>2. TicketsClose
  <2>1. ASSUME NEW u \in Users, RequestSignup(u) PROVE TicketsClose
    BY <1>0, <2>1, IssueCloses DEF RequestSignup, Purposes, Roles
  <2>2. ASSUME NEW u \in Users, RequestReset(u) PROVE TicketsClose
    <3>1. user[u].role \in Roles /\ "RESET" \in Purposes
      BY <1>0 DEF Purposes, MemberRows
    <3> QED
      BY <1>0, <2>2, <3>1, IssueCloses DEF RequestReset
  <2>3. ASSUME NEW u \in Users, AcceptReset(u) \/ PasswordChange(u) PROVE TicketsClose
    <3>1. <<u, "RESET">> \in Users \X Purposes
      BY DEF Purposes
    <3> QED
      BY <1>0, <2>3, <3>1, EditCloses DEF AcceptReset, PasswordChange
  <2>4. ASSUME NEW t \in Users \X Purposes, Deliver(t) PROVE TicketsClose
    BY <1>0, <2>4, EditCloses DEF Deliver
  <2> QED
    BY <1>0, <2>1, <2>2, <2>3, <2>4
<1>3. RequestsTyped'
  BY <1>0, <1>1 DEF RequestsTyped
<1> QED
  BY <1>1, <1>2, <1>3, TicketStep

LEMMA OrganizationStep ==
  ASSUME TenancyInv, MembersFrame, Suspend \/ Resume
  PROVE  TenancyInv' /\ Keeps
<1>0. TicketsTyped /\ DOMAIN ticket = Users \X Purposes
  BY TicketsTypedBefore DEF TenancyInv, MembersTyped
<1>1. /\ UNCHANGED <<user, subscription, request>>
      /\ organization' # "none" /\ RequestsTyped'
  BY DEF TenancyInv, MembersTyped, RequestsTyped, Suspend, Resume
<1>2. TicketsClose
  <2>1. CASE Resume
    BY <2>1, TicketsTypedBefore DEF Resume
  <2>2. CASE Suspend
    <3>1. \A t \in Users \X Purposes :
            \/ ticket'[t] = ticket[t]
            \/ ticket[t].status = "open" /\ ticket'[t] = [ticket[t] EXCEPT !.status = "revoked"]
      BY <1>0, <2>2 DEF Suspend
    <3>2. DOMAIN ticket' = Users \X Purposes
      BY <1>0, <2>2 DEF Suspend
    <3> QED
      BY <1>0, <3>1, <3>2 DEF TicketsTyped, TicketsClose, Used
  <2> QED
    BY <2>1, <2>2
<1> QED
  BY <1>1, <1>2, TicketStep

LEMMA WaitingStep ==
  ASSUME TenancyInv, MembersFrame,
         \/ \E r \in Requests : Authorize(r)
         \/ \E r \in request : Invite(r) \/ Revoke(r) \/ Refuse(r)
  PROVE  TenancyInv' /\ Keeps
<1>0. /\ TicketsTyped /\ RequestsTyped
      /\ \A r \in Requests : r.user \in Users /\ r.role \in Roles /\ r.active \in BOOLEAN
  BY TicketsTypedBefore DEF TenancyInv, MembersTyped, RequestsTyped, Requests, Roles
<1>1. UNCHANGED <<user, subscription, organization>> /\ RequestsTyped'
  BY <1>0 DEF Authorize, Invite, Revoke, Refuse, tenantVars, RequestsTyped
<1>2. TicketsClose
  <2>1. ASSUME NEW r \in request, Invite(r) PROVE TicketsClose
    BY <1>0, <2>1, IssueCloses DEF Invite, Purposes, RequestsTyped
  <2>2. ASSUME NEW r \in request, Revoke(r) PROVE TicketsClose
    <3>1. <<r.user, "INVITE">> \in Users \X Purposes
      BY <1>0, InviteTicket DEF RequestsTyped
    <3> QED
      BY <1>0, <2>2, <3>1, EditCloses DEF Revoke
  <2>3. UNCHANGED ticket => TicketsClose
    BY TicketsTypedBefore
  <2> QED
    BY <2>1, <2>2, <2>3 DEF Authorize, Refuse
<1> QED
  BY <1>1, <1>2, TicketStep

LEMMA ServiceStep ==
  ASSUME TenancyInv, MembersFrame, ServiceNext
  PROVE  TenancyInv' /\ Keeps
<1>1. ASSUME NEW r \in request, CreateUser(r) PROVE TenancyInv' /\ Keeps
  BY <1>1, CreateUserStep
<1>2. ASSUME NEW r \in request, UpdateUser(r) PROVE TenancyInv' /\ Keeps
  BY <1>2, UpdateUserStep
<1>3. ASSUME NEW u \in Users, Activate(u) PROVE TenancyInv' /\ Keeps
  BY <1>3, ActivateStep
<1>4. ASSUME NEW u \in Users, NEW plan \in Plans, VerifySignup(u, plan) PROVE TenancyInv' /\ Keeps
  BY <1>4, VerifySignupStep
<1>5. ASSUME NEW u \in Users, AcceptInvitation(u) PROVE TenancyInv' /\ Keeps
  BY <1>5, AcceptInvitationStep
<1>6. ASSUME NEW u \in Users, Provision(u) \/ ResendManagedInvitation(u) PROVE TenancyInv' /\ Keeps
  BY <1>6, OperatorStep
<1> QED
  BY <1>1, <1>2, <1>3, <1>4, <1>5, <1>6, MailStep, OrganizationStep, WaitingStep
  DEF ServiceNext

\* The site administration takes the members as they come: all it may not do is to delete an
\* account that a ticket refers to.
LEMMA SiteStep ==
  ASSUME TenancyInv, MembersFrame, SiteNext
  PROVE  TenancyInv'
<1>1. user \in [Users -> MemberRows] /\ TicketsTyped /\ RequestsTyped
  BY TicketsTypedBefore DEF TenancyInv, MembersTyped, RequestsTyped
<1>2. PICK u \in Users :
        \/ \E status \in {"active", "inactive"}, role \in Roles : SiteSave(u, status, role)
        \/ SitePassword(u) \/ SiteDelete(u)
  BY DEF SiteNext
<1>3. CASE SitePassword(u)
  <2>1. <<u, "RESET">> \in Users \X Purposes
    BY DEF Purposes
  <2>2. TicketsClose
    BY <1>1, <1>3, <2>1, EditCloses DEF SitePassword
  <2>3. UNCHANGED <<user, subscription, organization>> /\ RequestsTyped'
    BY <1>1, <1>3 DEF SitePassword, tenantVars, RequestsTyped
  <2> QED
    BY <2>2, <2>3, TicketStep
<1>4. CASE \E status \in {"active", "inactive"}, role \in Roles : SiteSave(u, status, role)
  <2>1. PICK status \in {"active", "inactive"}, role \in Roles : SiteSave(u, status, role)
    BY <1>4
  <2>2. /\ user' \in [Users -> MemberRows] /\ user'[u].status # "none"
        /\ \A v \in Users \ {u} : user'[v] = user[v]
    BY <1>1, <2>1 DEF SiteSave, MemberRows
  <2>3. \A t \in Users \X Purposes : Used(t) => user'[t[1]].status # "none"
    BY <2>2 DEF Used
  <2>4. /\ UNCHANGED subscription /\ organization' # "none"
        /\ TicketsClose /\ RequestsTyped'
    BY <1>1, <2>1, TicketsTypedBefore DEF SiteSave, RequestsTyped
  <2> QED
    BY <2>2, <2>3, <2>4, MemberStep
<1>5. CASE SiteDelete(u)
  <2>1. NoAccount \in MemberRows
    BY DEF NoAccount, MemberRows, Roles
  <2>2. user' \in [Users -> MemberRows] /\ \A v \in Users \ {u} : user'[v] = user[v]
    BY <1>1, <1>5, <2>1 DEF SiteDelete
  <2>3. ASSUME NEW t \in Users \X Purposes, Used(t) PROVE user'[t[1]].status # "none"
    <3>1. PICK v \in Users, purpose \in Purposes : t = <<v, purpose>>
      OBVIOUS
    <3>2. v # u
      BY <1>5, <2>3, <3>1 DEF SiteDelete, Referenced, Used
    <3> QED
      BY <2>2, <2>3, <3>1, <3>2 DEF Used
  <2>4. /\ UNCHANGED <<subscription, organization>> /\ TicketsClose /\ RequestsTyped'
    BY <1>1, <1>5, TicketsTypedBefore DEF SiteDelete, RequestsTyped
  <2>5. organization' # "none"
    BY <1>5, <2>4 DEF SiteDelete, TenancyInv, Beginnings, NoMembers
  <2> QED
    BY <2>2, <2>3, <2>4, <2>5, MemberStep
<1> QED
  BY <1>2, <1>3, <1>4, <1>5

-----------------------------------------------------------------------------
(* The whole tenant *)

LEMMA InitTenancy == Init => TenancyInv
<1> SUFFICES ASSUME Init PROVE TenancyInv
  OBVIOUS
<1>1. workload.plans \subseteq Plans
  BY WorkloadsAssumption DEF Init
<1>2. /\ "plan" \in DOMAIN NewSubscription("none", ManagedPlan, 0)
      /\ \A state, plan, ends :
           LET s == NewSubscription(state, plan, ends) IN
           {"plan", "remote", "state"} \subseteq DOMAIN s /\ s.plan = plan /\ s.state = state
             /\ s.remote = Nobody
  BY DEF NewSubscription
<1>3. /\ DOMAIN checkout = Refs /\ event = <<>> /\ DOMAIN event = {}
      /\ \A r \in Refs : checkout[r].status = "ABSENT" /\ HasPlan(checkout[r])
  BY DEF Init, BillingInit, NoCheckout, HasPlan, AllPlans
<1>4. /\ DOMAIN ticket = Users \X Purposes /\ request = {}
      /\ \A t \in Users \X Purposes :
           /\ {"status", "role", "activates"} \subseteq DOMAIN ticket[t]
           /\ ticket[t].role \in Roles /\ ~ticket[t].activates
           /\ t[2] = "VERIFY" /\ user[t[1]].status # "none" => ticket[t].status = "consumed"
  <2>1. \A t \in Users \X Purposes :
          ticket[t] = IF t[2] = "VERIFY" /\ user[t[1]].status # "none"
                      THEN [NoTicket EXCEPT !.status = "consumed"] ELSE NoTicket
    BY DEF Init, MembershipInit
  <2>2. /\ {"status", "role", "activates"} \subseteq DOMAIN NoTicket
        /\ NoTicket.role = "EMPLOYEE" /\ ~NoTicket.activates
    BY DEF NoTicket
  <2>3. DOMAIN ticket = Users \X Purposes /\ request = {}
    BY DEF Init, MembershipInit
  <2> HIDE DEF NoTicket
  <2> QED
    BY <2>1, <2>2, <2>3 DEF Roles
<1>5. \A u \in Users : ~Activating(u)
  BY <1>4, InviteTicket DEF Activating
<1>6. \/ subscription = NewSubscription("none", ManagedPlan, 0)
      \/ \E p \in Plans : subscription = NewSubscription("TRIAL", p, 1 + TrialDays)
  BY <1>1 DEF Init, TenantInit
<1>7. PlansKnown
  <2>1. SubscriptionKnown(subscription)
    BY <1>2, <1>6 DEF SubscriptionKnown, HasPlan, AllPlans
  <2> QED
    BY <1>3, <2>1 DEF PlansKnown
<1>8. MembersTyped
  <2>1. user \in [Users -> MemberRows]
    BY DEF Init, TenantInit, NoAccount, Roles, MemberRows
  <2> QED
    BY <1>4, <2>1 DEF MembersTyped
<1>9. CASE /\ organization = "none" /\ NoMembers
           /\ subscription = NewSubscription("none", ManagedPlan, 0)
  <2>1. NotBilled /\ ~Subscribed
    BY <1>2, <1>3, <1>9 DEF NotBilled, Subscribed, Init, PaystackInit
  <2> QED
    BY <1>5, <1>7, <1>8, <1>9, <2>1 DEF TenancyInv, Unbilled, Beginnings
<1>10. ASSUME NEW owner \in Users, NEW p \in Plans, organization = "active",
              user = [u \in Users |->
                IF u = owner THEN [status |-> "active", role |-> "ADMIN"] ELSE NoAccount],
              subscription = NewSubscription("TRIAL", p, 1 + TrialDays)
       PROVE  TenancyInv
  <2>1. Subscribed
    BY <1>2, <1>10 DEF Subscribed
  <2>2. <<owner, "VERIFY">> \in Users \X Purposes /\ user[owner].status # "none"
    BY <1>10 DEF Purposes
  <2>3. Used(<<owner, "VERIFY">>)
    BY <1>4, <2>2 DEF Used
  <2> QED
    BY <1>5, <1>7, <1>8, <1>10, <2>1, <2>2, <2>3 DEF TenancyInv, Unbilled, Beginnings
<1> QED
  BY <1>1, <1>9, <1>10 DEF Init, TenantInit, NoMembers, NoAccount

LEMMA BillingStep ==
  ASSUME TenancyInv, workload.offered \subseteq Plans, workload.checkouts \subseteq Checkouts,
         Requesting \/ Providing \/ Processing, UNCHANGED membershipVars
  PROVE  TenancyInv' /\ Keeps
<1>0. PlansKnown /\ Unbilled
  BY DEF TenancyInv
<1>1. BillsMembers /\ UNCHANGED <<organization, user>> => TenancyInv' /\ Keeps
  BY BillsKeepTenancy
<1>2. CASE Requesting
  <2>1. ASSUME NEW k \in Checkouts, NEW plan \in Plans,
               AllocateCheckout(k, plan) \/ AllocatePaystack(k, plan)
        PROVE  TenancyInv' /\ Keeps
    BY <1>0, <1>1, <2>1, AllocateBills
  <2>2. ASSUME NEW k \in Checkouts, Reconcile(k) PROVE TenancyInv' /\ Keeps
    BY <1>0, <1>1, <2>2, SandboxBills
  <2>3. CASE CancelSubscription \/ CancelPaystack
    BY <1>0, <1>1, <2>3, CancelBills
  <2> QED
    BY <1>2, <2>1, <2>2, <2>3 DEF Requesting
<1>3. CASE Providing
  <2>1. ASSUME NEW k \in Checkouts, NEW outcome, Simulate(k, outcome) PROVE TenancyInv' /\ Keeps
    BY <1>0, <1>1, <2>1, SandboxBills
  <2>2. ASSUME NEW k \in Checkouts, Pay(k) \/ EndRemote(k) PROVE TenancyInv' /\ Keeps
    BY <1>0, <1>1, <2>2, ProviderBills
  <2>3. ASSUME NEW r \in Refs, NEW kind, Renew(r) \/ Repeat(r) \/ TakeBack(r, kind)
        PROVE  TenancyInv' /\ Keeps
    <3>1. TakeBack(r, kind) => kind \in {"refund", "dispute"}
      BY DEF TakeBack
    <3> QED
      BY <1>0, <1>1, <2>3, <3>1, ProviderBills
  <2> QED
    BY <1>3, <2>1, <2>2, <2>3 DEF Providing
<1>4. CASE Processing
  <2>1. PICK e \in DOMAIN event :
          ProcessSandboxEvent(e) \/ ProcessPaystackEvent(e) \/ RetryEvent(e)
    BY <1>4 DEF Processing
  <2>2. CASE RetryEvent(e)
    BY <1>0, <1>1, <2>2, HandledKnown 
    DEF RetryEvent, BillsMembers, PlansKnown, SubscriptionKnown, HasPlan, Subscribed, tenantVars
  <2> QED
    BY <1>0, <1>1, <2>1, <2>2, SandboxEventBills, PaystackEventBills
<1> QED
  BY <1>2, <1>3, <1>4

LEMMA NextTenancy ==
  ASSUME workload \in Workloads, edits \in Nat, TenancyInv, [Next]_vars
  PROVE  TenancyInv' /\ (UNCHANGED edits => Keeps)
<1>1. workload.offered \subseteq Plans /\ workload.checkouts \subseteq Checkouts
  BY WorkloadsAssumption
<1>2. CASE (Requesting \/ Providing \/ Processing) /\ UNCHANGED membershipVars
  BY <1>1, <1>2, BillingStep
<1>3. CASE Belonging
  <2>1. MembersFrame /\ MembershipNext
    BY <1>3 DEF Belonging, MembersFrame
  <2>2. CASE ServiceNext
    BY <2>1, <2>2, ServiceStep
  <2>3. CASE SiteNext
    BY <2>1, <2>3, SiteStep DEF SiteNext
  <2> QED
    BY <2>1, <2>2, <2>3 DEF MembershipNext
<1>4. CASE UNCHANGED <<organization, user, subscription, billingVars, paystackVars, membershipVars>>
  <2>1. TicketsClose
    BY <1>4, TicketsTypedBefore DEF membershipVars
  <2>2. /\ MembersFrame /\ UNCHANGED <<user, subscription, organization>>
        /\ RequestsTyped'
    BY <1>4 DEF TenancyInv, MembersTyped, RequestsTyped, MembersFrame, membershipVars
  <2> QED
    BY <2>1, <2>2, TicketStep
<1>5. CASE UNCHANGED vars
  BY <1>4, <1>5 DEF vars, tenantVars
<1> QED
  BY <1>2, <1>3, <1>4, <1>5 DEF Next, Tick

Logged == workload \in Workloads /\ edits \in Nat

LEMMA TenancyInvariant == Spec => [](Logged /\ TenancyInv)
<1>1. Init => Logged /\ TenancyInv
  BY InitTenancy DEF Init, MembershipInit, Logged
<1>2. Logged /\ [Next]_vars => Logged'
  BY DEF Logged, Next, Belonging, MembershipNext, SiteNext, membershipVars, vars
<1>3. Logged /\ TenancyInv /\ [Next]_vars => TenancyInv'
  BY NextTenancy DEF Logged
<1> QED
  BY <1>1, <1>2, <1>3, PTL DEF Spec

\* No service takes the last active administrator from a tenant, for any number of
\* administrators who act on each other and whatever billing, the operator and the site
\* administration do in between (admin_api.py perform_update).
THEOREM AdminCorrect == Spec => AdminRetained
<1>1. Logged /\ TenancyInv /\ [Next]_vars => [LastAdminStays]_vars
  BY NextTenancy DEF Logged, Keeps, LastAdminStays
<1> QED
  BY <1>1, TenancyInvariant, PTL DEF Spec, AdminRetained

\* No service takes a tenant over the seats of its plan, for any limits and however
\* invitations, administrators, a change of plan and the site administration compete for the
\* last seat; over it, no service adds to the members (entitlements.py require_capacity,
\* billing.py and paystack.py settling a payment).
THEOREM SeatsCorrect == Spec => SeatsWithinLimit
<1>1. Logged /\ TenancyInv /\ [Next]_vars => [SeatsAreCounted]_vars
  BY NextTenancy DEF Logged, Keeps, SeatsAreCounted
<1> QED
  BY <1>1, TenancyInvariant, PTL DEF Spec, SeatsWithinLimit

-----------------------------------------------------------------------------
(* Payments and access: the inductive invariant *)

EventKinds == {"sandbox", "reconcile", "charge", "status", "paid", "unpaid", "refund", "dispute"}
SubscriptionRow ==
  [state : States, plan : AllPlans, trialEnds : Nat, periodEnds : Nat, graceEnds : Nat,
   cancelAtEnd : BOOLEAN, canceledAt : Nat, lastEvent : Nat, entitlement : Refs \cup {Nobody},
   remote : Checkouts \cup {Nobody}, provider : {"none", "local_sandbox", "paystack_test"}]
CheckoutRow ==
  [status : {"ABSENT", "PENDING", "SUCCEEDED", "FAILED"} \cup TakenBack, plan : AllPlans,
   created : Nat, settled : Nat, sandbox : Outcomes \cup {"PENDING"}, sandboxAt : Nat,
   sequence : Nat]
PaymentRow == [status : {"PENDING", "SUCCEEDED", "REFUNDED"}, at : Nat]

MoneyTyped ==
  /\ now \in Nat \ {0}
  /\ subscription \in SubscriptionRow
  /\ checkout \in [Refs -> CheckoutRow]
  /\ payment \in [Refs -> PaymentRow]
  /\ \A e \in DOMAIN event : e \in [kind : EventKinds, ref : Refs, sequence : Nat]

Sandbox == workload.provider = "local_sandbox"
Paystack == workload.provider = "paystack_test"

\* the event is yet to be handled, or again
Waits(e) == event[e].status \in {"PENDING", "FAILED"}
TakesBack(e) == e.kind \in {"refund", "dispute"}

\* a checkout is settled once, and a reversal of it that is not recorded waits to be told
CheckoutSound(r) ==
  LET c == checkout[r] IN
  /\ c.settled # 0 => c.status \in {"SUCCEEDED"} \cup TakenBack
  /\ c.status = "SUCCEEDED" => c.settled # 0
  /\ c.status = "ABSENT" => c.sequence = 0
  /\ c.sandbox # "PENDING" => c.sandboxAt # 0
  /\ c.settled <= now /\ c.sandboxAt <= now
  /\ ~Sandbox => c.sandbox = "PENDING"
  /\ Sandbox => c.status # "DISPUTED"
  /\ c.sandbox \in Reversals /\ c.status \notin Reversals =>
       \E e \in DOMAIN event : e.ref = r /\ Waits(e)

\* an invoice is paid when it is due, and settled at the time of its payment
PaymentSound(r) ==
  LET p == payment[r] IN
  /\ p.at <= now
  /\ p.status # "PENDING" => p.at # 0
  /\ r[2] # 0 /\ p.status # "PENDING" => payment[Ref(r[1])].status # "PENDING" /\ Due(r) <= p.at
  /\ Paystack /\ checkout[r].settled # 0 => p.status # "PENDING" /\ checkout[r].settled = p.at

\* what takes a payment back has done so once it is handled
EventSound(e) ==
  /\ TakesBack(e) => Paystack
  /\ TakesBack(e) /\ ~Waits(e) => checkout[e.ref].status \in TakenBack
  /\ e.kind = "sandbox" => Sandbox /\ e.sequence <= checkout[e.ref].sequence
  /\ e.kind = "paid" => e.ref[2] # 0

\* each settled checkout of a plan pays for a period more, after the time one of them was settled
SettledRefs(plan) == {r \in Refs : checkout[r].settled # 0 /\ checkout[r].plan = plan}
PaidFor(plan, t) ==
  \E r \in SettledRefs(plan) : t <= checkout[r].settled + Period * Cardinality(SettledRefs(plan))

\* a plan's time is that of its settled checkouts in the sandbox, and of one with the provider
SubscriptionSound ==
  /\ subscription.state \in {"ACTIVE", "PAST_DUE"} =>
       /\ subscription.entitlement # Nobody
       /\ checkout[subscription.entitlement].status = "SUCCEEDED"
       /\ Paystack => subscription.periodEnds <= checkout[subscription.entitlement].settled + Period
  /\ subscription.state = "PAST_DUE" => subscription.graceEnds <= subscription.periodEnds + Grace
  /\ Sandbox => /\ \A plan \in AllPlans : IsFiniteSet(SettledRefs(plan))
                /\ subscription.state = "PAST_DUE" => subscription.periodEnds # 0
                /\ subscription.periodEnds # 0 => PaidFor(subscription.plan, subscription.periodEnds)

\* a subscription runs at the provider once its first payment is made
RemoteSound ==
  /\ remote \in [Checkouts -> {"none"} \cup Running \cup Ending]
  /\ \A k \in Checkouts : remote[k] \in Running => payment[Ref(k)].status # "PENDING"

MoneyInv ==
  /\ MoneyTyped
  /\ \A r \in Refs : CheckoutSound(r) /\ PaymentSound(r)
  /\ \A e \in DOMAIN event : EventSound(e)
  /\ RemoteSound
  /\ SubscriptionSound

-----------------------------------------------------------------------------
(* What a step may do *)

\* While the same checkouts are settled, they pay for the same time.
SettledStays ==
  \A r \in Refs : /\ checkout'[r].settled = checkout[r].settled
                  /\ checkout[r].settled # 0 => checkout'[r].plan = checkout[r].plan

LEMMA SameSettled ==
  ASSUME SettledStays, NEW plan
  PROVE  /\ SettledRefs(plan)' = SettledRefs(plan)
         /\ \A t : PaidFor(plan, t)' <=> PaidFor(plan, t)
<1>1. SettledRefs(plan)' = SettledRefs(plan)
  BY DEF SettledRefs, SettledStays
<1>2. \A r \in SettledRefs(plan) : checkout'[r].settled = checkout[r].settled
  BY DEF SettledRefs, SettledStays
<1> QED
  BY <1>1, <1>2 DEF PaidFor

\* A settled checkout pays for a period after it was settled, and a new one adds a period.
LEMMA Settles ==
  ASSUME MoneyTyped, MoneyTyped', NEW plan, IsFiniteSet(SettledRefs(plan)), NEW ref \in Refs,
         \A r \in Refs : r # ref => checkout'[r] = checkout[r],
         checkout'[ref].plan = plan, checkout'[ref].settled # 0, checkout[ref].settled = 0
  PROVE  /\ IsFiniteSet(SettledRefs(plan)')
         /\ \A t \in Nat : t <= checkout'[ref].settled => PaidFor(plan, t + Period)'
         /\ \A t \in Nat : PaidFor(plan, t) => PaidFor(plan, t + Period)'
<1> DEFINE n == Cardinality(SettledRefs(plan))  m == Cardinality(SettledRefs(plan)')
<1>0. /\ Period \in Nat /\ n \in Nat
      /\ \A r \in Refs : checkout[r].settled \in Nat /\ checkout'[r].settled \in Nat
  BY BillingBounds, FS_CardinalityType DEF MoneyTyped, CheckoutRow
<1>1. /\ SettledRefs(plan)' = SettledRefs(plan) \cup {ref} /\ ref \in SettledRefs(plan)'
      /\ \A r \in SettledRefs(plan) :
           r \in SettledRefs(plan)' /\ checkout'[r].settled = checkout[r].settled
  BY DEF SettledRefs
<1>2. IsFiniteSet(SettledRefs(plan)') /\ m \in Nat /\ m = n + 1 /\ 1 <= m
  <2>1. ref \notin SettledRefs(plan)
    BY DEF SettledRefs
  <2>2. /\ IsFiniteSet(SettledRefs(plan) \cup {ref})
        /\ Cardinality(SettledRefs(plan) \cup {ref}) = n + 1
    BY <2>1, FS_AddElement
  <2> QED
    BY <1>0, <1>1, <2>2
<1> HIDE DEF n, m
<1>3. Period * n \in Nat /\ Period * m \in Nat /\ Period * m = Period * n + Period
  <2>1. \A p, i \in Nat : p * i \in Nat /\ p * (i + 1) = p * i + p
    OBVIOUS
  <2> QED
    BY <1>0, <1>2, <2>1
<1>4. ASSUME NEW t \in Nat, PaidFor(plan, t) PROVE PaidFor(plan, t + Period)'
  <2>1. PICK r \in SettledRefs(plan) : t <= checkout[r].settled + Period * n
    BY <1>4 DEF PaidFor, n
  <2>2. /\ r \in SettledRefs(plan)' /\ checkout'[r].settled = checkout[r].settled
        /\ checkout[r].settled \in Nat
    BY <1>0, <1>1 DEF SettledRefs
  <2>3. t + Period <= checkout'[r].settled + Period * m
    BY <1>0, <1>3, <2>1, <2>2
  <2> QED
    BY <2>2, <2>3 DEF PaidFor, m
<1>5. ASSUME NEW t \in Nat, t <= checkout'[ref].settled PROVE PaidFor(plan, t + Period)'
  <2>1. t + Period <= checkout'[ref].settled + Period * m
    BY <1>0, <1>3, <1>5
  <2> QED
    BY <1>1, <2>1 DEF PaidFor, m
<1> QED
  BY <1>2, <1>4, <1>5

\* A checkout that a step leaves alone stays sound if what tells its reversal still waits.
LEMMA CheckoutStays ==
  ASSUME NEW r \in Refs, CheckoutSound(r), MoneyTyped, MoneyTyped', checkout'[r] = checkout[r],
         now <= now', workload' = workload,
         checkout[r].sandbox \in Reversals /\ checkout[r].status \notin Reversals =>
           \A e \in DOMAIN event : e.ref = r /\ Waits(e) => e \in DOMAIN event' /\ Waits(e)'
  PROVE  CheckoutSound(r)'
<1> DEFINE c == checkout[r]
<1>1. now \in Nat /\ now' \in Nat /\ c.settled \in Nat /\ c.sandboxAt \in Nat
  BY DEF MoneyTyped, CheckoutRow
<1>2. c.settled <= now' /\ c.sandboxAt <= now'
  BY <1>1 DEF CheckoutSound
<1>3. c.sandbox \in Reversals /\ c.status \notin Reversals =>
        \E e \in DOMAIN event' : e.ref = r /\ Waits(e)'
  BY DEF CheckoutSound
<1> QED
  BY <1>2, <1>3 DEF CheckoutSound, Sandbox

\* Payments stay as they were.
LEMMA PaymentStays ==
  ASSUME NEW r \in Refs, PaymentSound(r), MoneyTyped, MoneyTyped', payment' = payment,
         now <= now', workload' = workload, checkout'[r].settled = checkout[r].settled
  PROVE  PaymentSound(r)'
<1>1. now \in Nat /\ now' \in Nat /\ payment[r].at \in Nat
  BY DEF MoneyTyped, PaymentRow
<1>2. payment[r].at <= now'
  BY <1>1 DEF PaymentSound
<1> QED
  BY <1>2 DEF PaymentSound, Paystack, Due

\* A step that leaves the checkouts alone: only events that change nothing are passed over.
Passes(e) ==
  /\ ~TakesBack(e)
  /\ checkout[e.ref].sandbox \in Reversals => checkout[e.ref].status \in Reversals

NewSound(e) ==
  /\ e.kind # "sandbox"
  /\ TakesBack(e) => Paystack
  /\ e.kind = "paid" => e.ref[2] # 0

LEMMA EventStep ==
  ASSUME MoneyInv, MoneyTyped', checkout' = checkout, workload' = workload, now <= now',
         \A e \in DOMAIN event :
           e \in DOMAIN event' /\ (Waits(e) => Waits(e)' \/ Passes(e)),
         \A e \in DOMAIN event' : e \in DOMAIN event \/ (Waits(e)' /\ NewSound(e)),
         \A r \in Refs : PaymentSound(r)', RemoteSound', SubscriptionSound'
  PROVE  MoneyInv'
<1>1. ASSUME NEW r \in Refs PROVE CheckoutSound(r)'
  <2>1. CheckoutSound(r) /\ MoneyTyped
    BY DEF MoneyInv
  <2> QED
    BY <2>1, CheckoutStays DEF Passes
<1>2. ASSUME NEW e \in DOMAIN event' PROVE EventSound(e)'
  <2>1. CASE e \in DOMAIN event
    <3>1. EventSound(e)
      BY <2>1 DEF MoneyInv
    <3> QED
      BY <2>1, <3>1 DEF EventSound, Paystack, Sandbox, Passes
  <2>2. CASE Waits(e)' /\ NewSound(e)
    BY <2>2 DEF EventSound, NewSound, Paystack
  <2> QED
    BY <2>1, <2>2
<1> QED
  BY <1>1, <1>2 DEF MoneyInv

\* A step that changes one checkout.
LEMMA CheckoutStep ==
  ASSUME MoneyInv, MoneyTyped', UNCHANGED <<now, workload, payment, remote>>, NEW ref \in Refs,
         \A r \in Refs : r # ref => checkout'[r] = checkout[r],
         CheckoutSound(ref)', SubscriptionSound',
         checkout[ref].status \in TakenBack => checkout'[ref].status \in TakenBack,
         Sandbox => checkout[ref].sequence <= checkout'[ref].sequence,
         Paystack => checkout'[ref].settled \in {checkout[ref].settled, payment[ref].at}
                     /\ (checkout'[ref].settled # checkout[ref].settled
                           => payment[ref].status # "PENDING"),
         \A e \in DOMAIN event :
           /\ e \in DOMAIN event'
           /\ Waits(e) => \/ Waits(e)'
                          \/ e.ref = ref /\ (TakesBack(e) => checkout'[ref].status \in TakenBack),
         \A e \in DOMAIN event' : e \in DOMAIN event \/ EventSound(e)'
  PROVE  MoneyInv'
<1>0. /\ MoneyTyped /\ now \in Nat /\ now <= now'
      /\ \A r \in Refs : checkout[r] \in CheckoutRow /\ checkout'[r] \in CheckoutRow
      /\ \A r \in Refs : CheckoutSound(r) /\ PaymentSound(r)
      /\ \A e \in DOMAIN event : EventSound(e) /\ e.ref \in Refs /\ e.sequence \in Nat
  BY DEF MoneyInv, MoneyTyped
<1>1. ASSUME NEW r \in Refs, r # ref PROVE CheckoutSound(r)'
  BY <1>0, <1>1, CheckoutStays
<1>2. ASSUME NEW r \in Refs PROVE PaymentSound(r)'
  <2>1. CASE checkout'[r].settled = checkout[r].settled
    BY <1>0, <2>1, PaymentStays
  <2>2. CASE r = ref /\ checkout'[r].settled # checkout[r].settled
    BY <1>0, <2>2 DEF PaymentSound, Paystack, Due
  <2> QED
    BY <2>1, <2>2
<1>3. ASSUME NEW e \in DOMAIN event PROVE EventSound(e)'
  <2>0. EventSound(e) /\ e.ref \in Refs
    BY <1>0
  <2>1. checkout[e.ref].status \in TakenBack => checkout'[e.ref].status \in TakenBack
    BY <2>0
  <2>2. TakesBack(e) /\ ~Waits(e)' => checkout'[e.ref].status \in TakenBack
    BY <2>0, <2>1 DEF EventSound
  <2>3. Sandbox => checkout[e.ref].sequence <= checkout'[e.ref].sequence
    BY <1>0, <2>0 DEF CheckoutRow
  <2>4. e.kind = "sandbox" => Sandbox /\ e.sequence <= checkout'[e.ref].sequence
    <3>1. checkout[e.ref].sequence \in Nat /\ checkout'[e.ref].sequence \in Nat /\ e.sequence \in Nat
      BY <1>0, <2>0 DEF CheckoutRow
    <3> QED
      BY <2>0, <2>3, <3>1 DEF EventSound
  <2> QED
    BY <2>0, <2>2, <2>4 DEF EventSound, Paystack, Sandbox
<1>4. \A e \in DOMAIN event' : EventSound(e)'
  BY <1>3
<1>5. RemoteSound'
  BY DEF MoneyInv, RemoteSound
<1> QED
  BY <1>1, <1>2, <1>4, <1>5 DEF MoneyInv

\* Storing events keeps those there are, and new ones wait.
LEMMA StoreWaits ==
  ASSUME NEW ids, Store(ids)
  PROVE  /\ DOMAIN event' = DOMAIN event \cup ids
         /\ \A e \in DOMAIN event : Waits(e)' <=> Waits(e)
         /\ \A e \in ids : e \in DOMAIN event \/ Waits(e)'
  BY DEF Store, Waits

\* Handling an event leaves the others.
LEMMA HandlingWaits ==
  ASSUME NEW e \in DOMAIN event, NEW status,
         EventBecomes(e, status) \/ (RetryEvent(e) /\ status = "PENDING")
  PROVE  /\ DOMAIN event' = DOMAIN event
         /\ \A x \in DOMAIN event : x # e => (Waits(x)' <=> Waits(x))
         /\ status \in {"PENDING", "FAILED"} => Waits(e)'
  BY DEF EventBecomes, RetryEvent, Waits

\* what gives access, and for how long, stays or ends
Quiet ==
  /\ subscription'.plan = subscription.plan /\ subscription'.periodEnds = subscription.periodEnds
  /\ subscription'.graceEnds = subscription.graceEnds
  /\ subscription'.entitlement = subscription.entitlement
  /\ \/ subscription'.state = subscription.state
     \/ subscription'.state \notin {"ACTIVE", "PAST_DUE"}

LEMMA SubscriptionStays ==
  ASSUME MoneyTyped, SubscriptionSound, Quiet, SettledStays, workload' = workload,
         subscription'.state \in {"ACTIVE", "PAST_DUE"}
           => (checkout[subscription.entitlement].status = "SUCCEEDED"
                 => checkout'[subscription.entitlement].status = "SUCCEEDED")
  PROVE  SubscriptionSound'
<1>1. PICK s \in SubscriptionRow : s = subscription
  BY DEF MoneyTyped
<1>2. /\ subscription'.plan = s.plan /\ subscription'.periodEnds = s.periodEnds
      /\ subscription'.graceEnds = s.graceEnds /\ subscription'.entitlement = s.entitlement
      /\ subscription'.state = s.state \/ subscription'.state \notin {"ACTIVE", "PAST_DUE"}
  BY <1>1 DEF Quiet
<1>3. subscription'.state \in {"ACTIVE", "PAST_DUE"} =>
        /\ s.entitlement # Nobody /\ checkout'[s.entitlement].status = "SUCCEEDED"
        /\ Paystack' => s.periodEnds <= checkout'[s.entitlement].settled + Period
  <2>1. s.entitlement \in Refs \cup {Nobody}
    BY DEF SubscriptionRow
  <2> QED
    BY <1>1, <1>2, <2>1 DEF SubscriptionSound, SettledStays, Paystack
<1>4. ASSUME Sandbox'
      PROVE  /\ \A plan \in AllPlans : IsFiniteSet(SettledRefs(plan)')
             /\ s.periodEnds # 0 => PaidFor(s.plan, s.periodEnds)'
  <2>1. Sandbox
    BY <1>4 DEF Sandbox
  <2> QED
    BY <1>1, <2>1, SameSettled DEF SubscriptionSound
<1>5. subscription'.periodEnds # 0 /\ Sandbox' => PaidFor(subscription.plan, subscription.periodEnds)'
  BY <1>2, <1>4 DEF PaidFor, SettledRefs
<1>6. subscription'.state = "PAST_DUE" =>
        /\ subscription'.graceEnds <= subscription'.periodEnds + Grace
        /\ Sandbox' => subscription'.periodEnds # 0
  BY <1>1, <1>2 DEF SubscriptionSound, Sandbox
<1> QED
  BY <1>2, <1>3, <1>4, <1>5, <1>6 DEF SubscriptionSound

\* Nothing changes but events, and the subscription quietly.
LEMMA QuietStep ==
  ASSUME MoneyInv, MoneyTyped', Quiet, UNCHANGED <<checkout, payment, remote, workload>>, now <= now',
         \A e \in DOMAIN event : e \in DOMAIN event' /\ (Waits(e) => Waits(e)' \/ Passes(e)),
         \A e \in DOMAIN event' : e \in DOMAIN event \/ (Waits(e)' /\ NewSound(e))
  PROVE  MoneyInv'
<1>1. MoneyTyped /\ SubscriptionSound /\ (\A r \in Refs : PaymentSound(r)) /\ RemoteSound
  BY DEF MoneyInv
<1>2. \A r \in Refs : PaymentSound(r)'
  BY <1>1, PaymentStays
<1>3. RemoteSound'
  BY <1>1 DEF RemoteSound
<1>4. SubscriptionSound'
  BY <1>1, SubscriptionStays DEF SettledStays
<1> QED
  BY <1>2, <1>3, <1>4, EventStep

\* The types of rows, before and after.
LEMMA MoneyRows ==
  ASSUME MoneyTyped
  PROVE  /\ \A r \in Refs : checkout[r] \in CheckoutRow /\ payment[r] \in PaymentRow
         /\ \A e \in DOMAIN event : e.ref \in Refs /\ checkout[e.ref] \in CheckoutRow
         /\ DOMAIN checkout = Refs /\ now \in Nat \ {0} /\ subscription \in SubscriptionRow
  BY DEF MoneyTyped

\* One row is set, and some events are told.
LEMMA MoneyTypes ==
  ASSUME MoneyTyped, NEW ref \in Refs, NEW row \in CheckoutRow,
         checkout' = [checkout EXCEPT ![ref] = row] \/ checkout' = checkout,
         subscription' \in SubscriptionRow, payment' = payment, now' = now,
         \A e \in DOMAIN event' :
           e \in DOMAIN event \/ e \in [kind : EventKinds, ref : Refs, sequence : Nat]
  PROVE  MoneyTyped'
<1>1. checkout' \in [Refs -> CheckoutRow]
  BY DEF MoneyTyped
<1> QED
  BY <1>1 DEF MoneyTyped

\* Canceling, whoever provides.
LEMMA CanceledQuiet ==
  ASSUME MoneyTyped, Canceled
  PROVE  Quiet /\ subscription' \in SubscriptionRow
<1>1. PICK old \in SubscriptionRow, t \in Nat : old = subscription /\ t = now
  BY DEF MoneyTyped
<1>2. PICK state : state = IF old.state = "TRIAL" THEN "CANCELED" ELSE old.state
  OBVIOUS
<1>3. state \in States /\ (state = old.state \/ state = "CANCELED")
  BY <1>2 DEF SubscriptionRow, States
<1>4. subscription' = [old EXCEPT !.cancelAtEnd = TRUE, !.canceledAt = t, !.state = state]
  BY <1>1, <1>2 DEF Canceled
<1>5. /\ subscription' \in SubscriptionRow /\ subscription'.state = state
      /\ subscription'.plan = old.plan /\ subscription'.periodEnds = old.periodEnds /\ subscription'.graceEnds = old.graceEnds
      /\ subscription'.entitlement = old.entitlement
  BY <1>3, <1>4 DEF SubscriptionRow
<1> QED
  BY <1>1, <1>3, <1>5 DEF Quiet

-----------------------------------------------------------------------------
(* The sandbox *)

LEMMA AllocateMoney ==
  ASSUME MoneyInv, UNCHANGED <<workload, payment, remote>>, NEW k \in Checkouts, NEW plan \in Plans,
         MayAllocate(k, plan), Allocated(k, plan), UNCHANGED <<tenantVars, event>>
  PROVE  MoneyInv'
<1> DEFINE ref == Ref(k)  row == NoCheckout(plan, now)
<1>0. /\ ref \in Refs /\ MoneyTyped /\ SubscriptionSound /\ CheckoutSound(ref)
      /\ \A r \in Refs : checkout[r] \in CheckoutRow
  BY RefsOfCheckouts, MoneyRows DEF MoneyInv
<1>1. row \in CheckoutRow /\ row.status = "PENDING" /\ row.settled = 0 /\ row.sandbox = "PENDING"
      /\ row.sequence = 0 /\ row.sandboxAt = 0
  BY <1>0 DEF NoCheckout, CheckoutRow, MoneyTyped, AllPlans
<1>2. /\ checkout' = [checkout EXCEPT ![ref] = row] /\ checkout[ref].status = "ABSENT"
      /\ UNCHANGED <<subscription, event, now>>
  BY DEF MayAllocate, Allocated, tenantVars
<1> HIDE DEF row, ref
<1>3. checkout'[ref] = row /\ \A r \in Refs : r # ref => checkout'[r] = checkout[r]
  BY <1>0, <1>2 DEF MoneyTyped
<1>4. checkout[ref].settled = 0 /\ checkout[ref].sequence = 0
  BY <1>0, <1>2 DEF CheckoutSound, TakenBack
<1>5. MoneyTyped'
  BY <1>0, <1>1, <1>2, MoneyTypes DEF MoneyTyped
<1>6. CheckoutSound(ref)'
  BY <1>0, <1>1, <1>2, <1>3 DEF CheckoutSound, MoneyTyped, Reversals
<1>7. SubscriptionSound'
  <2>1. Quiet
    BY <1>2 DEF Quiet
  <2>2. subscription.entitlement \in Refs \cup {Nobody}
    BY <1>0 DEF MoneyTyped, SubscriptionRow
  <2>3. SettledStays
    BY <1>1, <1>3, <1>4 DEF SettledStays
  <2>4. subscription'.state \in {"ACTIVE", "PAST_DUE"} =>
          /\ subscription.entitlement \in Refs /\ subscription.entitlement # ref
          /\ checkout'[subscription.entitlement].status = "SUCCEEDED"
    BY <1>0, <1>2, <1>3, <2>2 DEF SubscriptionSound
  <2> QED
    BY <1>0, <2>1, <2>3, <2>4, SubscriptionStays
<1>8. /\ checkout[ref].status \notin TakenBack /\ checkout[ref].sequence <= checkout'[ref].sequence
      /\ checkout'[ref].settled = checkout[ref].settled
  BY <1>1, <1>2, <1>3, <1>4 DEF TakenBack
<1>9. \A e \in DOMAIN event : e \in DOMAIN event' /\ (Waits(e) => Waits(e)')
  BY <1>2 DEF Waits
<1>10. \A e \in DOMAIN event' : e \in DOMAIN event
  BY <1>2
<1> QED
  BY <1>0, <1>2, <1>3, <1>5, <1>6, <1>7, <1>8, <1>9, <1>10, CheckoutStep

LEMMA SimulateMoney ==
  ASSUME MoneyInv, UNCHANGED <<workload, payment, remote>>, NEW k \in Checkouts, NEW outcome,
         Simulate(k, outcome), Sandbox
  PROVE  MoneyInv'
<1> DEFINE ref == Ref(k)
<1>0. /\ ref \in Refs /\ MoneyTyped /\ SubscriptionSound /\ CheckoutSound(ref)
      /\ checkout[ref] \in CheckoutRow /\ outcome \in Outcomes /\ now \in Nat \ {0}
  BY RefsOfCheckouts, MoneyRows DEF MoneyInv, Simulate
<1> HIDE DEF ref
<1>1. PICK d \in CheckoutRow : d = checkout[ref]
  BY <1>0
<1>2. PICK t \in Nat : t = now
  BY <1>0
<1>3. PICK row :
        row = [d EXCEPT !.sandbox = outcome, !.sandboxAt = t, !.sequence = d.sequence + 1]
  OBVIOUS
<1>4. /\ row \in CheckoutRow /\ row.status = d.status /\ row.settled = d.settled
      /\ row.sandbox = outcome /\ row.sandboxAt = t /\ row.sequence = d.sequence + 1
      /\ row.plan = d.plan
  <2>1. d.sequence + 1 \in Nat
    BY DEF CheckoutRow
  <2> QED
    BY <1>0, <1>3, <2>1 DEF CheckoutRow
<1>5. PICK new : new = [kind |-> "sandbox", ref |-> ref, sequence |-> d.sequence + 1]
  OBVIOUS
<1>6. /\ checkout' = [checkout EXCEPT ![ref] = row] /\ d.status # "ABSENT"
      /\ UNCHANGED <<subscription, now>> /\ Store({new})
  BY <1>1, <1>3, <1>2, <1>5 DEF Simulate, tenantVars, ref
<1>7. /\ new.kind = "sandbox" /\ new.ref = ref /\ new.sequence = row.sequence /\ d.sequence \in Nat
      /\ new \in [kind : EventKinds, ref : Refs, sequence : Nat]
  BY <1>0, <1>4, <1>5 DEF EventKinds, CheckoutRow
<1>8. new \notin DOMAIN event
  <2>1. ASSUME new \in DOMAIN event PROVE FALSE
    <3>1. d.sequence + 1 <= d.sequence
      BY <1>1, <1>4, <1>7, <2>1 DEF MoneyInv, EventSound
    <3> QED
      BY <1>7, <3>1
  <2> QED
    BY <2>1
<1>9. checkout'[ref] = row /\ \A r \in Refs : r # ref => checkout'[r] = checkout[r]
  BY <1>0, <1>6 DEF MoneyTyped
<1>10. /\ DOMAIN event' = DOMAIN event \cup {new} /\ Waits(new)'
      /\ \A e \in DOMAIN event : Waits(e)' <=> Waits(e)
  BY <1>6, <1>8, StoreWaits
<1>11. MoneyTyped'
  BY <1>0, <1>6, <1>4, <1>7, <1>10, MoneyTypes DEF MoneyTyped
<1>12. CheckoutSound(ref)'
  <2>1. new \in DOMAIN event' /\ new.ref = ref
    BY <1>7, <1>10
  <2>2. row.settled <= now /\ row.settled = d.settled /\ row.sandboxAt <= now /\ row.sandboxAt # 0
    BY <1>0, <1>1, <1>4, <1>2 DEF CheckoutSound
  <2> QED
    BY <1>0, <1>1, <1>4, <1>6, <1>9, <1>10, <2>1, <2>2 DEF CheckoutSound, Sandbox
<1>13. /\ checkout[ref].sequence <= checkout'[ref].sequence
       /\ checkout'[ref].settled = checkout[ref].settled
       /\ checkout'[ref].status = checkout[ref].status
  BY <1>1, <1>4, <1>7, <1>9
<1>14. SubscriptionSound'
  <2>1. Quiet
    BY <1>6 DEF Quiet
  <2>2. SettledStays /\ \A r \in Refs : checkout'[r].status = checkout[r].status
    BY <1>1, <1>4, <1>9, <1>13 DEF SettledStays
  <2>3. subscription.entitlement \in Refs \cup {Nobody}
    BY <1>0 DEF MoneyTyped, SubscriptionRow
  <2>4. subscription'.state \in {"ACTIVE", "PAST_DUE"}
          => checkout'[subscription.entitlement].status = "SUCCEEDED"
    BY <1>0, <1>6, <2>2, <2>3 DEF SubscriptionSound
  <2> QED
    BY <1>0, <2>1, <2>2, <2>3, <2>4, SubscriptionStays
<1>15. EventSound(new)'
  <2>1. new.sequence <= row.sequence
    BY <1>4, <1>7
  <2>2. Sandbox' /\ ~TakesBack(new)
    BY <1>7 DEF Sandbox, TakesBack
  <2> QED
    BY <1>7, <1>9, <2>1, <2>2 DEF EventSound, TakesBack
<1>16. \A e \in DOMAIN event' : e \in DOMAIN event \/ EventSound(e)'
  BY <1>10, <1>15
<1> QED
  BY <1>0, <1>6, <1>9, <1>10, <1>11, <1>12, <1>13, <1>14, <1>16, CheckoutStep

LEMMA MaxOfTwo ==
  ASSUME NEW p \in Nat, NEW q \in Nat
  PROVE  Max({p, q}) \in {p, q}
<1>1. \E x \in {p, q} : \A y \in {p, q} : x >= y
  BY p <= q \/ q <= p
<1> QED
  BY <1>1 DEF Max

\* What a payment settles gives access for a period after it, or after what was paid before.
LEMMA EntitledSound ==
  ASSUME MoneyInv, Sandbox, workload' = workload, MoneyTyped', NEW ref \in Refs,
         \A r \in Refs : r # ref => checkout'[r] = checkout[r],
         checkout'[ref].status = "SUCCEEDED", checkout'[ref].settled # 0, checkout[ref].settled = 0,
         subscription'.state = "ACTIVE", subscription'.entitlement = ref,
         subscription'.plan = checkout'[ref].plan,
         NEW from \in Nat, subscription'.periodEnds = from + Period,
         from <= checkout'[ref].settled \/ PaidFor(checkout'[ref].plan, from)
  PROVE  SubscriptionSound'
<1>0. /\ MoneyTyped /\ ref # Nobody /\ ~Paystack'
      /\ \A plan \in AllPlans : IsFiniteSet(SettledRefs(plan))
  BY BillingBounds DEF MoneyInv, SubscriptionSound, Sandbox, Paystack
<1>1. PICK plan \in AllPlans : plan = checkout'[ref].plan
  BY DEF MoneyTyped, CheckoutRow
<1>2. PICK until : until = from + Period
  OBVIOUS
<1>3. IsFiniteSet(SettledRefs(plan)') /\ PaidFor(plan, until)'
  <2>1. from <= checkout'[ref].settled \/ PaidFor(plan, from)
    BY <1>1
  <2>2. IsFiniteSet(SettledRefs(plan)') /\ PaidFor(plan, from + Period)'
    BY <1>0, <1>1, <2>1, Settles
  <2> QED
    BY <1>2, <2>2 DEF PaidFor
<1>4. PaidFor(subscription.plan, subscription.periodEnds)'
  BY <1>1, <1>2, <1>3 DEF PaidFor, SettledRefs
<1>5. ASSUME NEW other \in AllPlans PROVE IsFiniteSet(SettledRefs(other)')
  <2>1. CASE other # plan
    <3>1. SettledRefs(other)' = SettledRefs(other)
      BY <1>1, <2>1 DEF SettledRefs
    <3> QED
      BY <1>0, <3>1
  <2> QED
    BY <1>3, <2>1
<1> QED
  BY <1>0, <1>4, <1>5 DEF SubscriptionSound

\* The provider's payment gives access for a period after it.
LEMMA EntitledOnce ==
  ASSUME Paystack, workload' = workload, MoneyTyped', NEW ref \in Refs,
         checkout'[ref].status = "SUCCEEDED",
         subscription'.state = "ACTIVE", subscription'.entitlement = ref,
         NEW from \in Nat, subscription'.periodEnds = from + Period, from <= checkout'[ref].settled
  PROVE  SubscriptionSound'
<1>1. PICK t \in Nat : t = checkout'[ref].settled
  BY DEF MoneyTyped, CheckoutRow
<1>2. from + Period <= t + Period
  BY <1>1, BillingBounds
<1>3. ref # Nobody /\ ~Sandbox'
  BY BillingBounds DEF Sandbox, Paystack
<1> QED
  BY <1>1, <1>2, <1>3 DEF SubscriptionSound

\* The provider's payment is settled and gives no access of its own.
LEMMA SettledQuietly ==
  ASSUME MoneyInv, Paystack, workload' = workload, MoneyTyped', Quiet, NEW ref \in Refs,
         \A r \in Refs : r # ref => checkout'[r] = checkout[r],
         checkout'[ref].status = "SUCCEEDED",
         checkout[ref].settled \in {0, checkout'[ref].settled}
  PROVE  SubscriptionSound'
<1>0. MoneyTyped /\ SubscriptionSound /\ \A r \in Refs : CheckoutSound(r)
  BY DEF MoneyInv
<1>1. PICK s \in SubscriptionRow : s = subscription
  BY <1>0 DEF MoneyTyped
<1>2. /\ subscription'.periodEnds = s.periodEnds
      /\ subscription'.graceEnds = s.graceEnds /\ subscription'.entitlement = s.entitlement
      /\ subscription'.state = s.state \/ subscription'.state \notin {"ACTIVE", "PAST_DUE"}
  BY <1>1 DEF Quiet
<1>3. ASSUME subscription'.state \in {"ACTIVE", "PAST_DUE"}
      PROVE  /\ s.entitlement # Nobody /\ checkout'[s.entitlement].status = "SUCCEEDED"
             /\ s.periodEnds <= checkout'[s.entitlement].settled + Period
  <2>1. PICK r \in Refs : r = s.entitlement /\ r # Nobody
    BY <1>0, <1>1, <1>2, <1>3 DEF SubscriptionRow, SubscriptionSound
  <2>2. checkout[r].status = "SUCCEEDED" /\ s.periodEnds <= checkout[r].settled + Period
    BY <1>0, <1>1, <1>2, <1>3, <2>1 DEF SubscriptionSound
  <2>3. checkout'[r].settled = checkout[r].settled /\ checkout'[r].status = "SUCCEEDED"
    BY <1>0, <2>2 DEF CheckoutSound
  <2> QED
    BY <2>1, <2>2, <2>3
<1>4. ~Sandbox'
  BY DEF Sandbox, Paystack
<1>5. subscription'.state = "PAST_DUE" => subscription'.graceEnds <= subscription'.periodEnds + Grace
  BY <1>0, <1>1, <1>2 DEF SubscriptionSound
<1> QED
  BY <1>2, <1>3, <1>4, <1>5 DEF SubscriptionSound

\* The sandbox settles a payment.
LEMMA SettleMoney ==
  ASSUME MoneyInv, Sandbox, UNCHANGED <<now, workload, payment, remote>>, NEW e \in DOMAIN event,
         SettlePayment(e, checkout[e.ref]), EventBecomes(e, "PROCESSED")
  PROVE  MoneyInv'
<1>0. /\ MoneyTyped /\ SubscriptionSound /\ CheckoutSound(e.ref) /\ e.ref \in Refs
      /\ checkout[e.ref] \in CheckoutRow /\ now \in Nat \ {0}
  BY MoneyRows DEF MoneyInv
<1>1. PICK ref \in Refs : ref = e.ref
  BY <1>0
<1>2. PICK c \in CheckoutRow : c = checkout[ref]
  BY <1>0, <1>1
<1>3. PICK s \in SubscriptionRow : s = subscription
  BY <1>0 DEF MoneyTyped
<1>4. /\ c.sandbox = "SUCCEEDED" /\ c.status \notin TakenBack \cup {"SUCCEEDED"} /\ c.settled = 0
      /\ c.sandboxAt # 0 /\ c.sandboxAt \in Nat /\ c.plan \in AllPlans
  BY <1>0, <1>1, <1>2 DEF SettlePayment, Outdated, Reversals, TakenBack, CheckoutSound, CheckoutRow
<1>5. PICK row : row = [c EXCEPT !.status = "SUCCEEDED", !.settled = c.sandboxAt]
  OBVIOUS
<1>6. /\ row \in CheckoutRow /\ row.status = "SUCCEEDED" /\ row.settled = c.sandboxAt
      /\ row.sandbox = c.sandbox /\ row.sandboxAt = c.sandboxAt /\ row.sequence = c.sequence
      /\ row.plan = c.plan
  BY <1>4, <1>5 DEF CheckoutRow
<1>7. checkout' = [checkout EXCEPT ![ref] = row]
  <2>1. checkout' = [checkout EXCEPT ![ref].status = "SUCCEEDED", ![ref].settled = c.sandboxAt]
    BY <1>1, <1>2 DEF SettlePayment
  <2> QED
    BY <1>0, <1>2, <1>5, <2>1 DEF MoneyTyped
<1>8. checkout'[ref] = row /\ \A r \in Refs : r # ref => checkout'[r] = checkout[r]
  BY <1>0, <1>7 DEF MoneyTyped
<1>9. PICK from \in Nat :
        /\ PaidUntil(c) = from + Period
        /\ from <= c.sandboxAt \/ PaidFor(c.plan, from)
  <2>1. s.periodEnds \in Nat /\ Period \in Nat
    BY BillingBounds DEF SubscriptionRow
  <2>2. CASE subscription.plan = c.plan
    <3>1. PICK from \in {s.periodEnds, c.sandboxAt} : from = Max({s.periodEnds, c.sandboxAt})
      BY <1>4, <2>1, MaxOfTwo
    <3>2. PaidUntil(c) = from + Period /\ from \in Nat
      BY <1>3, <1>4, <2>1, <2>2, <3>1 DEF PaidUntil
    <3>3. from <= c.sandboxAt \/ (from = s.periodEnds /\ from # 0)
      BY <1>4, <3>1, <3>2
    <3>4. from = s.periodEnds /\ from # 0 => PaidFor(c.plan, from)
      BY <1>0, <2>2, <1>3 DEF SubscriptionSound, PaidFor
    <3> QED
      BY <3>2, <3>3, <3>4
  <2>3. CASE subscription.plan # c.plan
    <3>1. PaidUntil(c) = c.sandboxAt + Period
      BY <1>4, <2>1, <2>3 DEF PaidUntil
    <3> QED
      BY <1>4, <3>1
  <2> QED
    BY <2>2, <2>3
<1>10. /\ subscription' \in SubscriptionRow /\ subscription'.state = "ACTIVE"
       /\ subscription'.entitlement = ref /\ subscription'.periodEnds = from + Period
       /\ subscription'.plan = c.plan
  <2>1. PICK until \in Nat : until = from + Period
    BY BillingBounds
  <2>2. PICK m : m = [s EXCEPT !.plan = c.plan, !.state = "ACTIVE", !.entitlement = ref,
                               !.periodEnds = until, !.graceEnds = 0, !.cancelAtEnd = FALSE,
                               !.canceledAt = 0]
    OBVIOUS
  <2>3. /\ m \in SubscriptionRow /\ m.state = "ACTIVE" /\ m.entitlement = ref
        /\ m.periodEnds = until /\ m.plan = c.plan
    BY <1>4, <2>1, <2>2 DEF SubscriptionRow, States
  <2>4. subscription' = [m EXCEPT !.lastEvent = c.sandboxAt, !.provider = "local_sandbox"]
    BY <1>1, <1>2, <1>3, <1>9, <2>1, <2>2 DEF SettlePayment, Entitled
  <2> QED
    BY <1>4, <2>1, <2>3, <2>4 DEF SubscriptionRow
<1>11. DOMAIN event' = DOMAIN event /\ \A x \in DOMAIN event : x # e => (Waits(x)' <=> Waits(x))
  BY HandlingWaits
<1>12. MoneyTyped'
  BY <1>0, <1>6, <1>7, <1>10, <1>11, MoneyTypes
<1>13. SubscriptionSound'
  BY <1>2, <1>4, <1>6, <1>8, <1>9, <1>10, <1>12, EntitledSound
<1>14. CheckoutSound(ref)'
  BY <1>0, <1>1, <1>2, <1>4, <1>6, <1>8 DEF CheckoutSound, Sandbox, Reversals
<1>15. /\ checkout[ref].status \notin TakenBack /\ checkout[ref].sequence <= checkout'[ref].sequence
  BY <1>2, <1>4, <1>6, <1>8 DEF CheckoutRow
<1>16. ~TakesBack(e) /\ ~Paystack
  BY DEF MoneyInv, EventSound, Sandbox, Paystack
<1>17. \A x \in DOMAIN event :
         /\ x \in DOMAIN event'
         /\ Waits(x) => \/ Waits(x)'
                        \/ x.ref = ref /\ (TakesBack(x) => checkout'[ref].status \in TakenBack)
  BY <1>1, <1>11, <1>16
<1>18. \A x \in DOMAIN event' : x \in DOMAIN event
  BY <1>11
<1> QED
  BY <1>8, <1>12, <1>13, <1>14, <1>15, <1>16, <1>17, <1>18, CheckoutStep

\* The days of grace follow the time that was paid for.
LEMMA GraceGiven ==
  ASSUME MoneyTyped, SubscriptionSound, subscription.state \in {"ACTIVE", "PAST_DUE"},
         workload' = workload, subscription'.state = "PAST_DUE",
         subscription'.plan = subscription.plan,
         subscription'.periodEnds = subscription.periodEnds,
         subscription'.entitlement = subscription.entitlement,
         subscription'.graceEnds = subscription.periodEnds + Grace,
         SettledStays, checkout'[subscription.entitlement].status = "SUCCEEDED",
         Sandbox => subscription.periodEnds # 0
  PROVE  SubscriptionSound'
<1>1. PICK s \in SubscriptionRow : s = subscription
  BY DEF MoneyTyped
<1>2. s.entitlement \in Refs /\ s.entitlement # Nobody
  BY <1>1 DEF SubscriptionRow, SubscriptionSound
<1>3. Paystack' => s.periodEnds <= checkout'[s.entitlement].settled + Period
  BY <1>1, <1>2 DEF SubscriptionSound, SettledStays, Paystack
<1>4. ASSUME Sandbox'
      PROVE  /\ \A plan \in AllPlans : IsFiniteSet(SettledRefs(plan)')
             /\ s.periodEnds # 0 => PaidFor(s.plan, s.periodEnds)'
  <2>1. Sandbox
    BY <1>4 DEF Sandbox
  <2> QED
    BY <1>1, <2>1, SameSettled DEF SubscriptionSound
<1>5. subscription'.periodEnds # 0 /\ Sandbox' => PaidFor(subscription.plan, subscription.periodEnds)'
  BY <1>1, <1>4 DEF PaidFor, SettledRefs
<1>6. subscription'.graceEnds <= subscription'.periodEnds + Grace
  <2>1. s.periodEnds + Grace \in Nat
    BY BillingBounds DEF SubscriptionRow
  <2> QED
    BY <1>1, <2>1
<1>7. Sandbox' => subscription'.periodEnds # 0
  BY DEF Sandbox
<1> QED
  BY <1>1, <1>2, <1>3, <1>4, <1>5, <1>6, <1>7 DEF SubscriptionSound

\* An event is handled and changes the checkout it tells of.
LEMMA HandledMoney ==
  ASSUME MoneyInv, MoneyTyped', UNCHANGED <<now, workload, payment, remote>>,
         NEW e \in DOMAIN event, NEW status, EventBecomes(e, status),
         NEW ref \in Refs, ref = e.ref,
         \A r \in Refs : r # ref => checkout'[r] = checkout[r],
         CheckoutSound(ref)', SubscriptionSound',
         checkout[ref].status \in TakenBack => checkout'[ref].status \in TakenBack,
         Sandbox => checkout[ref].sequence <= checkout'[ref].sequence,
         Paystack => checkout'[ref].settled \in {checkout[ref].settled, payment[ref].at}
                     /\ (checkout'[ref].settled # checkout[ref].settled
                           => payment[ref].status # "PENDING"),
         TakesBack(e) => checkout'[ref].status \in TakenBack
  PROVE  MoneyInv'
<1>1. DOMAIN event' = DOMAIN event /\ \A x \in DOMAIN event : x # e => (Waits(x)' <=> Waits(x))
  BY HandlingWaits
<1>2. \A x \in DOMAIN event :
         /\ x \in DOMAIN event'
         /\ Waits(x) => \/ Waits(x)'
                        \/ x.ref = ref /\ (TakesBack(x) => checkout'[ref].status \in TakenBack)
  BY <1>1
<1>3. \A x \in DOMAIN event' : x \in DOMAIN event
  BY <1>1
<1> QED
  BY <1>2, <1>3, CheckoutStep

\* The sandbox tells of no dispute and of no refund at the provider.
LEMMA SandboxTells == MoneyInv /\ Sandbox => ~Paystack /\ \A e \in DOMAIN event : ~TakesBack(e)
  BY DEF MoneyInv, EventSound, Sandbox, Paystack

\* A payment that is taken back ends the access that it gives.
LEMMA ReverseMoney ==
  ASSUME MoneyInv, Sandbox, UNCHANGED <<now, workload, payment, remote>>, NEW e \in DOMAIN event,
         ReversePayment(e, checkout[e.ref]), EventBecomes(e, "PROCESSED")
  PROVE  MoneyInv'
<1>0. /\ MoneyTyped /\ SubscriptionSound /\ CheckoutSound(e.ref) /\ e.ref \in Refs
      /\ checkout[e.ref] \in CheckoutRow /\ now \in Nat \ {0}
  BY MoneyRows DEF MoneyInv
<1>1. PICK ref \in Refs : ref = e.ref
  BY <1>0
<1>2. PICK c \in CheckoutRow : c = checkout[ref]
  BY <1>0, <1>1
<1>3. PICK s \in SubscriptionRow : s = subscription
  BY <1>0 DEF MoneyTyped
<1>4. c.sandbox \in Reversals /\ c.sandboxAt \in Nat
  BY <1>1, <1>2 DEF ReversePayment, CheckoutRow
<1>5. PICK row : row = [c EXCEPT !.status = c.sandbox]
  OBVIOUS
<1>6. /\ row \in CheckoutRow /\ row.status = c.sandbox /\ row.settled = c.settled
      /\ row.sandbox = c.sandbox /\ row.sandboxAt = c.sandboxAt /\ row.sequence = c.sequence
      /\ row.plan = c.plan
  BY <1>4, <1>5 DEF CheckoutRow, Reversals, TakenBack
<1>7. checkout' = [checkout EXCEPT ![ref] = row]
  <2>1. checkout' = [checkout EXCEPT ![ref].status = c.sandbox]
    BY <1>1, <1>2 DEF ReversePayment
  <2> QED
    BY <1>0, <1>2, <1>5, <2>1 DEF MoneyTyped
<1>8. checkout'[ref] = row /\ \A r \in Refs : r # ref => checkout'[r] = checkout[r]
  BY <1>0, <1>7 DEF MoneyTyped
<1>9. /\ subscription' \in SubscriptionRow /\ Quiet
      /\ subscription'.state \in {"ACTIVE", "PAST_DUE"} => subscription.entitlement # ref
  <2>1. subscription' = IF s.entitlement = ref
                        THEN [s EXCEPT !.state = "SUSPENDED", !.lastEvent = c.sandboxAt] ELSE s
    BY <1>1, <1>2, <1>3 DEF ReversePayment
  <2>2. CASE s.entitlement = ref
    BY <1>3, <1>4, <2>1, <2>2 DEF Quiet, SubscriptionRow, States
  <2>3. CASE s.entitlement # ref
    BY <1>3, <2>1, <2>3 DEF Quiet
  <2> QED
    BY <2>2, <2>3
<1>10. MoneyTyped'
  <2>1. DOMAIN event' = DOMAIN event
    BY HandlingWaits
  <2> QED
    BY <1>0, <1>6, <1>7, <1>9, <2>1, MoneyTypes
<1>11. SubscriptionSound'
  <2>1. SettledStays
    BY <1>2, <1>6, <1>8 DEF SettledStays
  <2>2. subscription.entitlement \in Refs \cup {Nobody}
    BY <1>0 DEF MoneyTyped, SubscriptionRow
  <2>3. subscription'.state \in {"ACTIVE", "PAST_DUE"}
          => checkout'[subscription.entitlement] = checkout[subscription.entitlement]
    BY <1>0, <1>8, <1>9, <2>2 DEF SubscriptionSound, Quiet
  <2> QED
    BY <1>0, <1>9, <2>1, <2>3, SubscriptionStays
<1>12. CheckoutSound(ref)'
  BY <1>0, <1>1, <1>2, <1>4, <1>6, <1>8 DEF CheckoutSound, Sandbox, Reversals, TakenBack
<1>13. checkout'[ref].status \in TakenBack /\ checkout[ref].sequence <= checkout'[ref].sequence
  BY <1>2, <1>4, <1>6, <1>8 DEF CheckoutRow, TakenBack, Reversals
<1> QED
  BY <1>1, <1>8, <1>10, <1>11, <1>12, <1>13, SandboxTells, HandledMoney

\* A payment fails: access goes on for the days of grace.
LEMMA FailMoney ==
  ASSUME MoneyInv, Sandbox, UNCHANGED <<now, workload, payment, remote>>, NEW e \in DOMAIN event,
         FailPayment(e, checkout[e.ref]), EventBecomes(e, "PROCESSED")
  PROVE  MoneyInv'
<1>0. /\ MoneyTyped /\ SubscriptionSound /\ CheckoutSound(e.ref) /\ e.ref \in Refs
      /\ checkout[e.ref] \in CheckoutRow /\ now \in Nat \ {0}
  BY MoneyRows DEF MoneyInv
<1>1. PICK ref \in Refs : ref = e.ref
  BY <1>0
<1>2. PICK c \in CheckoutRow : c = checkout[ref]
  BY <1>0, <1>1
<1>3. PICK s \in SubscriptionRow : s = subscription
  BY <1>0 DEF MoneyTyped
<1>4. /\ c.sandbox = "FAILED" /\ c.status \notin TakenBack \cup {"SUCCEEDED"} /\ c.settled = 0
      /\ c.sandboxAt \in Nat
  BY <1>0, <1>1, <1>2 DEF FailPayment, Outdated, Reversals, TakenBack, CheckoutSound, CheckoutRow
<1>5. PICK row : row = [c EXCEPT !.status = "FAILED"]
  OBVIOUS
<1>6. /\ row \in CheckoutRow /\ row.status = "FAILED" /\ row.settled = c.settled /\ row.plan = c.plan
      /\ row.sandbox = c.sandbox /\ row.sandboxAt = c.sandboxAt /\ row.sequence = c.sequence
  BY <1>5 DEF CheckoutRow
<1>7. checkout' = [checkout EXCEPT ![ref] = row]
  <2>1. checkout' = [checkout EXCEPT ![ref].status = "FAILED"]
    BY <1>1, <1>2 DEF FailPayment
  <2> QED
    BY <1>0, <1>2, <1>5, <2>1 DEF MoneyTyped
<1>8. checkout'[ref] = row /\ \A r \in Refs : r # ref => checkout'[r] = checkout[r]
  BY <1>0, <1>7 DEF MoneyTyped
<1>9. SettledStays
  BY <1>2, <1>6, <1>8 DEF SettledStays
<1>10. s.state \in {"ACTIVE", "PAST_DUE"} =>
         checkout'[subscription.entitlement].status = "SUCCEEDED"
  <2>1. subscription.entitlement \in Refs \cup {Nobody}
    BY <1>0 DEF MoneyTyped, SubscriptionRow
  <2> QED
    BY <1>0, <1>2, <1>3, <1>4, <1>8, <2>1 DEF SubscriptionSound
<1>11. subscription' \in SubscriptionRow /\ SubscriptionSound'
  <2>1. CASE s.state \in {"ACTIVE", "PAST_DUE"} /\ s.periodEnds # 0
    <3>1. PICK until \in Nat : until = s.periodEnds + Grace
      BY BillingBounds DEF SubscriptionRow
    <3>2. subscription' = [s EXCEPT !.state = "PAST_DUE", !.lastEvent = c.sandboxAt,
                                    !.graceEnds = until]
      BY <1>1, <1>2, <1>3, <2>1, <3>1 DEF FailPayment
    <3>3. /\ subscription' \in SubscriptionRow /\ subscription'.state = "PAST_DUE"
          /\ subscription'.periodEnds = s.periodEnds /\ subscription'.graceEnds = until
          /\ subscription'.entitlement = s.entitlement /\ subscription'.plan = s.plan
      BY <1>4, <3>2 DEF SubscriptionRow, States
    <3> QED
      BY <1>0, <1>3, <1>9, <1>10, <2>1, <3>1, <3>3, GraceGiven
  <2>2. CASE ~(s.state \in {"ACTIVE", "PAST_DUE"} /\ s.periodEnds # 0)
    <3>1. subscription' = [s EXCEPT !.lastEvent = c.sandboxAt]
      BY <1>1, <1>2, <1>3, <2>2 DEF FailPayment
    <3>2. subscription' \in SubscriptionRow /\ Quiet /\ subscription'.state = s.state
      BY <1>3, <1>4, <3>1 DEF SubscriptionRow, Quiet
    <3> QED
      BY <1>0, <1>9, <1>10, <3>2, SubscriptionStays
  <2> QED
    BY <2>1, <2>2
<1>12. MoneyTyped'
  <2>1. DOMAIN event' = DOMAIN event
    BY HandlingWaits
  <2> QED
    BY <1>0, <1>6, <1>7, <1>11, <2>1, MoneyTypes
<1>13. CheckoutSound(ref)'
  BY <1>0, <1>1, <1>2, <1>4, <1>6, <1>8 DEF CheckoutSound, Sandbox, Reversals, TakenBack
<1>14. checkout[ref].status \notin TakenBack /\ checkout[ref].sequence <= checkout'[ref].sequence
  BY <1>2, <1>4, <1>6, <1>8 DEF CheckoutRow
<1> QED
  BY <1>1, <1>8, <1>9, <1>11, <1>12, <1>13, <1>14, SandboxTells, HandledMoney DEF SettledStays

\* An event changes nothing but itself.
LEMMA EventOnlyMoney ==
  ASSUME MoneyInv, UNCHANGED <<workload, payment, remote>>, UNCHANGED <<tenantVars, checkout>>,
         NEW e \in DOMAIN event, NEW status,
         EventBecomes(e, status) \/ (RetryEvent(e) /\ status = "PENDING"),
         status \in {"PENDING", "FAILED"} \/ Passes(e)
  PROVE  MoneyInv'
<1>1. /\ DOMAIN event' = DOMAIN event
      /\ \A x \in DOMAIN event : x # e => (Waits(x)' <=> Waits(x))
      /\ status \in {"PENDING", "FAILED"} => Waits(e)'
  BY HandlingWaits
<1>2. MoneyTyped /\ UNCHANGED <<now, subscription, checkout, payment>>
  BY DEF MoneyInv, tenantVars
<1>3. MoneyTyped'
  BY <1>1, <1>2 DEF MoneyTyped
<1>4. now <= now' /\ Quiet
  BY <1>2 DEF MoneyTyped, Quiet
<1>5. /\ \A x \in DOMAIN event : x \in DOMAIN event' /\ (Waits(x) => Waits(x)' \/ Passes(x))
      /\ \A x \in DOMAIN event' : x \in DOMAIN event
  BY <1>1
<1> QED
  BY <1>3, <1>4, <1>5, QuietStep

\* The sandbox, and what handles its events.
LEMMA SandboxMoney ==
  ASSUME MoneyInv, Sandbox, UNCHANGED <<workload, payment, remote>>, NEW e \in DOMAIN event,
         ProcessSandboxEvent(e)
  PROVE  MoneyInv'
<1> DEFINE c == checkout[e.ref]
<1>1. CASE SettlePayment(e, c) /\ EventBecomes(e, "PROCESSED") /\ UNCHANGED now
  BY <1>1, SettleMoney
<1>2. CASE ReversePayment(e, c) /\ EventBecomes(e, "PROCESSED") /\ UNCHANGED now
  BY <1>2, ReverseMoney
<1>3. CASE FailPayment(e, c) /\ EventBecomes(e, "PROCESSED") /\ UNCHANGED now
  BY <1>3, FailMoney
<1>4. CASE /\ Outdated(c) \/ (c.sandbox \in {"SUCCEEDED", "FAILED"} /\ c.status = "SUCCEEDED")
           /\ EventBecomes(e, "IGNORED") /\ UNCHANGED <<tenantVars, checkout>>
  <2>1. Passes(e)
    BY <1>4, SandboxTells DEF Passes, Outdated, Reversals
  <2> QED
    BY <1>4, <2>1, EventOnlyMoney
<1>5. CASE RejectEvent(e)
  BY <1>5, EventOnlyMoney DEF RejectEvent
<1> QED
  BY <1>1, <1>2, <1>3, <1>4, <1>5 DEF ProcessSandboxEvent

\* An operator has a checkout looked up.
LEMMA ReconcileMoney ==
  ASSUME MoneyInv, UNCHANGED <<workload, payment, remote>>, NEW k \in Checkouts, Reconcile(k)
  PROVE  MoneyInv'
<1>1. PICK new : new = Notice("reconcile", Ref(k))
  OBVIOUS
<1>2. /\ new.kind = "reconcile" /\ new \in [kind : EventKinds, ref : Refs, sequence : Nat]
      /\ NewSound(new)
  BY <1>1, RefsOfCheckouts DEF Notice, EventKinds, NewSound, TakesBack
<1>3. /\ MoneyTyped /\ UNCHANGED <<now, subscription, checkout>> /\ Store({new})
      /\ new \notin DOMAIN event
  BY <1>1 DEF MoneyInv, tenantVars, Reconcile
<1>4. /\ DOMAIN event' = DOMAIN event \cup {new} /\ Waits(new)'
      /\ \A x \in DOMAIN event : Waits(x)' <=> Waits(x)
  BY <1>3, StoreWaits
<1>5. MoneyTyped'
  BY <1>2, <1>3, <1>4 DEF MoneyTyped
<1>6. now <= now' /\ Quiet
  BY <1>3 DEF MoneyTyped, Quiet
<1> QED
  BY <1>2, <1>3, <1>4, <1>5, <1>6, QuietStep

\* A cancellation under the sandbox.
LEMMA CancelMoney ==
  ASSUME MoneyInv, UNCHANGED <<workload, payment, remote>>, CancelSubscription
  PROVE  MoneyInv'
<1>1. MoneyTyped /\ UNCHANGED <<now, checkout, event>> /\ Canceled
  BY DEF MoneyInv, CancelSubscription, billingVars
<1>2. Quiet /\ subscription' \in SubscriptionRow
  BY <1>1, CanceledQuiet
<1>3. MoneyTyped' /\ now <= now'
  BY <1>1, <1>2 DEF MoneyTyped
<1>4. \A e \in DOMAIN event : Waits(e) => Waits(e)'
  BY <1>1 DEF Waits
<1> QED
  BY <1>1, <1>2, <1>3, <1>4, QuietStep

-----------------------------------------------------------------------------
(* The provider *)

\* The provider tells of what it does, and checkouts wait for that.
LEMMA ProviderStep ==
  ASSUME MoneyInv, UNCHANGED <<now, checkout, workload>>, Quiet, subscription' \in SubscriptionRow,
         payment' \in [Refs -> PaymentRow], NEW ids, Store(ids),
         \A e \in ids : NewSound(e) /\ e \in [kind : EventKinds, ref : Refs, sequence : Nat],
         \A r \in Refs : PaymentSound(r)', RemoteSound'
  PROVE  MoneyInv'
<1>0. MoneyTyped /\ SubscriptionSound
  BY DEF MoneyInv
<1>1. /\ DOMAIN event' = DOMAIN event \cup ids
      /\ \A e \in DOMAIN event : Waits(e)' <=> Waits(e)
      /\ \A e \in ids : e \in DOMAIN event \/ Waits(e)'
  BY StoreWaits
<1>2. MoneyTyped' /\ now <= now'
  BY <1>0, <1>1 DEF MoneyTyped
<1>3. SubscriptionSound'
  BY <1>0, SubscriptionStays DEF SettledStays
<1>4. /\ \A e \in DOMAIN event : e \in DOMAIN event' /\ (Waits(e) => Waits(e)')
      /\ \A e \in DOMAIN event' : e \in DOMAIN event \/ (Waits(e)' /\ NewSound(e))
  BY <1>1
<1> QED
  BY <1>2, <1>3, <1>4, EventStep

\* What the provider says of a payment changes, and the due dates of paid invoices stay.
LEMMA PaymentChanges ==
  ASSUME MoneyInv, UNCHANGED <<now, checkout, workload>>, payment' \in [Refs -> PaymentRow],
         NEW ref \in Refs, \A r \in Refs : r # ref => payment'[r] = payment[r],
         payment[ref].status # "PENDING" => payment'[ref].at = payment[ref].at,
         payment'[ref].status # "PENDING", payment'[ref].at # 0, payment'[ref].at <= now,
         ref[2] # 0 => payment[Ref(ref[1])].status # "PENDING" /\ Due(ref) <= payment'[ref].at
  PROVE  \A r \in Refs : PaymentSound(r)'
<1> SUFFICES ASSUME NEW r \in Refs PROVE PaymentSound(r)'
  OBVIOUS
<1>0. MoneyTyped /\ PaymentSound(r) /\ PaymentSound(ref) /\ now' = now
  BY DEF MoneyInv
<1>1. r[1] \in Checkouts /\ ref[1] \in Checkouts /\ Ref(r[1]) \in Refs /\ Ref(ref[1]) \in Refs
  BY RefsOfCheckouts DEF Refs
<1>2. \A k \in Checkouts : payment[Ref(k)].status # "PENDING" =>
        payment'[Ref(k)].status # "PENDING" /\ payment'[Ref(k)].at = payment[Ref(k)].at
  BY RefsOfCheckouts
<1>3. r[2] # 0 /\ payment'[r].status # "PENDING" =>
        payment[Ref(r[1])].status # "PENDING" /\ Due(r) <= payment'[r].at
  BY <1>0 DEF PaymentSound
<1>4. r[2] # 0 /\ payment'[r].status # "PENDING" =>
        payment'[Ref(r[1])].status # "PENDING" /\ Due(r)' <= payment'[r].at
  BY <1>1, <1>2, <1>3 DEF Due
<1>5. Paystack' /\ checkout'[r].settled # 0 =>
        payment'[r].status # "PENDING" /\ checkout'[r].settled = payment'[r].at
  BY <1>0 DEF PaymentSound, Paystack
<1>6. payment'[r].at <= now' /\ (payment'[r].status # "PENDING" => payment'[r].at # 0)
  BY <1>0 DEF PaymentSound
<1> QED
  BY <1>4, <1>5, <1>6 DEF PaymentSound

\* An event that the provider tells.
LEMMA FirstNotice ==
  ASSUME Paystack, NEW kind \in EventKinds \ {"sandbox"}, NEW r \in Refs, kind = "paid" => r[2] # 0
  PROVE  NewSound(Notice(kind, r)) /\ Notice(kind, r) \in [kind : EventKinds, ref : Refs, sequence : Nat]
<1>1. PICK e : e = Notice(kind, r)
  OBVIOUS
<1>2. e.kind = kind /\ e.ref = r /\ e \in [kind : EventKinds, ref : Refs, sequence : Nat]
  BY <1>1 DEF Notice
<1>3. NewSound(e)
  BY <1>2 DEF NewSound
<1> QED
  BY <1>1, <1>2, <1>3

\* A checkout is paid.
LEMMA PayMoney ==
  ASSUME MoneyInv, Paystack, UNCHANGED workload, NEW k \in Checkouts, Pay(k)
  PROVE  MoneyInv'
<1>1. PICK ref \in Refs : ref = Ref(k)
  BY RefsOfCheckouts
<1>2. PICK p \in PaymentRow : p = [status |-> "SUCCEEDED", at |-> now]
  BY DEF MoneyInv, MoneyTyped, PaymentRow
<1>3. /\ UNCHANGED <<now, subscription, checkout>> /\ payment' = [payment EXCEPT ![ref] = p]
      /\ remote' = [remote EXCEPT ![k] = "active"] /\ payment[ref].status = "PENDING"
      /\ Store({Notice("charge", ref), Notice("status", ref)})
  BY <1>1, <1>2 DEF Pay, tenantVars
<1>4. /\ MoneyTyped /\ RemoteSound /\ payment \in [Refs -> PaymentRow] /\ subscription \in SubscriptionRow
      /\ now \in Nat \ {0}
  BY DEF MoneyInv, MoneyTyped
<1>5. /\ payment' \in [Refs -> PaymentRow] /\ payment'[ref] = p
      /\ \A r \in Refs : r # ref => payment'[r] = payment[r]
  BY <1>3, <1>4
<1>6. p.status = "SUCCEEDED" /\ p.at = now /\ p.at # 0 /\ p.at <= now /\ ref[2] = 0
  BY <1>1, <1>2, <1>4 DEF Ref
<1>7. \A r \in Refs : PaymentSound(r)'
  BY <1>3, <1>5, <1>6, PaymentChanges
<1>8. RemoteSound'
  <2>1. remote' \in [Checkouts -> {"none"} \cup Running \cup Ending]
    BY <1>3, <1>4 DEF RemoteSound, Running
  <2>2. \A j \in Checkouts : remote'[j] \in Running => payment'[Ref(j)].status # "PENDING"
    <3> SUFFICES ASSUME NEW j \in Checkouts, remote'[j] \in Running
                 PROVE  payment'[Ref(j)].status # "PENDING"
      OBVIOUS
    <3>1. CASE j = k
      BY <1>1, <1>5, <1>6, <3>1
    <3>2. CASE j # k
      <4>1. Ref(j) # ref /\ Ref(j) \in Refs
        BY <1>1, <3>2, RefsOfCheckouts DEF Ref
      <4>2. remote'[j] = remote[j]
        BY <1>3, <1>4, <3>2 DEF RemoteSound
      <4> QED
        BY <1>4, <1>5, <4>1, <4>2 DEF RemoteSound
    <3> QED
      BY <3>1, <3>2
  <2> QED
    BY <2>1, <2>2 DEF RemoteSound
<1>9. Quiet
  BY <1>3 DEF Quiet
<1>10. \A e \in {Notice("charge", ref), Notice("status", ref)} :
         NewSound(e) /\ e \in [kind : EventKinds, ref : Refs, sequence : Nat]
  <2>1. {"charge", "status"} \subseteq EventKinds \ {"sandbox"}
    BY DEF EventKinds
  <2> QED
    BY <2>1, FirstNotice
<1> QED
  BY <1>3, <1>4, <1>5, <1>7, <1>8, <1>9, <1>10, ProviderStep

\* A renewal is paid when it is due, or fails.
LEMMA RenewMoney ==
  ASSUME MoneyInv, Paystack, UNCHANGED workload, NEW r \in Refs, Renew(r)
  PROVE  MoneyInv'
<1>0. /\ MoneyTyped /\ RemoteSound /\ payment \in [Refs -> PaymentRow] /\ now \in Nat \ {0}
      /\ UNCHANGED <<now, subscription, checkout>> /\ r[2] # 0 /\ r[1] \in Checkouts
      /\ Ref(r[1]) \in Refs /\ Ref(r[1]) # r /\ remote[r[1]] \in Running
      /\ payment[r].status = "PENDING" /\ Due(r) <= now /\ payment[Ref(r[1])].status # "PENDING"
  <2>1. MoneyTyped /\ RemoteSound /\ r[1] \in Checkouts
    BY DEF MoneyInv, Refs
  <2>2. /\ UNCHANGED <<now, subscription, checkout>> /\ r[2] # 0 /\ remote[r[1]] \in Running
        /\ payment[r].status = "PENDING" /\ Due(r) <= now
    BY DEF Renew, tenantVars
  <2>3. Ref(r[1]) \in Refs /\ Ref(r[1])[2] = 0
    BY <2>1, RefsOfCheckouts DEF Ref
  <2> QED
    BY <2>1, <2>2, <2>3 DEF RemoteSound, MoneyTyped
<1>1. Quiet /\ subscription' \in SubscriptionRow
  BY <1>0 DEF Quiet, MoneyTyped
<1>2. {"paid", "unpaid"} \subseteq EventKinds \ {"sandbox"}
  BY DEF EventKinds
<1>3. ASSUME NEW status \in Running, remote' = [remote EXCEPT ![r[1]] = status],
             \A q \in Refs : q # r => payment'[q] = payment[q]
      PROVE  RemoteSound'
  <2>1. remote' \in [Checkouts -> {"none"} \cup Running \cup Ending]
    BY <1>0, <1>3 DEF RemoteSound
  <2>2. \A j \in Checkouts : remote'[j] \in Running => payment'[Ref(j)].status # "PENDING"
    <3> SUFFICES ASSUME NEW j \in Checkouts, remote'[j] \in Running
                 PROVE  payment'[Ref(j)].status # "PENDING"
      OBVIOUS
    <3>1. Ref(j) \in Refs /\ Ref(j) # r
      BY <1>0, RefsOfCheckouts DEF Ref
    <3>2. payment'[Ref(j)] = payment[Ref(j)]
      BY <1>3, <3>1
    <3>3. j # r[1] => remote'[j] = remote[j]
      BY <1>0, <1>3 DEF RemoteSound
    <3> QED
      BY <1>0, <3>2, <3>3 DEF RemoteSound
  <2> QED
    BY <2>1, <2>2 DEF RemoteSound
<1>4. CASE /\ payment' = [payment EXCEPT ![r] = [status |-> "SUCCEEDED", at |-> now]]
           /\ remote' = [remote EXCEPT ![r[1]] = "active"]
           /\ Store({Notice("paid", r)})
  <2>1. PICK p \in PaymentRow : p = [status |-> "SUCCEEDED", at |-> now]
    BY <1>0 DEF PaymentRow
  <2>2. p.status = "SUCCEEDED" /\ p.at = now /\ p.at # 0 /\ p.at <= now
    BY <1>0, <2>1
  <2>3. /\ payment' \in [Refs -> PaymentRow] /\ payment'[r] = p
        /\ \A q \in Refs : q # r => payment'[q] = payment[q]
    BY <1>0, <1>4, <2>1
  <2>4. \A q \in Refs : PaymentSound(q)'
    BY <1>0, <2>2, <2>3, PaymentChanges
  <2>5. RemoteSound'
    BY <1>3, <1>4, <2>3 DEF Running
  <2>6. \A e \in {Notice("paid", r)} :
          NewSound(e) /\ e \in [kind : EventKinds, ref : Refs, sequence : Nat]
    BY <1>0, <1>2, FirstNotice
  <2> QED
    BY <1>0, <1>1, <1>4, <2>3, <2>4, <2>5, <2>6, ProviderStep
<1>5. CASE /\ remote' = [remote EXCEPT ![r[1]] = "attention"]
           /\ Store({Notice("unpaid", r)}) /\ UNCHANGED payment
  <2>1. \A q \in Refs : PaymentSound(q)'
    BY <1>0, <1>5 DEF MoneyInv, PaymentSound, Paystack, Due
  <2>2. RemoteSound'
    BY <1>3, <1>5 DEF Running
  <2>3. \A e \in {Notice("unpaid", r)} :
          NewSound(e) /\ e \in [kind : EventKinds, ref : Refs, sequence : Nat]
    BY <1>2, FirstNotice
  <2> QED
    BY <1>0, <1>1, <1>5, <2>1, <2>2, <2>3, ProviderStep
<1> QED
  BY <1>4, <1>5 DEF Renew

\* What the provider tells while payments stay.
LEMMA TellMoney ==
  ASSUME MoneyInv, UNCHANGED <<now, checkout, workload, payment>>, Quiet,
         subscription' \in SubscriptionRow, RemoteSound', NEW ids, Store(ids),
         \A e \in ids : NewSound(e) /\ e \in [kind : EventKinds, ref : Refs, sequence : Nat]
  PROVE  MoneyInv'
<1>1. payment' \in [Refs -> PaymentRow]
  BY DEF MoneyInv, MoneyTyped
<1>2. \A q \in Refs : PaymentSound(q)'
  BY DEF MoneyInv, PaymentSound, Paystack, Due
<1> QED
  BY <1>1, <1>2, ProviderStep

\* An invoice is told of again.
LEMMA RepeatMoney ==
  ASSUME MoneyInv, Paystack, UNCHANGED workload, NEW r \in Refs, Repeat(r)
  PROVE  MoneyInv'
<1>1. PICK again : again = [Notice("paid", r) EXCEPT !.sequence = 1]
  OBVIOUS
<1>2. /\ UNCHANGED <<now, subscription, checkout, payment, remote>> /\ Store({again})
      /\ Notice("paid", r) \in DOMAIN event
  BY <1>1 DEF Repeat, tenantVars, paystackVars
<1>3. Quiet /\ subscription' \in SubscriptionRow /\ RemoteSound'
  BY <1>2 DEF Quiet, MoneyInv, MoneyTyped, RemoteSound
<1>4. r[2] # 0
  <2>1. Notice("paid", r).kind = "paid" /\ Notice("paid", r).ref = r
    BY DEF Notice
  <2> QED
    BY <1>2, <2>1 DEF MoneyInv, EventSound
<1>5. again.kind = "paid" /\ again.ref = r /\ again \in [kind : EventKinds, ref : Refs, sequence : Nat]
  BY <1>1 DEF Notice, EventKinds
<1>6. NewSound(again)
  BY <1>4, <1>5 DEF NewSound, TakesBack
<1> QED
  BY <1>2, <1>3, <1>5, <1>6, TellMoney

\* A payment is taken back at the provider.
LEMMA TakeBackMoney ==
  ASSUME MoneyInv, Paystack, UNCHANGED workload, NEW r \in Refs, NEW kind, TakeBack(r, kind)
  PROVE  MoneyInv'
<1>0. /\ MoneyTyped /\ RemoteSound /\ payment \in [Refs -> PaymentRow]
      /\ UNCHANGED <<now, subscription, checkout, remote>> /\ kind \in {"refund", "dispute"}
      /\ payment[r].status = "SUCCEEDED" /\ PaymentSound(r) /\ Store({Notice(kind, r)})
  BY DEF MoneyInv, MoneyTyped, TakeBack, tenantVars
<1>1. Quiet /\ subscription' \in SubscriptionRow
  BY <1>0 DEF Quiet, MoneyTyped
<1>2. PICK p \in PaymentRow : p = payment[r]
  BY <1>0
<1>3. PICK s \in {"SUCCEEDED", "REFUNDED"} :
        payment' = [payment EXCEPT ![r].status = s]
  BY <1>0 DEF TakeBack
<1>4. PICK q \in PaymentRow : q = [p EXCEPT !.status = s] /\ q.status = s /\ q.at = p.at
  <2> DEFINE q == [p EXCEPT !.status = s]
  <2>1. q \in PaymentRow /\ q.status = s /\ q.at = p.at
    BY DEF PaymentRow
  <2> QED
    BY <2>1
<1>5. /\ payment' \in [Refs -> PaymentRow] /\ payment'[r] = q
      /\ \A x \in Refs : x # r => payment'[x] = payment[x]
  BY <1>0, <1>2, <1>3, <1>4
<1>6. \A x \in Refs : PaymentSound(x)'
  <2>1. p.at # 0 /\ p.at <= now
    BY <1>0, <1>2 DEF PaymentSound
  <2>2. r[2] # 0 => payment[Ref(r[1])].status # "PENDING" /\ Due(r) <= p.at
    BY <1>0, <1>2 DEF PaymentSound
  <2> QED
    BY <1>0, <1>2, <1>4, <1>5, <2>1, <2>2, PaymentChanges
<1>7. RemoteSound'
  <2>1. \A x \in Refs : payment[x].status # "PENDING" => payment'[x].status # "PENDING"
    BY <1>4, <1>5
  <2> QED
    BY <1>0, <2>1, RefsOfCheckouts DEF RemoteSound
<1>8. \A e \in {Notice(kind, r)} :
        NewSound(e) /\ e \in [kind : EventKinds, ref : Refs, sequence : Nat]
  <2>1. kind \in EventKinds \ {"sandbox"} /\ kind # "paid"
    BY <1>0 DEF EventKinds
  <2> QED
    BY <2>1, FirstNotice
<1> QED
  BY <1>0, <1>1, <1>5, <1>6, <1>7, <1>8, ProviderStep

\* A subscription ends at the provider, and the tenant's may be canceled with it.
LEMMA RetireMoney ==
  ASSUME MoneyInv, Paystack, UNCHANGED <<now, checkout, workload, payment>>, Quiet,
         subscription' \in SubscriptionRow, NEW k \in Checkouts, NEW status \in Ending,
         Retire(k, status)
  PROVE  MoneyInv'
<1>1. PICK n \in Nat : n = IF status \in Ended THEN 2 ELSE 1
  OBVIOUS
<1>2. PICK new : new = [Notice("status", Ref(k)) EXCEPT !.sequence = n]
  OBVIOUS
<1>3. Store({new}) /\ remote' = [remote EXCEPT ![k] = status]
  BY <1>1, <1>2 DEF Retire
<1>4. new.kind = "status" /\ new \in [kind : EventKinds, ref : Refs, sequence : Nat]
  BY <1>2, RefsOfCheckouts DEF Notice, EventKinds
<1>5. NewSound(new)
  BY <1>4 DEF NewSound, TakesBack
<1>6. RemoteSound'
  <2>1. RemoteSound /\ status \notin Running
    BY DEF MoneyInv, Running, Ending, Ended
  <2> QED
    BY <1>3, <2>1 DEF RemoteSound
<1> QED
  BY <1>3, <1>4, <1>5, <1>6, TellMoney

LEMMA EndRemoteMoney ==
  ASSUME MoneyInv, Paystack, UNCHANGED workload, NEW k \in Checkouts, EndRemote(k)
  PROVE  MoneyInv'
<1>1. UNCHANGED <<now, subscription, checkout, payment>>
  BY DEF EndRemote, tenantVars
<1>2. Quiet /\ subscription' \in SubscriptionRow
  BY <1>1 DEF Quiet, MoneyInv, MoneyTyped
<1>3. PICK status \in Ending : Retire(k, status)
  BY DEF EndRemote, Ending, Ended
<1> QED
  BY <1>1, <1>2, <1>3, RetireMoney

\* A cancellation that the provider confirms, or does not.
LEMMA CancelPaystackMoney ==
  ASSUME MoneyInv, Paystack, UNCHANGED workload, CancelPaystack
  PROVE  MoneyInv'
<1>1. UNCHANGED <<now, checkout, payment>> /\ MoneyTyped /\ RemoteSound
  BY DEF CancelPaystack, MoneyInv
<1>2. Canceled \/ UNCHANGED subscription => Quiet /\ subscription' \in SubscriptionRow
  <2>1. UNCHANGED subscription => Quiet /\ subscription' \in SubscriptionRow
    BY <1>1 DEF Quiet, MoneyTyped
  <2> QED
    BY <1>1, <2>1, CanceledQuiet
<1>3. CASE Canceled /\ UNCHANGED <<event, remote>>
  <2>1. MoneyTyped' /\ now <= now'
    BY <1>1, <1>2, <1>3 DEF MoneyTyped
  <2>2. \A e \in DOMAIN event : Waits(e) => Waits(e)'
    BY <1>3 DEF Waits
  <2> QED
    BY <1>1, <1>2, <1>3, <2>1, <2>2, QuietStep
<1>4. CASE /\ subscription.remote # Nobody /\ Retire(subscription.remote, "non-renewing")
           /\ Canceled \/ UNCHANGED subscription
  <2>1. PICK k \in Checkouts : k = subscription.remote
    BY <1>1, <1>4 DEF MoneyTyped, SubscriptionRow
  <2>2. Retire(k, "non-renewing") /\ "non-renewing" \in Ending
    BY <1>4, <2>1 DEF Ending
  <2> QED
    BY <1>1, <1>2, <1>4, <2>2, RetireMoney
<1> QED
  BY <1>3, <1>4 DEF CancelPaystack

-----------------------------------------------------------------------------
(* The provider's events *)

LEMMA PaystackTells ==
  MoneyInv /\ Paystack => ~Sandbox /\ \A r \in Refs : checkout[r].sandbox = "PENDING"
  BY DEF MoneyInv, CheckoutSound, Sandbox, Paystack

\* An event is handled and changes no checkout.
LEMMA HandledQuietly ==
  ASSUME MoneyInv, Paystack, UNCHANGED <<now, checkout, payment, remote, workload>>,
         subscription' \in SubscriptionRow, Quiet \/ SubscriptionSound',
         NEW e \in DOMAIN event, NEW status, EventBecomes(e, status), ~TakesBack(e)
  PROVE  MoneyInv'
<1>1. /\ DOMAIN event' = DOMAIN event
      /\ \A x \in DOMAIN event : x # e => (Waits(x)' <=> Waits(x))
  BY HandlingWaits
<1>2. MoneyTyped /\ SubscriptionSound /\ RemoteSound /\ e.ref \in Refs
  BY DEF MoneyInv, MoneyTyped
<1>3. MoneyTyped' /\ now <= now'
  BY <1>1, <1>2 DEF MoneyTyped
<1>4. SubscriptionSound'
  BY <1>2, SubscriptionStays DEF SettledStays
<1>5. Passes(e)
  BY <1>2, PaystackTells DEF Passes, Reversals
<1>6. \A r \in Refs : PaymentSound(r)'
  BY DEF MoneyInv, PaymentSound, Paystack, Due
<1>7. RemoteSound'
  BY <1>2 DEF RemoteSound
<1>8. /\ \A x \in DOMAIN event : x \in DOMAIN event' /\ (Waits(x) => Waits(x)' \/ Passes(x))
      /\ \A x \in DOMAIN event' : x \in DOMAIN event
  BY <1>1, <1>5
<1> QED
  BY <1>3, <1>4, <1>6, <1>7, <1>8, EventStep

\* A payment is settled, of a checkout or of an invoice.
LEMMA SettledMoney ==
  ASSUME MoneyInv, Paystack, UNCHANGED <<now, workload, payment, remote>>,
         NEW e \in DOMAIN event, EventBecomes(e, "PROCESSED"), ~TakesBack(e),
         NEW ref \in Refs, ref = e.ref, checkout[ref].status \notin TakenBack,
         payment[ref].status = "SUCCEEDED",
         NEW row \in CheckoutRow, checkout' = [checkout EXCEPT ![ref] = row],
         row.status = "SUCCEEDED", row.settled = payment[ref].at, row.sandbox = "PENDING",
         row.sandboxAt \in {0, checkout[ref].sandboxAt},
         subscription' \in SubscriptionRow,
         \/ Quiet
         \/ /\ subscription'.state = "ACTIVE" /\ subscription'.entitlement = ref
            /\ \E from \in Nat : from <= payment[ref].at /\ subscription'.periodEnds = from + Period
  PROVE  MoneyInv'
<1>0. /\ MoneyTyped /\ CheckoutSound(ref) /\ PaymentSound(ref) /\ now \in Nat \ {0}
      /\ checkout[ref] \in CheckoutRow /\ payment[ref] \in PaymentRow
  BY MoneyRows DEF MoneyInv
<1>1. row.settled # 0 /\ row.settled <= now /\ checkout[ref].settled \in {0, row.settled}
  BY <1>0 DEF PaymentSound, CheckoutSound, PaymentRow
<1>2. checkout'[ref] = row /\ \A r \in Refs : r # ref => checkout'[r] = checkout[r]
  BY <1>0 DEF MoneyTyped
<1>3. MoneyTyped'
  <2>1. DOMAIN event' = DOMAIN event
    BY HandlingWaits
  <2> QED
    BY <1>0, <2>1, MoneyTypes
<1>4. SubscriptionSound'
  <2>1. CASE Quiet
    BY <1>1, <1>2, <1>3, <2>1, SettledQuietly
  <2>2. CASE /\ subscription'.state = "ACTIVE" /\ subscription'.entitlement = ref
             /\ \E from \in Nat :
                  from <= payment[ref].at /\ subscription'.periodEnds = from + Period
    <3>1. PICK from \in Nat : from <= payment[ref].at /\ subscription'.periodEnds = from + Period
      BY <2>2
    <3> QED
      BY <1>1, <1>2, <1>3, <2>2, <3>1, EntitledOnce
  <2> QED
    BY <2>1, <2>2
<1>5. CheckoutSound(ref)'
  <2>1. ~Sandbox /\ ~Sandbox' /\ now' = now
    BY PaystackTells DEF Sandbox
  <2>2. row.sandboxAt <= now
    BY <1>0 DEF CheckoutSound
  <2>3. "PENDING" \notin Reversals
    BY DEF Reversals
  <2> QED
    BY <1>1, <1>2, <2>1, <2>2, <2>3 DEF CheckoutSound
<1> QED
  BY <1>2, <1>3, <1>4, <1>5, PaystackTells, HandledMoney

\* The payment of a checkout is confirmed.
LEMMA InitialMoney ==
  ASSUME MoneyInv, Paystack, UNCHANGED <<now, organization, user, workload, payment, remote>>,
         NEW e \in DOMAIN event, e.kind \in {"charge", "reconcile"}, InitialPayment(e)
  PROVE  MoneyInv'
<1>0. /\ MoneyTyped /\ e.ref \in Refs /\ checkout[e.ref] \in CheckoutRow
      /\ PaymentSound(e.ref) /\ payment[e.ref] \in PaymentRow /\ ~TakesBack(e)
  BY MoneyRows DEF MoneyInv, TakesBack
<1>1. CASE EventBecomes(e, "IGNORED") /\ UNCHANGED <<checkout, subscription>>
  <2>1. Quiet /\ subscription' \in SubscriptionRow
    BY <1>0, <1>1 DEF Quiet, MoneyTyped
  <2> QED
    BY <1>0, <1>1, <2>1, HandledQuietly
<1>2. CASE ~(EventBecomes(e, "IGNORED") /\ UNCHANGED <<checkout, subscription>>)
  <2>1. PICK ref \in Refs : ref = e.ref
    BY <1>0
  <2>2. PICK c \in CheckoutRow : c = checkout[ref]
    BY <1>0, <2>1
  <2>3. PICK s \in SubscriptionRow : s = subscription
    BY <1>0 DEF MoneyTyped
  <2>4. PICK at \in Nat : at = payment[ref].at
    BY <1>0, <2>1 DEF PaymentRow
  <2>5. PICK row : row = [c EXCEPT !.status = "SUCCEEDED", !.settled = at]
    OBVIOUS
  <2>6. /\ row \in CheckoutRow /\ row.status = "SUCCEEDED" /\ row.settled = at
        /\ row.sandbox = c.sandbox /\ row.sandboxAt = c.sandboxAt
    BY <2>5 DEF CheckoutRow
  <2>7. /\ c.status \notin TakenBack /\ payment[ref].status = "SUCCEEDED"
        /\ checkout' = Settled(ref) /\ EventBecomes(e, "PROCESSED")
    BY <1>2, <2>1, <2>2 DEF InitialPayment
  <2>8. checkout' = [checkout EXCEPT ![ref] = row]
    <3>1. checkout' = [checkout EXCEPT ![ref].status = "SUCCEEDED", ![ref].settled = at]
      BY <2>4, <2>7 DEF Settled
    <3> QED
      BY <1>0, <2>2, <2>5, <3>1 DEF MoneyTyped
  <2>9. /\ row.settled = payment[ref].at /\ row.sandbox = "PENDING"
        /\ row.sandboxAt \in {0, checkout[ref].sandboxAt} /\ checkout[ref].status \notin TakenBack
    BY <2>1, <2>2, <2>4, <2>6, <2>7, PaystackTells
  <2>10. CASE subscription' = subscription
    <3>1. Quiet /\ subscription' \in SubscriptionRow
      BY <1>0, <2>10 DEF Quiet, MoneyTyped
    <3> QED
      BY <1>0, <2>1, <2>6, <2>7, <2>8, <2>9, <3>1, SettledMoney
  <2>11. CASE subscription' # subscription
    <3>1. PICK until \in Nat : until = at + Period
      BY BillingBounds
    <3>2. PICK m : m = [s EXCEPT !.plan = c.plan, !.state = "ACTIVE", !.entitlement = ref,
                                 !.periodEnds = until, !.graceEnds = 0, !.cancelAtEnd = FALSE,
                                 !.canceledAt = 0]
      OBVIOUS
    <3>3. /\ m \in SubscriptionRow /\ m.state = "ACTIVE" /\ m.entitlement = ref
          /\ m.periodEnds = until
      BY <3>1, <3>2 DEF SubscriptionRow, States, CheckoutRow
    <3>4. subscription' = [m EXCEPT !.provider = "paystack_test", !.remote = Nobody, !.lastEvent = at]
      BY <1>2, <2>1, <2>2, <2>3, <2>4, <2>11, <3>1, <3>2 DEF InitialPayment, Entitled
    <3>5. /\ subscription' \in SubscriptionRow /\ subscription'.state = "ACTIVE"
          /\ subscription'.entitlement = ref /\ subscription'.periodEnds = until
      BY <3>3, <3>4 DEF SubscriptionRow
    <3>6. \E from \in Nat : from <= payment[ref].at /\ subscription'.periodEnds = from + Period
      BY <2>4, <3>1, <3>5
    <3> QED
      BY <1>0, <2>1, <2>6, <2>7, <2>8, <2>9, <3>5, <3>6, SettledMoney
  <2> QED
    BY <2>10, <2>11
<1> QED
  BY <1>1, <1>2

\* The status of the provider's subscription.
LEMMA StatusMoney ==
  ASSUME MoneyInv, Paystack, UNCHANGED <<now, workload, payment, remote>>,
         NEW e \in DOMAIN event, e.kind = "status", SubscriptionStatus(e)
  PROVE  MoneyInv'
<1>0. MoneyTyped /\ e.ref \in Refs /\ e.ref[1] \in Checkouts /\ ~TakesBack(e) /\ now \in Nat
  BY MoneyRows DEF MoneyInv, TakesBack, Refs
<1>1. PICK s \in SubscriptionRow : s = subscription
  BY <1>0 DEF MoneyTyped
<1>2. PICK k \in Checkouts : k = e.ref[1]
  BY <1>0
<1>3. Quiet /\ subscription' \in SubscriptionRow
  <2>1. CASE UNCHANGED subscription
    BY <1>1, <2>1 DEF Quiet
  <2>2. CASE ~UNCHANGED subscription
    <3>1. PICK ends \in BOOLEAN, at \in Nat :
            subscription' = [s EXCEPT !.remote = k, !.cancelAtEnd = ends, !.canceledAt = at]
      <4>1. subscription' = [s EXCEPT !.remote = k,
              !.cancelAtEnd = s.cancelAtEnd \/ remote[k] \in Ending,
              !.canceledAt = IF remote[k] \in Ending /\ s.canceledAt = 0 THEN now ELSE s.canceledAt]
        BY <1>1, <1>2, <2>2 DEF SubscriptionStatus
      <4>2. (s.cancelAtEnd \/ remote[k] \in Ending) \in BOOLEAN
        BY DEF SubscriptionRow
      <4>3. (IF remote[k] \in Ending /\ s.canceledAt = 0 THEN now ELSE s.canceledAt) \in Nat
        BY <1>0 DEF SubscriptionRow
      <4> QED
        BY Zenon, <4>1, <4>2, <4>3
    <3> QED
      BY <1>1, <3>1 DEF Quiet, SubscriptionRow
  <2> QED
    BY <2>1, <2>2
<1>4. PICK status \in {"IGNORED", "PROCESSED"} : EventBecomes(e, status)
  BY DEF SubscriptionStatus
<1>5. UNCHANGED checkout
  BY DEF SubscriptionStatus
<1> QED
  BY <1>0, <1>3, <1>4, <1>5, HandledQuietly

\* A renewal that fails: access goes on for the days of grace.
LEMMA UnpaidMoney ==
  ASSUME MoneyInv, Paystack, UNCHANGED <<now, workload, payment, remote>>,
         NEW e \in DOMAIN event, e.kind = "unpaid", UnpaidInvoice(e)
  PROVE  MoneyInv'
<1>0. /\ MoneyTyped /\ SubscriptionSound /\ e.ref \in Refs /\ e.ref[1] \in Checkouts
      /\ ~TakesBack(e) /\ UNCHANGED checkout
  BY MoneyRows DEF MoneyInv, TakesBack, Refs, UnpaidInvoice
<1>1. PICK s \in SubscriptionRow : s = subscription
  BY <1>0 DEF MoneyTyped
<1>2. PICK k \in Checkouts : k = e.ref[1]
  BY <1>0
<1>3. PICK until \in Nat : until = s.periodEnds + Grace
  BY BillingBounds DEF SubscriptionRow
<1>4. subscription' \in SubscriptionRow /\ (Quiet \/ SubscriptionSound')
  <2>1. CASE subscription' = s
    BY <1>1, <2>1 DEF Quiet
  <2>2. CASE subscription' = [s EXCEPT !.remote = k]
    BY <1>1, <2>2 DEF Quiet, SubscriptionRow
  <2>3. CASE /\ s.state \in {"ACTIVE", "PAST_DUE"}
             /\ subscription' = [s EXCEPT !.remote = k, !.state = "PAST_DUE", !.graceEnds = until]
    <3>1. /\ subscription' \in SubscriptionRow /\ subscription'.state = "PAST_DUE"
          /\ subscription'.periodEnds = s.periodEnds /\ subscription'.graceEnds = until
          /\ subscription'.entitlement = s.entitlement /\ subscription'.plan = s.plan
      BY <2>3 DEF SubscriptionRow, States
    <3>2. checkout'[subscription.entitlement].status = "SUCCEEDED"
      BY <1>0, <1>1, <2>3 DEF SubscriptionSound
    <3> QED
      BY <1>0, <1>1, <1>3, <2>3, <3>1, <3>2, GraceGiven, PaystackTells DEF SettledStays
  <2> QED
    BY <1>1, <1>2, <1>3, <2>1, <2>2, <2>3 DEF UnpaidInvoice
<1>5. PICK status \in {"IGNORED", "PROCESSED"} : EventBecomes(e, status)
  BY DEF UnpaidInvoice
<1> QED
  BY <1>0, <1>4, <1>5, HandledQuietly

\* A renewal that is paid gives access for its month.
LEMMA PaidMoney ==
  ASSUME MoneyInv, Paystack, UNCHANGED <<now, workload, payment, remote>>,
         NEW e \in DOMAIN event, e.kind = "paid", PaidInvoice(e)
  PROVE  MoneyInv'
<1>0. /\ MoneyTyped /\ e.ref \in Refs /\ e.ref[1] \in Checkouts /\ e.ref[2] # 0
      /\ ~TakesBack(e) /\ now \in Nat \ {0}
  BY MoneyRows DEF MoneyInv, TakesBack, Refs, EventSound
<1>1. PICK s \in SubscriptionRow : s = subscription
  BY <1>0 DEF MoneyTyped
<1>2. PICK k \in Checkouts : k = e.ref[1]
  BY <1>0
<1>3. PICK ref \in Refs : ref = e.ref
  BY <1>0
<1>4. CASE /\ EventBecomes(e, "IGNORED") /\ UNCHANGED checkout
           /\ subscription' = s \/ subscription' = [s EXCEPT !.remote = k]
  <2>1. Quiet /\ subscription' \in SubscriptionRow
    <3>1. CASE subscription' = s
      BY <1>1, <3>1 DEF Quiet
    <3>2. CASE subscription' = [s EXCEPT !.remote = k]
      BY <1>1, <3>2 DEF Quiet, SubscriptionRow
    <3> QED
      BY <1>4, <3>1, <3>2
  <2> QED
    BY <1>0, <1>4, <2>1, HandledQuietly
<1>5. CASE /\ checkout[ref].status \notin TakenBack /\ payment[ref].status = "SUCCEEDED"
           /\ EventBecomes(e, "PROCESSED")
           /\ checkout' = [checkout EXCEPT ![ref] =
                [InvoiceRow(ref) EXCEPT
                   !.status = "SUCCEEDED", !.settled = payment[ref].at]]
           /\ \/ subscription' = [s EXCEPT !.remote = k]
              \/ subscription' = [s EXCEPT
                   !.remote = k, !.state = "ACTIVE", !.periodEnds = InvoiceEnd(ref),
                   !.entitlement = ref, !.lastEvent = payment[ref].at, !.graceEnds = 0]
  <2>1. PICK old \in CheckoutRow :
          /\ old = InvoiceRow(ref) /\ old.sandbox = "PENDING"
          /\ old.sandboxAt \in {0, checkout[ref].sandboxAt}
    <3>1. checkout[ref] \in CheckoutRow /\ checkout[ref].sandbox = "PENDING"
      BY <1>0, PaystackTells DEF MoneyTyped
    <3>2. PICK plan \in AllPlans : plan = checkout[Ref(k)].plan
      BY <1>0, <1>2, RefsOfCheckouts DEF MoneyTyped, CheckoutRow
    <3>3. NoCheckout(plan, now) \in CheckoutRow /\ NoCheckout(plan, now).sandbox = "PENDING"
          /\ NoCheckout(plan, now).sandboxAt = 0
      BY <1>0, <3>2 DEF NoCheckout, CheckoutRow
    <3>4. ref[1] = k
      BY <1>2, <1>3
    <3>5. InvoiceRow(ref) \in {NoCheckout(plan, now), checkout[ref]}
      BY <3>2, <3>4 DEF InvoiceRow
    <3> QED
      BY <3>1, <3>3, <3>5
  <2>2. PICK at \in Nat : at = payment[ref].at
    BY <1>0, <1>3 DEF MoneyTyped, PaymentRow
  <2>3. PICK row : row = [old EXCEPT !.status = "SUCCEEDED", !.settled = at]
    OBVIOUS
  <2>4. /\ row \in CheckoutRow /\ row.status = "SUCCEEDED" /\ row.settled = at
        /\ row.sandbox = old.sandbox /\ row.sandboxAt = old.sandboxAt
    BY <2>3 DEF CheckoutRow
  <2>5. /\ checkout[ref].status \notin TakenBack /\ payment[ref].status = "SUCCEEDED"
        /\ EventBecomes(e, "PROCESSED") /\ checkout' = [checkout EXCEPT ![ref] = row]
    BY <1>5, <2>1, <2>2, <2>3
  <2>6. PICK from \in Nat : from = Due(ref) /\ from <= at
    <3>1. ref[2] \in Nat /\ ref[1] = k /\ payment[Ref(k)].at \in Nat /\ Period \in Nat
      BY <1>0, <1>2, <1>3, BillingBounds, RefsOfCheckouts DEF Refs, MoneyTyped, PaymentRow
    <3>2. PICK f \in Nat : f = ref[2] * Period
      BY <3>1
    <3>3. Due(ref) \in Nat
      BY <3>1, <3>2 DEF Due
    <3>4. PaymentSound(ref)
      BY DEF MoneyInv
    <3> QED
      BY <1>0, <1>3, <2>2, <2>5, <3>3, <3>4 DEF PaymentSound
  <2>7. PICK until \in Nat : until = from + Period
    BY BillingBounds
  <2>8. \/ subscription' = [s EXCEPT !.remote = k]
        \/ subscription' = [s EXCEPT !.remote = k, !.state = "ACTIVE", !.periodEnds = until,
                                     !.entitlement = ref, !.lastEvent = at, !.graceEnds = 0]
    BY <1>5, <2>2, <2>6, <2>7 DEF InvoiceEnd
  <2>9. /\ subscription' \in SubscriptionRow
         /\ \/ Quiet
            \/ /\ subscription'.state = "ACTIVE" /\ subscription'.entitlement = ref
               /\ \E x \in Nat : x <= payment[ref].at /\ subscription'.periodEnds = x + Period
    <3>1. CASE subscription' = [s EXCEPT !.remote = k]
      BY <1>1, <3>1 DEF Quiet, SubscriptionRow
    <3>2. CASE subscription' = [s EXCEPT !.remote = k, !.state = "ACTIVE", !.periodEnds = until,
                                     !.entitlement = ref, !.lastEvent = at, !.graceEnds = 0]
      <4>1. /\ subscription' \in SubscriptionRow /\ subscription'.state = "ACTIVE"
            /\ subscription'.entitlement = ref /\ subscription'.periodEnds = until
        BY <3>2 DEF SubscriptionRow, States
      <4> QED
        BY <2>2, <2>6, <2>7, <4>1
    <3> QED
      BY <2>8, <3>1, <3>2
  <2>10. /\ row.settled = payment[ref].at /\ row.sandbox = "PENDING"
         /\ row.sandboxAt \in {0, checkout[ref].sandboxAt}
    BY <2>1, <2>2, <2>4
  <2> QED
    BY <1>0, <1>3, <2>4, <2>5, <2>9, <2>10, SettledMoney
<1> QED
  BY <1>1, <1>2, <1>3, <1>4, <1>5, PaidInvoiceDoes

\* A payment is taken back: the access that it gives ends.
LEMMA ReversalMoney ==
  ASSUME MoneyInv, Paystack, UNCHANGED <<now, workload, payment, remote>>,
         NEW e \in DOMAIN event, TakesBack(e), Reversal(e)
  PROVE  MoneyInv'
<1>0. /\ MoneyTyped /\ SubscriptionSound /\ CheckoutSound(e.ref) /\ e.ref \in Refs
      /\ checkout[e.ref] \in CheckoutRow /\ EventBecomes(e, "PROCESSED") /\ now' = now
  BY MoneyRows DEF MoneyInv, Reversal
<1>1. PICK ref \in Refs : ref = e.ref
  BY <1>0
<1>2. PICK c \in CheckoutRow : c = checkout[ref]
  BY <1>0, <1>1
<1>3. PICK s \in SubscriptionRow : s = subscription
  BY <1>0 DEF MoneyTyped
<1>4. PICK status \in TakenBack : checkout' = [checkout EXCEPT ![ref].status = status]
  BY <1>1 DEF Reversal, TakenBack
<1>5. PICK row : row = [c EXCEPT !.status = status]
  OBVIOUS
<1>6. /\ row \in CheckoutRow /\ row.status = status /\ row.settled = c.settled
      /\ row.sandbox = c.sandbox /\ row.sandboxAt = c.sandboxAt /\ row.plan = c.plan
  BY <1>5 DEF CheckoutRow
<1>7. checkout' = [checkout EXCEPT ![ref] = row]
  BY <1>0, <1>2, <1>4, <1>5 DEF MoneyTyped
<1>8. checkout'[ref] = row /\ \A r \in Refs : r # ref => checkout'[r] = checkout[r]
  BY <1>0, <1>7 DEF MoneyTyped
<1>9. /\ subscription' \in SubscriptionRow /\ Quiet
      /\ subscription'.state \in {"ACTIVE", "PAST_DUE"} => subscription.entitlement # ref
  <2>1. subscription' = [s EXCEPT !.state = IF s.entitlement = ref THEN "SUSPENDED" ELSE s.state]
    BY <1>1, <1>3 DEF Reversal
  <2>2. CASE s.entitlement = ref
    BY <1>3, <2>1, <2>2 DEF Quiet, SubscriptionRow, States
  <2>3. CASE s.entitlement # ref
    BY <1>3, <2>1, <2>3 DEF Quiet, SubscriptionRow
  <2> QED
    BY <2>2, <2>3
<1>10. MoneyTyped'
  <2>1. DOMAIN event' = DOMAIN event
    BY <1>0, HandlingWaits
  <2> QED
    BY <1>0, <1>6, <1>7, <1>9, <2>1, MoneyTypes
<1>11. SubscriptionSound'
  <2>1. SettledStays
    BY <1>2, <1>6, <1>8 DEF SettledStays
  <2>2. subscription.entitlement \in Refs \cup {Nobody}
    BY <1>0 DEF MoneyTyped, SubscriptionRow
  <2>3. subscription'.state \in {"ACTIVE", "PAST_DUE"}
          => checkout'[subscription.entitlement] = checkout[subscription.entitlement]
    BY <1>0, <1>8, <1>9, <2>2 DEF SubscriptionSound, Quiet
  <2> QED
    BY <1>0, <1>9, <2>1, <2>3, SubscriptionStays
<1>12. CheckoutSound(ref)'
  <2>1. ~Sandbox /\ ~Sandbox' /\ row.sandbox = "PENDING" /\ "PENDING" \notin Reversals
    BY <1>2, <1>6, PaystackTells DEF Sandbox, Reversals
  <2>2. row.settled <= now /\ row.sandboxAt <= now
    BY <1>0, <1>1, <1>2, <1>6 DEF CheckoutSound
  <2>3. row.status \in TakenBack /\ row.status \notin {"ABSENT", "SUCCEEDED"}
    BY <1>6 DEF TakenBack
  <2> QED
    BY <1>0, <1>8, <2>1, <2>2, <2>3 DEF CheckoutSound
<1>13. checkout'[ref].status \in TakenBack /\ checkout'[ref].settled = checkout[ref].settled
  BY <1>2, <1>6, <1>8
<1> QED
  BY <1>0, <1>1, <1>8, <1>10, <1>11, <1>12, <1>13, PaystackTells, HandledMoney

\* What handles the provider's events.
LEMMA PaystackMoney ==
  ASSUME MoneyInv, Paystack, UNCHANGED workload, NEW e \in DOMAIN event, ProcessPaystackEvent(e)
  PROVE  MoneyInv'
<1>1. CASE RejectEvent(e) /\ UNCHANGED paystackVars
  BY <1>1, EventOnlyMoney DEF RejectEvent, paystackVars
<1>2. CASE /\ \/ e.kind \in {"charge", "reconcile"} /\ InitialPayment(e)
              \/ e.kind = "status" /\ SubscriptionStatus(e)
              \/ e.kind = "paid" /\ PaidInvoice(e)
              \/ e.kind = "unpaid" /\ UnpaidInvoice(e)
              \/ e.kind \in {"refund", "dispute"} /\ Reversal(e)
           /\ UNCHANGED <<now, organization, user, providerVars>>
  <2>1. UNCHANGED <<now, payment, remote>>
    BY <1>2 DEF providerVars
  <2> QED
    BY <1>2, <2>1, InitialMoney, StatusMoney, PaidMoney, UnpaidMoney, ReversalMoney DEF TakesBack
<1> QED
  BY <1>1, <1>2 DEF ProcessPaystackEvent

-----------------------------------------------------------------------------
(* The whole tenant *)

\* Those who come and go pay nothing: a trial or a managed plan may begin.
LEMMA MembershipPays ==
  ASSUME MembershipNext
  PROVE  /\ now' = now
         /\ \/ UNCHANGED subscription
            \/ \E plan \in Plans : subscription' = NewSubscription("TRIAL", plan, now + TrialDays)
            \/ subscription' = NewSubscription("MANAGED", ManagedPlan, 0)
<1> DEFINE Goal == /\ now' = now
                   /\ \/ UNCHANGED subscription
                      \/ \E plan \in Plans :
                           subscription' = NewSubscription("TRIAL", plan, now + TrialDays)
                      \/ subscription' = NewSubscription("MANAGED", ManagedPlan, 0)
<1>1. ASSUME NEW u \in Users, RequestSignup(u) \/ Provision(u) \/ ResendManagedInvitation(u)
      PROVE  Goal
  BY <1>1 DEF RequestSignup, Provision, ResendManagedInvitation, tenantVars
<1>2. ASSUME NEW u \in Users, Activate(u) PROVE Goal
  BY <1>2 DEF Activate
<1>3. ASSUME NEW u \in Users, NEW plan \in Plans, VerifySignup(u, plan) PROVE Goal
  BY <1>3 DEF VerifySignup
<1>4. ASSUME NEW u \in Users,
             AcceptInvitation(u) \/ RequestReset(u) \/ AcceptReset(u) \/ PasswordChange(u)
      PROVE  Goal
  BY <1>4 DEF AcceptInvitation, RequestReset, AcceptReset, PasswordChange, tenantVars
<1>5. ASSUME NEW t, Deliver(t) PROVE Goal
  BY <1>5 DEF Deliver, tenantVars
<1>6. ASSUME NEW r, Authorize(r) \/ Invite(r) \/ Revoke(r) \/ Refuse(r) PROVE Goal
  BY <1>6 DEF Authorize, Invite, Revoke, Refuse, tenantVars
<1>7. ASSUME NEW r, CreateUser(r) \/ UpdateUser(r) PROVE Goal
  BY <1>7 DEF CreateUser, UpdateUser, Update
<1>8. ASSUME Suspend \/ Resume PROVE Goal
  BY <1>8 DEF Suspend, Resume
<1>9. ASSUME SiteNext PROVE Goal
  BY <1>9 DEF SiteNext, SiteSave, SitePassword, SiteDelete, tenantVars
<1> HIDE DEF Goal
<1>10. ASSUME ServiceNext PROVE Goal
  <2>1. CASE \E u \in Users :
               \/ RequestSignup(u) \/ Provision(u) \/ ResendManagedInvitation(u) \/ Activate(u)
               \/ \E plan \in Plans : VerifySignup(u, plan)
               \/ AcceptInvitation(u) \/ RequestReset(u) \/ AcceptReset(u) \/ PasswordChange(u)
    BY <1>1, <1>2, <1>3, <1>4, <2>1
  <2>2. CASE \E t \in DOMAIN ticket : Deliver(t)
    BY <1>5, <2>2
  <2>3. CASE \E r \in Requests : Authorize(r)
    BY <1>6, <2>3
  <2>4. CASE \E r \in request :
               Invite(r) \/ Revoke(r) \/ CreateUser(r) \/ UpdateUser(r) \/ Refuse(r)
    BY <1>6, <1>7, <2>4
  <2> QED
    BY <1>8, <1>10, <2>1, <2>2, <2>3, <2>4 DEF ServiceNext
<1> QED
  BY <1>9, <1>10 DEF Goal, MembershipNext

\* A subscription begins without a payment.
LEMMA BeginsUnpaid ==
  ASSUME NEW state \in {"none", "TRIAL", "MANAGED"}, NEW plan \in AllPlans, NEW ends \in Nat
  PROVE  LET s == NewSubscription(state, plan, ends) IN
         s \in SubscriptionRow /\ s.state = state /\ s.periodEnds = 0
  BY DEF NewSubscription, SubscriptionRow, States

LEMMA MembershipMoney ==
  ASSUME MoneyInv, MembershipNext, UNCHANGED <<billingVars, paystackVars, workload>>
  PROVE  MoneyInv'
<1>0. /\ MoneyTyped /\ SubscriptionSound /\ RemoteSound /\ now \in Nat
      /\ UNCHANGED <<checkout, event, payment, remote, workload>>
  BY DEF MoneyInv, MoneyTyped, billingVars, paystackVars
<1>1. now' = now
  BY MembershipPays
<1>2. CASE UNCHANGED subscription
  <2>1. MoneyTyped' /\ Quiet /\ now <= now'
    BY <1>0, <1>1, <1>2 DEF MoneyTyped, Quiet
  <2>2. \A e \in DOMAIN event : Waits(e) => Waits(e)'
    BY <1>0 DEF Waits
  <2> QED
    BY <1>0, <2>1, <2>2, QuietStep
<1>3. CASE \E state \in {"TRIAL", "MANAGED"}, plan \in AllPlans, ends \in Nat :
             subscription' = NewSubscription(state, plan, ends)
  <2>1. PICK state \in {"TRIAL", "MANAGED"}, plan \in AllPlans, ends \in Nat :
          subscription' = NewSubscription(state, plan, ends)
    BY <1>3
  <2>2. /\ subscription' \in SubscriptionRow /\ subscription'.state = state
        /\ subscription'.periodEnds = 0
    BY <2>1, BeginsUnpaid
  <2>3. \A p : SettledRefs(p)' = SettledRefs(p)
    BY <1>0 DEF SettledRefs
  <2>4. SubscriptionSound'
    BY <1>0, <2>2, <2>3 DEF SubscriptionSound, Sandbox
  <2>5. MoneyTyped' /\ now <= now'
    BY <1>0, <1>1, <2>2 DEF MoneyTyped
  <2>6. \A r \in Refs : PaymentSound(r)'
    BY <1>0, <1>1 DEF MoneyInv, PaymentSound, Paystack, Due
  <2>7. RemoteSound'
    BY <1>0 DEF RemoteSound
  <2>8. \A e \in DOMAIN event : e \in DOMAIN event' /\ (Waits(e) => Waits(e)')
    BY <1>0 DEF Waits
  <2> QED
    BY <1>0, <2>4, <2>5, <2>6, <2>7, <2>8, EventStep
<1>4. now + TrialDays \in Nat /\ Plans \subseteq AllPlans /\ ManagedPlan \in AllPlans
  BY <1>0, TimesAssumption DEF AllPlans
<1> QED
  BY <1>2, <1>3, <1>4, MembershipPays

LEMMA TickMoney ==
  ASSUME MoneyInv, Tick, UNCHANGED <<billingVars, paystackVars, workload>>
  PROVE  MoneyInv'
<1>1. /\ UNCHANGED <<subscription, checkout, event, payment, remote, workload>>
      /\ MoneyTyped /\ now' = now + 1 /\ now \in Nat \ {0}
  BY DEF Tick, MoneyInv, MoneyTyped, billingVars, paystackVars
<1>2. MoneyTyped' /\ Quiet /\ now <= now'
  BY <1>1 DEF MoneyTyped, Quiet
<1>3. \A e \in DOMAIN event : Waits(e) => Waits(e)'
  BY <1>1 DEF Waits
<1> QED
  BY <1>1, <1>2, <1>3, QuietStep

LEMMA BillingMoney ==
  ASSUME MoneyInv, workload.offered \subseteq Plans, workload.checkouts \subseteq Checkouts,
         UNCHANGED workload, Requesting \/ Providing \/ Processing
  PROVE  MoneyInv'
<1>1. CASE Requesting
  <2>1. ASSUME NEW k \in Checkouts, NEW plan \in Plans,
               \/ AllocateCheckout(k, plan) /\ UNCHANGED paystackVars
               \/ AllocatePaystack(k, plan)
        PROVE  MoneyInv'
    <3>1. /\ MayAllocate(k, plan) /\ Allocated(k, plan)
          /\ UNCHANGED <<tenantVars, event>> /\ UNCHANGED <<payment, remote>>
      BY <2>1 DEF AllocateCheckout, AllocatePaystack, paystackVars
    <3> QED
      BY <3>1, AllocateMoney
  <2>2. ASSUME NEW k \in Checkouts, Reconcile(k), UNCHANGED paystackVars PROVE MoneyInv'
    BY <2>2, ReconcileMoney DEF paystackVars
  <2>3. CASE CancelSubscription /\ UNCHANGED paystackVars
    BY <2>3, CancelMoney DEF paystackVars
  <2>4. CASE workload.provider = "paystack_test" /\ CancelPaystack
    BY <2>4, CancelPaystackMoney DEF Paystack
  <2> QED
    BY <1>1, <2>1, <2>2, <2>3, <2>4 DEF Requesting
<1>2. CASE Providing
  <2>1. ASSUME workload.provider = "local_sandbox", UNCHANGED paystackVars,
               NEW k \in Checkouts, NEW outcome, Simulate(k, outcome)
        PROVE  MoneyInv'
    BY <2>1, SimulateMoney DEF Sandbox, paystackVars
  <2>2. ASSUME workload.provider = "paystack_test", NEW k \in Checkouts, Pay(k) \/ EndRemote(k)
        PROVE  MoneyInv'
    BY <2>2, PayMoney, EndRemoteMoney DEF Paystack
  <2>3. ASSUME workload.provider = "paystack_test", NEW r \in Refs, NEW kind,
               Renew(r) \/ Repeat(r) \/ TakeBack(r, kind)
        PROVE  MoneyInv'
    BY <2>3, RenewMoney, RepeatMoney, TakeBackMoney DEF Paystack
  <2> QED
    BY <1>2, <2>1, <2>2, <2>3 DEF Providing
<1>3. CASE Processing
  <2>1. ASSUME NEW e \in DOMAIN event, workload.provider = "local_sandbox",
               ProcessSandboxEvent(e), UNCHANGED paystackVars
        PROVE  MoneyInv'
    BY <2>1, SandboxMoney DEF Sandbox, paystackVars
  <2>2. ASSUME NEW e \in DOMAIN event, workload.provider = "paystack_test", ProcessPaystackEvent(e)
        PROVE  MoneyInv'
    BY <2>2, PaystackMoney DEF Paystack
  <2>3. ASSUME NEW e \in DOMAIN event, RetryEvent(e), UNCHANGED paystackVars PROVE MoneyInv'
    <3>1. UNCHANGED <<payment, remote>> /\ UNCHANGED <<tenantVars, checkout>>
      BY <2>3 DEF RetryEvent, paystackVars
    <3> QED
      BY <2>3, <3>1, EventOnlyMoney
  <2> QED
    BY <1>3, <2>1, <2>2, <2>3 DEF Processing
<1> QED
  BY <1>1, <1>2, <1>3

LEMMA NextMoney ==
  ASSUME workload \in Workloads, MoneyInv, [Next]_vars
  PROVE  MoneyInv'
<1>1. workload.offered \subseteq Plans /\ workload.checkouts \subseteq Checkouts
  BY WorkloadsAssumption
<1>2. CASE (Requesting \/ Providing \/ Processing) /\ UNCHANGED workload
  BY <1>1, <1>2, BillingMoney
<1>3. CASE Belonging /\ UNCHANGED workload
  BY <1>3, MembershipMoney DEF Belonging
<1>4. CASE Tick /\ UNCHANGED <<billingVars, paystackVars, workload>>
  BY <1>4, TickMoney
<1>5. CASE UNCHANGED vars
  <2>1. UNCHANGED <<now, subscription, checkout, event, payment, remote, workload>>
    BY <1>5 DEF vars, tenantVars, billingVars, paystackVars
  <2>2. MoneyTyped' /\ Quiet /\ now <= now'
    BY <2>1 DEF MoneyInv, MoneyTyped, Quiet
  <2>3. \A e \in DOMAIN event : Waits(e) => Waits(e)'
    BY <2>1 DEF Waits
  <2> QED
    BY <2>1, <2>2, <2>3, QuietStep
<1> QED
  BY <1>2, <1>3, <1>4, <1>5 DEF Next

LEMMA InitMoney == Init => MoneyInv
<1> SUFFICES ASSUME Init PROVE MoneyInv
  OBVIOUS
<1>0. /\ now = 1 /\ event = <<>> /\ workload.plans \subseteq Plans
      /\ checkout = [r \in Refs |-> [NoCheckout(ManagedPlan, 0) EXCEPT !.status = "ABSENT"]]
      /\ payment = [r \in Refs |-> [status |-> "PENDING", at |-> 0]]
      /\ remote = [k \in Checkouts |-> "none"]
  BY WorkloadsAssumption DEF Init, TenantInit, BillingInit, PaystackInit
<1>1. subscription \in SubscriptionRow /\ subscription.state \notin {"ACTIVE", "PAST_DUE"}
      /\ subscription.periodEnds = 0
  <2>1. PICK state \in {"none", "TRIAL"}, plan \in AllPlans, ends \in Nat :
          subscription = NewSubscription(state, plan, ends)
    <3>1. 1 + TrialDays \in Nat /\ Plans \subseteq AllPlans /\ ManagedPlan \in AllPlans
      BY TimesAssumption DEF AllPlans
    <3> QED
      BY <1>0, <3>1 DEF Init, TenantInit
  <2> QED
    BY <2>1, BeginsUnpaid
<1>2. PICK row : row = [NoCheckout(ManagedPlan, 0) EXCEPT !.status = "ABSENT"]
  OBVIOUS
<1>3. /\ row \in CheckoutRow /\ row.status = "ABSENT" /\ row.settled = 0 /\ row.sequence = 0
      /\ row.sandbox = "PENDING" /\ row.sandboxAt = 0
  BY <1>2 DEF NoCheckout, CheckoutRow, AllPlans
<1>4. DOMAIN event = {}
  BY <1>0
<1>5. \A r \in Refs : checkout[r] = row /\ payment[r] = [status |-> "PENDING", at |-> 0]
  BY <1>0, <1>2
<1>6. MoneyTyped
  <2>1. checkout \in [Refs -> CheckoutRow]
    BY <1>0, <1>2, <1>3
  <2>2. payment \in [Refs -> PaymentRow]
    BY <1>0 DEF PaymentRow
  <2> QED
    BY <1>0, <1>1, <1>4, <2>1, <2>2 DEF MoneyTyped
<1>7. \A r \in Refs : CheckoutSound(r) /\ PaymentSound(r)
  BY <1>0, <1>3, <1>5 DEF CheckoutSound, PaymentSound, Reversals
<1>8. RemoteSound
  BY <1>0 DEF RemoteSound, Running
<1>9. SubscriptionSound
  <2>1. \A plan : SettledRefs(plan) = {}
    BY <1>3, <1>5 DEF SettledRefs
  <2> QED
    BY <1>1, <2>1, FS_EmptySet DEF SubscriptionSound
<1> QED
  BY <1>4, <1>6, <1>7, <1>8, <1>9 DEF MoneyInv

LEMMA MoneyInvariant == Spec => [](workload \in Workloads /\ MoneyInv)
<1>1. Init => workload \in Workloads /\ MoneyInv
  BY InitMoney DEF Init
<1>2. workload \in Workloads /\ MoneyInv /\ [Next]_vars => (workload \in Workloads /\ MoneyInv)'
  BY NextMoney DEF Next, vars
<1> QED
  BY <1>1, <1>2, PTL DEF Spec

\* What gives access was paid for and is not taken back, or an event that says so waits, for
\* any checkouts, invoices and orders in which events are handled (billing.py:198-237,
\* paystack.py:312-318).
THEOREM EntitlementCorrect == Spec => []EntitlementIsSettled
<1>1. ASSUME MoneyInv PROVE EntitlementIsSettled
  <2> SUFFICES ASSUME subscription.state \in {"ACTIVE", "PAST_DUE"}
               PROVE  LET r == subscription.entitlement IN
                      /\ r # Nobody /\ checkout[r].status = "SUCCEEDED"
                      /\ \/ checkout[r].sandbox \in Reversals
                         \/ \E kind \in {"refund", "dispute"} : Notice(kind, r) \in DOMAIN event
                         => \E e \in DOMAIN event :
                              e.ref = r /\ event[e].status \in {"PENDING", "FAILED"}
    BY DEF EntitlementIsSettled
  <2>1. PICK r \in Refs : r = subscription.entitlement /\ checkout[r].status = "SUCCEEDED"
    BY <1>1 DEF MoneyInv, MoneyTyped, SubscriptionRow, SubscriptionSound
  <2>2. r # Nobody /\ "SUCCEEDED" \notin TakenBack /\ "SUCCEEDED" \notin Reversals
    BY BillingBounds DEF TakenBack, Reversals
  <2>3. ASSUME checkout[r].sandbox \in Reversals PROVE \E e \in DOMAIN event : e.ref = r /\ Waits(e)
    BY <1>1, <2>1, <2>2, <2>3 DEF MoneyInv, CheckoutSound
  <2>4. ASSUME NEW kind \in {"refund", "dispute"}, Notice(kind, r) \in DOMAIN event
        PROVE  \E e \in DOMAIN event : e.ref = r /\ Waits(e)
    <3>1. PICK e \in DOMAIN event : e = Notice(kind, r)
      BY <2>4
    <3>2. e.ref = r /\ TakesBack(e)
      BY <3>1 DEF Notice, TakesBack
    <3>3. Waits(e)
      BY <1>1, <2>1, <2>2, <3>2 DEF MoneyInv, EventSound
    <3> QED
      BY <3>2, <3>3
  <2> QED
    BY <2>1, <2>2, <2>3, <2>4 DEF Waits
<1> QED
  BY <1>1, MoneyInvariant, PTL

\* Access ends a period after the payment that gives it, and in the sandbox a period for each
\* settled checkout of the plan after one of them, and the days of grace: for any periods and
\* however payments, renewals, failures and reversals are told (docs/saas/implementation.md:15, 25).
THEOREM AccessCorrect == Spec => []AccessIsBounded
<1>1. ASSUME workload \in Workloads, MoneyInv PROVE AccessIsBounded
  <2> DEFINE grace == IF subscription.state = "PAST_DUE" THEN Grace ELSE 0
  <2> SUFFICES ASSUME subscription.state \in {"ACTIVE", "PAST_DUE"}, Writable
               PROVE  IF Paystack
                      THEN now < checkout[subscription.entitlement].settled + Period + grace
                      ELSE \E r \in SettledRefs(subscription.plan) :
                             now < checkout[r].settled
                                     + Period * Cardinality(SettledRefs(subscription.plan)) + grace
    BY Zenon DEF AccessIsBounded, SettledRefs, Paystack
  <2>0. /\ MoneyTyped /\ SubscriptionSound /\ now \in Nat \ {0} /\ Grace \in Nat /\ Period \in Nat
        /\ \A r \in Refs : checkout[r].settled \in Nat
    BY <1>1, BillingBounds DEF MoneyInv, MoneyTyped, CheckoutRow
  <2>1. PICK s \in SubscriptionRow : s = subscription
    BY <2>0 DEF MoneyTyped
  <2>2. PICK ends \in Nat, g \in Nat : ends = s.periodEnds /\ g = grace
    BY <2>0, <2>1 DEF SubscriptionRow
  <2>3. now < ends + g /\ (Sandbox => ends # 0)
    <3>1. CASE s.state = "ACTIVE"
      BY <2>0, <2>1, <2>2, <3>1 DEF Writable
    <3>2. CASE s.state = "PAST_DUE"
      <4>1. PICK t \in Nat : t = s.graceEnds
        BY DEF SubscriptionRow
      <4>2. now < t /\ t <= ends + Grace
        BY <2>0, <2>1, <2>2, <3>2, <4>1 DEF Writable, SubscriptionSound
      <4>3. g = Grace /\ (Sandbox => ends # 0)
        BY <2>0, <2>1, <2>2, <3>2 DEF SubscriptionSound
      <4> QED
        BY <2>0, <4>1, <4>2, <4>3
    <3> QED
      BY <2>1, <3>1, <3>2
  <2>4. PICK r \in Refs : r = s.entitlement /\ checkout[r].settled # 0
    BY <1>1, <2>0, <2>1 DEF MoneyInv, CheckoutSound, SubscriptionSound, SubscriptionRow
  <2> HIDE DEF grace
  <2>5. CASE Paystack
    <3>1. ends <= checkout[r].settled + Period
      BY <2>0, <2>1, <2>2, <2>4, <2>5 DEF SubscriptionSound
    <3>2. now < checkout[r].settled + Period + g
      BY <2>0, <2>3, <3>1
    <3> QED
      BY <2>1, <2>2, <2>4, <2>5, <3>2
  <2>6. CASE ~Paystack
    <3>1. Sandbox /\ s.plan \in AllPlans
      BY <1>1, <2>6, WorkloadsAssumption DEF Sandbox, Paystack, SubscriptionRow
    <3>2. PICK n \in Nat : n = Cardinality(SettledRefs(s.plan))
      BY <2>0, <3>1, FS_CardinalityType DEF SubscriptionSound
    <3>3. PICK q \in SettledRefs(s.plan) : ends <= checkout[q].settled + Period * n
      BY <2>0, <2>1, <2>2, <2>3, <3>1, <3>2 DEF SubscriptionSound, PaidFor
    <3>4. now < checkout[q].settled + Period * n + g
      <4>1. checkout[q].settled \in Nat /\ Period * n \in Nat
        BY <2>0, <3>2, <3>3 DEF SettledRefs
      <4> QED
        BY <2>0, <2>3, <3>3, <4>1
    <3> QED
      BY <2>1, <2>2, <2>6, <3>2, <3>3, <3>4
  <2> QED
    BY <2>5, <2>6
<1> QED
  BY <1>1, MoneyInvariant, PTL
=============================================================================
