------------------------------- MODULE Tenants -------------------------------
(***************************************************************************)
(* One tenant: its organization, its users and its subscription, with the  *)
(* entitlements that the subscription gives.  Every service that changes   *)
(* them or counts them holds the lock of the organization row until it     *)
(* commits, so each is one step of Billing or Membership.                  *)
(*                                                                         *)
(* Times count from 1; 0 stands for a time that is not set.                *)
(***************************************************************************)
EXTENDS Naturals, FiniteSets

CONSTANTS
  Users,            \* e-mail addresses; an account belongs to one
  Plans,            \* published trial and sandbox plans
  ManagedPlan,      \* the private plan without limits
  SeatLimit,        \* [Plans -> active users]
  TrialDays,
  MaxTime,          \* bound on the clock
  Nobody            \* no checkout, no provider subscription

ASSUME TimesAssumption == TrialDays \in Nat /\ MaxTime \in Nat
ASSUME SeatsAssumption == IsFiniteSet(Users) /\ SeatLimit \in [Plans -> Nat \ {0}]

VARIABLES
  now,
  organization,     \* "none", or whether it is_active: "inactive", "active"
  user,             \* [Users -> [status, role]]
  subscription

tenantVars == <<now, organization, user, subscription>>

Roles == {"ADMIN", "EMPLOYEE"}
States == {"none", "MANAGED", "TRIAL", "ACTIVE", "PAST_DUE", "CANCELED", "SUSPENDED"}

\* a subscription as it is created
NewSubscription(state, plan, trialEnds) ==
  [state |-> state, plan |-> plan, trialEnds |-> trialEnds, periodEnds |-> 0, graceEnds |-> 0,
   cancelAtEnd |-> FALSE, canceledAt |-> 0, lastEvent |-> 0, entitlement |-> Nobody,
   remote |-> Nobody, provider |-> "none"]

NoAccount == [status |-> "none", role |-> "EMPLOYEE"]

\* a tenant that has signed up for a plan already, or none
TenantInit(plans) ==
  /\ now = 1
  /\ \/ /\ plans = {}
        /\ organization = "none"
        /\ user = [u \in Users |-> NoAccount]
        /\ subscription = NewSubscription("none", ManagedPlan, 0)
     \/ \E owner \in Users, plan \in plans :
          /\ organization = "active"
          /\ user = [u \in Users |->
               IF u = owner THEN [status |-> "active", role |-> "ADMIN"] ELSE NoAccount]
          /\ subscription = NewSubscription("TRIAL", plan, 1 + TrialDays)

-----------------------------------------------------------------------------
(* Entitlements *)

Active == {u \in Users : user[u].status = "active"}
Admins == {u \in Active : user[u].role = "ADMIN"}

\* expiry is evaluated when it is asked for; a tenant without a subscription has agreed terms
Writable ==
  \/ subscription.state \in {"none", "MANAGED"}
  \/ subscription.state = "TRIAL" /\ subscription.trialEnds > now
  \/ subscription.state = "ACTIVE" /\ subscription.periodEnds > now
  \/ subscription.state = "PAST_DUE" /\ subscription.graceEnds > now

\* fits: the usage may be the limit
Fits(plan) == plan # ManagedPlan => Cardinality(Active) <= SeatLimit[plan]

\* a plausible bug: the limit is reached one too late
HasRoom == /\ organization = "active" /\ Writable
           /\ Fits(subscription.plan)

\* require_write_access, require_capacity: one more has to fit
HasCapacity ==
  /\ organization = "active" /\ Writable
  /\ subscription.plan # ManagedPlan => Cardinality(Active) < SeatLimit[subscription.plan]

Tick == now < MaxTime /\ now' = now + 1 /\ UNCHANGED <<organization, user, subscription>>
=============================================================================
