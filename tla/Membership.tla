----------------------------- MODULE Membership -----------------------------
(***************************************************************************)
(* How people come to a tenant and leave it: sign-up, provisioning by the  *)
(* platform operator, invitations, password resets and the administration  *)
(* of users, with the one-use tickets that are mailed for them and the     *)
(* suspension of the whole tenant.                                         *)
(*                                                                         *)
(* A request of an administrator is authorized when it arrives and does    *)
(* its work later, when it has the lock of the organization; by then the   *)
(* administrator and the tenant may have changed.  A new ticket revokes    *)
(* the open one of its address and purpose, so the last is all there is.   *)
(*                                                                         *)
(* The pages of the site administration write user rows as well.  They     *)
(* take no lock of the organization and count neither seats nor            *)
(* administrators.                                                         *)
(***************************************************************************)
EXTENDS Tenants

CONSTANTS
  TicketLife,       \* 48 hours, an hour for a reset
  MailAttempts,     \* of sending a ticket (8 in the code)
  MaxRequests,      \* bound on the requests that wait at once
  MaxEdits          \* bound on what the site administration does

VARIABLES
  ticket,           \* [Users \X Purposes -> [status, role, activates, expires, held, stale, mail]]
  request,          \* the set of authorized requests that wait
  edits             \* entries in the log of the site administration

membershipVars == <<ticket, request, edits>>

Purposes == {"INVITE", "RESET", "VERIFY"}

NoTicket == [status |-> "none", role |-> "EMPLOYEE", activates |-> FALSE, expires |-> 0,
             held |-> FALSE, stale |-> FALSE, mail |-> MailAttempts]

\* who has signed up has used the ticket for it
MembershipInit ==
  /\ ticket = [t \in Users \X Purposes |->
       IF t[2] = "VERIFY" /\ user[t[1]].status # "none"
       THEN [NoTicket EXCEPT !.status = "consumed"] ELSE NoTicket]
  /\ request = {} /\ edits = 0

-----------------------------------------------------------------------------
(* Tickets *)

\* issue_ticket, with its delivery
Issued(u, purpose, role, activates) ==
  ticket' = [ticket EXCEPT ![<<u, purpose>>] =
    [NoTicket EXCEPT !.status = "open", !.role = role, !.activates = activates,
                     !.expires = now + TicketLife, !.mail = 0]]

Alive(t) == ticket[t].status = "open" /\ ticket[t].expires > now

\* deliver_pending: the mail may go out without the record of it, and then goes out again
Deliver(t) ==
  /\ ticket[t].mail < MailAttempts
  /\ IF Alive(t)
     THEN \/ \E recorded \in BOOLEAN :
               ticket' = [ticket EXCEPT ![t].held = TRUE,
                            ![t].mail = IF recorded THEN MailAttempts ELSE @]
          \/ ticket' = [ticket EXCEPT ![t].mail = @ + 1]
     ELSE ticket' = [ticket EXCEPT ![t].mail = MailAttempts]
  /\ UNCHANGED <<tenantVars, request>>

\* who presents a ticket has the mail; a password that has changed since closes a reset
Presentable(t) == ticket[t].held /\ Alive(t) /\ ~ticket[t].stale

Consumed(t) == [ticket EXCEPT ![t].status = "consumed"]

-----------------------------------------------------------------------------
(* Beginnings *)

\* request_signup, first and again
RequestSignup(u) ==
  /\ user[u].status = "none" /\ organization = "none"
  /\ Issued(u, "VERIFY", "ADMIN", FALSE)
  /\ UNCHANGED <<tenantVars, request>>

Join(u, role) == user' = [user EXCEPT ![u] = [status |-> "active", role |-> role]]

VerifySignup(u, plan) ==
  /\ Presentable(<<u, "VERIFY">>) /\ organization = "none" /\ user[u].status = "none"
  /\ organization' = "active" /\ Join(u, "ADMIN")
  /\ subscription' = NewSubscription("TRIAL", plan, now + TrialDays)
  /\ ticket' = Consumed(<<u, "VERIFY">>)
  /\ UNCHANGED <<now, request>>

Provision(u) ==
  /\ organization = "none" /\ user[u].status = "none"
  /\ organization' = "inactive"
  /\ Issued(u, "INVITE", "ADMIN", TRUE)
  /\ UNCHANGED <<now, user, subscription, request>>

\* the invitation of the provision is the ticket that activates; revoked, it is not reissued
ResendManagedInvitation(u) ==
  /\ ticket[<<u, "INVITE">>].activates /\ ticket[<<u, "INVITE">>].status # "revoked"
  /\ \A other \in Users : user[other].status = "none"
  /\ Issued(u, "INVITE", "ADMIN", TRUE)
  /\ UNCHANGED <<tenantVars, request>>

\* accept_ticket for the first administrator of a provisioned tenant
Activate(u) ==
  /\ Presentable(<<u, "INVITE">>) /\ ticket[<<u, "INVITE">>].activates
  /\ user[u].status = "none"
  /\ organization' = "active" /\ Join(u, "ADMIN")
  /\ subscription' = IF subscription.state = "none"
                     THEN NewSubscription("MANAGED", ManagedPlan, 0) ELSE subscription
  /\ ticket' = Consumed(<<u, "INVITE">>)
  /\ UNCHANGED <<now, request>>

\* accept_ticket for anyone else: it takes a seat
AcceptInvitation(u) ==
  /\ Presentable(<<u, "INVITE">>) /\ ~ticket[<<u, "INVITE">>].activates
  /\ HasCapacity
  /\ user[u].status = "none"
  /\ Join(u, ticket[<<u, "INVITE">>].role)
  /\ ticket' = Consumed(<<u, "INVITE">>)
  /\ UNCHANGED <<now, organization, subscription, request>>

-----------------------------------------------------------------------------
(* Passwords *)

RequestReset(u) ==
  /\ user[u].status = "active" /\ organization = "active"
  /\ Issued(u, "RESET", user[u].role, FALSE)
  /\ UNCHANGED <<tenantVars, request>>

AcceptReset(u) ==
  /\ Presentable(<<u, "RESET">>) /\ user[u].status = "active" /\ organization = "active"
  /\ ticket' = Consumed(<<u, "RESET">>)
  /\ UNCHANGED <<tenantVars, request>>

PasswordChange(u) ==
  /\ user[u].status = "active" /\ organization = "active"
  /\ ticket[<<u, "RESET">>].status = "open"
  /\ ticket' = [ticket EXCEPT ![<<u, "RESET">>].stale = TRUE]
  /\ UNCHANGED <<tenantVars, request>>

-----------------------------------------------------------------------------
(* The administrator *)

\* [kind, by, user, role, active]: what the kind of the request leaves open
Requests ==
  LET these(kinds, roles, active) ==
        [kind : kinds, by : Users, user : Users, role : roles, active : active]
  IN these({"revoke"}, {"EMPLOYEE"}, {TRUE}) \cup these({"invite", "create"}, Roles, {TRUE})
       \cup these({"update"}, Roles, BOOLEAN)

\* authentication, permission and the refusal of writes that the subscription does not allow
Authorize(r) ==
  /\ organization = "active" /\ Writable /\ r.by \in Admins
  /\ Cardinality(request) < MaxRequests
  /\ request' = request \cup {r}
  /\ UNCHANGED <<tenantVars, ticket>>

\* a request that finds that it may not
Refuse(r) == request' = request \ {r} /\ UNCHANGED <<tenantVars, ticket>>

Invite(r) ==
  /\ r.kind = "invite" /\ organization = "active" /\ user[r.user].status = "none"
  /\ Issued(r.user, "INVITE", r.role, FALSE)
  /\ request' = request \ {r}
  /\ UNCHANGED tenantVars

Revoke(r) ==
  /\ r.kind = "revoke" /\ ticket[<<r.user, "INVITE">>].status = "open"
  /\ ticket' = [ticket EXCEPT ![<<r.user, "INVITE">>].status = "revoked"]
  /\ request' = request \ {r}
  /\ UNCHANGED tenantVars

\* perform_create
CreateUser(r) ==
  /\ r.kind = "create" /\ user[r.user].status = "none" /\ HasCapacity
  /\ Join(r.user, r.role)
  /\ request' = request \ {r}
  /\ UNCHANGED <<now, organization, subscription, ticket>>

Update(r) ==
  /\ user' = [user EXCEPT ![r.user] =
       [status |-> IF r.active THEN "active" ELSE "inactive", role |-> r.role]]
  /\ request' = request \ {r}
  /\ UNCHANGED <<now, organization, subscription, ticket>>

\* a plausible bug: an administrator may always step down when another one asks for it
UpdateByAnother(r) ==
  /\ r.kind = "update" /\ user[r.user].status # "none" /\ r.user # r.by
  /\ r.active /\ user[r.user].status # "active" => HasCapacity
  /\ Update(r)

\* perform_update: the target and the administrators are read under the lock
UpdateUser(r) ==
  /\ r.kind = "update" /\ user[r.user].status # "none" /\ r.user # r.by
  /\ r.active /\ user[r.user].status # "active" => HasCapacity
  /\ r.user \in Admins /\ ~(r.active /\ r.role = "ADMIN") => Cardinality(Admins) > 1
  /\ Update(r)

\* TenantState: a suspension revokes what is open
Suspend ==
  /\ organization # "none"
  /\ organization' = "inactive"
  /\ ticket' = [t \in DOMAIN ticket |->
       IF t[2] # "VERIFY" /\ ticket[t].status = "open"
       THEN [ticket[t] EXCEPT !.status = "revoked"] ELSE ticket[t]]
  /\ UNCHANGED <<now, user, subscription, request>>

Resume ==
  /\ organization = "inactive" /\ organization' = "active"
  /\ UNCHANGED <<now, user, subscription, ticket, request>>

-----------------------------------------------------------------------------
(* The site administration: tenant staff for their own organization, and superusers *)

\* a user is added, or the form is saved over the row
SiteSave(u, status, role) ==
  /\ organization # "none"
  /\ user' = [user EXCEPT ![u] = [status |-> status, role |-> role]]
  /\ UNCHANGED <<now, organization, subscription, ticket, request>>

SitePassword(u) ==
  /\ user[u].status # "none" /\ ticket[<<u, "RESET">>].status = "open"
  /\ ticket' = [ticket EXCEPT ![<<u, "RESET">>].stale = TRUE]
  /\ UNCHANGED <<tenantVars, request>>

\* a ticket refers to the account it made, or is to reset; the owner of a subscription has one
Referenced(u) ==
  \/ ticket[<<u, "RESET">>].status # "none"
  \/ \E purpose \in Purposes : ticket[<<u, purpose>>].status = "consumed"

SiteDelete(u) ==
  /\ user[u].status # "none" /\ ~Referenced(u)
  /\ user' = [user EXCEPT ![u] = NoAccount]
  /\ UNCHANGED <<now, organization, subscription, ticket, request>>

SiteNext ==
  /\ edits < MaxEdits /\ edits' = edits + 1
  /\ \E u \in Users :
       \/ \E status \in {"active", "inactive"}, role \in Roles : SiteSave(u, status, role)
       \/ SitePassword(u) \/ SiteDelete(u)

\* the audit event of what was done refers to who asked for it
Recorded(r) == user[r.by].status # "none"

ServiceNext ==
  \/ \E u \in Users :
       \/ RequestSignup(u) \/ Provision(u) \/ ResendManagedInvitation(u) \/ Activate(u)
       \/ \E plan \in Plans : VerifySignup(u, plan)
       \/ AcceptInvitation(u) \/ RequestReset(u) \/ AcceptReset(u) \/ PasswordChange(u)
  \/ \E t \in DOMAIN ticket : Deliver(t)
  \/ \E r \in Requests : Authorize(r)
  \/ \E r \in request :
       \/ Recorded(r) /\ (Invite(r) \/ Revoke(r) \/ CreateUser(r) \/ UpdateUser(r))
       \/ Refuse(r)
  \/ Suspend \/ Resume

MembershipNext == (ServiceNext /\ UNCHANGED edits) \/ SiteNext
=============================================================================
