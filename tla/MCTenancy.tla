------------------------------ MODULE MCTenancy ------------------------------
(* Instance of Tenancy for TLC. *)
EXTENDS Tenancy

MCSeatLimit == [small |-> 1, large |-> 2]
AnyUser == Permutations(Users)

Plain == [provider |-> "local_sandbox", until |-> 3, plans |-> {"small"}, checkouts |-> {},
          offered |-> {"small"}, canceling |-> FALSE, outcomes |-> {}, failing |-> {},
          members |-> {}, purposes |-> {}, kinds |-> {}, site |-> FALSE]
Recurring == [Plain EXCEPT !.provider = "paystack_test", !.checkouts = {1}]

Disorder == [Plain EXCEPT !.checkouts = Checkouts, !.outcomes = {"SUCCEEDED", "FAILED", "REFUNDED"}]
Upgrade == [Plain EXCEPT !.checkouts = Checkouts, !.offered = Plans, !.canceling = TRUE,
                         !.outcomes = {"SUCCEEDED", "CHARGEBACK"}, !.until = 2]
LookUp == [Plain EXCEPT !.checkouts = {1}, !.outcomes = {"SUCCEEDED"}, !.failing = {"reconcile"}]
Renewal == [Recurring EXCEPT !.until = 4, !.outcomes = {"renewal", "repeat", "refund", "dispute"}]
Retried == [Recurring EXCEPT !.outcomes = {"refund"}, !.failing = {"charge", "status", "reconcile"}]
Return == [Recurring EXCEPT !.until = 4, !.checkouts = Checkouts, !.canceling = TRUE,
                            !.outcomes = {"renewal"}]
Seats == [Plain EXCEPT !.plans = Plans, !.checkouts = {1}, !.outcomes = {"SUCCEEDED"},
                       !.failing = {"sandbox"}, !.members = Users, !.kinds = {"create"}, !.until = 1,
                       !.site = TRUE]
Admin == [Plain EXCEPT !.plans = {"large"}, !.members = Users, !.kinds = {"create", "update"},
                       !.site = TRUE]
Beginning == [Plain EXCEPT !.plans = {}, !.members = Users, !.purposes = {"INVITE", "VERIFY"},
                           !.site = TRUE]
Links == [Plain EXCEPT !.plans = {"large"}, !.members = Users, !.purposes = {"INVITE"},
                       !.kinds = {"invite", "revoke"}, !.until = 2]
Resets == [Links EXCEPT !.purposes = {"RESET"}, !.kinds = {"create"}]
Passwords == [Resets EXCEPT !.kinds = {}, !.site = TRUE]

\* sandbox payments in any order; plans and cancellation; an operator's look-up; the month after
\* and what is taken back; events that fail; a subscription that ends and a new one; seats while
\* plans change; administrators; how a tenant begins; invitations; resets, also from the site's
\* pages
MCWorkloads == { Disorder, Upgrade, LookUp, Renewal, Retried, Return,
                 Seats, Admin, Beginning, Links, Resets, Passwords }
=============================================================================
