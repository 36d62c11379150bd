------------------------ MODULE MCAssetTransactions ------------------------
(* Model-checking instance of AssetTransactions. *)
EXTENDS AssetTransactions, TLC

\* Rows of one table, users, placements and request handlers are interchangeable.
Symmetry ==
  Permutations(Assets) \cup Permutations(Places) \cup Permutations(Users)
    \cup Permutations(WorkOrders) \cup Permutations(Requests)

NoTransferOrDisposal ==
  /\ \A t \in Transfers : transfer[t].status = "ABSENT"
  /\ \A d \in Disposals : disposal[d].status = "ABSENT"

\* A behaviour follows one asset through transfers, orders and disposals that compete, or its
\* orders and their costs, or two assets through custody and the creation of work orders,
\* where requests meet at the last lock as well.
Bound ==
  /\ (\E w \in WorkOrders : costs[w] > 0) => NoTransferOrDisposal
  /\ Cardinality({a \in Assets : asset[a].status # "ABSENT"}) > 1 =>
       NoTransferOrDisposal
         /\ \A w \in WorkOrders : order[w].status \in {"ABSENT", "OPEN"} /\ costs[w] = 0
=============================================================================
