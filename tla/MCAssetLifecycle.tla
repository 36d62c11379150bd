-------------------------- MODULE MCAssetLifecycle --------------------------
(* Model-checking instances of AssetLifecycle. *)
EXTENDS AssetLifecycle, TLC

\* Rows of one table are interchangeable.
RowSymmetry ==
  Permutations(Places) \cup Permutations(Users) \cup Permutations(Transfers)
    \cup Permutations(WorkOrders) \cup Permutations(Disposals)
=============================================================================
