SPECIFICATION Spec
CONSTANTS
  Assets = {a1, a2}
  Places = {p1, p2}
  Users = {u1, u2}
  Transfers = {t1}
  WorkOrders = {w1, w2}
  Disposals = {d1}
  Requests = {q1, q2}
  MaxCosts = 1
  AssetLimit = 2
  None = None
CONSTRAINT Bound
SYMMETRY Symmetry
CHECK_DEADLOCK FALSE
INVARIANTS RecordedCostIsComplete NoCircularWait
PROPERTIES ImplementsLifecycle
