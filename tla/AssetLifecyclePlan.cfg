SPECIFICATION Spec
CONSTANTS
  Assets = {a1}
  Places = {p1}
  Users = {u1, u2}
  Transfers = {t1}
  WorkOrders = {w1}
  Plans = {m1}
  Disposals = {d1}
  AssetLimit = 1
  MaxCorrections = 1
  None = None
CHECK_DEADLOCK FALSE
INVARIANTS DisposedHasNoActivePlan
