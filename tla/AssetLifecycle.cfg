SPECIFICATION Spec
CONSTANTS
  Assets = {a1}
  Places = {p1, p2}
  Users = {u1, u2}
  Transfers = {t1, t2}
  WorkOrders = {w1, w2}
  Plans = {m1}
  Disposals = {d1, d2}
  AssetLimit = 1
  MaxCorrections = 1
  None = None
SYMMETRY RowSymmetry
CHECK_DEADLOCK FALSE
INVARIANTS TypeOK MaintenanceMatchesOrders DisposedIsClosed CapitalizedOnce
PROPERTIES  HistoryIsFinal
