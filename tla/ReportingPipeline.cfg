SPECIFICATION Spec
CONSTANTS
  Snapshots = {1, 2, 3}
  Workers = {w1, w2}
  SnapshotRetries = 1
  CaptureLimit = 1
  MaxTime = 2
  MaxMessages = 2
  MaxFaults = 2
  Exports = {e1}
  Tokens = {t1, t2, t3}
  NoToken = none
  ExportRetries = 1
  ExportMessages = 1
  SourceOf <- MCSourceOf
  Datasets = {"asset_register", "disposals"}
  DatasetOf <- MCDatasetOf
  RunKeys = {k1, k2}
  Extractions = {x1, x2, x3}
  NoExtraction = none
  Overlap = 1
  Required = {"asset_register"}
  Attempts = {a1, a2}
  NoAttempt = none
  Workloads <- MCWorkloads
CHECK_DEADLOCK FALSE
INVARIANTS TypeOK StorageAgrees NoSnapshotMissed LatestSuppliesNewest CuratedMovesForward
PROPERTIES CompletedSnapshotStays RequestsEnd StorageSettles
