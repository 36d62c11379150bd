SPECIFICATION Spec
CONSTANTS
  c1 = c1
  a1 = a1
  a2 = a2
  i1 = i1
  Campaigns = {c1}
  Assets = {a1, a2}
  Items = {i1}
  Scopes <- MCScopes
  RegisterRows <- MCRegisterRows
  Folded <- MCFolded
  Nothing = nothing
  Uploads = {1, 2}
  SweepLimit = 1
  MaxUploadFaults = 2
  Runs = {1, 2, 3}
  Identities = {1, 2}
  Detections <- MCDetections
  PublicationRetries = 1
  MaxFindings = 3
  NoRow = none
  Workloads <- MCWorkloads
CHECK_DEADLOCK FALSE
INVARIANTS ResultsSummarizeExceptions EvidenceAgrees LedgerAgrees DetectionsRecorded
PROPERTY ClosedCampaignIsFinal
